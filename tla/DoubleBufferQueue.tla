-------------------------- MODULE DoubleBufferQueue --------------------------
(***************************************************************************)
(* The queue of include/clockUtils/container/DoubleBufferQueue.h: two      *)
(* std::queue buffers, one that producers fill under _writeLock and one    *)
(* that consumers empty, exchanged by swap() when the read side runs dry.  *)
(* A section under a mutex that touches one buffer is one step.  swap()    *)
(* writes its two pointers in two steps, because empty() and size() read   *)
(* them without any lock.                                                  *)
(***************************************************************************)
EXTENDS Naturals, Sequences

CONSTANTS Producers,     \* threads that call push
          Consumers,     \* threads that call pop, front and poll
          Clearers,      \* threads that call clear
          Observers,     \* threads that call empty and size
          Values, NoValue,
          MultiConsumer, \* the template parameter consumer
          MaxPushes      \* bound: no push is called once so many were made

Threads == Producers \cup Consumers \cup Clearers \cup Observers

(* Without the consumer locks only one thread may pull, clear() included. *)
ASSUME DoubleBufferAssumption ==
  /\ MultiConsumer \in BOOLEAN
  /\ ~MultiConsumer => \A c, d \in Consumers \cup Clearers : c = d
  /\ MaxPushes \in Nat
  /\ NoValue \notin Values

VARIABLES buffer,        \* _queueA and _queueB
          queueRead, queueWrite,  \* the pointers: the name of a buffer
          readLock, writeLock,    \* the mutexes: are they held
          pc, op, value, err,     \* per thread, as in LockFreeQueue
          seenRead, seenWrite,    \* the two sizes empty() or size() has read
          pushes, removed,        \* history: elements pushed and removed
          drained,                \* history: what a clear in progress has removed
          pushesAtCall            \* history: pushes when clear, empty, size began

shared == <<buffer, queueRead, queueWrite, readLock, writeLock>>
counts == <<pushes, removed, drained>>
locals == <<op, value, err, seenRead, seenWrite, pushesAtCall>>
vars == <<shared, pc, locals, counts>>

Buffers == {"A", "B"}
Other(b) == IF b = "A" THEN "B" ELSE "A"
TakeOps == {"pop", "front", "poll"}

Init ==
  /\ buffer = [b \in Buffers |-> << >>]
  /\ queueRead = "A" /\ queueWrite = "B"
  /\ readLock = FALSE /\ writeLock = FALSE
  /\ pc = [t \in Threads |-> "idle"]
  /\ op = [t \in Threads |-> "pop"]
  /\ value = [t \in Threads |-> NoValue]
  /\ err = [t \in Threads |-> "SUCCESS"]
  /\ seenRead = [t \in Threads |-> 0]
  /\ seenWrite = [t \in Threads |-> 0]
  /\ pushesAtCall = [t \in Threads |-> 0]
  /\ pushes = 0 /\ removed = 0
  /\ drained = << >>

At(t, label) == pc[t] = label
Goto(t, label) == pc' = [pc EXCEPT ![t] = label]

(* A call returns and its local variables go out of scope. *)
Return(t) ==
  /\ Goto(t, "idle")
  /\ op' = [op EXCEPT ![t] = "pop"]
  /\ value' = [value EXCEPT ![t] = NoValue]
  /\ err' = [err EXCEPT ![t] = "SUCCESS"]
  /\ seenRead' = [seenRead EXCEPT ![t] = 0]
  /\ seenWrite' = [seenWrite EXCEPT ![t] = 0]
  /\ pushesAtCall' = [pushesAtCall EXCEPT ![t] = 0]

-----------------------------------------------------------------------------
(* push *)

PushCall(t, v) ==
  /\ At(t, "idle")
  /\ pushes < MaxPushes
  /\ value' = [value EXCEPT ![t] = v]
  /\ Goto(t, "push_locked")
  /\ UNCHANGED <<shared, op, err, seenRead, seenWrite, pushesAtCall, counts>>

PushLocked(t) ==
  /\ At(t, "push_locked") /\ ~writeLock
  /\ buffer' = [buffer EXCEPT ![queueWrite] = Append(@, value[t])]
  /\ pushes' = pushes + 1
  /\ Goto(t, "push_return")
  /\ UNCHANGED <<queueRead, queueWrite, readLock, writeLock, locals, removed, drained>>

PushReturn(t) ==
  /\ At(t, "push_return")
  /\ Return(t)
  /\ UNCHANGED <<shared, counts>>

-----------------------------------------------------------------------------
(* pop, front and poll; with consumer = true they hold _readLock throughout *)

(* A mistake: the sides are swapped although the read side has elements. *)
MustSwapAlways == TRUE

MustSwap == buffer[queueRead] = << >>

TakeBegin(t, o) ==
  /\ At(t, "idle")
  /\ MultiConsumer => ~readLock
  /\ readLock' = (readLock \/ MultiConsumer)
  /\ op' = [op EXCEPT ![t] = o]
  /\ Goto(t, IF MustSwap THEN "take_swap" ELSE "take_front")
  /\ UNCHANGED <<buffer, queueRead, queueWrite, writeLock, value, err, seenRead, seenWrite,
                 pushesAtCall, counts>>

(* A mistake: the write pointer stays where it is. *)
NewWriteSideOld == queueWrite

NewWriteSide == queueRead

(* swap(), under _writeLock: first the one pointer, then the other *)
SwapWrite(t) ==
  /\ At(t, "take_swap") /\ ~writeLock
  /\ writeLock' = TRUE
  /\ queueWrite' = NewWriteSide
  /\ Goto(t, "swap_read")
  /\ UNCHANGED <<buffer, queueRead, readLock, locals, counts>>

SwapRead(t) ==
  /\ At(t, "swap_read")
  /\ writeLock' = FALSE
  /\ queueRead' = Other(queueRead)
  /\ Goto(t, "take_front")
  /\ UNCHANGED <<buffer, queueWrite, readLock, locals, counts>>

TakeFront(t) ==
  /\ At(t, "take_front")
  /\ \/ /\ buffer[queueRead] = << >>
        /\ err' = [err EXCEPT ![t] = "NO_ELEMENT"]
        /\ UNCHANGED <<buffer, value, removed>>
     \/ /\ buffer[queueRead] # << >>
        /\ value' = IF op[t] = "pop" THEN value
                    ELSE [value EXCEPT ![t] = Head(buffer[queueRead])]
        /\ IF op[t] = "front" THEN UNCHANGED <<buffer, removed>>
           ELSE /\ buffer' = [buffer EXCEPT ![queueRead] = Tail(@)]
                /\ removed' = removed + 1
        /\ UNCHANGED err
  /\ Goto(t, "take_return")
  /\ UNCHANGED <<queueRead, queueWrite, readLock, writeLock, op, seenRead, seenWrite,
                 pushesAtCall, pushes, drained>>

(* A mistake: the early return of NO_ELEMENT does not unlock. *)
UnlocksOnSuccess(t) == MultiConsumer /\ err[t] = "SUCCESS"

Unlocks(t) == MultiConsumer

TakeReturn(t) ==
  /\ At(t, "take_return")
  /\ readLock' = (readLock /\ ~Unlocks(t))
  /\ Return(t)
  /\ UNCHANGED <<buffer, queueRead, queueWrite, writeLock, counts>>

-----------------------------------------------------------------------------
(* clear: the read side under _readLock, then the write side under _writeLock *)

(* A mistake: a copy of the buffer is emptied. *)
DrainCopy(b) == UNCHANGED <<buffer, removed>>

Drain(b) ==
  /\ buffer' = [buffer EXCEPT ![b] = << >>]
  /\ removed' = removed + Len(buffer[b])

ClearRead(t) ==
  /\ At(t, "idle") /\ ~readLock
  /\ Drain(queueRead)
  /\ drained' = drained \o buffer[queueRead]
  /\ pushesAtCall' = [pushesAtCall EXCEPT ![t] = pushes]
  /\ Goto(t, "clear_write")
  /\ UNCHANGED <<queueRead, queueWrite, readLock, writeLock, op, value, err, seenRead,
                 seenWrite, pushes>>

ClearWrite(t) ==
  /\ At(t, "clear_write") /\ ~writeLock
  /\ Drain(queueWrite)
  /\ drained' = << >>
  /\ Goto(t, "clear_return")
  /\ UNCHANGED <<queueRead, queueWrite, readLock, writeLock, locals, pushes>>

ClearReturn(t) ==
  /\ At(t, "clear_return")
  /\ Return(t)
  /\ UNCHANGED <<shared, counts>>

-----------------------------------------------------------------------------
(* empty and size: the read side, then the write side, under no lock.  Each *)
(* read is taken to be atomic, the mildest outcome of the data race.        *)

ObserveRead(t) ==
  /\ At(t, "idle")
  /\ seenRead' = [seenRead EXCEPT ![t] = Len(buffer[queueRead])]
  /\ pushesAtCall' = [pushesAtCall EXCEPT ![t] = pushes]
  /\ Goto(t, "observe_write")
  /\ UNCHANGED <<shared, op, value, err, seenWrite, counts>>

(* A mistake: the read side is looked at twice. *)
ObserveWriteWrongSide(t) ==
  /\ At(t, "observe_write")
  /\ seenWrite' = [seenWrite EXCEPT ![t] = Len(buffer[queueRead])]
  /\ Goto(t, "observe_done")
  /\ UNCHANGED <<shared, op, value, err, seenRead, pushesAtCall, counts>>

ObserveWrite(t) ==
  /\ At(t, "observe_write")
  /\ seenWrite' = [seenWrite EXCEPT ![t] = Len(buffer[queueWrite])]
  /\ Goto(t, "observe_done")
  /\ UNCHANGED <<shared, op, value, err, seenRead, pushesAtCall, counts>>

ObserveReturn(t) ==
  /\ At(t, "observe_done")
  /\ Return(t)
  /\ UNCHANGED <<shared, counts>>

emptyResult(t) == seenRead[t] = 0 /\ seenWrite[t] = 0

-----------------------------------------------------------------------------
Step(t) ==
  \/ PushLocked(t) \/ PushReturn(t)
  \/ SwapWrite(t) \/ SwapRead(t) \/ TakeFront(t) \/ TakeReturn(t)
  \/ ClearWrite(t) \/ ClearReturn(t)
  \/ ObserveWrite(t) \/ ObserveReturn(t)

Call ==
  \/ \E t \in Producers, v \in Values : PushCall(t, v)
  \/ \E t \in Consumers, o \in TakeOps : TakeBegin(t, o)
  \/ \E t \in Clearers : ClearRead(t)
  \/ \E t \in Observers : ObserveRead(t)

Next == Call \/ \E t \in Threads : Step(t)

Spec == Init /\ [][Next]_vars

(* Threads may stop calling, but the scheduler runs a call that was begun. *)
FairSpec == Spec /\ \A t \in Threads : WF_vars(Step(t))

-----------------------------------------------------------------------------
(* Producers and the consumer never meet in one std::queue: a push that can *)
(* take _writeLock (line 67) goes to a buffer that no thread is reading or  *)
(* popping (lines 140-148, 198-207).                                        *)
SidesDisjoint ==
  \A p, c \in Threads :
    At(p, "push_locked") /\ ~writeLock /\ At(c, "take_front") => queueWrite # queueRead

(* When empty() answers true (lines 94-96), every element pushed before it  *)
(* was called is gone when it returns.                                      *)
EmptyIsTruthful ==
  \A t \in Threads :
    At(t, "observe_done") /\ emptyResult(t) => removed >= pushesAtCall[t]

(* "removes all elements in the queue" (line 106): when clear() is done,    *)
(* only elements pushed after it was called can be left.                    *)
ClearRemovesAll ==
  \A t \in Threads : At(t, "clear_return") => removed >= pushesAtCall[t]

(* Both mutexes are released again, whichever way the operation that holds  *)
(* them ends: the lock order _readLock, _writeLock (lines 139 and 230) has  *)
(* no cycle with clear() or push().                                         *)
LocksAreReleased ==
  /\ readLock ~> ~readLock
  /\ writeLock ~> ~writeLock
=============================================================================
