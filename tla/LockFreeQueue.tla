---------------------------- MODULE LockFreeQueue ----------------------------
(***************************************************************************)
(* The ring buffer of include/clockUtils/container/LockFreeQueue.h, used   *)
(* by any number of threads at once.  Every access to one of the four      *)
(* atomics and to a slot of _data is a step of its own.  The two atomic    *)
(* flags are spin locks: a failed compare-exchange changes nothing, so     *)
(* only the successful one is an action.                                   *)
(***************************************************************************)
EXTENDS Integers, Sequences

CONSTANTS Producers,   \* threads that call push
          Consumers,   \* threads that call pop, front and poll
          Clearers,    \* threads that call clear
          Observers,   \* threads that call empty and size
          Values,      \* the elements of type T
          NoValue,     \* what a slot holds before the first push: T()
          SIZE,        \* the template parameter
          MaxPushes    \* bound on _writeIndex

Threads == Producers \cup Consumers \cup Clearers \cup Observers

ASSUME QueueAssumption ==
  /\ SIZE \in Nat \ {0}
  /\ MaxPushes \in Nat
  /\ NoValue \notin Values

VARIABLES readIndex, writeIndex, enqueuing, dequeuing, data,
          pc,          \* where each thread is
          op,          \* pop, front or poll, for a thread on the consumer side
          value,       \* the argument of push, the out-parameter of front, poll
          localRead,   \* the local copy of _readIndex
          localWrite,  \* the local copy of _writeIndex
          err,         \* the error code a thread is about to return
          pushedBefore \* history: _writeIndex when empty or size was entered

shared == <<readIndex, writeIndex, enqueuing, dequeuing, data>>
locals == <<op, value, localRead, localWrite, err, pushedBefore>>
vars == <<shared, pc, locals>>

Slots == 0 .. SIZE - 1
PushPCs == {"push_loadRead", "push_loadWrite", "push_store", "push_publish", "push_unlock"}
TakePCs == {"take_loadWrite", "take_loadRead", "take_copy", "take_advance", "take_unlock"}
OtherPCs == {"idle", "clear_store", "observe_loadWrite", "observe_done"}
TakeOps == {"pop", "front", "poll"}
Errors == {"SUCCESS", "NO_ELEMENT", "NO_SPACE_AVAILABLE"}

Init ==
  /\ readIndex = 0 /\ writeIndex = 0
  /\ enqueuing = FALSE /\ dequeuing = FALSE
  /\ data = [s \in Slots |-> NoValue]
  /\ pc = [t \in Threads |-> "idle"]
  /\ op = [t \in Threads |-> "pop"]
  /\ value = [t \in Threads |-> NoValue]
  /\ localRead = [t \in Threads |-> 0]
  /\ localWrite = [t \in Threads |-> 0]
  /\ err = [t \in Threads |-> "SUCCESS"]
  /\ pushedBefore = [t \in Threads |-> 0]

At(t, label) == pc[t] = label
Goto(t, label) == pc' = [pc EXCEPT ![t] = label]

(* A call returns and its local variables go out of scope. *)
Return(t) ==
  /\ Goto(t, "idle")
  /\ op' = [op EXCEPT ![t] = "pop"]
  /\ value' = [value EXCEPT ![t] = NoValue]
  /\ localRead' = [localRead EXCEPT ![t] = 0]
  /\ localWrite' = [localWrite EXCEPT ![t] = 0]
  /\ err' = [err EXCEPT ![t] = "SUCCESS"]
  /\ pushedBefore' = [pushedBefore EXCEPT ![t] = 0]

-----------------------------------------------------------------------------
(* push *)

(* A producer wins the compare-exchange on _enqueuing. *)
PushLock(t, v) ==
  /\ At(t, "idle") /\ ~enqueuing
  /\ writeIndex < MaxPushes
  /\ enqueuing' = TRUE
  /\ value' = [value EXCEPT ![t] = v]
  /\ Goto(t, "push_loadRead")
  /\ UNCHANGED <<readIndex, writeIndex, dequeuing, data, op, localRead, localWrite, err, pushedBefore>>

PushLoadRead(t) ==
  /\ At(t, "push_loadRead")
  /\ localRead' = [localRead EXCEPT ![t] = readIndex]
  /\ Goto(t, "push_loadWrite")
  /\ UNCHANGED <<shared, op, value, localWrite, err, pushedBefore>>

(* A mistake: the full queue takes one more element. *)
HasSpaceOffByOne(w, r) == w - r <= SIZE \/ r > w

(* The unsigned difference w - r wraps exactly when r > w, which the second *)
(* disjunct of the code's test accepts anyway.                              *)
HasSpace(w, r) == w - r < SIZE \/ r > w

(* A mistake: push returns NO_SPACE_AVAILABLE without unlocking. *)
PushLoadWriteKeepsLock(t) ==
  /\ At(t, "push_loadWrite")
  /\ localWrite' = [localWrite EXCEPT ![t] = writeIndex]
  /\ Goto(t, IF HasSpace(writeIndex, localRead[t]) THEN "push_store" ELSE "idle")
  /\ UNCHANGED <<shared, op, value, localRead, err, pushedBefore>>

PushLoadWrite(t) ==
  /\ At(t, "push_loadWrite")
  /\ localWrite' = [localWrite EXCEPT ![t] = writeIndex]
  /\ \/ /\ HasSpace(writeIndex, localRead[t])
        /\ Goto(t, "push_store")
        /\ UNCHANGED err
     \/ /\ ~HasSpace(writeIndex, localRead[t])
        /\ Goto(t, "push_unlock")
        /\ err' = [err EXCEPT ![t] = "NO_SPACE_AVAILABLE"]
  /\ UNCHANGED <<shared, op, value, localRead, pushedBefore>>

PushStore(t) ==
  /\ At(t, "push_store")
  /\ data' = [data EXCEPT ![localWrite[t] % SIZE] = value[t]]
  /\ Goto(t, "push_publish")
  /\ UNCHANGED <<readIndex, writeIndex, enqueuing, dequeuing, locals>>

PushPublish(t) ==
  /\ At(t, "push_publish")
  /\ writeIndex' = writeIndex + 1
  /\ Goto(t, "push_unlock")
  /\ UNCHANGED <<readIndex, enqueuing, dequeuing, data, locals>>

PushUnlock(t) ==
  /\ At(t, "push_unlock")
  /\ enqueuing' = FALSE
  /\ Return(t)
  /\ UNCHANGED <<readIndex, writeIndex, dequeuing, data>>

-----------------------------------------------------------------------------
(* pop, front and poll, which differ only in the steps between test and unlock *)

TakeLock(t, o) ==
  /\ At(t, "idle") /\ ~dequeuing
  /\ dequeuing' = TRUE
  /\ op' = [op EXCEPT ![t] = o]
  /\ Goto(t, "take_loadWrite")
  /\ UNCHANGED <<readIndex, writeIndex, enqueuing, data, value, localRead, localWrite, err, pushedBefore>>

TakeLoadWrite(t) ==
  /\ At(t, "take_loadWrite")
  /\ localWrite' = [localWrite EXCEPT ![t] = writeIndex]
  /\ Goto(t, "take_loadRead")
  /\ UNCHANGED <<shared, op, value, localRead, err, pushedBefore>>

(* A mistake: the test lets a take pass on the empty queue. *)
TakeLoadReadOffByOne(t) ==
  /\ At(t, "take_loadRead")
  /\ localRead' = [localRead EXCEPT ![t] = readIndex]
  /\ \/ /\ localWrite[t] >= readIndex
        /\ Goto(t, IF op[t] = "pop" THEN "take_advance" ELSE "take_copy")
        /\ UNCHANGED err
     \/ /\ localWrite[t] < readIndex
        /\ Goto(t, "take_unlock")
        /\ err' = [err EXCEPT ![t] = "NO_ELEMENT"]
  /\ UNCHANGED <<shared, op, value, localWrite, pushedBefore>>

TakeLoadRead(t) ==
  /\ At(t, "take_loadRead")
  /\ localRead' = [localRead EXCEPT ![t] = readIndex]
  /\ \/ /\ localWrite[t] > readIndex
        /\ Goto(t, IF op[t] = "pop" THEN "take_advance" ELSE "take_copy")
        /\ UNCHANGED err
     \/ /\ localWrite[t] <= readIndex
        /\ Goto(t, "take_unlock")
        /\ err' = [err EXCEPT ![t] = "NO_ELEMENT"]
  /\ UNCHANGED <<shared, op, value, localWrite, pushedBefore>>

(* A mistake: the element is copied from the end of the queue. *)
TakeCopyAtWrite(t) ==
  /\ At(t, "take_copy")
  /\ value' = [value EXCEPT ![t] = data[localWrite[t] % SIZE]]
  /\ Goto(t, IF op[t] = "poll" THEN "take_advance" ELSE "take_unlock")
  /\ UNCHANGED <<shared, op, localRead, localWrite, err, pushedBefore>>

TakeCopy(t) ==
  /\ At(t, "take_copy")
  /\ value' = [value EXCEPT ![t] = data[localRead[t] % SIZE]]
  /\ Goto(t, IF op[t] = "poll" THEN "take_advance" ELSE "take_unlock")
  /\ UNCHANGED <<shared, op, localRead, localWrite, err, pushedBefore>>

(* A mistake: the index goes the wrong way. *)
TakeAdvanceBackwards(t) ==
  /\ At(t, "take_advance")
  /\ readIndex' = readIndex - 1
  /\ Goto(t, "take_unlock")
  /\ UNCHANGED <<writeIndex, enqueuing, dequeuing, data, locals>>

TakeAdvance(t) ==
  /\ At(t, "take_advance")
  /\ readIndex' = readIndex + 1
  /\ Goto(t, "take_unlock")
  /\ UNCHANGED <<writeIndex, enqueuing, dequeuing, data, locals>>

TakeUnlock(t) ==
  /\ At(t, "take_unlock")
  /\ dequeuing' = FALSE
  /\ Return(t)
  /\ UNCHANGED <<readIndex, writeIndex, enqueuing, data>>

-----------------------------------------------------------------------------
(* clear takes neither flag: it loads _writeIndex and stores it in _readIndex *)

ClearLoad(t) ==
  /\ At(t, "idle")
  /\ localWrite' = [localWrite EXCEPT ![t] = writeIndex]
  /\ Goto(t, "clear_store")
  /\ UNCHANGED <<shared, op, value, localRead, err, pushedBefore>>

ClearStore(t) ==
  /\ At(t, "clear_store")
  /\ readIndex' = localWrite[t]
  /\ Return(t)
  /\ UNCHANGED <<writeIndex, enqueuing, dequeuing, data>>

(* empty and size: the same two loads, compared or subtracted *)

ObserveLoadRead(t) ==
  /\ At(t, "idle")
  /\ localRead' = [localRead EXCEPT ![t] = readIndex]
  /\ pushedBefore' = [pushedBefore EXCEPT ![t] = writeIndex]
  /\ Goto(t, "observe_loadWrite")
  /\ UNCHANGED <<shared, op, value, localWrite, err>>

ObserveLoadWrite(t) ==
  /\ At(t, "observe_loadWrite")
  /\ localWrite' = [localWrite EXCEPT ![t] = writeIndex]
  /\ Goto(t, "observe_done")
  /\ UNCHANGED <<shared, op, value, localRead, err, pushedBefore>>

ObserveReturn(t) ==
  /\ At(t, "observe_done")
  /\ Return(t)
  /\ UNCHANGED shared

(* A mistake: a full queue looks empty, because slots are compared. *)
emptyResultBySlot(t) == localRead[t] % SIZE = localWrite[t] % SIZE

emptyResult(t) == localRead[t] = localWrite[t]
sizeResult(t) == localWrite[t] - localRead[t]

-----------------------------------------------------------------------------
(* A thread inside an operation goes on. *)
Step(t) ==
  \/ PushLoadRead(t) \/ PushLoadWrite(t) \/ PushStore(t) \/ PushPublish(t) \/ PushUnlock(t)
  \/ TakeLoadWrite(t) \/ TakeLoadRead(t) \/ TakeCopy(t) \/ TakeAdvance(t) \/ TakeUnlock(t)
  \/ ClearStore(t)
  \/ ObserveLoadWrite(t) \/ ObserveReturn(t)

(* A thread enters an operation. *)
Call ==
  \/ \E t \in Producers, v \in Values : PushLock(t, v)
  \/ \E t \in Consumers, o \in TakeOps : TakeLock(t, o)
  \/ \E t \in Clearers : ClearLoad(t)
  \/ \E t \in Observers : ObserveLoadRead(t)

Next == Call \/ \E t \in Threads : Step(t)

Spec == Init /\ [][Next]_vars

(* Threads may stop calling, but the scheduler runs a call that was begun. *)
FairSpec == Spec /\ \A t \in Threads : WF_vars(Step(t))

-----------------------------------------------------------------------------
(* Types of the slots, the indices, the flags and the locals of push, take,   *)
(* clear and the observers (LockFreeQueue.h:57-166).                          *)
TypeOK ==
  /\ readIndex \in Nat /\ writeIndex \in Nat
  /\ enqueuing \in BOOLEAN /\ dequeuing \in BOOLEAN
  /\ data \in [Slots -> Values \cup {NoValue}]
  /\ pc \in [Threads -> PushPCs \cup TakePCs \cup OtherPCs]
  /\ op \in [Threads -> TakeOps]
  /\ value \in [Threads -> Values \cup {NoValue}]
  /\ localRead \in [Threads -> Nat]
  /\ localWrite \in [Threads -> Nat]
  /\ err \in [Threads -> Errors]
  /\ pushedBefore \in [Threads -> Nat]

(* clear is called by the one thread that consumes, and by no other. *)
SerialClear == \A c \in Clearers : Clearers \cup Consumers \subseteq {c}

(* The queue never holds fewer than none nor more than SIZE elements: no     *)
(* consumer runs past the producers and no producer laps the consumers,      *)
(* although each side decides on a copy of the other side's index that may   *)
(* be stale (push lines 64-69, pop 87-92, poll 130-135).                     *)
Occupancy == readIndex <= writeIndex /\ writeIndex <= readIndex + SIZE

(* The plain, non-atomic slot that push is about to write (line 68) is never *)
(* the slot that front or poll is about to copy (lines 112 and 134): the     *)
(* index checks alone keep _data free of data races.                         *)
NoSlotRace ==
  \A p, c \in Threads :
    At(p, "push_store") /\ At(c, "take_copy")
      => localWrite[p] % SIZE # localRead[c] % SIZE

(* When empty() answers true, every element pushed before it was called is   *)
(* gone when it returns: it never overlooks an element that was in the queue *)
(* for the whole call, although it loads the two indices at different times  *)
(* (lines 146-150).                                                          *)
EmptyIsTruthful ==
  \A t \in Threads :
    At(t, "observe_done") /\ emptyResult(t) => readIndex >= pushedBefore[t]

(* size() subtracts unsigned numbers (line 158): it loads the index that is  *)
(* behind first and the one that is ahead second, so that the difference     *)
(* never wraps, whatever happens between the two loads.                      *)
SizeNeverWraps ==
  \A t \in Threads : At(t, "observe_done") => sizeResult(t) >= 0

(* Each spin lock is released again, whichever way the operation that holds  *)
(* it ends (lines 73, 94, 116, 139): no later call spins for ever.           *)
LocksAreReleased ==
  /\ enqueuing ~> ~enqueuing
  /\ dequeuing ~> ~dequeuing
=============================================================================
