------------------------- MODULE LockFreeQueueProofs -------------------------
(***************************************************************************)
(* Proofs that the safety properties of LockFreeQueue hold for every       *)
(* number of threads, every SIZE and every number of pushes, and that the  *)
(* queue implements BoundedFifo: its operations are linearizable.          *)
(***************************************************************************)
EXTENDS LockFreeQueueRefinement, SequenceTheorems, TLAPS

(* Only the threads that call an operation are ever inside it. *)
Roles ==
  \A t \in Threads :
    /\ pc[t] \in TakePCs => t \in Consumers
    /\ At(t, "clear_store") => t \in Clearers

(* Each flag is set while a thread is inside its critical section, and at  *)
(* most one thread is.                                                     *)
Exclusion ==
  /\ \A t \in Threads : pc[t] \in PushPCs => enqueuing
  /\ \A t \in Threads : pc[t] \in TakePCs => dequeuing
  /\ \A s, t \in Threads : pc[s] \in PushPCs /\ pc[t] \in PushPCs => s = t
  /\ \A s, t \in Threads : pc[s] \in TakePCs /\ pc[t] \in TakePCs => s = t

(* A producer's copy of _readIndex may lag behind; what it decided on it    *)
(* stays true because _readIndex only grows.                               *)
PushCopies(t) ==
  /\ At(t, "push_loadWrite") => localRead[t] <= readIndex
  /\ pc[t] \in {"push_store", "push_publish"} =>
       /\ localWrite[t] = writeIndex
       /\ localRead[t] <= readIndex
       /\ writeIndex < localRead[t] + SIZE

(* A consumer's copy of _writeIndex may lag behind; its copy of _readIndex  *)
(* is exact because it holds the flag.                                     *)
TakeCopies(t) ==
  /\ At(t, "take_loadRead") => localWrite[t] <= writeIndex
  /\ pc[t] \in {"take_copy", "take_advance"} =>
       localRead[t] = readIndex /\ readIndex < writeIndex

ClearCopies(t) ==
  At(t, "clear_store") => readIndex <= localWrite[t] /\ localWrite[t] <= writeIndex

ObserveCopies(t) ==
  /\ pc[t] \in {"observe_loadWrite", "observe_done"} =>
       localRead[t] <= readIndex /\ pushedBefore[t] <= writeIndex
  /\ At(t, "observe_done") => pushedBefore[t] <= localWrite[t] /\ localRead[t] <= localWrite[t]

Copies ==
  \A t \in Threads : PushCopies(t) /\ TakeCopies(t) /\ ClearCopies(t) /\ ObserveCopies(t)

IndInv == TypeOK /\ Roles /\ Exclusion /\ Occupancy /\ Copies
-----------------------------------------------------------------------------
USE QueueAssumption

(* The initial state satisfies the inductive invariant. *)
LEMMA InitInv == Init => IndInv
<1> SUFFICES ASSUME Init PROVE IndInv
  OBVIOUS
<1> USE DEF Init
<1>1. TypeOK
  BY Zenon DEF TypeOK, Slots, PushPCs, TakePCs, OtherPCs, TakeOps, Errors
<1>2. Roles /\ Exclusion
  BY DEF Roles, Exclusion, At, PushPCs, TakePCs
<1>3. Occupancy
  BY DEF Occupancy
<1>4. Copies
  BY DEF Copies, PushCopies, TakeCopies, ClearCopies, ObserveCopies, At
<1> QED BY <1>1, <1>2, <1>3, <1>4 DEF IndInv

(* Every step keeps every variable in its type. *)
LEMMA TypeStep == TypeOK /\ [Next]_vars => TypeOK'
<1> SUFFICES ASSUME TypeOK, [Next]_vars PROVE TypeOK'
  OBVIOUS
<1> USE DEF TypeOK, PushPCs, TakePCs, OtherPCs, TakeOps, Errors, At, Goto, Return, shared, locals
<1>1. ASSUME NEW t \in Producers, NEW v \in Values, PushLock(t, v) PROVE TypeOK'
  BY <1>1 DEF PushLock, Threads
<1>2. ASSUME NEW t \in Consumers, NEW o \in TakeOps, TakeLock(t, o) PROVE TypeOK'
  BY <1>2 DEF TakeLock, Threads
<1>3. ASSUME NEW t \in Clearers, ClearLoad(t) PROVE TypeOK'
  BY <1>3 DEF ClearLoad, Threads
<1>4. ASSUME NEW t \in Observers, ObserveLoadRead(t) PROVE TypeOK'
  BY <1>4 DEF ObserveLoadRead, Threads
<1>5. ASSUME NEW t \in Threads, Step(t) PROVE TypeOK'
  <2>1. CASE PushLoadRead(t) BY <2>1 DEF PushLoadRead
  <2>2. CASE PushLoadWrite(t) BY <2>2 DEF PushLoadWrite
  <2>3. CASE PushStore(t)
    <3>1. localWrite[t] % SIZE \in Slots BY DEF Slots
    <3> QED BY <2>3, <3>1 DEF PushStore
  <2>4. CASE PushPublish(t) BY <2>4 DEF PushPublish
  <2>5. CASE PushUnlock(t) BY Zenon, <2>5 DEF PushUnlock
  <2>6. CASE TakeLoadWrite(t) BY <2>6 DEF TakeLoadWrite
  <2>7. CASE TakeLoadRead(t) BY <2>7 DEF TakeLoadRead
  <2>8. CASE TakeCopy(t)
    <3>1. data[localRead[t] % SIZE] \in Values \cup {NoValue} BY DEF Slots
    <3> QED BY <2>8, <3>1 DEF TakeCopy
  <2>9. CASE TakeAdvance(t) BY <2>9 DEF TakeAdvance
  <2>10. CASE TakeUnlock(t) BY Zenon, <2>10 DEF TakeUnlock
  <2>11. CASE ClearStore(t) BY <2>11 DEF ClearStore
  <2>12. CASE ObserveLoadWrite(t) BY <2>12 DEF ObserveLoadWrite
  <2>13. CASE ObserveReturn(t) BY <2>13 DEF ObserveReturn
  <2> QED BY <1>5, <2>1, <2>2, <2>3, <2>4, <2>5, <2>6, <2>7, <2>8, <2>9, <2>10, <2>11,
            <2>12, <2>13 DEF Step
<1>6. CASE UNCHANGED vars BY <1>6 DEF vars
<1> QED BY <1>1, <1>2, <1>3, <1>4, <1>5, <1>6 DEF Next, Call

(* The type invariant holds for every value of the constants, and whoever  *)
(* calls clear (members at lines 169-174).                                 *)
THEOREM TypeCorrect == Spec => []TypeOK
<1>1. Init => TypeOK
  BY InitInv DEF IndInv
<1> QED BY <1>1, TypeStep, PTL DEF Spec
-----------------------------------------------------------------------------
(* Two indices less than SIZE apart fall on different slots. *)
LEMMA DistinctSlots ==
  ASSUME NEW a \in Nat, NEW b \in Nat, a < b, b < a + SIZE
  PROVE  a % SIZE # b % SIZE
<1> DEFINE qa == a \div SIZE
           qb == b \div SIZE
<1>1. /\ qa \in Int /\ a = SIZE * qa + (a % SIZE)
      /\ qb \in Int /\ b = SIZE * qb + (b % SIZE)
      /\ a % SIZE \in Int /\ b % SIZE \in Int
  OBVIOUS
<1> SUFFICES ASSUME a % SIZE = b % SIZE PROVE FALSE
  OBVIOUS
<1> DEFINE k == qb - qa
<1>2. k \in Int /\ b - a = SIZE * k
  BY <1>1
<1>3. CASE k <= 0
  <2>1. SIZE * k <= 0
    BY <1>2, <1>3
  <2> QED BY <1>2, <2>1
<1>4. CASE k >= 1
  <2>1. SIZE * k >= SIZE
    BY <1>2, <1>4
  <2> QED BY <1>2, <2>1
<1> QED BY <1>2, <1>3, <1>4

(* While a thread is between the load and the store of clear, no thread is *)
(* inside pop, front or poll, and no other is inside clear.                *)
LEMMA ClearAlone ==
  ASSUME SerialClear, Roles, NEW t \in Threads, At(t, "clear_store")
  PROVE  \A s \in Threads : pc[s] \notin TakePCs /\ (At(s, "clear_store") => s = t)
  BY DEF SerialClear, Roles, At, TakePCs

(* Every step preserves the inductive invariant when clear is serial. *)
LEMMA InvStep ==
  ASSUME SerialClear, IndInv, [Next]_vars
  PROVE  IndInv'
<1>1. TypeOK'
  BY TypeStep DEF IndInv
<1> DEFINE Rest == Roles /\ Exclusion /\ Occupancy /\ Copies
<1> USE DEF IndInv, TypeOK, Roles, Exclusion, Occupancy, Copies, PushCopies, TakeCopies,
            ClearCopies, ObserveCopies, At, Goto, shared, locals, PushPCs, TakePCs
<1>2. ASSUME NEW t \in Producers, NEW v \in Values, PushLock(t, v) PROVE Rest'
  BY <1>2 DEF PushLock, Threads
<1>3. ASSUME NEW t \in Consumers, NEW o \in TakeOps, TakeLock(t, o) PROVE Rest'
  BY <1>3 DEF TakeLock, Threads
<1>4. ASSUME NEW t \in Clearers, ClearLoad(t) PROVE Rest'
  BY <1>4 DEF ClearLoad, Threads
<1>5. ASSUME NEW t \in Observers, ObserveLoadRead(t) PROVE Rest'
  BY <1>5 DEF ObserveLoadRead, Threads
<1>6. ASSUME NEW t \in Threads, Step(t) PROVE Rest'
  <2>1. CASE PushLoadRead(t) BY <2>1 DEF PushLoadRead
  <2>2. CASE PushLoadWrite(t) BY <2>2 DEF PushLoadWrite, HasSpace
  <2>3. CASE PushStore(t) BY <2>3 DEF PushStore
  <2>4. CASE PushPublish(t) BY SMTT(30), <2>4 DEF PushPublish
  <2>5. CASE PushUnlock(t) BY <2>5 DEF PushUnlock, Return
  <2>6. CASE TakeLoadWrite(t) BY <2>6 DEF TakeLoadWrite
  <2>7. CASE TakeLoadRead(t) BY <2>7 DEF TakeLoadRead
  <2>8. CASE TakeCopy(t) BY <2>8 DEF TakeCopy
  <2>9. CASE TakeAdvance(t) BY <2>9, ClearAlone DEF TakeAdvance
  <2>10. CASE TakeUnlock(t) BY <2>10 DEF TakeUnlock, Return
  <2>11. CASE ClearStore(t) BY <2>11, ClearAlone DEF ClearStore, Return
  <2>12. CASE ObserveLoadWrite(t) BY <2>12 DEF ObserveLoadWrite
  <2>13. CASE ObserveReturn(t) BY <2>13 DEF ObserveReturn, Return
  <2> QED BY ZenonT(30), <1>6, <2>1, <2>2, <2>3, <2>4, <2>5, <2>6, <2>7, <2>8, <2>9, <2>10, <2>11, <2>12, <2>13 DEF Step
<1>7. CASE UNCHANGED vars BY SMTT(30), <1>7 DEF vars
<1>8. Rest'
  BY Zenon, <1>2, <1>3, <1>4, <1>5, <1>6, <1>7 DEF Next, Call
<1> QED BY ZenonT(30), <1>1, <1>8 DEF IndInv

(* The inductive invariant implies the safety properties. *)
LEMMA InvImplies == IndInv => Occupancy /\ NoSlotRace /\ EmptyIsTruthful /\ SizeNeverWraps
<1> SUFFICES ASSUME IndInv PROVE NoSlotRace /\ EmptyIsTruthful /\ SizeNeverWraps
  BY DEF IndInv
<1>1. ASSUME NEW p \in Threads, NEW c \in Threads, At(p, "push_store"), At(c, "take_copy")
      PROVE  localWrite[p] % SIZE # localRead[c] % SIZE
  <2>1. /\ localRead[c] \in Nat /\ localWrite[p] \in Nat
        /\ localRead[c] < localWrite[p] /\ localWrite[p] < localRead[c] + SIZE
    BY <1>1 DEF IndInv, TypeOK, Copies, PushCopies, TakeCopies, At
  <2> QED BY <2>1, DistinctSlots
<1>2. NoSlotRace
  BY <1>1 DEF NoSlotRace
<1>3. EmptyIsTruthful
  BY DEF IndInv, TypeOK, Copies, ObserveCopies, EmptyIsTruthful, emptyResult, At
<1>4. SizeNeverWraps
  BY DEF IndInv, TypeOK, Copies, ObserveCopies, SizeNeverWraps, sizeResult, At
<1> QED BY <1>2, <1>3, <1>4

(* For every SIZE and every set of threads, as long as only the one         *)
(* consumer clears: the indices never cross nor drift more than SIZE apart *)
(* (push lines 64-69, pop 87-92, poll 130-135).                            *)
THEOREM OccupancyHolds == ASSUME SerialClear PROVE Spec => []Occupancy
<1>1. IndInv /\ [Next]_vars => IndInv'
  BY InvStep
<1>2. IndInv => Occupancy
  BY InvImplies
<1> QED BY <1>1, <1>2, InitInv, PTL DEF Spec

(* Under the same assumption no slot is written (line 68) while it is read  *)
(* (lines 112, 134).                                                       *)
THEOREM NoSlotRaceHolds == ASSUME SerialClear PROVE Spec => []NoSlotRace
<1>1. IndInv /\ [Next]_vars => IndInv'
  BY InvStep
<1>2. IndInv => NoSlotRace
  BY InvImplies
<1> QED BY <1>1, <1>2, InitInv, PTL DEF Spec

(* Under the same assumption empty() (lines 146-150) overlooks no element   *)
(* that is in the queue for the whole call.                                *)
THEOREM EmptyIsTruthfulHolds == ASSUME SerialClear PROVE Spec => []EmptyIsTruthful
<1>1. IndInv /\ [Next]_vars => IndInv'
  BY InvStep
<1>2. IndInv => EmptyIsTruthful
  BY InvImplies
<1> QED BY <1>1, <1>2, InitInv, PTL DEF Spec

(* Under the same assumption the unsigned difference that size() returns    *)
(* (lines 155-159) never wraps.                                            *)
THEOREM SizeNeverWrapsHolds == ASSUME SerialClear PROVE Spec => []SizeNeverWraps
<1>1. IndInv /\ [Next]_vars => IndInv'
  BY InvStep
<1>2. IndInv => SizeNeverWraps
  BY InvImplies
<1> QED BY <1>1, <1>2, InitInv, PTL DEF Spec
-----------------------------------------------------------------------------
(* What a thread holds between two steps of a call: push its argument, in   *)
(* the slot at _writeIndex once it is stored; poll the element at           *)
(* _readIndex once it is copied; and the error code that is set only at the *)
(* test that fails.                                                         *)
Arguments ==
  \A t \in Threads :
    /\ pc[t] \in {"idle", "take_loadWrite", "take_loadRead", "take_copy"} => value[t] = NoValue
    /\ pc[t] \in PushPCs => value[t] \in Values
    /\ pc[t] \notin {"push_unlock", "take_unlock"} => err[t] = "SUCCESS"
    /\ At(t, "take_copy") => op[t] # "pop"
    /\ At(t, "take_advance") =>
         /\ op[t] # "front"
         /\ op[t] = "pop" => value[t] = NoValue
         /\ op[t] = "poll" => value[t] = data[readIndex % SIZE]
    /\ At(t, "push_publish") => data[writeIndex % SIZE] = value[t]

(* When nobody clears, only the consumer that holds _dequeuing moves        *)
(* _readIndex and only the producer that holds _enqueuing moves             *)
(* _writeIndex.                                                             *)
LEMMA ArgumentsStep ==
  ASSUME Clearers = {}, IndInv, Arguments, [Next]_vars
  PROVE  Arguments'
<1> USE DEF IndInv, TypeOK, Roles, Exclusion, Occupancy, Copies, PushCopies, TakeCopies,
            Arguments, At, Goto, shared, locals, PushPCs, TakePCs
<1>1. ASSUME NEW t \in Producers, NEW v \in Values, PushLock(t, v) PROVE Arguments'
  BY <1>1 DEF PushLock, Threads
<1>2. ASSUME NEW t \in Consumers, NEW o \in TakeOps, TakeLock(t, o) PROVE Arguments'
  BY <1>2 DEF TakeLock, Threads
<1>3. ASSUME NEW t \in Observers, ObserveLoadRead(t) PROVE Arguments'
  BY <1>3 DEF ObserveLoadRead, Threads
<1>4. ASSUME NEW t \in Threads, Step(t) PROVE Arguments'
  <2>1. CASE PushLoadRead(t) BY <2>1 DEF PushLoadRead
  <2>2. CASE PushLoadWrite(t) BY <2>2 DEF PushLoadWrite
  <2>3. CASE PushStore(t)
    <3>1. ASSUME NEW s \in Threads, At(s, "take_advance")
          PROVE  readIndex % SIZE # writeIndex % SIZE
      <4>1. readIndex < writeIndex /\ writeIndex < readIndex + SIZE
        BY <2>3, <3>1 DEF PushStore
      <4> QED BY Zenon, <4>1, DistinctSlots
    <3>2. localWrite[t] = writeIndex /\ writeIndex % SIZE \in Slots
      BY <2>3 DEF PushStore, Slots
    <3> QED BY <2>3, <3>1, <3>2 DEF PushStore
  <2>4. CASE PushPublish(t) BY <2>4 DEF PushPublish
  <2>5. CASE PushUnlock(t) BY <2>5 DEF PushUnlock, Return
  <2>6. CASE TakeLoadWrite(t) BY <2>6 DEF TakeLoadWrite
  <2>7. CASE TakeLoadRead(t) BY <2>7 DEF TakeLoadRead, TakeOps
  <2>8. CASE TakeCopy(t) BY <2>8 DEF TakeCopy, TakeOps
  <2>9. CASE TakeAdvance(t) BY <2>9 DEF TakeAdvance
  <2>10. CASE TakeUnlock(t) BY <2>10 DEF TakeUnlock, Return
  <2>11. CASE ObserveLoadWrite(t) BY <2>11 DEF ObserveLoadWrite
  <2>12. CASE ObserveReturn(t) BY <2>12 DEF ObserveReturn, Return
  <2>13. ~ClearStore(t) BY DEF ClearStore
  <2> QED BY Zenon, <1>4, <2>1, <2>2, <2>3, <2>4, <2>5, <2>6, <2>7, <2>8, <2>9, <2>10, <2>11,
            <2>12, <2>13 DEF Step
<1>5. CASE UNCHANGED vars BY <1>5 DEF vars
<1> QED BY <1>1, <1>2, <1>3, <1>4, <1>5 DEF Next, Call

(* What Append and Tail do to a sequence, position by position. *)
LEMMA AppendIs ==
  ASSUME NEW S, NEW s \in Seq(S), NEW e \in S
  PROVE  Append(s, e) = [i \in 1 .. Len(s) + 1 |-> IF i = Len(s) + 1 THEN e ELSE s[i]]
<1> DEFINE f == [i \in 1 .. Len(s) + 1 |-> IF i = Len(s) + 1 THEN e ELSE s[i]]
<1>1. Len(s) \in Nat /\ \A i \in 1 .. Len(s) : s[i] \in S
  BY LenProperties, ElementOfSeq
<1>2. f \in Seq(S) /\ Len(f) = Len(s) + 1
  BY <1>1, IsASeq, LenProperties
<1>3. Append(s, e) \in Seq(S) /\ Len(Append(s, e)) = Len(s) + 1
  BY AppendProperties
<1>4. \A i \in 1 .. Len(s) + 1 : Append(s, e)[i] = f[i]
  BY <1>1, AppendProperties
<1> QED BY Zenon, <1>2, <1>3, <1>4, SeqEqual

LEMMA TailIs ==
  ASSUME NEW S, NEW s \in Seq(S), s # << >>
  PROVE  Tail(s) = [i \in 1 .. Len(s) - 1 |-> s[i + 1]]
<1> DEFINE f == [i \in 1 .. Len(s) - 1 |-> s[i + 1]]
<1>1. Len(s) \in Nat \ {0} /\ \A i \in 1 .. Len(s) : s[i] \in S
  BY LenProperties, ElementOfSeq, EmptySeq
<1>2. f \in Seq(S) /\ Len(f) = Len(s) - 1
  BY <1>1, IsASeq, LenProperties
<1>3. Tail(s) \in Seq(S) /\ Len(Tail(s)) = Len(s) - 1
  BY HeadTailProperties
<1>4. \A i \in 1 .. Len(s) - 1 : Tail(s)[i] = f[i]
  BY <1>1, HeadTailProperties
<1> QED BY Zenon, <1>2, <1>3, <1>4, SeqEqual

(* The window is a sequence, as long as the indices are apart. *)
LEMMA QueueBar ==
  ASSUME IndInv
  PROVE  /\ writeIndex - readIndex \in 0 .. SIZE
         /\ queueBar \in Seq(Values \cup {NoValue})
         /\ Len(queueBar) = writeIndex - readIndex
         /\ DOMAIN queueBar = 1 .. writeIndex - readIndex
         /\ (queueBar = << >>) <=> (readIndex = writeIndex)
<1> DEFINE n == writeIndex - readIndex
<1>1. n \in 0 .. SIZE
  BY DEF IndInv, TypeOK, Occupancy
<1>2. \A i \in 1 .. n : data[(readIndex + i - 1) % SIZE] \in Values \cup {NoValue}
  BY DEF IndInv, TypeOK, Slots
<1>3. queueBar \in [1 .. n -> Values \cup {NoValue}]
  BY <1>2 DEF queueBar
<1>4. queueBar \in Seq(Values \cup {NoValue}) /\ Len(queueBar) = n
  BY <1>1, <1>3, IsASeq, LenProperties
<1>5. (queueBar = << >>) <=> (n = 0)
  BY <1>4, EmptySeq
<1> QED BY <1>1, <1>3, <1>4, <1>5 DEF IndInv, TypeOK

(* The call of a thread that a step neither moves nor affects. *)
LEMMA CallUnchanged ==
  ASSUME NEW t \in Threads,
         pc'[t] = pc[t], op'[t] = op[t], value'[t] = value[t], err'[t] = err[t],
         localRead'[t] = localRead[t], localWrite'[t] = localWrite[t],
         At(t, "push_loadWrite") => writeIndex' = writeIndex,
         At(t, "take_loadRead") => readIndex' = readIndex
  PROVE  callOf(t)' = callOf(t)
  BY DEF callOf, pushCall, takeCall, At, HasSpace

(* A step of thread t changes no other thread's call: it moves an index     *)
(* only inside the critical section that owns the index.                    *)
LEMMA CallOfOthers ==
  ASSUME IndInv, NEW t \in Threads,
         \A s \in Threads \ {t} :
           /\ pc'[s] = pc[s] /\ op'[s] = op[s] /\ value'[s] = value[s] /\ err'[s] = err[s]
           /\ localRead'[s] = localRead[s] /\ localWrite'[s] = localWrite[s],
         writeIndex' = writeIndex \/ pc[t] \in PushPCs,
         readIndex' = readIndex \/ pc[t] \in TakePCs
  PROVE  callBar' = [callBar EXCEPT ![t] = callOf(t)']
<1>1. ASSUME NEW s \in Threads \ {t} PROVE callOf(s)' = callOf(s)
  <2>1. At(s, "push_loadWrite") => writeIndex' = writeIndex
    BY DEF IndInv, Exclusion, At, PushPCs
  <2>2. At(s, "take_loadRead") => readIndex' = readIndex
    BY DEF IndInv, Exclusion, At, TakePCs
  <2> QED BY <2>1, <2>2, CallUnchanged
<1> QED BY Zenon, <1>1 DEF callBar

(* A step that leaves the window and the call of its own thread alone is    *)
(* invisible to the callers.                                                *)
LEMMA Invisible ==
  ASSUME NEW t \in Threads, callBar' = [callBar EXCEPT ![t] = callOf(t)'],
         callOf(t)' = callOf(t), queueBar' = queueBar
  PROVE  UNCHANGED Fifo!vars
  BY Zenon DEF callBar, Fifo!vars

(* A call is entered. *)
LEMMA Entered ==
  ASSUME NEW t \in Threads, NEW o \in Fifo!Operations, NEW v \in Values \cup {NoValue},
         callBar' = [callBar EXCEPT ![t] = callOf(t)'], callOf(t) = Fifo!NoCall,
         callOf(t)' = Fifo!Pending(o, v), (o = "push") <=> (v # NoValue),
         queueBar' = queueBar
  PROVE  Fifo!Next
<1>1. Fifo!Invoke(t, o, v)
  BY DEF Fifo!Invoke, callBar
<1> QED BY Zenon, <1>1 DEF Fifo!Next

(* A call takes effect. *)
LEMMA Effect ==
  ASSUME NEW t \in Threads, NEW o, NEW v, NEW w, NEW e,
         callBar' = [callBar EXCEPT ![t] = callOf(t)'],
         callOf(t) = Fifo!Pending(o, v), callOf(t)' = Fifo!Done(o, w, e)
  PROVE  /\ callBar[t].op = o /\ callBar[t].value = v /\ callBar[t].err = "pending"
         /\ Fifo!Finish(t, w, e)
<1>1. callBar[t].op = o /\ callBar[t].value = v /\ callBar[t].err = "pending"
  BY DEF callBar, Fifo!Pending
<1>2. callBar' = [callBar EXCEPT ![t] = Fifo!Done(callBar[t].op, w, e)]
  BY <1>1
<1> QED BY <1>1, <1>2 DEF Fifo!Finish

(* A call returns. *)
LEMMA Returned ==
  ASSUME NEW t \in Threads, callBar' = [callBar EXCEPT ![t] = callOf(t)'],
         callOf(t).err \in Fifo!Errors, callOf(t)' = Fifo!NoCall, queueBar' = queueBar
  PROVE  Fifo!Next
<1>1. Fifo!Return(t)
  BY DEF Fifo!Return, callBar
<1> QED BY Zenon, <1>1 DEF Fifo!Next

(* The steps of push, seen from the callers. *)
LEMMA PushRefines ==
  ASSUME IndInv, Arguments, NEW t \in Threads,
         PushLoadRead(t) \/ PushLoadWrite(t) \/ PushStore(t) \/ PushPublish(t) \/ PushUnlock(t)
  PROVE  Fifo!Next \/ UNCHANGED Fifo!vars
<1>1. /\ readIndex \in Nat /\ writeIndex \in Nat /\ value[t] \in Values
      /\ pc \in [Threads -> PushPCs \cup TakePCs \cup OtherPCs]
      /\ pc[t] \in PushPCs /\ Occupancy
  BY DEF IndInv, TypeOK, Arguments, At, PushPCs, PushLoadRead, PushLoadWrite, PushStore,
         PushPublish, PushUnlock
<1>2. /\ value \in [Threads -> Values \cup {NoValue}] /\ op \in [Threads -> TakeOps]
      /\ localRead \in [Threads -> Nat] /\ localWrite \in [Threads -> Nat]
      /\ err \in [Threads -> Errors] /\ data \in [Slots -> Values \cup {NoValue}]
  BY DEF IndInv, TypeOK
<1>3. callBar' = [callBar EXCEPT ![t] = callOf(t)']
  <2>1. \A s \in Threads \ {t} :
          /\ pc'[s] = pc[s] /\ op'[s] = op[s] /\ value'[s] = value[s] /\ err'[s] = err[s]
          /\ localRead'[s] = localRead[s] /\ localWrite'[s] = localWrite[s]
    BY <1>1, <1>2 DEF PushLoadRead, PushLoadWrite, PushStore, PushPublish, PushUnlock, Return,
                      Goto, shared, locals
  <2>2. readIndex' = readIndex
    BY DEF PushLoadRead, PushLoadWrite, PushStore, PushPublish, PushUnlock, shared
  <2> QED BY <1>1, <2>1, <2>2, CallOfOthers
<1>9. PICK v \in Values : value[t] = v
  BY <1>1
<1> DEFINE pending == Fifo!Pending("push", v)
<1>4. CASE PushLoadRead(t)
  <2>1. queueBar' = queueBar
    BY <1>4 DEF PushLoadRead, shared, queueBar
  <2>2. callOf(t) = pending
    BY <1>4, <1>9 DEF PushLoadRead, callOf, pushCall, At, Fifo!Pending
  <2>3. /\ pc'[t] = "push_loadWrite" /\ localRead'[t] = readIndex
        /\ value' = value /\ writeIndex' = writeIndex
    BY <1>1, <1>2, <1>4 DEF PushLoadRead, Goto, shared
  <2>4. CASE HasSpace(writeIndex, readIndex)
    <3>1. callOf(t)' = pending
      BY <1>9, <2>3, <2>4 DEF callOf, pushCall, At, Fifo!Pending, HasSpace
    <3> QED BY Zenon, <1>3, <2>1, <2>2, <3>1, Invisible
  <2>5. CASE ~HasSpace(writeIndex, readIndex)
    <3>1. callOf(t)' = Fifo!Done("push", v, "NO_SPACE_AVAILABLE")
      BY <1>9, <2>3, <2>5 DEF callOf, pushCall, At, Fifo!Done, HasSpace
    <3>2. Len(queueBar) = SIZE
      BY <1>1, <2>5, QueueBar DEF Occupancy, HasSpace
    <3>3. /\ callBar[t].op = "push" /\ callBar[t].value = v /\ callBar[t].err = "pending"
          /\ Fifo!Finish(t, v, "NO_SPACE_AVAILABLE")
      BY Zenon, <1>3, <2>2, <3>1, Effect
    <3>4. Fifo!PerformPush(t)
      BY <2>1, <3>2, <3>3 DEF Fifo!PerformPush, Fifo!IsPending
    <3> QED BY Zenon, <3>4 DEF Fifo!Next
  <2> QED BY <2>4, <2>5
<1>5. CASE PushLoadWrite(t)
  <2>1. queueBar' = queueBar
    BY <1>5 DEF PushLoadWrite, shared, queueBar
  <2>2. callOf(t)' = callOf(t)
    BY <1>1, <1>2, <1>5 DEF PushLoadWrite, callOf, pushCall, At, Goto, shared
  <2> QED BY Zenon, <1>3, <2>1, <2>2, Invisible
<1>6. CASE PushStore(t)
  <2>1. callOf(t)' = callOf(t)
    BY <1>1, <1>2, <1>6 DEF PushStore, callOf, pushCall, At, Goto, locals
  <2>2. localWrite[t] = writeIndex /\ writeIndex < readIndex + SIZE
    BY <1>1, <1>2, <1>6 DEF PushStore, IndInv, Copies, PushCopies, At
  <2>3. ASSUME NEW i \in 1 .. writeIndex - readIndex
        PROVE  data'[(readIndex + i - 1) % SIZE] = data[(readIndex + i - 1) % SIZE]
    <3> DEFINE j == readIndex + i - 1
    <3>1. j \in Nat /\ j < writeIndex /\ writeIndex < j + SIZE
      BY <1>1, <2>2
    <3>2. j % SIZE # writeIndex % SIZE
      BY Zenon, <1>1, <3>1, DistinctSlots
    <3>3. j % SIZE \in Slots
      BY <3>1 DEF Slots
    <3> QED BY <1>2, <1>6, <2>2, <3>2, <3>3 DEF PushStore
  <2>4. queueBar' = queueBar
    BY Zenon, <1>6, <2>3 DEF PushStore, queueBar
  <2> QED BY Zenon, <1>3, <2>1, <2>4, Invisible
<1>7. CASE PushPublish(t)
  <2>1. callOf(t) = pending
    BY <1>7, <1>9 DEF PushPublish, callOf, pushCall, At, Fifo!Pending
  <2>2. callOf(t)' = Fifo!Done("push", v, "SUCCESS")
    <3>1. err[t] = "SUCCESS"
      BY Zenon, <1>7 DEF PushPublish, Arguments, At
    <3> QED BY <1>1, <1>2, <1>7, <1>9, <3>1 DEF PushPublish, callOf, pushCall, At, Goto, locals, Fifo!Done
  <2>3. writeIndex < readIndex + SIZE /\ data[writeIndex % SIZE] = v
    <3>1. At(t, "push_publish")
      BY <1>7 DEF PushPublish
    <3>2. PushCopies(t)
      BY DEF IndInv, Copies
    <3>3. writeIndex < readIndex + SIZE
      BY <1>1, <1>2, <3>1, <3>2 DEF PushCopies, At
    <3>4. data[writeIndex % SIZE] = v
      BY <1>9, <3>1 DEF Arguments
    <3> QED BY <3>3, <3>4
  <2>4. Len(queueBar) < SIZE
    BY <1>1, <2>3, QueueBar
  <2>5. queueBar' = Append(queueBar, v)
    <3> DEFINE n == writeIndex - readIndex
    <3>1. n \in Nat /\ writeIndex' - readIndex' = n + 1 /\ readIndex' = readIndex /\ data' = data
      BY <1>1, <1>7 DEF PushPublish, Occupancy
    <3>2. queueBar' = [i \in 1 .. n + 1 |-> data[(readIndex + i - 1) % SIZE]]
      BY <3>1 DEF queueBar
    <3>3. Append(queueBar, v) = [i \in 1 .. n + 1 |-> IF i = n + 1 THEN v
                                                                        ELSE queueBar[i]]
      BY <3>1, QueueBar, AppendIs
    <3>4. \A i \in 1 .. n : queueBar[i] = data[(readIndex + i - 1) % SIZE]
      BY DEF queueBar
    <3>5. readIndex + (n + 1) - 1 = writeIndex
      BY <1>1
    <3>6. ASSUME NEW i \in 1 .. n + 1
          PROVE  data[(readIndex + i - 1) % SIZE] = IF i = n + 1 THEN v ELSE queueBar[i]
      <4>1. CASE i = n + 1 BY <4>1, <3>5, <2>3
      <4>2. CASE i # n + 1
        <5>1. i \in 1 .. n BY <4>2, <3>1
        <5> QED BY <4>2, <5>1, <3>4
      <4> QED BY <4>1, <4>2
    <3> QED BY Zenon, <3>2, <3>3, <3>6
  <2>6. /\ callBar[t].op = "push" /\ callBar[t].value = v /\ callBar[t].err = "pending"
        /\ Fifo!Finish(t, v, "SUCCESS")
    BY Zenon, <1>3, <2>1, <2>2, Effect
  <2>7. Fifo!PerformPush(t)
    BY <2>4, <2>5, <2>6 DEF Fifo!PerformPush, Fifo!IsPending
  <2> QED BY Zenon, <2>7 DEF Fifo!Next
<1>8. CASE PushUnlock(t)
  <2>1. queueBar' = queueBar
    BY <1>8 DEF PushUnlock, queueBar
  <2>2. callOf(t).err \in Fifo!Errors
    BY <1>2, <1>8 DEF PushUnlock, callOf, pushCall, At, Errors, Fifo!Errors
  <2>3. callOf(t)' = Fifo!NoCall
    BY <1>1, <1>8 DEF PushUnlock, Return, Goto, callOf, At, Fifo!NoCall
  <2> QED BY Zenon, <1>3, <2>1, <2>2, <2>3, Returned
<1> QED BY <1>4, <1>5, <1>6, <1>7, <1>8

(* The steps of pop, front and poll, seen from the callers. *)
LEMMA TakeRefines ==
  ASSUME IndInv, Arguments, NEW t \in Threads,
         TakeLoadWrite(t) \/ TakeLoadRead(t) \/ TakeCopy(t) \/ TakeAdvance(t) \/ TakeUnlock(t)
  PROVE  Fifo!Next \/ UNCHANGED Fifo!vars
<1>1. /\ readIndex \in Nat /\ writeIndex \in Nat
      /\ pc \in [Threads -> PushPCs \cup TakePCs \cup OtherPCs]
      /\ pc[t] \in TakePCs /\ Occupancy
  BY DEF IndInv, TypeOK, At, TakePCs, TakeLoadWrite, TakeLoadRead, TakeCopy, TakeAdvance, TakeUnlock
<1>2. /\ value \in [Threads -> Values \cup {NoValue}] /\ op \in [Threads -> TakeOps]
      /\ localRead \in [Threads -> Nat] /\ localWrite \in [Threads -> Nat]
      /\ err \in [Threads -> Errors] /\ data \in [Slots -> Values \cup {NoValue}]
  BY DEF IndInv, TypeOK
<1>3. callBar' = [callBar EXCEPT ![t] = callOf(t)']
  <2>1. \A s \in Threads \ {t} :
          /\ pc'[s] = pc[s] /\ op'[s] = op[s] /\ value'[s] = value[s] /\ err'[s] = err[s]
          /\ localRead'[s] = localRead[s] /\ localWrite'[s] = localWrite[s]
    BY <1>1, <1>2 DEF TakeLoadWrite, TakeLoadRead, TakeCopy, TakeAdvance, TakeUnlock, Return,
                      Goto, shared, locals
  <2>2. writeIndex' = writeIndex
    BY Zenon DEF TakeLoadWrite, TakeLoadRead, TakeCopy, TakeAdvance, TakeUnlock, shared
  <2> QED BY <1>1, <2>1, <2>2, CallOfOthers
<1>4. PICK o \in TakeOps : op[t] = o
  BY <1>2
<1> DEFINE pending == Fifo!Pending(o, NoValue)
<1>5. ASSUME NEW w, NEW e, callOf(t) = pending, callOf(t)' = Fifo!Done(o, w, e)
      PROVE  /\ callBar[t].op = o /\ callBar[t].err = "pending"
             /\ Fifo!Finish(t, w, e)
  <2>1. callOf(t) = Fifo!Pending(o, NoValue)
    BY <1>5
  <2>2. callOf(t)' = Fifo!Done(o, w, e)
    BY <1>5
  <2>3. /\ callBar[t].op = o /\ callBar[t].value = NoValue /\ callBar[t].err = "pending"
        /\ Fifo!Finish(t, w, e)
    BY Zenon, <1>3, <2>1, <2>2, Effect
  <2> QED BY <2>3
<1>6. CASE TakeLoadWrite(t)
  <2>1. queueBar' = queueBar
    BY <1>6 DEF TakeLoadWrite, shared, queueBar
  <2>2. callOf(t) = pending
    BY <1>4, <1>6 DEF TakeLoadWrite, callOf, takeCall, At, Fifo!Pending
  <2>3. /\ pc'[t] = "take_loadRead" /\ localWrite'[t] = writeIndex
        /\ op' = op /\ value' = value /\ readIndex' = readIndex /\ value[t] = NoValue
    BY <1>1, <1>2, <1>6 DEF TakeLoadWrite, Goto, shared, Arguments, At
  <2>4. CASE writeIndex > readIndex
    <3>1. callOf(t)' = pending
      BY <1>4, <2>3, <2>4 DEF callOf, takeCall, At, Fifo!Pending
    <3> QED BY Zenon, <1>3, <2>1, <2>2, <3>1, Invisible
  <2>5. CASE ~(writeIndex > readIndex)
    <3>1. callOf(t)' = Fifo!Done(o, NoValue, "NO_ELEMENT")
      BY <1>4, <2>3, <2>5 DEF callOf, takeCall, At, Fifo!Done
    <3>2. queueBar = << >>
      BY <1>1, <2>5, QueueBar DEF Occupancy
    <3>3. Fifo!PerformTake(t)
      BY <1>5, <2>1, <2>2, <3>1, <3>2 DEF Fifo!PerformTake, Fifo!IsPending, TakeOps
    <3> QED BY Zenon, <3>3 DEF Fifo!Next
  <2> QED BY <2>4, <2>5
<1>7. CASE TakeLoadRead(t)
  <2>1. queueBar' = queueBar
    BY Zenon, <1>7 DEF TakeLoadRead, shared, queueBar
  <2>2. callOf(t)' = callOf(t)
    BY <1>1, <1>2, <1>7 DEF TakeLoadRead, callOf, takeCall, At, Goto, shared
  <2> QED BY Zenon, <1>3, <2>1, <2>2, Invisible
(* The element that front and poll copy is the oldest one. *)
<1>8. readIndex < writeIndex =>
        /\ queueBar # << >> /\ Head(queueBar) = data[readIndex % SIZE]
        /\ data[readIndex % SIZE] \in Values \cup {NoValue}
  <2> SUFFICES ASSUME readIndex < writeIndex
               PROVE  /\ queueBar # << >> /\ Head(queueBar) = data[readIndex % SIZE]
                      /\ data[readIndex % SIZE] \in Values \cup {NoValue}
    OBVIOUS
  <2>1. queueBar # << >>
    BY <1>1, QueueBar
  <2>4. 1 \in 1 .. writeIndex - readIndex
    BY <1>1
  <2>5. queueBar[1] = data[(readIndex + 1 - 1) % SIZE]
    BY <2>4 DEF queueBar
  <2>2. Head(queueBar) = queueBar[1]
    BY <2>1, QueueBar
  <2>3. readIndex + 1 - 1 = readIndex /\ readIndex % SIZE \in Slots
    BY <1>1 DEF Slots
  <2> QED BY <1>2, <2>1, <2>2, <2>3, <2>5
<1>9. CASE TakeCopy(t)
  <2>1. queueBar' = queueBar
    BY <1>9 DEF TakeCopy, shared, queueBar
  <2>2. callOf(t) = pending
    BY <1>4, <1>9 DEF TakeCopy, callOf, takeCall, At, Fifo!Pending
  <2>3. /\ localRead[t] = readIndex /\ readIndex < writeIndex
        /\ value'[t] = data[readIndex % SIZE] /\ op' = op /\ err' = err
        /\ pc'[t] = IF o = "poll" THEN "take_advance" ELSE "take_unlock"
    <3>1. At(t, "take_copy") /\ TakeCopies(t)
      BY <1>9 DEF TakeCopy, IndInv, Copies
    <3>2. localRead[t] = readIndex /\ readIndex < writeIndex
      BY <3>1 DEF TakeCopies, At
    <3> QED BY <1>1, <1>2, <1>4, <1>9, <3>2 DEF TakeCopy, Goto
  <2>4. CASE o = "poll"
    <3>1. callOf(t)' = pending
      BY <1>4, <2>3, <2>4 DEF callOf, takeCall, At, Fifo!Pending
    <3> QED BY Zenon, <1>3, <2>1, <2>2, <3>1, Invisible
  <2>5. CASE o # "poll"
    <3>1. o = "front" /\ err[t] = "SUCCESS"
      BY Zenon, <1>4, <1>9, <2>5 DEF TakeCopy, Arguments, At, TakeOps
    <3>2. PICK w : w = Head(queueBar)
      OBVIOUS
    <3>3. w = data[readIndex % SIZE] /\ queueBar # << >>
      BY Zenon, <1>8, <2>3, <3>2
    <3>4. callOf(t)' = Fifo!Done(o, w, "SUCCESS")
      BY <1>4, <2>3, <3>1, <3>3 DEF callOf, takeCall, At, Fifo!Done
    <3>5. Fifo!PerformTake(t)
      BY <1>5, <2>1, <2>2, <3>1, <3>2, <3>3, <3>4 DEF Fifo!PerformTake, Fifo!IsPending
    <3> QED BY Zenon, <3>5 DEF Fifo!Next
  <2> QED BY <2>4, <2>5
<1>10. CASE TakeAdvance(t)
  <2>1. callOf(t) = pending
    BY <1>4, <1>10 DEF TakeAdvance, callOf, takeCall, At, Fifo!Pending
  <2>2. localRead[t] = readIndex /\ readIndex < writeIndex
    <3>1. At(t, "take_advance") /\ TakeCopies(t)
      BY <1>10 DEF TakeAdvance, IndInv, Copies
    <3> QED BY <3>1 DEF TakeCopies, At
  <2>3. /\ o \in {"pop", "poll"} /\ err[t] = "SUCCESS"
        /\ value[t] = IF o = "pop" THEN NoValue ELSE data[readIndex % SIZE]
    BY Zenon, <1>4, <1>10 DEF TakeAdvance, Arguments, At, TakeOps
  <2>4. PICK w : w = IF o = "pop" THEN NoValue ELSE Head(queueBar)
    OBVIOUS
  <2>5. w = value[t] /\ queueBar # << >>
    BY <1>8, <2>2, <2>3, <2>4
  <2>6. callOf(t)' = Fifo!Done(o, w, "SUCCESS")
    BY <1>1, <1>4, <1>10, <2>3, <2>5 DEF TakeAdvance, Goto, locals, callOf, takeCall, At, Fifo!Done
  <2>7. queueBar' = Tail(queueBar)
    <3> DEFINE n == writeIndex - readIndex
    <3>1. /\ n \in Nat \ {0} /\ writeIndex' - readIndex' = n - 1
          /\ readIndex' = readIndex + 1 /\ data' = data
      BY <1>1, <1>10, <2>2 DEF TakeAdvance
    <3>2. queueBar' = [i \in 1 .. n - 1 |-> data[((readIndex + 1) + i - 1) % SIZE]]
      BY <3>1 DEF queueBar
    <3>3. Tail(queueBar) = [i \in 1 .. n - 1 |-> queueBar[i + 1]]
      BY <2>5, QueueBar, TailIs
    <3>4. ASSUME NEW i \in 1 .. n - 1
          PROVE  queueBar[i + 1] = data[((readIndex + 1) + i - 1) % SIZE]
      <4>1. i + 1 \in 1 .. n /\ (readIndex + 1) + i - 1 = readIndex + (i + 1) - 1
        BY <1>1, <3>1
      <4> QED BY <4>1 DEF queueBar
    <3> QED BY Zenon, <3>2, <3>3, <3>4
  <2>8. Fifo!PerformTake(t)
    BY <1>5, <2>1, <2>3, <2>4, <2>5, <2>6, <2>7 DEF Fifo!PerformTake, Fifo!IsPending
  <2> QED BY Zenon, <2>8 DEF Fifo!Next
<1>11. CASE TakeUnlock(t)
  <2>1. queueBar' = queueBar
    BY <1>11 DEF TakeUnlock, queueBar
  <2>2. callOf(t).err \in Fifo!Errors
    BY <1>2, <1>11 DEF TakeUnlock, callOf, takeCall, At, Errors, Fifo!Errors
  <2>3. callOf(t)' = Fifo!NoCall
    BY <1>1, <1>11 DEF TakeUnlock, Return, Goto, callOf, At, Fifo!NoCall
  <2> QED BY Zenon, <1>3, <2>1, <2>2, <2>3, Returned
<1> QED BY <1>6, <1>7, <1>9, <1>10, <1>11

(* The abstract queue and the abstract calls at the start. *)
LEMMA InitRefines == Init => Fifo!Init
<1> SUFFICES ASSUME Init PROVE Fifo!Init
  OBVIOUS
<1>1. queueBar = << >>
  BY InitInv, QueueBar DEF Init
<1>2. ASSUME NEW t \in Threads PROVE callOf(t) = Fifo!NoCall
  BY DEF Init, callOf, At, Fifo!NoCall
<1> QED BY Zenon, <1>1, <1>2 DEF Fifo!Init, callBar

(* Every step of the ring buffer is a step of the abstract queue or         *)
(* invisible to the callers.                                                *)
LEMMA StepRefines ==
  ASSUME Clearers = {}, IndInv, Arguments, [Next]_vars
  PROVE  [Fifo!Next]_(Fifo!vars)
<1>1. /\ pc \in [Threads -> PushPCs \cup TakePCs \cup OtherPCs]
      /\ value \in [Threads -> Values \cup {NoValue}] /\ op \in [Threads -> TakeOps]
      /\ localRead \in [Threads -> Nat] /\ localWrite \in [Threads -> Nat]
      /\ err \in [Threads -> Errors]
  BY DEF IndInv, TypeOK
<1>2. ASSUME NEW t \in Producers, NEW v \in Values, PushLock(t, v) PROVE Fifo!Next
  <2>1. t \in Threads
    BY DEF Threads
  <2>2. callBar' = [callBar EXCEPT ![t] = callOf(t)']
    BY <1>1, <1>2, <2>1, CallOfOthers DEF PushLock, Goto
  <2>3. callOf(t) = Fifo!NoCall
    BY <1>2 DEF PushLock, callOf, At, Fifo!NoCall
  <2>4. callOf(t)' = Fifo!Pending("push", v)
    BY <1>1, <1>2, <2>1 DEF PushLock, Goto, callOf, pushCall, At, Fifo!Pending
  <2>5. queueBar' = queueBar
    BY <1>2 DEF PushLock, queueBar
  <2> QED BY Zenon, <2>1, <2>2, <2>3, <2>4, <2>5, Entered DEF Fifo!Operations
<1>3. ASSUME NEW t \in Consumers, NEW o \in TakeOps, TakeLock(t, o) PROVE Fifo!Next
  <2>1. t \in Threads
    BY DEF Threads
  <2>2. callBar' = [callBar EXCEPT ![t] = callOf(t)']
    BY <1>1, <1>3, <2>1, CallOfOthers DEF TakeLock, Goto
  <2>3. callOf(t) = Fifo!NoCall
    BY <1>3 DEF TakeLock, callOf, At, Fifo!NoCall
  <2>4. callOf(t)' = Fifo!Pending(o, NoValue)
    BY <1>1, <1>3, <2>1 DEF TakeLock, Goto, callOf, takeCall, At, Fifo!Pending
  <2>5. queueBar' = queueBar
    BY <1>3 DEF TakeLock, queueBar
  <2>6. o \in Fifo!Operations /\ o # "push"
    BY DEF TakeOps, Fifo!Operations
  <2> QED BY Zenon, <2>1, <2>2, <2>3, <2>4, <2>5, <2>6, Entered
<1>4. ASSUME NEW t \in Observers, ObserveLoadRead(t) PROVE UNCHANGED Fifo!vars
  <2>1. t \in Threads
    BY DEF Threads
  <2>2. callBar' = [callBar EXCEPT ![t] = callOf(t)']
    BY <1>1, <1>4, <2>1, CallOfOthers DEF ObserveLoadRead, Goto, shared
  <2>3. callOf(t)' = callOf(t)
    BY <1>1, <1>4, <2>1 DEF ObserveLoadRead, Goto, callOf, At
  <2>4. queueBar' = queueBar
    BY <1>4 DEF ObserveLoadRead, queueBar, shared
  <2> QED BY Zenon, <2>1, <2>2, <2>3, <2>4, Invisible
<1>5. ASSUME NEW t \in Threads, ObserveLoadWrite(t) \/ ObserveReturn(t)
      PROVE  UNCHANGED Fifo!vars
  <2>1. callBar' = [callBar EXCEPT ![t] = callOf(t)']
    BY <1>1, <1>5, CallOfOthers DEF ObserveLoadWrite, ObserveReturn, Return, Goto, shared
  <2>2. callOf(t)' = callOf(t)
    BY <1>1, <1>5 DEF ObserveLoadWrite, ObserveReturn, Return, Goto, callOf, At
  <2>3. queueBar' = queueBar
    BY <1>5 DEF ObserveLoadWrite, ObserveReturn, queueBar, shared
  <2> QED BY Zenon, <2>1, <2>2, <2>3, Invisible
<1>6. ASSUME NEW t \in Threads PROVE ~ClearStore(t)
  BY DEF ClearStore, IndInv, Roles
<1>7. CASE UNCHANGED vars
  <2>1. queueBar' = queueBar
    BY <1>7 DEF vars, shared, queueBar
  <2>2. \A t \in Threads : callOf(t)' = callOf(t)
    BY <1>7, CallUnchanged DEF vars, shared, locals
  <2> QED BY Zenon, <2>1, <2>2 DEF Fifo!vars, callBar
<1>8. ASSUME NEW t \in Threads, Step(t) PROVE Fifo!Next \/ UNCHANGED Fifo!vars
  BY Zenon, <1>5, <1>6, <1>8, PushRefines, TakeRefines DEF Step
<1> QED BY Zenon, <1>2, <1>3, <1>4, <1>7, <1>8 DEF Next, Call, ClearLoad

(* For every SIZE and any number of producers, consumers and observers, the *)
(* ring buffer of LockFreeQueue.h is a linearizable FIFO queue of SIZE      *)
(* elements: push, pop, front and poll (lines 57-141) each take effect at   *)
(* one instant and report the error code of that instant, as long as nobody *)
(* calls clear(), which takes neither flag.                                 *)
THEOREM Linearizable == ASSUME Clearers = {} PROVE Spec => IsLinearizable
<1>1. Init => IndInv /\ Arguments
  <2>1. Init => Arguments
    BY DEF Init, Arguments, At, PushPCs
  <2> QED BY <2>1, InitInv
<1>2. IndInv /\ Arguments /\ [Next]_vars => (IndInv /\ Arguments)'
  BY InvStep, ArgumentsStep DEF SerialClear
<1>3. IndInv /\ Arguments /\ [Next]_vars => [Fifo!Next]_(Fifo!vars)
  BY StepRefines
<1> QED BY <1>1, <1>2, <1>3, InitRefines, PTL DEF Spec, IsLinearizable, Fifo!Spec
=============================================================================
