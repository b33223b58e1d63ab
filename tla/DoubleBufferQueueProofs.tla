----------------------- MODULE DoubleBufferQueueProofs -----------------------
(***************************************************************************)
(* Proofs about DoubleBufferQueue for any number of threads and pushes,    *)
(* with and without the consumer locks: the two sides are different        *)
(* buffers whenever no swap() is between its two pointers, clear() removes *)
(* what was there when only one thread may pull, and the queue implements  *)
(* BoundedFifo: its operations are linearizable.                           *)
(***************************************************************************)
EXTENDS DoubleBufferQueueRefinement, SequenceTheorems, FiniteSetTheorems, TLAPS

TakePCs == {"take_swap", "swap_read", "take_front", "take_return"}
ClearPCs == {"clear_write", "clear_return"}
ObservePCs == {"observe_write", "observe_done"}
OtherPCs == {"idle", "push_locked", "push_return"}

(* The types the proofs need. *)
TypeInv ==
  /\ pc \in [Threads -> TakePCs \cup ClearPCs \cup ObservePCs \cup OtherPCs]
  /\ queueRead \in Buffers /\ queueWrite \in Buffers
  /\ readLock \in BOOLEAN /\ writeLock \in BOOLEAN
  /\ value \in [Threads -> Values \cup {NoValue}]
  /\ buffer \in [Buffers -> Seq(Values \cup {NoValue})]
  /\ pushes \in Nat /\ removed \in Nat
  /\ pushesAtCall \in [Threads -> Nat]
  /\ seenRead \in [Threads -> Nat] /\ seenWrite \in [Threads -> Nat]

(* Who is inside an operation calls it, and one thread at a time pulls: with *)
(* the consumer locks because it holds _readLock, without because there is   *)
(* only one.                                                                 *)
Pulling ==
  /\ \A t \in Threads : pc[t] \in TakePCs => t \in Consumers /\ (MultiConsumer => readLock)
  /\ \A t \in Threads : pc[t] \in ClearPCs => t \in Clearers
  /\ \A t \in Threads : pc[t] \in ObservePCs => t \in Observers
  /\ \A s, t \in Threads : pc[s] \in TakePCs /\ pc[t] \in TakePCs => s = t

(* The pointers agree only between the two writes of swap().                 *)
Sides ==
  /\ writeLock => \E t \in Threads : At(t, "swap_read")
  /\ \A t \in Threads : At(t, "swap_read") => writeLock
  /\ writeLock <=> queueWrite = queueRead

(* Every element is counted: those removed and those in the two buffers.     *)
Counted == pushes = removed + Len(buffer["A"]) + Len(buffer["B"])

(* With one pulling thread, what is left of the elements a clear must remove *)
(* is on the write side when it gets there.                                  *)
Clearing ==
  ~MultiConsumer => \A t \in Threads :
    /\ At(t, "clear_write") => pushesAtCall[t] <= removed + Len(buffer[queueWrite])
    /\ At(t, "clear_return") => pushesAtCall[t] <= removed

(* The pulling thread sees the read side as it is, since nobody else takes   *)
(* from it, and what it misses on the write side was pushed after its call.  *)
Observing ==
  ~MultiConsumer => \A t \in Consumers \cup Clearers :
    /\ At(t, "observe_write") =>
         seenRead[t] = Len(buffer[queueRead]) /\ pushesAtCall[t] <= pushes
    /\ At(t, "observe_done") => pushesAtCall[t] <= removed + seenRead[t] + seenWrite[t]

Inv == TypeInv /\ Pulling /\ Sides /\ Counted /\ Clearing /\ Observing
-----------------------------------------------------------------------------
USE DoubleBufferAssumption

(* Both buffers are empty and every thread is idle. *)
LEMMA InitInv == Init => Inv
<1> SUFFICES ASSUME Init PROVE Inv
  OBVIOUS
<1> USE DEF Init
<1>1. TypeInv
  <2>1. buffer \in [Buffers -> Seq(Values \cup {NoValue})]
    BY EmptySeq
  <2>2. pc \in [Threads -> TakePCs \cup ClearPCs \cup ObservePCs \cup OtherPCs]
    BY DEF OtherPCs
  <2> QED BY Zenon, <2>1, <2>2 DEF TypeInv, Buffers
<1>2. Pulling /\ Sides /\ Clearing /\ Observing
  BY DEF Pulling, Sides, Clearing, Observing, At, TakePCs, ClearPCs, ObservePCs, Threads
<1>3. Counted
  BY DEF Counted, Buffers
<1> QED BY <1>1, <1>2, <1>3 DEF Inv

(* Every step keeps every variable in its type. *)
LEMMA TypeInvStep ==
  ASSUME Inv, [Next]_vars
  PROVE  TypeInv'
<1> USE Inv DEF Inv, TypeInv, Threads, TakePCs, ClearPCs, ObservePCs, OtherPCs, Buffers, At,
      Goto, shared, locals, counts
<1>1. ASSUME NEW t \in Producers, NEW v \in Values, PushCall(t, v) PROVE TypeInv'
  BY <1>1 DEF PushCall
<1>2. ASSUME NEW t \in Consumers, NEW o \in TakeOps, TakeBegin(t, o) PROVE TypeInv'
  BY <1>2 DEF TakeBegin, MustSwap
<1>3. ASSUME NEW t \in Clearers, ClearRead(t) PROVE TypeInv'
  BY <1>3 DEF ClearRead, Drain
<1>4. ASSUME NEW t \in Observers, ObserveRead(t) PROVE TypeInv'
  BY <1>4 DEF ObserveRead
<1>5. ASSUME NEW t \in Threads, PushLocked(t) PROVE TypeInv'
  BY <1>5 DEF PushLocked
<1>6. ASSUME NEW t \in Threads, PushReturn(t) PROVE TypeInv'
  BY <1>6 DEF PushReturn, Return
<1>7. ASSUME NEW t \in Threads, SwapWrite(t) PROVE TypeInv'
  BY <1>7 DEF SwapWrite, NewWriteSide
<1>8. ASSUME NEW t \in Threads, SwapRead(t) PROVE TypeInv'
  BY Zenon, <1>8 DEF SwapRead, Other
<1>9. ASSUME NEW t \in Threads, TakeFront(t) PROVE TypeInv'
  <2>1. buffer' \in [Buffers -> Seq(Values \cup {NoValue})]
    <3>1. ASSUME buffer[queueRead] # << >>
          PROVE  Tail(buffer[queueRead]) \in Seq(Values \cup {NoValue})
      BY <3>1, HeadTailProperties
    <3>2. CASE buffer' = buffer
      BY <3>2
    <3>3. CASE buffer[queueRead] # << >> /\ buffer' = [buffer EXCEPT ![queueRead] = Tail(@)]
      BY <3>1, <3>3
    <3> QED BY <1>9, <3>2, <3>3 DEF TakeFront
  <2>2. value' \in [Threads -> Values \cup {NoValue}]
    <3>1. ASSUME buffer[queueRead] # << >>
          PROVE  Head(buffer[queueRead]) \in Values \cup {NoValue}
      BY <3>1, HeadTailProperties
    <3> QED BY Zenon, <1>9, <3>1 DEF TakeFront
  <2>3. pc' \in [Threads -> TakePCs \cup ClearPCs \cup ObservePCs \cup OtherPCs]
    BY <1>9 DEF TakeFront
  <2>4. removed' \in Nat
    BY <1>9 DEF TakeFront
  <2> QED BY <1>9, <2>1, <2>2, <2>3, <2>4 DEF TakeFront
<1>10. ASSUME NEW t \in Threads, TakeReturn(t) PROVE TypeInv'
  BY <1>10 DEF TakeReturn, Return, Unlocks
<1>11. ASSUME NEW t \in Threads, ClearWrite(t) PROVE TypeInv'
  BY <1>11 DEF ClearWrite, Drain
<1>12. ASSUME NEW t \in Threads, ClearReturn(t) PROVE TypeInv'
  BY <1>12 DEF ClearReturn, Return
<1>13. ASSUME NEW t \in Threads, ObserveWrite(t) PROVE TypeInv'
  BY <1>13 DEF ObserveWrite
<1>14. ASSUME NEW t \in Threads, ObserveReturn(t) PROVE TypeInv'
  BY <1>14 DEF ObserveReturn, Return
<1>15. ASSUME UNCHANGED vars PROVE TypeInv'
  BY <1>15 DEF vars
<1> QED BY Zenon, <1>1, <1>2, <1>3, <1>4, <1>5, <1>6, <1>7, <1>8, <1>9, <1>10, <1>11, <1>12, <1>13,
          <1>14, <1>15 DEF Next, Call, Step

(* One thread at a time pulls. *)
LEMMA PullingStep ==
  ASSUME Inv, [Next]_vars
  PROVE  Pulling'
<1> USE Inv DEF Inv, TypeInv, Pulling, Threads, TakePCs, ClearPCs, ObservePCs, OtherPCs,
      Buffers, At, Goto, shared, locals, counts
<1>1. ASSUME NEW t \in Producers, NEW v \in Values, PushCall(t, v) PROVE Pulling'
  BY <1>1 DEF PushCall
<1>2. ASSUME NEW t \in Consumers, NEW o \in TakeOps, TakeBegin(t, o) PROVE Pulling'
  BY <1>2 DEF TakeBegin, MustSwap
<1>3. ASSUME NEW t \in Clearers, ClearRead(t) PROVE Pulling'
  BY <1>3 DEF ClearRead, Drain
<1>4. ASSUME NEW t \in Observers, ObserveRead(t) PROVE Pulling'
  BY <1>4 DEF ObserveRead
<1>5. ASSUME NEW t \in Threads, PushLocked(t) PROVE Pulling'
  BY <1>5 DEF PushLocked
<1>6. ASSUME NEW t \in Threads, PushReturn(t) PROVE Pulling'
  BY <1>6 DEF PushReturn, Return
<1>7. ASSUME NEW t \in Threads, SwapWrite(t) PROVE Pulling'
  BY <1>7 DEF SwapWrite, NewWriteSide
<1>8. ASSUME NEW t \in Threads, SwapRead(t) PROVE Pulling'
  BY <1>8 DEF SwapRead, Other
<1>9. ASSUME NEW t \in Threads, TakeFront(t) PROVE Pulling'
  BY <1>9 DEF TakeFront
<1>10. ASSUME NEW t \in Threads, TakeReturn(t) PROVE Pulling'
  BY <1>10 DEF TakeReturn, Return, Unlocks
<1>11. ASSUME NEW t \in Threads, ClearWrite(t) PROVE Pulling'
  BY <1>11 DEF ClearWrite, Drain
<1>12. ASSUME NEW t \in Threads, ClearReturn(t) PROVE Pulling'
  BY <1>12 DEF ClearReturn, Return
<1>13. ASSUME NEW t \in Threads, ObserveWrite(t) PROVE Pulling'
  BY <1>13 DEF ObserveWrite
<1>14. ASSUME NEW t \in Threads, ObserveReturn(t) PROVE Pulling'
  BY <1>14 DEF ObserveReturn, Return
<1>15. ASSUME UNCHANGED vars PROVE Pulling'
  BY <1>15 DEF vars
<1> QED BY Zenon, <1>1, <1>2, <1>3, <1>4, <1>5, <1>6, <1>7, <1>8, <1>9, <1>10, <1>11, <1>12, <1>13,
          <1>14, <1>15 DEF Next, Call, Step

(* The pointers agree only during swap(). *)
LEMMA SidesStep ==
  ASSUME Inv, [Next]_vars
  PROVE  Sides'
<1> USE Inv DEF Inv, TypeInv, Pulling, Sides, Threads, TakePCs, ClearPCs, ObservePCs,
      OtherPCs, Buffers, At, Goto, shared, locals, counts
<1>1. ASSUME NEW t \in Producers, NEW v \in Values, PushCall(t, v) PROVE Sides'
  BY <1>1 DEF PushCall
<1>2. ASSUME NEW t \in Consumers, NEW o \in TakeOps, TakeBegin(t, o) PROVE Sides'
  BY <1>2 DEF TakeBegin, MustSwap
<1>3. ASSUME NEW t \in Clearers, ClearRead(t) PROVE Sides'
  BY <1>3 DEF ClearRead, Drain
<1>4. ASSUME NEW t \in Observers, ObserveRead(t) PROVE Sides'
  BY <1>4 DEF ObserveRead
<1>5. ASSUME NEW t \in Threads, PushLocked(t) PROVE Sides'
  BY <1>5 DEF PushLocked
<1>6. ASSUME NEW t \in Threads, PushReturn(t) PROVE Sides'
  BY <1>6 DEF PushReturn, Return
<1>7. ASSUME NEW t \in Threads, SwapWrite(t) PROVE Sides'
  BY <1>7 DEF SwapWrite, NewWriteSide
<1>8. ASSUME NEW t \in Threads, SwapRead(t) PROVE Sides'
  BY <1>8 DEF SwapRead, Other
<1>9. ASSUME NEW t \in Threads, TakeFront(t) PROVE Sides'
  BY <1>9 DEF TakeFront
<1>10. ASSUME NEW t \in Threads, TakeReturn(t) PROVE Sides'
  BY <1>10 DEF TakeReturn, Return, Unlocks
<1>11. ASSUME NEW t \in Threads, ClearWrite(t) PROVE Sides'
  BY <1>11 DEF ClearWrite, Drain
<1>12. ASSUME NEW t \in Threads, ClearReturn(t) PROVE Sides'
  BY <1>12 DEF ClearReturn, Return
<1>13. ASSUME NEW t \in Threads, ObserveWrite(t) PROVE Sides'
  BY <1>13 DEF ObserveWrite
<1>14. ASSUME NEW t \in Threads, ObserveReturn(t) PROVE Sides'
  BY <1>14 DEF ObserveReturn, Return
<1>15. ASSUME UNCHANGED vars PROVE Sides'
  BY <1>15 DEF vars
<1> QED BY Zenon, <1>1, <1>2, <1>3, <1>4, <1>5, <1>6, <1>7, <1>8, <1>9, <1>10, <1>11, <1>12, <1>13,
          <1>14, <1>15 DEF Next, Call, Step

(* No element is counted twice or lost. *)
LEMMA CountedStep ==
  ASSUME Inv, [Next]_vars
  PROVE  Counted'
<1> USE Inv DEF Inv, TypeInv, Counted, Threads, TakePCs, ClearPCs, ObservePCs, OtherPCs,
      Buffers, At, Goto, shared, locals, counts
<1>1. ASSUME NEW t \in Producers, NEW v \in Values, PushCall(t, v) PROVE Counted'
  BY <1>1 DEF PushCall
<1>2. ASSUME NEW t \in Consumers, NEW o \in TakeOps, TakeBegin(t, o) PROVE Counted'
  BY <1>2 DEF TakeBegin, MustSwap
<1>3. ASSUME NEW t \in Clearers, ClearRead(t) PROVE Counted'
  <2>1. Len(buffer["A"]) \in Nat /\ Len(buffer["B"]) \in Nat /\ Len(<< >>) = 0
    BY LenProperties, EmptySeq
  <2>2. CASE queueRead = "A"
    <3>1. buffer'["A"] = << >> /\ buffer'["B"] = buffer["B"]
      BY <1>3, <2>2 DEF ClearRead, Drain
    <3>2. removed' = removed + Len(buffer["A"]) /\ pushes' = pushes
      BY <1>3, <2>2 DEF ClearRead, Drain
    <3> QED BY <2>1, <3>1, <3>2
  <2>3. CASE queueRead = "B"
    <3>1. buffer'["B"] = << >> /\ buffer'["A"] = buffer["A"]
      BY <1>3, <2>3 DEF ClearRead, Drain
    <3>2. removed' = removed + Len(buffer["B"]) /\ pushes' = pushes
      BY <1>3, <2>3 DEF ClearRead, Drain
    <3> QED BY <2>1, <3>1, <3>2
  <2> QED BY <2>2, <2>3
<1>4. ASSUME NEW t \in Observers, ObserveRead(t) PROVE Counted'
  BY <1>4 DEF ObserveRead
<1>5. ASSUME NEW t \in Threads, PushLocked(t) PROVE Counted'
  <2> DEFINE new == Append(buffer[queueWrite], value[t])
  <2>1. Len(new) = Len(buffer[queueWrite]) + 1
    BY AppendProperties
  <2>2. buffer' = [buffer EXCEPT ![queueWrite] = new] /\ pushes' = pushes + 1 /\ removed' = removed
    BY <1>5 DEF PushLocked
  <2>3. Len(buffer["A"]) \in Nat /\ Len(buffer["B"]) \in Nat
    BY LenProperties
  <2> HIDE DEF new
  <2>4. CASE queueWrite = "A"
    <3>1. buffer'["A"] = new /\ buffer'["B"] = buffer["B"]
      BY <2>2, <2>4
    <3>2. Len(buffer'["A"]) = Len(buffer["A"]) + 1 /\ Len(buffer'["B"]) = Len(buffer["B"])
      BY <2>1, <2>4, <3>1
    <3>3. pushes' = pushes + 1 /\ removed' = removed
      BY <2>2
    <3> QED BY <2>3, <3>2, <3>3
  <2>5. CASE queueWrite = "B"
    <3>1. buffer'["B"] = new /\ buffer'["A"] = buffer["A"]
      BY <2>2, <2>5
    <3>2. Len(buffer'["B"]) = Len(buffer["B"]) + 1 /\ Len(buffer'["A"]) = Len(buffer["A"])
      BY <2>1, <2>5, <3>1
    <3>3. pushes' = pushes + 1 /\ removed' = removed
      BY <2>2
    <3> QED BY <2>3, <3>2, <3>3
  <2> QED BY <2>4, <2>5
<1>6. ASSUME NEW t \in Threads, PushReturn(t) PROVE Counted'
  BY <1>6 DEF PushReturn, Return
<1>7. ASSUME NEW t \in Threads, SwapWrite(t) PROVE Counted'
  BY <1>7 DEF SwapWrite, NewWriteSide
<1>8. ASSUME NEW t \in Threads, SwapRead(t) PROVE Counted'
  BY <1>8 DEF SwapRead, Other
<1>9. ASSUME NEW t \in Threads, TakeFront(t) PROVE Counted'
  <2>1. CASE UNCHANGED <<buffer, removed>>
    BY <1>9, <2>1 DEF TakeFront
  <2> DEFINE rest == Tail(buffer[queueRead])
  <2>2. CASE /\ buffer[queueRead] # << >>
             /\ buffer' = [buffer EXCEPT ![queueRead] = rest] /\ removed' = removed + 1
    <3>1. Len(rest) = Len(buffer[queueRead]) - 1
      BY <2>2, HeadTailProperties
    <3>2. Len(buffer["A"]) \in Nat /\ Len(buffer["B"]) \in Nat
      BY LenProperties
    <3>3. pushes' = pushes
      BY <1>9 DEF TakeFront
    <3> HIDE DEF rest
    <3>4. CASE queueRead = "A"
      <4>1. buffer'["A"] = rest /\ buffer'["B"] = buffer["B"]
        BY <2>2, <3>4
      <4>2. Len(buffer'["A"]) = Len(buffer["A"]) - 1 /\ Len(buffer'["B"]) = Len(buffer["B"])
        BY <3>1, <3>4, <4>1
      <4>3. removed' = removed + 1
        BY <2>2
      <4> QED BY <3>2, <3>3, <4>2, <4>3
    <3>5. CASE queueRead = "B"
      <4>1. buffer'["B"] = rest /\ buffer'["A"] = buffer["A"]
        BY <2>2, <3>5
      <4>2. Len(buffer'["B"]) = Len(buffer["B"]) - 1 /\ Len(buffer'["A"]) = Len(buffer["A"])
        BY <3>1, <3>5, <4>1
      <4>3. removed' = removed + 1
        BY <2>2
      <4> QED BY <3>2, <3>3, <4>2, <4>3
    <3> QED BY <3>4, <3>5
  <2> QED BY <1>9, <2>1, <2>2 DEF TakeFront
<1>10. ASSUME NEW t \in Threads, TakeReturn(t) PROVE Counted'
  BY <1>10 DEF TakeReturn, Return, Unlocks
<1>11. ASSUME NEW t \in Threads, ClearWrite(t) PROVE Counted'
  <2>1. Len(buffer["A"]) \in Nat /\ Len(buffer["B"]) \in Nat /\ Len(<< >>) = 0
    BY LenProperties, EmptySeq
  <2>2. CASE queueWrite = "A"
    <3>1. buffer'["A"] = << >> /\ buffer'["B"] = buffer["B"]
      BY <1>11, <2>2 DEF ClearWrite, Drain
    <3>2. removed' = removed + Len(buffer["A"]) /\ pushes' = pushes
      BY <1>11, <2>2 DEF ClearWrite, Drain
    <3> QED BY <2>1, <3>1, <3>2
  <2>3. CASE queueWrite = "B"
    <3>1. buffer'["B"] = << >> /\ buffer'["A"] = buffer["A"]
      BY <1>11, <2>3 DEF ClearWrite, Drain
    <3>2. removed' = removed + Len(buffer["B"]) /\ pushes' = pushes
      BY <1>11, <2>3 DEF ClearWrite, Drain
    <3> QED BY <2>1, <3>1, <3>2
  <2> QED BY <2>2, <2>3
<1>12. ASSUME NEW t \in Threads, ClearReturn(t) PROVE Counted'
  BY <1>12 DEF ClearReturn, Return
<1>13. ASSUME NEW t \in Threads, ObserveWrite(t) PROVE Counted'
  BY <1>13 DEF ObserveWrite
<1>14. ASSUME NEW t \in Threads, ObserveReturn(t) PROVE Counted'
  BY <1>14 DEF ObserveReturn, Return
<1>15. ASSUME UNCHANGED vars PROVE Counted'
  BY <1>15 DEF vars
<1> QED BY <1>1, <1>2, <1>3, <1>4, <1>5, <1>6, <1>7, <1>8, <1>9, <1>10, <1>11, <1>12, <1>13,
          <1>14, <1>15 DEF Next, Call, Step

(* The write side still holds what a clear has to remove. *)
LEMMA ClearingStep ==
  ASSUME Inv, [Next]_vars
  PROVE  Clearing'
<1> USE Inv DEF Inv, TypeInv, Pulling, Sides, Counted, Clearing, Threads, TakePCs, ClearPCs,
      ObservePCs, OtherPCs, Buffers, At, Goto, shared, locals, counts
<1>1. ASSUME NEW t \in Producers, NEW v \in Values, PushCall(t, v) PROVE Clearing'
  BY <1>1 DEF PushCall
<1>2. ASSUME NEW t \in Consumers, NEW o \in TakeOps, TakeBegin(t, o) PROVE Clearing'
  BY <1>2 DEF TakeBegin, MustSwap
<1>3. ASSUME NEW t \in Clearers, ClearRead(t) PROVE Clearing'
  <2> SUFFICES ASSUME ~MultiConsumer PROVE Clearing'
    OBVIOUS
  <2>1. \A s \in Threads : s # t => pc'[s] = pc[s] /\ pc[s] \notin TakePCs \cup ClearPCs
    BY <1>3 DEF ClearRead
  <2>2. pc'[t] = "clear_write" /\ pushesAtCall'[t] = pushes
    BY <1>3 DEF ClearRead
  <2>3. queueWrite # queueRead /\ queueWrite' = queueWrite
    BY <1>3, <2>1 DEF ClearRead
  <2>4. pushes = removed' + Len(buffer'[queueWrite])
    <3>1. Len(buffer["A"]) \in Nat /\ Len(buffer["B"]) \in Nat
      BY LenProperties
    <3>2. buffer'[queueWrite] = buffer[queueWrite] /\ removed' = removed + Len(buffer[queueRead])
      BY <1>3, <2>3 DEF ClearRead, Drain
    <3>3. CASE queueRead = "A" /\ queueWrite = "B"
      BY <3>1, <3>2, <3>3
    <3>4. CASE queueRead = "B" /\ queueWrite = "A"
      BY <3>1, <3>2, <3>4
    <3> QED BY <2>3, <3>3, <3>4
  <2>5. ASSUME NEW s \in Threads
        PROVE  /\ pc'[s] = "clear_write" =>
                    pushesAtCall'[s] <= removed' + Len(buffer'[queueWrite'])
               /\ pc'[s] # "clear_return"
    <3>1. CASE s = t
      <4>1. pushes \in Nat
        OBVIOUS
      <4> HIDE DEF Inv, TypeInv, Pulling, Sides, Counted, Clearing
      <4> QED BY <2>2, <2>3, <2>4, <3>1, <4>1
    <3>2. CASE s # t
      BY <2>1, <3>2
    <3> QED BY <3>1, <3>2
  <2> QED BY <2>5
<1>4. ASSUME NEW t \in Observers, ObserveRead(t) PROVE Clearing'
  BY <1>4 DEF ObserveRead
<1>5. ASSUME NEW t \in Threads, PushLocked(t) PROVE Clearing'
  BY <1>5 DEF PushLocked
<1>6. ASSUME NEW t \in Threads, PushReturn(t) PROVE Clearing'
  BY <1>6 DEF PushReturn, Return
<1>7. ASSUME NEW t \in Threads, SwapWrite(t) PROVE Clearing'
  BY <1>7 DEF SwapWrite, NewWriteSide
<1>8. ASSUME NEW t \in Threads, SwapRead(t) PROVE Clearing'
  BY <1>8 DEF SwapRead, Other
<1>9. ASSUME NEW t \in Threads, TakeFront(t) PROVE Clearing'
  BY <1>9 DEF TakeFront
<1>10. ASSUME NEW t \in Threads, TakeReturn(t) PROVE Clearing'
  BY <1>10 DEF TakeReturn, Return, Unlocks
<1>11. ASSUME NEW t \in Threads, ClearWrite(t) PROVE Clearing'
  BY <1>11 DEF ClearWrite, Drain
<1>12. ASSUME NEW t \in Threads, ClearReturn(t) PROVE Clearing'
  BY <1>12 DEF ClearReturn, Return
<1>13. ASSUME NEW t \in Threads, ObserveWrite(t) PROVE Clearing'
  BY <1>13 DEF ObserveWrite
<1>14. ASSUME NEW t \in Threads, ObserveReturn(t) PROVE Clearing'
  BY <1>14 DEF ObserveReturn, Return
<1>15. ASSUME UNCHANGED vars PROVE Clearing'
  BY <1>15 DEF vars
<1> QED BY Zenon, <1>1, <1>2, <1>3, <1>4, <1>5, <1>6, <1>7, <1>8, <1>9, <1>10, <1>11, <1>12, <1>13,
          <1>14, <1>15 DEF Next, Call, Step

(* The pulling thread is not deceived by its own look. *)
LEMMA ObservingStep ==
  ASSUME Inv, [Next]_vars
  PROVE  Observing'
<1> USE Inv DEF Inv, TypeInv, Pulling, Sides, Counted, Observing, Threads, TakePCs,
      ClearPCs, ObservePCs, OtherPCs, Buffers, At, Goto, shared, locals, counts
<1>1. ASSUME NEW t \in Producers, NEW v \in Values, PushCall(t, v) PROVE Observing'
  BY <1>1 DEF PushCall
<1>2. ASSUME NEW t \in Consumers, NEW o \in TakeOps, TakeBegin(t, o) PROVE Observing'
  BY <1>2 DEF TakeBegin, MustSwap
<1>3. ASSUME NEW t \in Clearers, ClearRead(t) PROVE Observing'
  BY Zenon, <1>3 DEF ClearRead, Drain
<1>4. ASSUME NEW t \in Observers, ObserveRead(t) PROVE Observing'
  BY <1>4 DEF ObserveRead
<1>5. ASSUME NEW t \in Threads, PushLocked(t) PROVE Observing'
  BY <1>5 DEF PushLocked
<1>6. ASSUME NEW t \in Threads, PushReturn(t) PROVE Observing'
  BY <1>6 DEF PushReturn, Return
<1>7. ASSUME NEW t \in Threads, SwapWrite(t) PROVE Observing'
  BY <1>7 DEF SwapWrite, NewWriteSide
<1>8. ASSUME NEW t \in Threads, SwapRead(t) PROVE Observing'
  BY <1>8 DEF SwapRead, Other
<1>9. ASSUME NEW t \in Threads, TakeFront(t) PROVE Observing'
  BY <1>9 DEF TakeFront
<1>10. ASSUME NEW t \in Threads, TakeReturn(t) PROVE Observing'
  BY <1>10 DEF TakeReturn, Return, Unlocks
<1>11. ASSUME NEW t \in Threads, ClearWrite(t) PROVE Observing'
  BY Zenon, <1>11 DEF ClearWrite, Drain
<1>12. ASSUME NEW t \in Threads, ClearReturn(t) PROVE Observing'
  BY <1>12 DEF ClearReturn, Return
<1>13. ASSUME NEW t \in Threads, ObserveWrite(t) PROVE Observing'
  <2>1. /\ pc' = [pc EXCEPT ![t] = "observe_done"]
        /\ seenWrite' = [seenWrite EXCEPT ![t] = Len(buffer[queueWrite])]
        /\ UNCHANGED <<buffer, queueRead, seenRead, pushesAtCall, pushes, removed>>
    BY Zenon, <1>13 DEF ObserveWrite
  <2>2. ASSUME ~MultiConsumer, t \in Consumers \cup Clearers
        PROVE  pushesAtCall[t] <= removed + seenRead[t] + Len(buffer[queueWrite])
    <3>1. seenRead[t] = Len(buffer[queueRead]) /\ pushesAtCall[t] <= pushes
      BY Zenon, <1>13, <2>2 DEF ObserveWrite
    <3>2. queueRead # queueWrite
      <4>1. \A s \in Threads : ~At(s, "swap_read")
        BY <1>13, <2>2 DEF ObserveWrite
      <4> QED BY Zenon, <4>1
    <3>3. \/ queueRead = "A" /\ queueWrite = "B"
          \/ queueRead = "B" /\ queueWrite = "A"
      BY Zenon, <3>2
    <3>4. PICK a \in Nat, b \in Nat : a = Len(buffer["A"]) /\ b = Len(buffer["B"])
      OBVIOUS
    <3>5. /\ pushes = removed + a + b
          /\ pushes \in Nat /\ removed \in Nat /\ pushesAtCall[t] \in Nat
      BY Zenon, <3>4
    <3> HIDE DEF Inv, TypeInv, Observing, Pulling, Sides, Counted
    <3>6. \/ seenRead[t] = a /\ Len(buffer[queueWrite]) = b
          \/ seenRead[t] = b /\ Len(buffer[queueWrite]) = a
      BY Zenon, <3>1, <3>3, <3>4
    <3>7. removed + a + b = removed + b + a /\ pushesAtCall[t] <= removed + a + b
      BY <3>1, <3>5
    <3> QED BY Zenon, <3>6, <3>7
  <2>3. /\ pc'[t] = "observe_done" /\ seenWrite'[t] = Len(buffer[queueWrite])
        /\ \A s \in Threads \ {t} : pc'[s] = pc[s] /\ seenWrite'[s] = seenWrite[s]
    BY <2>1
  <2>4. Observing
    BY Zenon
  <2> HIDE DEF Inv, TypeInv, Pulling, Sides, counts, Counted
  <2> QED BY <2>1, <2>2, <2>3, <2>4
<1>14. ASSUME NEW t \in Threads, ObserveReturn(t) PROVE Observing'
  BY <1>14 DEF ObserveReturn, Return
<1>15. ASSUME UNCHANGED vars PROVE Observing'
  BY <1>15 DEF vars
<1> QED BY Zenon, <1>1, <1>2, <1>3, <1>4, <1>5, <1>6, <1>7, <1>8, <1>9, <1>10, <1>11, <1>12, <1>13,
          <1>14, <1>15 DEF Next, Call, Step

(* The invariant is inductive. *)
LEMMA InvHolds == Spec => []Inv
<1>1. Inv /\ [Next]_vars => Inv'
  BY TypeInvStep, PullingStep, SidesStep, CountedStep, ClearingStep, ObservingStep DEF Inv
<1> QED BY InitInv, <1>1, PTL DEF Spec

(* For any number of threads, with and without the consumer locks: a push    *)
(* and a pull never meet in one std::queue.                                  *)
THEOREM SidesDisjointHolds == Spec => []SidesDisjoint
<1>1. Inv => SidesDisjoint
  BY DEF Inv, Sides, SidesDisjoint
<1> QED BY InvHolds, <1>1, PTL

(* With consumer = false, for any number of producers: clear() leaves only   *)
(* elements pushed after it was called.                                      *)
THEOREM ClearRemovesAllHolds == Spec => [](~MultiConsumer => ClearRemovesAll)
<1>1. Inv => (~MultiConsumer => ClearRemovesAll)
  BY DEF Inv, TypeInv, Clearing, ClearRemovesAll
<1> QED BY InvHolds, <1>1, PTL

(* With consumer = false, for any number of producers: when the thread that  *)
(* pulls finds the queue empty, every element pushed before its call is gone. *)
THEOREM EmptyIsTruthfulHolds ==
  Spec => [](~MultiConsumer /\ Observers \subseteq Consumers \cup Clearers => EmptyIsTruthful)
<1>1. Inv => (~MultiConsumer /\ Observers \subseteq Consumers \cup Clearers => EmptyIsTruthful)
  <2> SUFFICES ASSUME Inv, ~MultiConsumer, Observers \subseteq Consumers \cup Clearers,
                      NEW t \in Threads, At(t, "observe_done"), emptyResult(t)
               PROVE  removed >= pushesAtCall[t]
    BY DEF EmptyIsTruthful
  <2>1. t \in Consumers \cup Clearers
    BY DEF Inv, Pulling, ObservePCs, At
  <2>2. pushesAtCall[t] <= removed + seenRead[t] + seenWrite[t]
    BY <2>1 DEF Inv, Observing
  <2> QED BY <2>2 DEF Inv, TypeInv, emptyResult
<1> QED BY InvHolds, <1>1, PTL
-----------------------------------------------------------------------------
(* What the refinement needs beyond Inv.  The error code is set only by the *)
(* test that fails, the argument of push is kept, and from the test before  *)
(* swap() to its end the read side stays empty.                             *)
Calls ==
  /\ op \in [Threads -> TakeOps]
  /\ err \in [Threads -> {"SUCCESS", "NO_ELEMENT"}]
  /\ \A t \in Threads :
       /\ pc[t] \in {"idle", "take_swap", "swap_read", "take_front"} => value[t] = NoValue
       /\ pc[t] \in {"push_locked", "push_return"} => value[t] \in Values /\ t \in Producers
       /\ ~At(t, "take_return") => err[t] = "SUCCESS"
       /\ pc[t] \in {"take_swap", "swap_read"} => buffer[queueRead] = << >>

(* What a clear has taken out of the read side, which stays empty until the *)
(* clear reaches the write side.                                            *)
Draining ==
  /\ drained \in Seq(Values \cup {NoValue}) /\ Len(drained) <= removed
  /\ drained # << >> => \E t \in Threads : At(t, "clear_write")
  /\ \A t \in Threads : At(t, "clear_write") => buffer[queueRead] = << >>

(* The pushes begun before the bound was reached fit on top of it.          *)
Entered == {t \in Producers : At(t, "push_locked")}
Room == pushes + Cardinality(Entered) <= MaxPushes + Cardinality(Producers)

(* clear() is one critical section only if its caller is the one thread     *)
(* that pulls.                                                              *)
ClearUndisturbed == Clearers = {} \/ ~MultiConsumer

(* No push reaches the read side, and no second consumer is there. *)
LEMMA CallsStep ==
  ASSUME Inv, Calls, [Next]_vars
  PROVE  Calls'
<1> USE Inv, Calls DEF Inv, TypeInv, Pulling, Sides, Calls, Threads, TakePCs, ClearPCs, ObservePCs,
      OtherPCs, Buffers, At, Goto, shared, locals, counts
<1>1. ASSUME NEW t \in Producers, NEW v \in Values, PushCall(t, v) PROVE Calls'
  BY Zenon, <1>1 DEF PushCall
<1>2. ASSUME NEW t \in Consumers, NEW o \in TakeOps, TakeBegin(t, o) PROVE Calls'
  BY <1>2 DEF TakeBegin, MustSwap
<1>3. ASSUME NEW t \in Clearers, ClearRead(t) PROVE Calls'
  BY Zenon, <1>3 DEF ClearRead, Drain
<1>4. ASSUME NEW t \in Observers, ObserveRead(t) PROVE Calls'
  BY Zenon, <1>4 DEF ObserveRead
<1>5. ASSUME NEW t \in Threads, PushLocked(t) PROVE Calls'
  BY Zenon, <1>5 DEF PushLocked
<1>6. ASSUME NEW t \in Threads, PushReturn(t) PROVE Calls'
  <2> HIDE DEF Pulling, Sides, counts
  <2>1. /\ pc' = [pc EXCEPT ![t] = "idle"] /\ op' = [op EXCEPT ![t] = "pop"]
        /\ value' = [value EXCEPT ![t] = NoValue] /\ err' = [err EXCEPT ![t] = "SUCCESS"]
        /\ UNCHANGED <<buffer, queueRead>>
    BY Zenon, <1>6 DEF PushReturn, Return
  <2>2. op' \in [Threads -> TakeOps] /\ err' \in [Threads -> {"SUCCESS", "NO_ELEMENT"}]
    BY <2>1 DEF TakeOps
  <2> QED BY <2>1, <2>2
<1>7. ASSUME NEW t \in Threads, SwapWrite(t) PROVE Calls'
  BY Zenon, <1>7 DEF SwapWrite, NewWriteSide
<1>8. ASSUME NEW t \in Threads, SwapRead(t) PROVE Calls'
  BY Zenon, <1>8 DEF SwapRead, Other
<1>9. ASSUME NEW t \in Threads, TakeFront(t) PROVE Calls'
  <2>1. \A s \in Threads \ {t} : pc[s] \notin TakePCs
    BY Zenon, <1>9 DEF TakeFront
  <2>2. /\ pc' = [pc EXCEPT ![t] = "take_return"] /\ op' = op
        /\ err' = err \/ err' = [err EXCEPT ![t] = "NO_ELEMENT"]
        /\ value' = value \/ \E v : value' = [value EXCEPT ![t] = v]
    BY Zenon, <1>9 DEF TakeFront
  <2> HIDE DEF Pulling, Sides
  <2>3. op' \in [Threads -> TakeOps] /\ err' \in [Threads -> {"SUCCESS", "NO_ELEMENT"}]
    BY Zenon, <2>2
  <2>4. \A s \in Threads : s # t => pc'[s] = pc[s] /\ value'[s] = value[s] /\ err'[s] = err[s]
    BY <2>2
  <2>5. pc'[t] = "take_return"
    BY <2>2
  <2> QED BY Zenon, <2>1, <2>3, <2>4, <2>5
<1>10. ASSUME NEW t \in Threads, TakeReturn(t) PROVE Calls'
  BY Zenon, <1>10 DEF TakeReturn, Return, Unlocks, TakeOps
<1>11. ASSUME NEW t \in Threads, ClearWrite(t) PROVE Calls'
  BY Zenon, <1>11 DEF ClearWrite, Drain
<1>12. ASSUME NEW t \in Threads, ClearReturn(t) PROVE Calls'
  BY Zenon, <1>12 DEF ClearReturn, Return, TakeOps
<1>13. ASSUME NEW t \in Threads, ObserveWrite(t) PROVE Calls'
  <2> HIDE DEF Pulling, Sides, counts
  <2>1. pc' = [pc EXCEPT ![t] = "observe_done"] /\ UNCHANGED <<op, value, err, buffer, queueRead>>
    BY Zenon, <1>13 DEF ObserveWrite
  <2>2. pc[t] = "observe_write"
    BY Zenon, <1>13 DEF ObserveWrite
  <2>3. pc'[t] = "observe_done" /\ \A s \in Threads \ {t} : pc'[s] = pc[s]
    BY Zenon, <2>1
  <2> HIDE DEF Inv, TypeInv, TakePCs, ClearPCs, ObservePCs, OtherPCs, Buffers
  <2> QED BY <2>1, <2>2, <2>3
<1>14. ASSUME NEW t \in Threads, ObserveReturn(t) PROVE Calls'
  BY Zenon, <1>14 DEF ObserveReturn, Return, TakeOps
<1>15. ASSUME UNCHANGED vars PROVE Calls'
  BY Zenon, <1>15 DEF vars
<1> QED BY Zenon, <1>1, <1>2, <1>3, <1>4, <1>5, <1>6, <1>7, <1>8, <1>9, <1>10, <1>11, <1>12, <1>13,
          <1>14, <1>15 DEF Next, Call, Step

(* Between the two halves of a clear nobody pulls and nobody swaps. *)
LEMMA NoClear ==
  ASSUME ClearUndisturbed, Inv, NEW t \in Threads, pc[t] \in TakePCs
  PROVE  \A s \in Threads : ~At(s, "clear_write")
BY DEF ClearUndisturbed, Inv, Pulling, At, ClearPCs, TakePCs

LEMMA DrainingStep ==
  ASSUME ClearUndisturbed, Inv, Calls, Draining, [Next]_vars
  PROVE  Draining'
<1> USE ClearUndisturbed, Inv, Calls, Draining DEF ClearUndisturbed, Inv, TypeInv, Pulling, Sides,
      Calls, Draining, Threads, TakePCs, ClearPCs, ObservePCs,
      OtherPCs, Buffers, At, Goto, shared, locals, counts
<1>1. ASSUME NEW t \in Producers, NEW v \in Values, PushCall(t, v) PROVE Draining'
  BY Zenon, <1>1 DEF PushCall
<1>2. ASSUME NEW t \in Consumers, NEW o \in TakeOps, TakeBegin(t, o) PROVE Draining'
  BY Zenon, <1>2 DEF TakeBegin, MustSwap
<1>3. ASSUME NEW t \in Clearers, ClearRead(t) PROVE Draining'
  <2> HIDE DEF Sides, Calls
  <2>1. /\ pc' = [pc EXCEPT ![t] = "clear_write"] /\ queueRead' = queueRead
        /\ buffer' = [buffer EXCEPT ![queueRead] = << >>]
        /\ drained' = drained \o buffer[queueRead] /\ removed' = removed + Len(buffer[queueRead])
    BY Zenon, <1>3 DEF ClearRead, Drain
  <2>2. PICK S, r : /\ S = Values \cup {NoValue} /\ r = buffer[queueRead]
                    /\ r \in Seq(S) /\ drained \in Seq(S)
    OBVIOUS
  <2>3. drained \o r \in Seq(S) /\ Len(drained \o r) = Len(drained) + Len(r) /\ Len(r) \in Nat
    BY <2>2
  <2>4. Len(drained) \in Nat /\ Len(drained) <= removed /\ removed \in Nat
    BY <2>2
  <2>5. drained' \in Seq(Values \cup {NoValue}) /\ Len(drained') <= removed'
    <3> HIDE DEF Inv, TypeInv, Pulling
    <3>1. Len(drained) + Len(r) <= removed + Len(r)
      BY <2>3, <2>4
    <3> QED BY Zenon, <2>1, <2>2, <2>3, <3>1
  <2>6. pc'[t] = "clear_write" /\ buffer'[queueRead'] = << >>
    BY <2>1
  <2> QED BY Zenon, <2>5, <2>6
<1>4. ASSUME NEW t \in Observers, ObserveRead(t) PROVE Draining'
  BY Zenon, <1>4 DEF ObserveRead
<1>5. ASSUME NEW t \in Threads, PushLocked(t) PROVE Draining'
  BY Zenon, <1>5 DEF PushLocked
<1>6. ASSUME NEW t \in Threads, PushReturn(t) PROVE Draining'
  BY Zenon, <1>6 DEF PushReturn, Return
<1>7. ASSUME NEW t \in Threads, SwapWrite(t) PROVE Draining'
  BY Zenon, <1>7 DEF SwapWrite, NewWriteSide
<1>8. ASSUME NEW t \in Threads, SwapRead(t) PROVE Draining'
  <2>1. \A s \in Threads : ~At(s, "clear_write")
    BY Zenon, <1>8, NoClear DEF SwapRead
  <2> QED BY Zenon, <1>8, <2>1 DEF SwapRead, Other
<1>9. ASSUME NEW t \in Threads, TakeFront(t) PROVE Draining'
  <2>1. \A s \in Threads : ~At(s, "clear_write")
    BY Zenon, <1>9, NoClear DEF TakeFront
  <2>2. pc' = [pc EXCEPT ![t] = "take_return"] /\ drained' = drained
    BY Zenon, <1>9 DEF TakeFront
  <2>3. drained = << >> /\ Len(drained) = 0 /\ drained \in Seq(Values \cup {NoValue})
    BY Zenon, <2>1, EmptySeq
  <2>4. removed \in Nat /\ (removed' = removed \/ removed' = removed + 1)
    BY Zenon, <1>9 DEF TakeFront
  <2>5. \A s \in Threads : pc'[s] # "clear_write"
    <3> HIDE DEF Pulling, Sides, Calls
    <3> QED BY <2>1, <2>2
  <2> HIDE DEF Inv, TypeInv, Pulling, Sides, Calls
  <2>6. 0 <= removed'
    BY <2>4
  <2> QED BY Zenon, <2>2, <2>3, <2>5, <2>6
<1>10. ASSUME NEW t \in Threads, TakeReturn(t) PROVE Draining'
  BY Zenon, <1>10 DEF TakeReturn, Return, Unlocks
<1>11. ASSUME NEW t \in Threads, ClearWrite(t) PROVE Draining'
  <2>1. /\ drained' = << >> /\ removed' = removed + Len(buffer[queueWrite])
        /\ buffer' = [buffer EXCEPT ![queueWrite] = << >>] /\ queueRead' = queueRead
        /\ pc' = [pc EXCEPT ![t] = "clear_return"] /\ At(t, "clear_write")
    BY Zenon, <1>11 DEF ClearWrite, Drain
  <2>2. buffer'[queueRead'] = << >>
    BY Zenon, <2>1
  <2>3. Len(buffer[queueWrite]) \in Nat /\ removed \in Nat
    OBVIOUS
  <2> HIDE DEF Inv, TypeInv, Pulling, Sides, Calls
  <2>4. drained' \in Seq(Values \cup {NoValue}) /\ Len(drained') <= removed'
    BY <2>1, <2>3
  <2> QED BY Zenon, <2>1, <2>2, <2>4
<1>12. ASSUME NEW t \in Threads, ClearReturn(t) PROVE Draining'
  BY Zenon, <1>12 DEF ClearReturn, Return
<1>13. ASSUME NEW t \in Threads, ObserveWrite(t) PROVE Draining'
  BY Zenon, <1>13 DEF ObserveWrite
<1>14. ASSUME NEW t \in Threads, ObserveReturn(t) PROVE Draining'
  BY Zenon, <1>14 DEF ObserveReturn, Return
<1>15. ASSUME UNCHANGED vars PROVE Draining'
  BY Zenon, <1>15 DEF vars
<1> QED BY Zenon, <1>1, <1>2, <1>3, <1>4, <1>5, <1>6, <1>7, <1>8, <1>9, <1>10, <1>11, <1>12, <1>13,
          <1>14, <1>15 DEF Next, Call, Step

(* A step outside push leaves both sides of the bound alone. *)
LEMMA RoomKept ==
  ASSUME DOMAIN pc = Threads, NEW t \in Threads, pc[t] # "push_locked", NEW l, l # "push_locked",
         pc' = [pc EXCEPT ![t] = l], pushes' = pushes, Room
  PROVE  Room'
<1>1. \A s \in Threads : pc'[s] = "push_locked" <=> pc[s] = "push_locked"
  OBVIOUS
<1>2. Producers \subseteq Threads
  BY DEF Threads
<1>3. Entered' = Entered
  BY Zenon, <1>1, <1>2 DEF Entered, At
<1> QED BY Zenon, <1>3 DEF Room

(* A push that is entered moves from the set to the counter. *)
LEMMA RoomStep ==
  ASSUME IsFiniteSet(Producers), Inv, Calls, Room, [Next]_vars
  PROVE  Room'
<1>1. DOMAIN pc = Threads /\ pushes \in Nat /\ \A s \in Threads : At(s, "push_locked") => s \in Producers
  BY Zenon DEF Inv, TypeInv, Calls, At
<1> USE <1>1 DEF At, Goto, counts
<1>2. ASSUME NEW t \in Producers, NEW v \in Values, PushCall(t, v) PROVE Room'
  <2>1. Cardinality(Entered') <= Cardinality(Producers) /\ Cardinality(Entered') \in Nat
    <3>1. Entered' \subseteq Producers
      BY Zenon DEF Entered
    <3> QED BY Zenon, <3>1, FS_Subset, FS_CardinalityType
  <2>2. Cardinality(Producers) \in Nat
    BY Zenon, FS_CardinalityType
  <2>3. pushes' = pushes /\ pushes < MaxPushes /\ pushes \in Nat
    BY Zenon, <1>2 DEF PushCall
  <2> QED BY <2>1, <2>2, <2>3, DoubleBufferAssumption DEF Room
<1>3. ASSUME NEW t \in Consumers, NEW o \in TakeOps, TakeBegin(t, o) PROVE Room'
  BY Zenon, <1>3, RoomKept DEF TakeBegin, Threads
<1>4. ASSUME NEW t \in Clearers, ClearRead(t) PROVE Room'
  BY Zenon, <1>4, RoomKept DEF ClearRead, Threads
<1>5. ASSUME NEW t \in Observers, ObserveRead(t) PROVE Room'
  BY Zenon, <1>5, RoomKept DEF ObserveRead, Threads
<1>6. ASSUME NEW t \in Threads, PushLocked(t) PROVE Room'
  <2>1. IsFiniteSet(Entered)
    <3>1. Entered \subseteq Producers
      BY Zenon DEF Entered
    <3> QED BY Zenon, <3>1, FS_Subset
  <2>2. t \in Entered /\ Entered' = Entered \ {t}
    <3>1. /\ pc[t] = "push_locked" /\ pc' = [pc EXCEPT ![t] = "push_return"] /\ t \in Producers
          /\ Producers \subseteq Threads
      BY Zenon, <1>6 DEF PushLocked, Threads
    <3>2. \A s \in Threads : pc'[s] = "push_locked" <=> s # t /\ pc[s] = "push_locked"
      BY <3>1
    <3> QED BY Zenon, <3>1, <3>2 DEF Entered
  <2>3. Cardinality(Entered') = Cardinality(Entered) - 1
    BY Zenon, <2>1, <2>2, FS_RemoveElement
  <2>4. Cardinality(Entered) \in Nat /\ Cardinality(Producers) \in Nat
    BY Zenon, <2>1, FS_CardinalityType
  <2>5. pushes' = pushes + 1 /\ pushes \in Nat
    BY Zenon, <1>6 DEF PushLocked
  <2> QED BY <2>3, <2>4, <2>5 DEF Room
<1>7. ASSUME NEW t \in Threads, PushReturn(t) PROVE Room'
  BY Zenon, <1>7, RoomKept DEF PushReturn, Return
<1>8. ASSUME NEW t \in Threads, SwapWrite(t) PROVE Room'
  BY Zenon, <1>8, RoomKept DEF SwapWrite
<1>9. ASSUME NEW t \in Threads, SwapRead(t) PROVE Room'
  BY Zenon, <1>9, RoomKept DEF SwapRead
<1>10. ASSUME NEW t \in Threads, TakeFront(t) PROVE Room'
  BY Zenon, <1>10, RoomKept DEF TakeFront
<1>11. ASSUME NEW t \in Threads, TakeReturn(t) PROVE Room'
  BY Zenon, <1>11, RoomKept DEF TakeReturn, Return
<1>12. ASSUME NEW t \in Threads, ClearWrite(t) PROVE Room'
  BY Zenon, <1>12, RoomKept DEF ClearWrite
<1>13. ASSUME NEW t \in Threads, ClearReturn(t) PROVE Room'
  BY Zenon, <1>13, RoomKept DEF ClearReturn, Return
<1>14. ASSUME NEW t \in Threads, ObserveWrite(t) PROVE Room'
  BY Zenon, <1>14, RoomKept DEF ObserveWrite
<1>15. ASSUME NEW t \in Threads, ObserveReturn(t) PROVE Room'
  BY Zenon, <1>15, RoomKept DEF ObserveReturn, Return
<1>16. ASSUME UNCHANGED vars PROVE Room'
  BY Zenon, <1>16 DEF vars, Room, Entered
<1> QED BY Zenon, <1>2, <1>3, <1>4, <1>5, <1>6, <1>7, <1>8, <1>9, <1>10, <1>11, <1>12, <1>13, <1>14,
          <1>15, <1>16 DEF Next, Call, Step

RefInv == Inv /\ Calls /\ Draining /\ Room

(* Append, Head and Tail act on one end of a concatenation. *)
LEMMA ConcatAppend ==
  ASSUME NEW S, NEW s1 \in Seq(S), NEW s2 \in Seq(S), NEW e \in S
  PROVE  s1 \o Append(s2, e) = Append(s1 \o s2, e)
<1> DEFINE l == s1 \o Append(s2, e)
           r == Append(s1 \o s2, e)
           n == Len(s1) + Len(s2)
<1>1. Len(s1) \in Nat /\ Len(s2) \in Nat
  BY LenProperties
<1>2. Append(s2, e) \in Seq(S) /\ Len(Append(s2, e)) = Len(s2) + 1
  BY AppendProperties
<1>3. s1 \o s2 \in Seq(S) /\ Len(s1 \o s2) = n
  BY ConcatProperties
<1>4. l \in Seq(S) /\ Len(l) = n + 1
  BY <1>1, <1>2, ConcatProperties
<1>5. r \in Seq(S) /\ Len(r) = n + 1
  BY <1>3, AppendProperties
<1>6. ASSUME NEW i \in 1 .. n + 1 PROVE l[i] = r[i]
  <2>1. l[i] = IF i <= Len(s1) THEN s1[i] ELSE Append(s2, e)[i - Len(s1)]
    BY <1>1, <1>2, ConcatProperties
  <2>2. CASE i = n + 1
    <3>1. i - Len(s1) = Len(s2) + 1 /\ ~(i <= Len(s1))
      BY <1>1, <2>2
    <3> QED BY <1>3, <2>1, <2>2, <3>1, AppendProperties
  <2>3. CASE i \in 1 .. n
    <3>1. r[i] = (s1 \o s2)[i]
      BY <1>3, <2>3, AppendProperties
    <3>2. (s1 \o s2)[i] = IF i <= Len(s1) THEN s1[i] ELSE s2[i - Len(s1)]
      BY <2>3, ConcatProperties
    <3>3. ~(i <= Len(s1)) => i - Len(s1) \in 1 .. Len(s2)
      BY <1>1, <2>3
    <3> QED BY <2>1, <3>1, <3>2, <3>3, AppendProperties
  <2> QED BY <1>1, <2>2, <2>3
<1> HIDE DEF l, r
<1>7. l = r
  BY <1>4, <1>5, <1>6, SeqEqual
<1> QED BY <1>7 DEF l, r

LEMMA ConcatHeadTail ==
  ASSUME NEW S, NEW s1 \in Seq(S), NEW s2 \in Seq(S), s1 # << >>
  PROVE  /\ s1 \o s2 # << >>
         /\ Head(s1 \o s2) = Head(s1)
         /\ Tail(s1 \o s2) = Tail(s1) \o s2
<1> DEFINE c == s1 \o s2
           l == Tail(c)
           r == Tail(s1) \o s2
           n == Len(s1) + Len(s2)
<1>1. Len(s1) \in Nat \ {0} /\ Len(s2) \in Nat
  BY LenProperties, EmptySeq
<1>2. c \in Seq(S) /\ Len(c) = n /\ \A i \in 1 .. n : c[i] = IF i <= Len(s1) THEN s1[i]
                                                                      ELSE s2[i - Len(s1)]
  BY ConcatProperties
<1>3. c # << >>
  BY <1>1, <1>2, EmptySeq
<1>4. Head(c) = Head(s1)
  <2>1. c[1] = s1[1]
    BY <1>1, <1>2
  <2> HIDE DEF c
  <2> QED BY <1>2, <1>3, <2>1
<1>5. /\ Tail(s1) \in Seq(S) /\ Len(Tail(s1)) = Len(s1) - 1
      /\ \A i \in 1 .. Len(s1) - 1 : Tail(s1)[i] = s1[i + 1]
  BY HeadTailProperties
<1>6. l \in Seq(S) /\ Len(l) = n - 1 /\ \A i \in 1 .. n - 1 : l[i] = c[i + 1]
  <2> HIDE DEF c
  <2> QED BY <1>2, <1>3, HeadTailProperties
<1>7. r \in Seq(S) /\ Len(r) = n - 1
      /\ \A i \in 1 .. n - 1 : r[i] = IF i <= Len(s1) - 1 THEN Tail(s1)[i]
                                                          ELSE s2[i - (Len(s1) - 1)]
  BY <1>1, <1>5, ConcatProperties
<1>8. ASSUME NEW i \in 1 .. n - 1 PROVE l[i] = r[i]
  <2>1. i + 1 \in 1 .. n /\ l[i] = c[i + 1]
    BY <1>1, <1>6
  <2>2. CASE i <= Len(s1) - 1
    BY <1>1, <1>2, <1>5, <1>7, <2>1, <2>2
  <2>3. CASE ~(i <= Len(s1) - 1)
    <3>1. ~(i + 1 <= Len(s1)) /\ (i + 1) - Len(s1) = i - (Len(s1) - 1)
      BY <1>1, <2>3
    <3> QED BY <1>2, <1>7, <2>1, <2>3, <3>1
  <2> QED BY <2>2, <2>3
<1> HIDE DEF l, r
<1>9. l = r
  BY <1>6, <1>7, <1>8, SeqEqual
<1> QED BY <1>3, <1>4, <1>9 DEF l, r

(* The two sides, seen from either pointer. *)
LEMMA TwoSides ==
  ASSUME Inv
  PROVE  /\ queueRead \in Buffers /\ Other(queueRead) \in Buffers
         /\ Other(queueRead) # queueRead /\ Other(Other(queueRead)) = queueRead
         /\ ~writeLock => queueWrite = Other(queueRead)
  BY DEF Inv, TypeInv, Sides, Buffers, Other

(* The abstract queue is a sequence of no more elements than were pushed. *)
LEMMA QueueBar ==
  ASSUME Inv, Draining
  PROVE  /\ drained \in Seq(Values \cup {NoValue})
         /\ buffer[queueRead] \in Seq(Values \cup {NoValue})
         /\ buffer[Other(queueRead)] \in Seq(Values \cup {NoValue})
         /\ drained \o buffer[queueRead] \in Seq(Values \cup {NoValue})
         /\ queueBar \in Seq(Values \cup {NoValue})
         /\ Len(queueBar) \in Nat /\ Len(queueBar) <= pushes
<1> DEFINE R == buffer[queueRead]
           W == buffer[Other(queueRead)]
           a == Len(buffer["A"])
           b == Len(buffer["B"])
           d == Len(drained)
           r == Len(R)
           w == Len(W)
<1>1. /\ drained \in Seq(Values \cup {NoValue})
      /\ R \in Seq(Values \cup {NoValue}) /\ W \in Seq(Values \cup {NoValue})
      /\ buffer["A"] \in Seq(Values \cup {NoValue}) /\ buffer["B"] \in Seq(Values \cup {NoValue})
  BY TwoSides DEF Inv, TypeInv, Draining, Buffers
<1>2. a \in Nat /\ b \in Nat /\ d \in Nat /\ r \in Nat /\ w \in Nat
  BY <1>1, LenProperties
<1>3. (r = a /\ w = b) \/ (r = b /\ w = a)
  BY DEF Inv, TypeInv, Buffers, Other
<1>4. drained \o R \in Seq(Values \cup {NoValue}) /\ Len(drained \o R) = d + r
  BY <1>1, ConcatProperties
<1>5. queueBar \in Seq(Values \cup {NoValue}) /\ Len(queueBar) = d + r + w
  BY <1>1, <1>4, ConcatProperties DEF queueBar
<1>6. pushes = removed + a + b /\ d <= removed /\ removed \in Nat
  BY DEF Inv, TypeInv, Counted, Draining
<1>7. Len(queueBar) \in Nat /\ Len(queueBar) <= pushes
  <2> HIDE DEF a, b, d, r, w
  <2>1. d + r + w <= pushes
    BY <1>2, <1>3, <1>6
  <2> QED BY <1>2, <1>5, <2>1
<1> QED BY Zenon, <1>1, <1>4, <1>5, <1>7

(* The call of a thread that a step neither moves nor affects. *)
LEMMA CallUnchanged ==
  ASSUME NEW t \in Threads,
         pc'[t] = pc[t], op'[t] = op[t], value'[t] = value[t], err'[t] = err[t],
         At(t, "take_front") => (buffer[queueRead])' = buffer[queueRead]
  PROVE  callOf(t)' = callOf(t)
  BY DEF callOf, callRecord, At

(* A step of thread t changes no other thread's call: what a consumer       *)
(* about to touch the read side finds there is not changed under it.        *)
LEMMA CallOfOthers ==
  ASSUME NEW t \in Threads,
         \A s \in Threads \ {t} :
           /\ pc'[s] = pc[s] /\ op'[s] = op[s] /\ value'[s] = value[s] /\ err'[s] = err[s]
           /\ At(s, "take_front") => (buffer[queueRead])' = buffer[queueRead]
  PROVE  callBar' = [callBar EXCEPT ![t] = callOf(t)']
<1>1. ASSUME NEW s \in Threads \ {t} PROVE callOf(s)' = callOf(s)
  BY CallUnchanged
<1> QED BY Zenon, <1>1 DEF callBar

(* A step that leaves the elements and the call of its own thread alone is  *)
(* invisible to the callers.                                                *)
LEMMA Invisible ==
  ASSUME NEW t \in Threads, callBar' = [callBar EXCEPT ![t] = callOf(t)'],
         callOf(t)' = callOf(t), queueBar' = queueBar
  PROVE  UNCHANGED Fifo!vars
  BY Zenon DEF callBar, Fifo!vars

(* A call is entered. *)
LEMMA CallEntered ==
  ASSUME NEW t \in Threads, NEW o \in Fifo!Operations, NEW v \in Values \cup {NoValue},
         callBar' = [callBar EXCEPT ![t] = callOf(t)'], callOf(t) = Fifo!NoCall,
         callOf(t)' = Fifo!Pending(o, v), (o = "push") <=> (v # NoValue),
         queueBar' = queueBar
  PROVE  Fifo!Next
<1>1. Fifo!Invoke(t, o, v)
  BY DEF Fifo!Invoke, callBar
<1> QED BY Zenon, <1>1 DEF Fifo!Next

(* A call takes effect. *)
LEMMA CallEffect ==
  ASSUME NEW t \in Threads, NEW o, NEW v, NEW w, NEW e,
         callBar' = [callBar EXCEPT ![t] = callOf(t)'],
         callOf(t) = Fifo!Pending(o, v), callOf(t)' = Fifo!Done(o, w, e)
  PROVE  /\ callBar[t].op = o /\ callBar[t].value = v /\ callBar[t].err = "pending"
         /\ Fifo!Finish(t, w, e)
<1>1. callBar[t].op = o /\ callBar[t].value = v /\ callBar[t].err = "pending"
  BY DEF callBar, Fifo!Pending
<1>2. callBar' = [callBar EXCEPT ![t] = Fifo!Done(callBar[t].op, w, e)]
  BY <1>1
<1> QED BY <1>1, <1>2 DEF Fifo!Finish

(* A call returns. *)
LEMMA CallReturned ==
  ASSUME NEW t \in Threads, callBar' = [callBar EXCEPT ![t] = callOf(t)'],
         callOf(t).err \in Fifo!Errors, callOf(t)' = Fifo!NoCall, queueBar' = queueBar
  PROVE  Fifo!Next
<1>1. Fifo!Return(t)
  BY DEF Fifo!Return, callBar
<1> QED BY Zenon, <1>1 DEF Fifo!Next

(* One thread at a time pulls: while a consumer is inside take, no other    *)
(* thread is, nor is one between the halves of clear().                     *)
LEMMA PullsAlone ==
  ASSUME ClearUndisturbed, Inv, Draining, NEW t \in Threads,
         pc[t] \in TakePCs \/ At(t, "clear_write")
  PROVE  /\ \A s \in Threads \ {t} : ~At(s, "take_front")
         /\ pc[t] \in TakePCs => drained = << >>
<1>1. \A s \in Threads \ {t} : pc[s] \notin TakePCs
  BY DEF ClearUndisturbed, Inv, Pulling, At, ClearPCs
<1>2. pc[t] \in TakePCs => \A s \in Threads : ~At(s, "clear_write")
  BY DEF ClearUndisturbed, Inv, Pulling, At, ClearPCs, TakePCs
<1> QED BY <1>1, <1>2 DEF Draining, At, TakePCs

(* The steps of push, seen from the callers. *)
LEMMA PushRefines ==
  ASSUME IsFiniteSet(Producers), RefInv, NEW t \in Threads, PushLocked(t) \/ PushReturn(t)
  PROVE  Fifo!Next
<1>1. /\ pc \in [Threads -> TakePCs \cup ClearPCs \cup ObservePCs \cup OtherPCs]
      /\ buffer \in [Buffers -> Seq(Values \cup {NoValue})]
      /\ value \in [Threads -> Values \cup {NoValue}] /\ op \in [Threads -> TakeOps]
      /\ err \in [Threads -> {"SUCCESS", "NO_ELEMENT"}] /\ pushes \in Nat
  BY Zenon DEF RefInv, Inv, TypeInv, Calls
<1>2. PICK v \in Values : value[t] = v
  BY Zenon DEF RefInv, Calls, PushLocked, PushReturn, At
<1>3. CASE PushLocked(t)
  <2>1. /\ queueWrite = Other(queueRead) /\ queueRead' = queueRead /\ drained' = drained
        /\ buffer'[queueRead] = buffer[queueRead]
        /\ buffer'[Other(queueRead)] = Append(buffer[Other(queueRead)], v)
    BY Zenon, <1>1, <1>2, <1>3, TwoSides DEF PushLocked, RefInv
  <2>2. callBar' = [callBar EXCEPT ![t] = callOf(t)']
    BY <1>1, <1>3, <2>1, CallOfOthers DEF PushLocked, Goto, locals
  <2>3. callOf(t) = Fifo!Pending("push", v)
    BY <1>2, <1>3 DEF PushLocked, callOf, callRecord, At, Fifo!Pending
  <2>4. callOf(t)' = Fifo!Done("push", v, "SUCCESS")
    BY <1>1, <1>2, <1>3 DEF PushLocked, Goto, locals, callOf, callRecord, At, Fifo!Done
  <2>5. /\ callBar[t].op = "push" /\ callBar[t].value = v /\ callBar[t].err = "pending"
        /\ Fifo!Finish(t, v, "SUCCESS")
    BY Zenon, <2>2, <2>3, <2>4, CallEffect
  <2>6. queueBar' = Append(queueBar, v)
    <3>1. queueBar' = (drained \o buffer[queueRead]) \o Append(buffer[Other(queueRead)], v)
      BY <2>1 DEF queueBar
    <3> DEFINE x == drained \o buffer[queueRead]
               y == buffer[Other(queueRead)]
    <3>2. /\ x \in Seq(Values \cup {NoValue}) /\ y \in Seq(Values \cup {NoValue})
          /\ v \in Values \cup {NoValue}
      BY QueueBar DEF RefInv
    <3>3. queueBar = x \o y /\ queueBar' = x \o Append(y, v)
      BY <3>1 DEF queueBar
    <3> HIDE DEF x, y
    <3>4. x \o Append(y, v) = Append(x \o y, v)
      BY <3>2, ConcatAppend
    <3> QED BY <3>3, <3>4
  <2>7. Len(queueBar) < MaxPushes + Cardinality(Producers)
    <3>1. IsFiniteSet(Entered) /\ t \in Entered
      BY Zenon, <1>3, FS_Subset DEF Entered, RefInv, Calls, PushLocked, At
    <3>2. Cardinality(Entered) \in Nat /\ Cardinality(Entered) # 0
      BY <3>1, FS_CardinalityType, FS_EmptySet
    <3>3. Cardinality(Producers) \in Nat
      BY FS_CardinalityType
    <3>4. Len(queueBar) \in Nat /\ Len(queueBar) <= pushes
      BY QueueBar DEF RefInv
    <3> QED BY <1>1, <3>2, <3>3, <3>4 DEF RefInv, Room
  <2>8. Fifo!PerformPush(t)
    BY <2>5, <2>6, <2>7 DEF Fifo!PerformPush, Fifo!IsPending
  <2> QED BY Zenon, <2>8 DEF Fifo!Next
<1>4. CASE PushReturn(t)
  <2>1. queueBar' = queueBar
    BY <1>4 DEF PushReturn, queueBar, shared, counts
  <2>2. callBar' = [callBar EXCEPT ![t] = callOf(t)']
    BY <1>1, <1>4, CallOfOthers DEF PushReturn, Return, Goto, shared
  <2>3. callOf(t).err \in Fifo!Errors
    BY <1>4 DEF PushReturn, callOf, callRecord, At, Fifo!Errors
  <2>4. callOf(t)' = Fifo!NoCall
    BY <1>1, <1>4 DEF PushReturn, Return, Goto, callOf, callRecord, At, Fifo!NoCall
  <2> QED BY Zenon, <2>1, <2>2, <2>3, <2>4, CallReturned
<1> QED BY <1>3, <1>4

(* The steps of pop, front and poll, seen from the callers. *)
LEMMA TakeRefines ==
  ASSUME ClearUndisturbed, RefInv, NEW t \in Threads,
         SwapWrite(t) \/ SwapRead(t) \/ TakeFront(t) \/ TakeReturn(t)
  PROVE  Fifo!Next \/ UNCHANGED Fifo!vars
<1>1. /\ pc \in [Threads -> TakePCs \cup ClearPCs \cup ObservePCs \cup OtherPCs]
      /\ buffer \in [Buffers -> Seq(Values \cup {NoValue})]
      /\ value \in [Threads -> Values \cup {NoValue}] /\ op \in [Threads -> TakeOps]
      /\ err \in [Threads -> {"SUCCESS", "NO_ELEMENT"}]
  BY DEF RefInv, Inv, TypeInv, Calls
<1>2. PICK o \in TakeOps : op[t] = o
  BY <1>1
<1>3. pc[t] \in TakePCs
  BY Zenon DEF TakePCs, SwapWrite, SwapRead, TakeFront, TakeReturn, At
<1>4. drained = << >> /\ \A s \in Threads \ {t} : ~At(s, "take_front")
  BY <1>3, PullsAlone DEF RefInv
<1>5. callBar' = [callBar EXCEPT ![t] = callOf(t)']
  <2>1. \A s \in Threads \ {t} :
          pc'[s] = pc[s] /\ op'[s] = op[s] /\ value'[s] = value[s] /\ err'[s] = err[s]
    BY Zenon, <1>1 DEF SwapWrite, SwapRead, TakeFront, TakeReturn, Return, Goto, locals
  <2> QED BY Zenon, <1>4, <2>1, CallOfOthers
<1>6. CASE SwapWrite(t)
  <2>1. queueBar' = queueBar
    BY <1>6 DEF SwapWrite, queueBar, counts
  <2>2. callOf(t)' = callOf(t)
    BY <1>1, <1>6 DEF SwapWrite, Goto, locals, callOf, callRecord, At
  <2> QED BY Zenon, <1>5, <2>1, <2>2, Invisible
<1>7. CASE SwapRead(t)
  <2>1. /\ buffer[queueRead] = << >> /\ queueRead' = Other(queueRead) /\ drained' = drained
        /\ buffer' = buffer /\ Other(queueRead') = queueRead
    BY Zenon, <1>7, TwoSides DEF SwapRead, RefInv, Calls, counts, At
  <2>2. queueBar' = (<< >> \o buffer[Other(queueRead)]) \o << >>
    BY Zenon, <1>4, <2>1 DEF queueBar
  <2>3. queueBar = (<< >> \o << >>) \o buffer[Other(queueRead)]
    BY <1>4, <2>1 DEF queueBar
  <2>4. buffer[Other(queueRead)] \in Seq(Values \cup {NoValue})
    BY QueueBar DEF RefInv
  <2>5. queueBar' = buffer[Other(queueRead)] /\ queueBar = buffer[Other(queueRead)]
    BY <2>2, <2>3, <2>4, ConcatEmptySeq, EmptySeq
  <2>6. callOf(t) = Fifo!Pending(o, NoValue)
    BY <1>2, <1>7 DEF SwapRead, callOf, callRecord, At, Fifo!Pending
  <2>7. pc'[t] = "take_front" /\ op' = op
    BY <1>1, <1>7 DEF SwapRead, Goto, locals
  <2>8. CASE buffer[Other(queueRead)] = << >>
    <3>1. callOf(t)' = Fifo!Done(o, NoValue, "NO_ELEMENT")
      BY <1>2, <2>1, <2>7, <2>8 DEF callOf, callRecord, At, Fifo!Done
    <3>2. /\ callBar[t].op = o /\ callBar[t].value = NoValue /\ callBar[t].err = "pending"
          /\ Fifo!Finish(t, NoValue, "NO_ELEMENT")
      BY Zenon, <1>5, <2>6, <3>1, CallEffect
    <3>3. Fifo!PerformTake(t)
      BY Zenon, <2>5, <2>8, <3>2 DEF Fifo!PerformTake, Fifo!IsPending, TakeOps
    <3> QED BY Zenon, <3>3 DEF Fifo!Next
  <2>9. CASE buffer[Other(queueRead)] # << >>
    <3>1. callOf(t)' = callOf(t)
      BY <1>2, <2>1, <2>6, <2>7, <2>9 DEF callOf, callRecord, At, Fifo!Pending
    <3> QED BY Zenon, <1>5, <2>5, <3>1, Invisible
  <2> QED BY <2>8, <2>9
<1>8. CASE TakeFront(t)
  <2> DEFINE R == buffer[queueRead]
             W == buffer[Other(queueRead)]
  <2>1. /\ At(t, "take_front") /\ value[t] = NoValue /\ err[t] = "SUCCESS"
        /\ pc'[t] = "take_return" /\ op' = op /\ queueRead' = queueRead /\ drained' = drained
    BY <1>1, <1>8 DEF TakeFront, Goto, RefInv, Calls, At
  <2>2. R \in Seq(Values \cup {NoValue}) /\ W \in Seq(Values \cup {NoValue})
    BY QueueBar DEF RefInv
  <2>3. queueBar = R \o W
    BY Zenon, <1>4, <2>2, ConcatEmptySeq DEF queueBar
  <2>4. CASE R = << >>
    <3>1. buffer' = buffer /\ err'[t] = "NO_ELEMENT" /\ value'[t] = NoValue
      BY <1>1, <1>8, <2>1, <2>4 DEF TakeFront
    <3>2. queueBar' = queueBar
      BY Zenon, <2>1, <3>1 DEF queueBar
    <3>3. callOf(t)' = callOf(t)
      BY <1>2, <2>1, <2>4, <3>1 DEF callOf, callRecord, At
    <3> QED BY Zenon, <1>5, <3>2, <3>3, Invisible
  <2>5. CASE R # << >>
    <3>1. callOf(t) = Fifo!Pending(o, NoValue)
      BY <1>2, <2>1, <2>5 DEF callOf, callRecord, At, Fifo!Pending
    <3>2. PICK w : w = IF o = "pop" THEN NoValue ELSE Head(queueBar)
      OBVIOUS
    <3>3. queueBar # << >> /\ Head(queueBar) = Head(R) /\ Tail(queueBar) = Tail(R) \o W
      BY Zenon, <2>2, <2>3, <2>5, ConcatHeadTail
    <3>4. value'[t] = w /\ err'[t] = "SUCCESS"
      BY Zenon, <1>1, <1>2, <1>8, <2>1, <2>5, <3>2, <3>3 DEF TakeFront
    <3>5. callOf(t)' = Fifo!Done(o, w, "SUCCESS")
      BY <1>2, <2>1, <3>4 DEF callOf, callRecord, At, Fifo!Done
    <3>6. /\ callBar[t].op = o /\ callBar[t].value = NoValue /\ callBar[t].err = "pending"
          /\ Fifo!Finish(t, w, "SUCCESS")
      BY Zenon, <1>5, <3>1, <3>5, CallEffect
    <3>7. queueBar' = IF o = "front" THEN queueBar ELSE Tail(queueBar)
      <4>1. CASE o = "front"
        <5>1. buffer' = buffer
          BY <1>2, <1>8, <2>5, <4>1 DEF TakeFront
        <5> QED BY Zenon, <2>1, <4>1, <5>1 DEF queueBar
      <4>2. CASE o # "front"
        <5>1. buffer'[queueRead] = Tail(R) /\ buffer'[Other(queueRead)] = W
          BY <1>1, <1>2, <1>8, <2>5, <4>2, TwoSides DEF TakeFront, RefInv
        <5>2. Tail(R) \in Seq(Values \cup {NoValue})
          BY Zenon, <2>2, <2>5, HeadTailProperties
        <5>3. queueBar' = (<< >> \o Tail(R)) \o W
          BY Zenon, <1>4, <2>1, <5>1 DEF queueBar
        <5> QED BY Zenon, <3>3, <4>2, <5>2, <5>3, ConcatEmptySeq
      <4> QED BY <4>1, <4>2
    <3>8. Fifo!PerformTake(t)
      BY Zenon, <3>2, <3>3, <3>6, <3>7 DEF Fifo!PerformTake, Fifo!IsPending, TakeOps
    <3> QED BY Zenon, <3>8 DEF Fifo!Next
  <2> QED BY Zenon, <2>4, <2>5
<1>9. CASE TakeReturn(t)
  <2>1. queueBar' = queueBar
    BY <1>9 DEF TakeReturn, queueBar, counts
  <2>2. callOf(t).err \in Fifo!Errors
    BY <1>1, <1>9 DEF TakeReturn, callOf, callRecord, At, Fifo!Errors
  <2>3. callOf(t)' = Fifo!NoCall
    BY <1>1, <1>9 DEF TakeReturn, Return, Goto, callOf, callRecord, At, Fifo!NoCall
  <2> QED BY Zenon, <1>5, <2>1, <2>2, <2>3, CallReturned
<1> QED BY <1>6, <1>7, <1>8, <1>9

(* The steps of clear, seen from the callers. *)
LEMMA ClearRefines ==
  ASSUME ClearUndisturbed, RefInv, NEW t \in Threads, ClearWrite(t) \/ ClearReturn(t)
  PROVE  Fifo!Next
<1>1. /\ pc \in [Threads -> TakePCs \cup ClearPCs \cup ObservePCs \cup OtherPCs]
      /\ buffer \in [Buffers -> Seq(Values \cup {NoValue})]
      /\ value \in [Threads -> Values \cup {NoValue}] /\ op \in [Threads -> TakeOps]
      /\ err \in [Threads -> {"SUCCESS", "NO_ELEMENT"}]
  BY DEF RefInv, Inv, TypeInv, Calls
<1>2. CASE ClearWrite(t)
  <2>1. \A s \in Threads \ {t} : ~At(s, "take_front")
    BY <1>2, PullsAlone DEF ClearWrite, RefInv
  <2>2. callBar' = [callBar EXCEPT ![t] = callOf(t)']
    BY <1>1, <1>2, <2>1, CallOfOthers DEF ClearWrite, Goto, locals
  <2>3. callOf(t) = Fifo!Pending("clear", NoValue)
    BY <1>2 DEF ClearWrite, callOf, callRecord, At, Fifo!Pending
  <2>4. callOf(t)' = Fifo!Done("clear", NoValue, "SUCCESS")
    BY <1>1, <1>2 DEF ClearWrite, Goto, callOf, callRecord, At, Fifo!Done
  <2>5. /\ callBar[t].op = "clear" /\ callBar[t].value = NoValue /\ callBar[t].err = "pending"
        /\ Fifo!Finish(t, NoValue, "SUCCESS")
    BY Zenon, <2>2, <2>3, <2>4, CallEffect
  <2>6. buffer[queueRead] = << >> /\ queueWrite = Other(queueRead)
    BY Zenon, <1>2, TwoSides DEF ClearWrite, RefInv, Draining
  <2>7. /\ drained' = << >> /\ queueRead' = queueRead
        /\ buffer'[queueRead] = << >> /\ buffer'[Other(queueRead)] = << >>
    BY <1>1, <1>2, <2>6, TwoSides DEF ClearWrite, Drain, RefInv
  <2>8. queueBar' = (<< >> \o << >>) \o << >>
    BY <2>7 DEF queueBar
  <2>9. queueBar' = << >>
    BY <2>8, ConcatEmptySeq, EmptySeq
  <2>10. Fifo!PerformClear(t)
    BY <2>5, <2>9 DEF Fifo!PerformClear, Fifo!IsPending
  <2> QED BY Zenon, <2>10 DEF Fifo!Next
<1>3. CASE ClearReturn(t)
  <2>1. queueBar' = queueBar
    BY <1>3 DEF ClearReturn, queueBar, shared, counts
  <2>2. callBar' = [callBar EXCEPT ![t] = callOf(t)']
    BY <1>1, <1>3, CallOfOthers DEF ClearReturn, Return, Goto, shared
  <2>3. callOf(t).err \in Fifo!Errors
    BY <1>3 DEF ClearReturn, callOf, callRecord, At, Fifo!Errors
  <2>4. callOf(t)' = Fifo!NoCall
    BY <1>1, <1>3 DEF ClearReturn, Return, Goto, callOf, callRecord, At, Fifo!NoCall
  <2> QED BY Zenon, <2>1, <2>2, <2>3, <2>4, CallReturned
<1> QED BY <1>2, <1>3

(* The first steps of push, pop, front, poll and clear, seen from the       *)
(* callers.                                                                 *)
LEMMA CallRefines ==
  ASSUME ClearUndisturbed, RefInv, Call
  PROVE  Fifo!Next \/ UNCHANGED Fifo!vars
<1>1. /\ pc \in [Threads -> TakePCs \cup ClearPCs \cup ObservePCs \cup OtherPCs]
      /\ buffer \in [Buffers -> Seq(Values \cup {NoValue})]
      /\ value \in [Threads -> Values \cup {NoValue}] /\ op \in [Threads -> TakeOps]
      /\ err \in [Threads -> {"SUCCESS", "NO_ELEMENT"}]
  BY DEF RefInv, Inv, TypeInv, Calls
<1>2. ASSUME NEW t \in Producers, NEW v \in Values, PushCall(t, v) PROVE Fifo!Next
  <2>1. t \in Threads
    BY DEF Threads
  <2>2. callBar' = [callBar EXCEPT ![t] = callOf(t)']
    BY <1>1, <1>2, <2>1, CallOfOthers DEF PushCall, Goto, shared
  <2>3. callOf(t) = Fifo!NoCall
    BY <1>2 DEF PushCall, callOf, callRecord, At, Fifo!NoCall
  <2>4. callOf(t)' = Fifo!Pending("push", v)
    BY <1>1, <1>2, <2>1 DEF PushCall, Goto, callOf, callRecord, At, Fifo!Pending
  <2>5. queueBar' = queueBar
    BY <1>2 DEF PushCall, queueBar, shared, counts
  <2> QED BY Zenon, <2>1, <2>2, <2>3, <2>4, <2>5, CallEntered DEF Fifo!Operations
<1>3. ASSUME NEW t \in Consumers, NEW o \in TakeOps, TakeBegin(t, o) PROVE Fifo!Next
  <2>1. t \in Threads
    BY DEF Threads
  <2>2. callBar' = [callBar EXCEPT ![t] = callOf(t)']
    BY <1>1, <1>3, <2>1, CallOfOthers DEF TakeBegin, Goto
  <2>3. callOf(t) = Fifo!NoCall
    BY <1>3 DEF TakeBegin, callOf, callRecord, At, Fifo!NoCall
  <2>4. callOf(t)' = Fifo!Pending(o, NoValue)
    BY <1>1, <1>3, <2>1 DEF TakeBegin, MustSwap, Goto, callOf, callRecord, At, Fifo!Pending
  <2>5. queueBar' = queueBar
    BY <1>3 DEF TakeBegin, queueBar, counts
  <2>6. o \in Fifo!Operations /\ o # "push"
    BY DEF TakeOps, Fifo!Operations
  <2> QED BY Zenon, <2>1, <2>2, <2>3, <2>4, <2>5, <2>6, CallEntered
<1>4. ASSUME NEW t \in Clearers, ClearRead(t) PROVE Fifo!Next
  <2>1. t \in Threads
    BY DEF Threads
  <2>2. \A s \in Threads \ {t} : ~At(s, "take_front")
    BY <2>1 DEF ClearUndisturbed, RefInv, Inv, Pulling, TakePCs, At
  <2>3. callBar' = [callBar EXCEPT ![t] = callOf(t)']
    BY <1>1, <1>4, <2>1, <2>2, CallOfOthers DEF ClearRead, Goto
  <2>4. callOf(t) = Fifo!NoCall
    BY <1>4 DEF ClearRead, callOf, callRecord, At, Fifo!NoCall
  <2>5. callOf(t)' = Fifo!Pending("clear", NoValue)
    BY <1>1, <1>4, <2>1 DEF ClearRead, Goto, callOf, callRecord, At, Fifo!Pending
  <2>6. queueBar' = queueBar
    <3> DEFINE x == drained \o buffer[queueRead]
    <3>1. /\ drained' = x /\ queueRead' = queueRead
          /\ buffer'[queueRead] = << >> /\ buffer'[Other(queueRead)] = buffer[Other(queueRead)]
      BY <1>1, <1>4, TwoSides DEF ClearRead, Drain, RefInv
    <3>2. x \in Seq(Values \cup {NoValue})
      BY QueueBar DEF RefInv
    <3>3. queueBar' = (x \o << >>) \o buffer[Other(queueRead)]
      BY <3>1 DEF queueBar
    <3>4. queueBar = x \o buffer[Other(queueRead)]
      BY DEF queueBar
    <3> HIDE DEF x
    <3> QED BY Zenon, <3>2, <3>3, <3>4, ConcatEmptySeq
  <2> QED BY Zenon, <2>1, <2>3, <2>4, <2>5, <2>6, CallEntered DEF Fifo!Operations
<1>5. ASSUME NEW t \in Observers, ObserveRead(t) PROVE UNCHANGED Fifo!vars
  <2>1. t \in Threads
    BY DEF Threads
  <2>2. callBar' = [callBar EXCEPT ![t] = callOf(t)']
    BY <1>1, <1>5, <2>1, CallOfOthers DEF ObserveRead, Goto, shared
  <2>3. callOf(t)' = callOf(t)
    BY <1>1, <1>5, <2>1 DEF ObserveRead, Goto, callOf, callRecord, At
  <2>4. queueBar' = queueBar
    BY <1>5 DEF ObserveRead, queueBar, shared, counts
  <2> QED BY Zenon, <2>1, <2>2, <2>3, <2>4, Invisible
<1> QED BY Zenon, <1>2, <1>3, <1>4, <1>5 DEF Call

(* Every step of the two buffers is a step of the abstract queue or         *)
(* invisible to the callers.                                                *)
LEMMA StepRefines ==
  ASSUME IsFiniteSet(Producers), ClearUndisturbed, RefInv, [Next]_vars
  PROVE  [Fifo!Next]_(Fifo!vars)
<1>1. /\ pc \in [Threads -> TakePCs \cup ClearPCs \cup ObservePCs \cup OtherPCs]
      /\ value \in [Threads -> Values \cup {NoValue}] /\ op \in [Threads -> TakeOps]
      /\ err \in [Threads -> {"SUCCESS", "NO_ELEMENT"}]
  BY DEF RefInv, Inv, TypeInv, Calls
<1>2. ASSUME NEW t \in Threads, ObserveWrite(t) \/ ObserveReturn(t)
      PROVE  UNCHANGED Fifo!vars
  <2>1. callBar' = [callBar EXCEPT ![t] = callOf(t)']
    BY <1>1, <1>2, CallOfOthers DEF ObserveWrite, ObserveReturn, Return, Goto, shared
  <2>2. callOf(t)' = callOf(t)
    BY <1>1, <1>2 DEF ObserveWrite, ObserveReturn, Return, Goto, callOf, callRecord, At
  <2>3. queueBar' = queueBar
    BY Zenon, <1>2 DEF ObserveWrite, ObserveReturn, queueBar, shared, counts
  <2> QED BY Zenon, <2>1, <2>2, <2>3, Invisible
<1>3. CASE UNCHANGED vars
  <2>1. queueBar' = queueBar
    BY <1>3 DEF vars, shared, counts, queueBar
  <2>2. \A t \in Threads : callOf(t)' = callOf(t)
    BY Zenon, <1>3, CallUnchanged DEF vars, shared, locals
  <2> QED BY Zenon, <2>1, <2>2 DEF Fifo!vars, callBar
<1>4. ASSUME NEW t \in Threads, Step(t) PROVE Fifo!Next \/ UNCHANGED Fifo!vars
  BY Zenon, <1>2, <1>4, PushRefines, TakeRefines, ClearRefines DEF Step
<1> QED BY Zenon, <1>3, <1>4, CallRefines DEF Next

(* The abstract queue and the abstract calls at the start. *)
LEMMA InitRefines == ASSUME IsFiniteSet(Producers), Init PROVE RefInv /\ Fifo!Init
<1>1. Inv
  BY InitInv
<1>2. Calls
  BY DEF Init, Calls, At, TakeOps
<1>3. Draining
  BY EmptySeq DEF Init, Draining, At
<1>4. Room
  <2>1. Entered = {} /\ pushes = 0
    BY DEF Init, Entered, At, Threads
  <2>2. Cardinality(Entered) = 0 /\ Cardinality(Producers) \in Nat
    BY <2>1, FS_EmptySet, FS_CardinalityType
  <2> QED BY <2>1, <2>2 DEF Room
<1>5. queueBar = << >>
  <2>1. queueBar = (<< >> \o << >>) \o << >>
    BY DEF Init, queueBar, Other, Buffers
  <2> QED BY <2>1, ConcatEmptySeq, EmptySeq
<1>6. ASSUME NEW t \in Threads PROVE callOf(t) = Fifo!NoCall
  BY DEF Init, callOf, callRecord, At, Fifo!NoCall
<1>7. Fifo!Init
  BY Zenon, <1>5, <1>6 DEF Fifo!Init, callBar
<1> QED BY <1>1, <1>2, <1>3, <1>4, <1>7 DEF RefInv

(* For any number of producers, consumers and observers and any number of   *)
(* pushes, the two buffers of DoubleBufferQueue.h are one linearizable FIFO *)
(* queue: push, pop, front, poll and clear (lines 65-119 and 137-238) each  *)
(* take effect at one instant and report the error code of that instant,    *)
(* with the consumer locks as long as nobody calls clear(), and without     *)
(* them also when the one thread that pulls calls it.                       *)
THEOREM Linearizable ==
  ASSUME IsFiniteSet(Producers), ClearUndisturbed
  PROVE  Spec => IsLinearizable
<1>1. Init => RefInv /\ Fifo!Init
  BY InitRefines
<1>2. RefInv /\ [Next]_vars => RefInv'
  <2>1. ASSUME RefInv, [Next]_vars PROVE Inv'
    BY <2>1, TypeInvStep, PullingStep, SidesStep, CountedStep, ClearingStep, ObservingStep
       DEF Inv, RefInv
  <2> QED BY <2>1, CallsStep, DrainingStep, RoomStep DEF RefInv
<1>3. RefInv /\ [Next]_vars => [Fifo!Next]_(Fifo!vars)
  BY StepRefines
<1> QED BY <1>1, <1>2, <1>3, PTL DEF Spec, IsLinearizable, Fifo!Spec
==============================================================================
