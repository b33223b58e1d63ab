------------------------- MODULE TcpAsyncWriteProofs -------------------------
(***************************************************************************)
(* Proofs about the asynchronous write path of TcpSocket, for any number   *)
(* of writing threads, writes and reconnects.                              *)
(***************************************************************************)
EXTENDS TcpAsyncWrite, SequenceTheorems, TLAPS

USE DEF connection, writer, worker

(* Initially every variable has its type. *)
LEMMA TypeInit == Init => TypeOK
<1> SUFFICES ASSUME Init PROVE TypeOK
  OBVIOUS
<1>1. SocketTypeOK BY Zenon DEF Init, SocketTypeOK, OwnerPCs
<1>2. QueueTypeOK BY DEF Init, QueueTypeOK
<1>3. WriterTypeOK BY DEF Init, WriterTypeOK, Kinds
<1>4. WorkerTypeOK BY Zenon DEF Init, WorkerTypeOK, WorkerPCs, Kinds, NoItem, Items
<1> QED BY <1>1, <1>2, <1>3, <1>4 DEF TypeOK

(* Every step keeps every variable in its type. *)
LEMMA TypeStep == TypeOK /\ [Next]_vars => TypeOK'
<1> SUFFICES ASSUME SocketTypeOK, QueueTypeOK, WriterTypeOK, WorkerTypeOK, [Next]_vars
             PROVE  TypeOK'
  BY DEF TypeOK
<1> USE DEF WorkerPCs, OwnerPCs
<1>1. ASSUME NEW on \in Nat, Handle(on)
      PROVE  /\ handled' \in [Kinds -> Seq([item : Items, on : Nat])]
             /\ workerItem' \in Items /\ workerFd' \in BOOLEAN /\ workerPc' \in WorkerPCs
  <2>1. [item |-> workerItem, on |-> on] \in [item : Items, on : Nat]
    BY DEF WorkerTypeOK
  <2>2. Append(handled[workerKind], [item |-> workerItem, on |-> on])
          \in Seq([item : Items, on : Nat])
    BY Zenon, <2>1, AppendProperties DEF QueueTypeOK, WorkerTypeOK
  <2>3. NoItem \in Items
    BY DEF NoItem, Items
  <2> QED BY Zenon, <1>1, <2>2, <2>3 DEF Handle, QueueTypeOK
<1>2. ASSUME NEW w \in Writers, NEW k \in Kinds, WriteAsync(w, k) PROVE TypeOK'
  <2>1. SocketTypeOK' BY <1>2 DEF SocketTypeOK, WriteAsync
  <2>2. QueueTypeOK' BY Zenon, <1>2 DEF QueueTypeOK, WriteAsync
  <2>3. WriterTypeOK' BY <1>2 DEF WriterTypeOK, SocketTypeOK, WriteAsync
  <2>4. WorkerTypeOK' BY <1>2 DEF WorkerTypeOK, WriteAsync
  <2> QED BY <2>1, <2>2, <2>3, <2>4 DEF TypeOK
<1>3. ASSUME NEW w \in Writers, PushAsync(w) PROVE TypeOK'
  <2>1. SocketTypeOK' BY <1>3 DEF SocketTypeOK, PushAsync
  <2>2. QueueTypeOK'
    <3> DEFINE item == [id |-> Len(accepted["packet"]) + Len(accepted["stream"]) + 1,
                        from |-> writerConnection[w]]
    <3>1. item \in Items /\ writerKind[w] \in Kinds
      BY DEF Kinds, Items, QueueTypeOK, WriterTypeOK
    <3>2. /\ Append(queue[writerKind[w]], item) \in Seq(Items)
          /\ Append(accepted[writerKind[w]], item) \in Seq(Items)
      BY <3>1, AppendProperties DEF QueueTypeOK
    <3> QED BY Zenon, <1>3, <3>2 DEF PushAsync, QueueTypeOK
  <2>3. WriterTypeOK'
    <3>1. Len(accepted["packet"]) + Len(accepted["stream"]) + 1 \in Nat
      BY DEF Kinds, QueueTypeOK
    <3> QED BY Zenon, <1>3, <3>1 DEF WriterTypeOK, PushAsync
  <2>4. WorkerTypeOK' BY <1>3 DEF WorkerTypeOK, PushAsync
  <2> QED BY <2>1, <2>2, <2>3, <2>4 DEF TypeOK
<1>4. ASSUME NEW w \in Writers, NotifyAsync(w) PROVE TypeOK'
  <2>1. SocketTypeOK' BY <1>4 DEF SocketTypeOK, NotifyAsync
  <2>2. QueueTypeOK' BY Zenon, <1>4 DEF QueueTypeOK, NotifyAsync
  <2>3. WriterTypeOK' BY <1>4 DEF WriterTypeOK, NotifyAsync, Kinds
  <2>4. WorkerTypeOK' BY <1>4 DEF WorkerTypeOK, NotifyAsync, NotifyAll, Kinds
  <2> QED BY <2>1, <2>2, <2>3, <2>4 DEF TypeOK
<1>5. CASE WorkCheck
  <2>1. SocketTypeOK' BY <1>5 DEF SocketTypeOK, WorkCheck
  <2>2. QueueTypeOK' BY Zenon, <1>5 DEF QueueTypeOK, WorkCheck
  <2>3. WriterTypeOK' BY <1>5 DEF WriterTypeOK, WorkCheck
  <2>4. WorkerTypeOK' BY Zenon, <1>5 DEF WorkerTypeOK, WorkCheck, Kinds
  <2> QED BY <2>1, <2>2, <2>3, <2>4 DEF TypeOK
<1>6. CASE WorkSpuriousWakeup
  <2>1. SocketTypeOK' BY <1>6 DEF SocketTypeOK, WorkSpuriousWakeup
  <2>2. QueueTypeOK' BY Zenon, <1>6 DEF QueueTypeOK, WorkSpuriousWakeup
  <2>3. WriterTypeOK' BY <1>6 DEF WriterTypeOK, WorkSpuriousWakeup
  <2>4. WorkerTypeOK' BY <1>6 DEF WorkerTypeOK, WorkSpuriousWakeup
  <2> QED BY <2>1, <2>2, <2>3, <2>4 DEF TypeOK
<1>7. CASE WorkTake
  <2>1. SocketTypeOK' BY <1>7 DEF SocketTypeOK, WorkTake
  <2>2. QueueTypeOK'
    <3>1. Tail(queue[workerKind]) \in Seq(Items)
      BY <1>7 DEF WorkTake, QueueTypeOK, WorkerTypeOK
    <3> QED BY Zenon, <1>7, <3>1 DEF WorkTake, QueueTypeOK
  <2>3. WriterTypeOK' BY <1>7 DEF WriterTypeOK, WorkTake
  <2>4. WorkerTypeOK' BY <1>7 DEF WorkerTypeOK, WorkTake, QueueTypeOK
  <2> QED BY <2>1, <2>2, <2>3, <2>4 DEF TypeOK
<1>8. CASE WorkQueueEmpty
  <2>1. SocketTypeOK' BY <1>8 DEF SocketTypeOK, WorkQueueEmpty
  <2>2. QueueTypeOK' BY Zenon, <1>8 DEF QueueTypeOK, WorkQueueEmpty
  <2>3. WriterTypeOK' BY <1>8 DEF WriterTypeOK, WorkQueueEmpty
  <2>4. WorkerTypeOK' BY <1>8 DEF WorkerTypeOK, WorkQueueEmpty, Kinds
  <2> QED BY <2>1, <2>2, <2>3, <2>4 DEF TypeOK
<1>9. CASE WorkWrite
  <2>1. SocketTypeOK' BY <1>9 DEF SocketTypeOK, WorkWrite
  <2>2. QueueTypeOK' BY Zenon, <1>9, <1>1 DEF QueueTypeOK, WorkWrite, SocketTypeOK
  <2>3. WriterTypeOK' BY <1>9 DEF WriterTypeOK, WorkWrite
  <2>4. WorkerTypeOK' BY <1>9, <1>1 DEF WorkerTypeOK, WorkWrite, SocketTypeOK
  <2> QED BY <2>1, <2>2, <2>3, <2>4 DEF TypeOK
<1>10. CASE WorkSend
  <2>1. SocketTypeOK' BY <1>10 DEF SocketTypeOK, WorkSend
  <2>2. QueueTypeOK' BY Zenon, <1>10, <1>1 DEF QueueTypeOK, WorkSend, SocketTypeOK
  <2>3. WriterTypeOK' BY <1>10 DEF WriterTypeOK, WorkSend
  <2>4. WorkerTypeOK' BY <1>10, <1>1 DEF WorkerTypeOK, WorkSend, SocketTypeOK
  <2> QED BY <2>1, <2>2, <2>3, <2>4 DEF TypeOK
<1>11. CASE Connect
  <2>1. SocketTypeOK' BY <1>11 DEF SocketTypeOK, Connect
  <2>2. QueueTypeOK' BY Zenon, <1>11 DEF QueueTypeOK, Connect
  <2>3. WriterTypeOK' BY <1>11 DEF WriterTypeOK, Connect
  <2>4. WorkerTypeOK' BY <1>11 DEF WorkerTypeOK, Connect
  <2> QED BY <2>1, <2>2, <2>3, <2>4 DEF TypeOK
<1>12. CASE Close
  <2>1. SocketTypeOK' BY Zenon, <1>12 DEF SocketTypeOK, Close, CloseDescriptor
  <2>2. QueueTypeOK' BY Zenon, <1>12 DEF QueueTypeOK, Close
  <2>3. WriterTypeOK' BY <1>12 DEF WriterTypeOK, Close
  <2>4. WorkerTypeOK' BY <1>12 DEF WorkerTypeOK, Close
  <2> QED BY <2>1, <2>2, <2>3, <2>4 DEF TypeOK
<1>13. CASE CloseStatus
  <2>1. SocketTypeOK' BY <1>13 DEF SocketTypeOK, CloseStatus
  <2>2. QueueTypeOK' BY Zenon, <1>13 DEF QueueTypeOK, CloseStatus
  <2>3. WriterTypeOK' BY <1>13 DEF WriterTypeOK, CloseStatus
  <2>4. WorkerTypeOK' BY <1>13 DEF WorkerTypeOK, CloseStatus
  <2> QED BY <2>1, <2>2, <2>3, <2>4 DEF TypeOK
<1>14. CASE Destroy
  <2>1. SocketTypeOK' BY <1>14 DEF SocketTypeOK, Destroy
  <2>2. QueueTypeOK' BY Zenon, <1>14 DEF QueueTypeOK, Destroy
  <2>3. WriterTypeOK' BY <1>14 DEF WriterTypeOK, Destroy
  <2>4. WorkerTypeOK' BY <1>14 DEF WorkerTypeOK, Destroy, NotifyAll
  <2> QED BY <2>1, <2>2, <2>3, <2>4 DEF TypeOK
<1>15. CASE DestroyJoin
  <2>1. SocketTypeOK' BY <1>15 DEF SocketTypeOK, DestroyJoin
  <2>2. QueueTypeOK' BY Zenon, <1>15 DEF QueueTypeOK, DestroyJoin
  <2>3. WriterTypeOK' BY <1>15 DEF WriterTypeOK, DestroyJoin
  <2>4. WorkerTypeOK' BY <1>15 DEF WorkerTypeOK, DestroyJoin
  <2> QED BY <2>1, <2>2, <2>3, <2>4 DEF TypeOK
<1>16. CASE DestroyClose
  <2>1. SocketTypeOK'
    <3>1. UNCHANGED <<connects, closed, terminate>> /\ ownerPc' = "destroyed"
      BY <1>16 DEF DestroyClose
    <3>2. \/ UNCHANGED <<status, sock, fdConnection>>
          \/ status' = "INACTIVE" /\ sock' = FALSE /\ fdConnection' = 0
      BY <1>16 DEF DestroyClose, CloseDescriptor
    <3>3. status' \in {"INACTIVE", "CONNECTED"} /\ fdConnection' \in Nat
      BY <3>2 DEF SocketTypeOK
    <3>4. sock' \in BOOLEAN
      BY Zenon, <3>2 DEF SocketTypeOK
    <3> QED BY <3>1, <3>3, <3>4 DEF SocketTypeOK
  <2>2. QueueTypeOK' BY Zenon, <1>16 DEF QueueTypeOK, DestroyClose, CloseDescriptor
  <2>3. WriterTypeOK' BY <1>16 DEF WriterTypeOK, DestroyClose, CloseDescriptor
  <2>4. WorkerTypeOK' BY <1>16 DEF WorkerTypeOK, DestroyClose, CloseDescriptor
  <2> QED BY <2>1, <2>2, <2>3, <2>4 DEF TypeOK
<1>17. CASE UNCHANGED vars
  <2>1. SocketTypeOK' BY <1>17 DEF SocketTypeOK, vars
  <2>2. QueueTypeOK' BY Zenon, <1>17 DEF QueueTypeOK, vars
  <2>3. WriterTypeOK' BY <1>17 DEF WriterTypeOK, vars
  <2>4. WorkerTypeOK' BY <1>17 DEF WorkerTypeOK, vars
  <2> QED BY <2>1, <2>2, <2>3, <2>4 DEF TypeOK
<1> QED BY <1>2, <1>3, <1>4, <1>5, <1>6, <1>7, <1>8, <1>9, <1>10, <1>11, <1>12, <1>13, <1>14, <1>15, <1>16, <1>17
          DEF Next, Work, WriterStep, OwnerStep

(* The variables keep their types (TcpSocket.h:391-432).                   *)
THEOREM TypeCorrect == Spec => []TypeOK
  BY TypeInit, TypeStep, PTL DEF Spec
-----------------------------------------------------------------------------
(* No lost wake-up: the invariant is inductive together with the types. *)
LEMMA WakeupStep == TypeOK /\ NoLostWakeup /\ [Next]_vars => NoLostWakeup'
<1> SUFFICES ASSUME TypeOK, NoLostWakeup, [Next]_vars PROVE NoLostWakeup'
  OBVIOUS
<1> USE DEF NoLostWakeup, MustSeeWork, Unannounced
<1>1. ASSUME NEW w \in Writers, NEW k \in Kinds, WriteAsync(w, k) PROVE NoLostWakeup'
  BY <1>1 DEF WriteAsync, TypeOK, WriterTypeOK
<1>2. ASSUME NEW w \in Writers, PushAsync(w) PROVE NoLostWakeup'
  <2> SUFFICES ASSUME workerPc = "waiting"
               PROVE  ~terminate /\ \A k \in Kinds : \A i \in 1 .. Len(queue'[k]) :
                                      queue'[k][i].id \in Unannounced'
    BY ZenonT(30), <1>2 DEF PushAsync
  <2>1. ASSUME NEW v \in Writers, writerPc[v] = "notify"
        PROVE  writerItem[v] \in Unannounced'
    BY Zenon, <1>2, <2>1 DEF PushAsync, TypeOK, WriterTypeOK, QueueTypeOK
  <2>2. writerItem'[w] \in Unannounced'
    BY Zenon, <1>2 DEF PushAsync, TypeOK, WriterTypeOK, QueueTypeOK
  <2>3. ASSUME NEW k \in Kinds, NEW i \in 1 .. Len(queue'[k])
        PROVE  queue'[k][i].id \in Unannounced'
    <3>1. CASE k = writerKind[w] /\ i = Len(queue[k]) + 1
      <4> DEFINE item == [id |-> Len(accepted["packet"]) + Len(accepted["stream"]) + 1,
                          from |-> writerConnection[w]]
      <4>1. queue[k] \in Seq(Items) /\ queue'[k] = Append(queue[k], item)
        BY <1>2, <3>1 DEF PushAsync, TypeOK, QueueTypeOK
      <4>2. queue'[k][i] = item
        <5> HIDE DEF item
        <5> QED BY <3>1, <4>1
      <4>3. writerItem'[w] = item.id
        BY <1>2 DEF PushAsync, TypeOK, WriterTypeOK
      <4> QED BY ZenonT(30), <2>2, <4>2, <4>3
    <3>2. CASE ~(k = writerKind[w] /\ i = Len(queue[k]) + 1)
      <4>1. /\ queue[k] \in Seq(Items)
            /\ queue'[k] = queue[k] \/ \E e : k = writerKind[w] /\ queue'[k] = Append(queue[k], e)
        BY Zenon, <1>2 DEF PushAsync, TypeOK, WriterTypeOK, QueueTypeOK
      <4>2. i \in 1 .. Len(queue[k]) /\ queue'[k][i] = queue[k][i]
        BY <3>2, <4>1
      <4> QED BY SMTT(30), <2>1, <4>2
    <3> QED BY <3>1, <3>2
  <2> QED BY SMTT(30), <2>3
<1>3. ASSUME NEW w \in Writers, NotifyAsync(w) PROVE NoLostWakeup'
  BY <1>3 DEF NotifyAsync, NotifyAll
<1>4. CASE WorkCheck BY <1>4 DEF WorkCheck
<1>5. CASE WorkSpuriousWakeup BY <1>5 DEF WorkSpuriousWakeup
<1>6. CASE WorkTake BY <1>6 DEF WorkTake
<1>7. CASE WorkQueueEmpty BY <1>7 DEF WorkQueueEmpty
<1>8. CASE WorkWrite BY <1>8 DEF WorkWrite, Handle
<1>9. CASE WorkSend BY <1>9 DEF WorkSend, Handle
<1>10. CASE Connect BY <1>10 DEF Connect
<1>11. CASE Close BY <1>11 DEF Close
<1>12. CASE CloseStatus BY <1>12 DEF CloseStatus
<1>13. CASE Destroy BY <1>13 DEF Destroy, NotifyAll
<1>14. CASE DestroyJoin BY <1>14 DEF DestroyJoin
<1>15. CASE DestroyClose BY <1>15 DEF DestroyClose
<1>16. CASE UNCHANGED vars BY <1>16 DEF vars
<1> QED BY <1>1, <1>2, <1>3, <1>4, <1>5, <1>6, <1>7, <1>8, <1>9, <1>10, <1>11, <1>12,
          <1>13, <1>14, <1>15, <1>16 DEF Next, Work, WriterStep, OwnerStep

(* For any number of writers: the worker (TcpSocket.cpp:607-624) never     *)
(* waits while there is work or a termination nobody will announce.        *)
THEOREM NoLostWakeupHolds == Spec => []NoLostWakeup
<1>1. Init => NoLostWakeup
  BY DEF Init, NoLostWakeup
<1> QED BY <1>1, TypeInit, TypeStep, WakeupStep, PTL DEF Spec
-----------------------------------------------------------------------------
(* What the destructor's promise rests on.  Every accepted write is handled, *)
(* in the worker's hands or queued, in this order.                           *)
InHand(k) == IF workerPc \in {"write", "send"} /\ workerKind = k THEN 1 ELSE 0

InOrder(k) ==
  /\ Len(accepted[k]) = Len(handled[k]) + InHand(k) + Len(queue[k])
  /\ \A i \in 1 .. Len(handled[k]) : handled[k][i].item = accepted[k][i]
  /\ InHand(k) = 1 => workerItem = accepted[k][Len(handled[k]) + 1]
  /\ \A i \in 1 .. Len(queue[k]) : queue[k][i] = accepted[k][Len(handled[k]) + InHand(k) + i]

Ordered == \A k \in Kinds : InOrder(k)

(* The worker's last round starts after the last write, and leaves a queue   *)
(* only when it is empty.                                                    *)
Flushing ==
  /\ terminate => \A w \in Writers : writerPc[w] = "idle"
  /\ finish => terminate
  /\ finish /\ workerKind = "stream" => queue["packet"] = << >>
  /\ workerPc = "finished" => finish /\ workerKind = "stream" /\ queue["stream"] = << >>
  /\ ownerPc \in {"joined", "destroyed"} => workerPc = "finished"
  /\ ownerPc \in {"joining", "joined", "destroyed"} => terminate

(* Until the first close() there is at most one connection, and it is up.    *)
FirstConnection ==
  ~closed =>
    /\ ownerPc # "closing"
    /\ connects \in {0, 1}
    /\ connects = 0 => status = "INACTIVE"
    /\ connects = 1 /\ ownerPc # "destroyed" =>
          status = "CONNECTED" /\ sock = TRUE /\ fdConnection = 1
    /\ \A w \in Writers : writerPc[w] = "push" => connects = 1 /\ writerConnection[w] = 1
    /\ workerPc = "send" => workerFd = TRUE
    /\ \A k \in Kinds :
          /\ \A i \in 1 .. Len(accepted[k]) : connects = 1 /\ accepted[k][i].from = 1
          /\ \A i \in 1 .. Len(handled[k]) : handled[k][i].on = 1

FlushInv == TypeOK /\ Ordered /\ Flushing /\ FirstConnection

LEMMA FlushInit == Init => FlushInv
<1> SUFFICES ASSUME Init PROVE FlushInv
  OBVIOUS
<1>1. TypeOK BY TypeInit
<1>2. Ordered BY DEF Init, Ordered, InOrder, InHand
<1>3. Flushing BY DEF Init, Flushing
<1>4. FirstConnection BY DEF Init, FirstConnection
<1> QED BY <1>1, <1>2, <1>3, <1>4 DEF FlushInv

(* The item in the worker's hands becomes the next one that is handled. *)
LEMMA HandleKeepsOrder ==
  ASSUME TypeOK, Ordered, NEW on \in Nat, Handle(on), workerPc \in {"write", "send"},
         UNCHANGED <<queue, accepted, workerKind>>
  PROVE  Ordered'
<1> SUFFICES ASSUME NEW k \in Kinds PROVE InOrder(k)'
  BY DEF Ordered
<1>0. InOrder(k) BY DEF Ordered
<1>1. /\ handled[k] \in Seq([item : Items, on : Nat])
      /\ queue[k] \in Seq(Items) /\ accepted[k] \in Seq(Items)
  BY Zenon DEF TypeOK, QueueTypeOK
<1>2. InHand(k)' = 0
  BY DEF InHand, Handle
<1>3. CASE workerKind = k
  <2> DEFINE entry == [item |-> workerItem, on |-> on]
  <2>1. handled'[k] = Append(handled[k], entry) /\ InHand(k) = 1
    BY <1>3 DEF Handle, InHand, TypeOK, QueueTypeOK
  <2>2. entry.item = accepted[k][Len(handled[k]) + 1]
    BY <1>0, <2>1 DEF InOrder
  <2> HIDE DEF entry
  <2>3. /\ Len(handled'[k]) = Len(handled[k]) + 1
        /\ \A i \in 1 .. Len(handled[k]) : handled'[k][i] = handled[k][i]
        /\ handled'[k][Len(handled[k]) + 1] = entry
    BY <1>1, <2>1
  <2>4. \A i \in 1 .. Len(handled'[k]) : handled'[k][i].item = accepted[k][i]
    <3> TAKE i \in 1 .. Len(handled'[k])
    <3>1. CASE i \in 1 .. Len(handled[k]) BY SMTT(30), <1>0, <2>3, <3>1 DEF InOrder
    <3>2. CASE i = Len(handled[k]) + 1 BY <2>2, <2>3, <3>2
    <3> QED BY <1>1, <2>3, <3>1, <3>2
  <2> QED BY <1>0, <1>1, <1>2, <2>1, <2>3, <2>4 DEF InOrder
<1>4. CASE workerKind # k
  <2>1. handled'[k] = handled[k] /\ InHand(k) = 0
    BY <1>4 DEF Handle, InHand, TypeOK, QueueTypeOK
  <2> QED BY <1>0, <1>2, <2>1 DEF InOrder
<1> QED BY <1>3, <1>4

(* A step that leaves the queues alone and has the worker neither take nor   *)
(* give up an item.                                                          *)
LEMMA OrderUntouched ==
  ASSUME Ordered, UNCHANGED <<queue, accepted, handled, workerItem>>,
         \A k \in Kinds : InHand(k)' = InHand(k)
  PROVE  Ordered'
BY DEF Ordered, InOrder

(* Positions in accepted[k] when an item is queued and when one is taken. *)
LEMMA QueuedPositions ==
  ASSUME NEW h \in Nat, NEW f \in {0, 1}, NEW q \in Nat
  PROVE  /\ (h + f + q) + 1 = h + f + (q + 1)
         /\ f = 1 => h + 1 \in 1 .. (h + f + q)
         /\ \A i \in 1 .. h : i \in 1 .. (h + f + q)
         /\ \A i \in 1 .. q : h + f + i \in 1 .. (h + f + q)
OBVIOUS

LEMMA TakenPositions ==
  ASSUME NEW h \in Nat, NEW q \in Nat
  PROVE  /\ h + (q + 1) = h + 1 + q
         /\ \A i \in 1 .. q : i + 1 \in 1 .. (q + 1) /\ h + (i + 1) = h + 1 + i
OBVIOUS

LEMMA FirstPosition == ASSUME NEW h \in Nat, NEW q \in Nat PROVE 1 \in 1 .. (h + 1 + q)
OBVIOUS

LEMMA OrderStep == FlushInv /\ [Next]_vars => Ordered'
<1> SUFFICES ASSUME TypeOK, Ordered, [Next]_vars PROVE Ordered'
  BY DEF FlushInv
<1>1. ASSUME NEW w \in Writers, NEW k \in Kinds, WriteAsync(w, k) PROVE Ordered'
  BY <1>1, OrderUntouched DEF WriteAsync, InHand
<1>2. ASSUME NEW w \in Writers, PushAsync(w) PROVE Ordered'
  <2> DEFINE item == [id |-> Len(accepted["packet"]) + Len(accepted["stream"]) + 1,
                      from |-> writerConnection[w]]
  <2> SUFFICES ASSUME NEW k \in Kinds PROVE InOrder(k)'
    BY DEF Ordered
  <2>0. InOrder(k) BY DEF Ordered
  <2>1. /\ handled[k] \in Seq([item : Items, on : Nat])
        /\ queue[k] \in Seq(Items) /\ accepted[k] \in Seq(Items)
    BY Zenon DEF TypeOK, QueueTypeOK
  <2>2. /\ InHand(k)' = InHand(k) /\ InHand(k) \in {0, 1}
        /\ workerItem' = workerItem /\ handled' = handled
    BY <1>2 DEF PushAsync, InHand
  <2>3. CASE k = writerKind[w]
    <3>1. queue'[k] = Append(queue[k], item) /\ accepted'[k] = Append(accepted[k], item)
      BY <1>2, <2>3 DEF PushAsync, TypeOK, QueueTypeOK
    <3> HIDE DEF item
    <3>2. /\ Len(queue'[k]) = Len(queue[k]) + 1 /\ queue'[k][Len(queue[k]) + 1] = item
          /\ \A i \in 1 .. Len(queue[k]) : queue'[k][i] = queue[k][i]
      BY <2>1, <3>1
    <3>3. /\ Len(accepted'[k]) = Len(accepted[k]) + 1
          /\ accepted'[k][Len(accepted[k]) + 1] = item
          /\ \A i \in 1 .. Len(accepted[k]) : accepted'[k][i] = accepted[k][i]
      BY <2>1, <3>1
    <3>4. Len(handled[k]) \in Nat /\ Len(queue[k]) \in Nat
      BY <2>1
    <3>5. Len(accepted[k]) = Len(handled[k]) + InHand(k) + Len(queue[k])
      BY <2>0 DEF InOrder
    <3>6. /\ Len(accepted[k]) + 1 = Len(handled[k]) + InHand(k) + (Len(queue[k]) + 1)
          /\ InHand(k) = 1 => Len(handled[k]) + 1 \in 1 .. Len(accepted[k])
          /\ \A i \in 1 .. Len(handled[k]) : i \in 1 .. Len(accepted[k])
          /\ \A i \in 1 .. Len(queue[k]) :
               Len(handled[k]) + InHand(k) + i \in 1 .. Len(accepted[k])
      <4> DEFINE all == Len(handled[k]) + InHand(k) + Len(queue[k])
      <4>1. /\ all + 1 = Len(handled[k]) + InHand(k) + (Len(queue[k]) + 1)
            /\ InHand(k) = 1 => Len(handled[k]) + 1 \in 1 .. all
            /\ \A i \in 1 .. Len(handled[k]) : i \in 1 .. all
            /\ \A i \in 1 .. Len(queue[k]) : Len(handled[k]) + InHand(k) + i \in 1 .. all
        BY Zenon, <2>2, <3>4, QueuedPositions
      <4>2. Len(accepted[k]) = all
        BY <3>5
      <4> HIDE DEF all
      <4> QED BY <4>1, <4>2
    <3>7. /\ \A i \in 1 .. Len(handled[k]) : handled[k][i].item = accepted'[k][i]
          /\ InHand(k) = 1 => workerItem = accepted'[k][Len(handled[k]) + 1]
      BY Zenon, <2>0, <3>3, <3>6 DEF InOrder
    <3>8. \A i \in 1 .. Len(queue'[k]) :
            queue'[k][i] = accepted'[k][Len(handled[k]) + InHand(k) + i]
      <4> TAKE i \in 1 .. Len(queue'[k])
      <4>1. CASE i = Len(queue[k]) + 1 BY <3>2, <3>3, <3>6, <4>1
      <4>2. CASE i \in 1 .. Len(queue[k]) BY Zenon, <2>0, <3>2, <3>3, <3>6, <4>2 DEF InOrder
      <4> QED BY <3>2, <3>4, <4>1, <4>2
    <3>9. Len(accepted'[k]) = Len(handled[k]) + InHand(k) + Len(queue'[k])
      BY <3>2, <3>3, <3>6
    <3> QED BY Zenon, <2>2, <3>7, <3>8, <3>9 DEF InOrder
  <2>4. CASE k # writerKind[w]
    <3>1. queue'[k] = queue[k] /\ accepted'[k] = accepted[k]
      BY <1>2, <2>4 DEF PushAsync, TypeOK, QueueTypeOK
    <3> QED BY <2>0, <2>2, <3>1 DEF InOrder
  <2> QED BY <2>3, <2>4
<1>3. ASSUME NEW w \in Writers, NotifyAsync(w) PROVE Ordered'
  BY <1>3, OrderUntouched DEF NotifyAsync, NotifyAll, InHand
<1>4. CASE WorkCheck BY <1>4, OrderUntouched DEF WorkCheck, InHand
<1>5. CASE WorkSpuriousWakeup BY <1>5, OrderUntouched DEF WorkSpuriousWakeup, InHand
<1>6. CASE WorkTake
  <2> SUFFICES ASSUME NEW k \in Kinds PROVE InOrder(k)'
    BY DEF Ordered
  <2>0. InOrder(k) BY DEF Ordered
  <2>1. /\ handled[k] \in Seq([item : Items, on : Nat])
        /\ queue[k] \in Seq(Items) /\ accepted[k] \in Seq(Items)
    BY Zenon DEF TypeOK, QueueTypeOK
  <2>2. InHand(k) = 0 /\ handled' = handled /\ accepted' = accepted
    BY <1>6 DEF WorkTake, InHand
  <2>3. CASE k = workerKind
    <3>1. /\ queue[k] # << >> /\ queue'[k] = Tail(queue[k]) /\ workerItem' = Head(queue[k])
          /\ InHand(k)' = 1
      BY <1>6, <2>3 DEF WorkTake, InHand, TypeOK, QueueTypeOK
    <3>2. /\ Len(queue[k]) = Len(queue'[k]) + 1 /\ Len(queue'[k]) \in Nat
          /\ workerItem' = queue[k][1]
          /\ \A i \in 1 .. Len(queue'[k]) : queue'[k][i] = queue[k][i + 1]
      BY <2>1, <3>1
    <3>3. Len(handled[k]) \in Nat
      BY <2>1
    <3>4. /\ Len(accepted[k]) = Len(handled[k]) + Len(queue[k])
          /\ \A i \in 1 .. Len(handled[k]) : handled[k][i].item = accepted[k][i]
          /\ \A i \in 1 .. Len(queue[k]) : queue[k][i] = accepted[k][Len(handled[k]) + i]
      BY <2>0, <2>2, <3>3 DEF InOrder
    <3>5. /\ Len(handled[k]) + (Len(queue'[k]) + 1) = Len(handled[k]) + 1 + Len(queue'[k])
          /\ \A i \in 1 .. Len(queue'[k]) :
               /\ i + 1 \in 1 .. (Len(queue'[k]) + 1)
               /\ Len(handled[k]) + (i + 1) = Len(handled[k]) + 1 + i
      BY Zenon, <3>2, <3>3, TakenPositions
    <3>6. /\ Len(accepted[k]) = Len(handled[k]) + 1 + Len(queue'[k])
          /\ workerItem' = accepted[k][Len(handled[k]) + 1]
      <4>1. Len(accepted[k]) = Len(handled[k]) + Len(queue[k]) BY <3>4
      <4>2. Len(queue[k]) = Len(queue'[k]) + 1 BY <3>2
      <4>3. Len(accepted[k]) = Len(handled[k]) + 1 + Len(queue'[k])
        BY Zenon, <3>5, <4>1, <4>2, Zenon
      <4>4. 1 \in 1 .. Len(queue[k])
        BY <2>1, <3>1
      <4>5. workerItem' = accepted[k][Len(handled[k]) + 1]
        BY Zenon, <3>2, <3>4, <4>4, Zenon
      <4> QED BY Zenon, <4>3, <4>5, Zenon
    <3>7. \A i \in 1 .. Len(queue'[k]) : queue'[k][i] = accepted[k][Len(handled[k]) + 1 + i]
      BY <3>2, <3>4, <3>5
    <3> QED BY Zenon, <2>2, <3>1, <3>4, <3>6, <3>7 DEF InOrder
  <2>4. CASE k # workerKind
    <3>1. queue'[k] = queue[k] /\ InHand(k)' = 0
      BY <1>6, <2>4 DEF WorkTake, InHand, TypeOK, QueueTypeOK
    <3>2. InHand(k)' = InHand(k) /\ ~(InHand(k)' = 1)
      BY <2>2, <3>1
    <3> QED BY Zenon, <2>0, <2>2, <3>1, <3>2 DEF InOrder
  <2> QED BY <2>3, <2>4
<1>7. CASE WorkQueueEmpty BY <1>7, OrderUntouched DEF WorkQueueEmpty, InHand
<1>8. CASE WorkWrite
  <2>1. CASE Handle(0) BY <1>8, <2>1, HandleKeepsOrder DEF WorkWrite
  <2>2. CASE workerPc' = "send" /\ UNCHANGED <<handled, workerItem>>
    BY <1>8, <2>2, OrderUntouched DEF WorkWrite, InHand
  <2> QED BY <1>8, <2>1, <2>2 DEF WorkWrite
<1>9. CASE WorkSend
  <2>1. (IF workerFd THEN fdConnection ELSE 0) \in Nat
    BY DEF TypeOK, SocketTypeOK
  <2> QED BY <1>9, <2>1, HandleKeepsOrder DEF WorkSend
<1>10. CASE Connect BY <1>10, OrderUntouched DEF Connect, InHand
<1>11. CASE Close BY <1>11, OrderUntouched DEF Close, InHand
<1>12. CASE CloseStatus BY <1>12, OrderUntouched DEF CloseStatus, InHand
<1>13. CASE Destroy BY <1>13, OrderUntouched DEF Destroy, NotifyAll, InHand
<1>14. CASE DestroyJoin BY <1>14, OrderUntouched DEF DestroyJoin, InHand
<1>15. CASE DestroyClose BY <1>15, OrderUntouched DEF DestroyClose, InHand
<1>16. CASE UNCHANGED vars BY SMTT(30), <1>16, OrderUntouched DEF vars, InHand
<1> QED BY <1>1, <1>2, <1>3, <1>4, <1>5, <1>6, <1>7, <1>8, <1>9, <1>10, <1>11, <1>12,
          <1>13, <1>14, <1>15, <1>16 DEF Next, Work, WriterStep, OwnerStep

(* No write arrives, and no queue grows, in the worker's last round. *)
LEMMA FlushingStep == FlushInv /\ [Next]_vars => Flushing'
<1> SUFFICES ASSUME TypeOK, Flushing, [Next]_vars PROVE Flushing'
  BY DEF FlushInv
<1> USE DEF Flushing
<1>1. ASSUME NEW w \in Writers, NEW k \in Kinds, WriteAsync(w, k) PROVE Flushing'
  BY SMTT(30), <1>1 DEF WriteAsync
<1>2. ASSUME NEW w \in Writers, PushAsync(w) PROVE Flushing'
  BY SMTT(30), <1>2 DEF PushAsync
<1>3. ASSUME NEW w \in Writers, NotifyAsync(w) PROVE Flushing'
  BY SMTT(30), <1>3 DEF NotifyAsync, NotifyAll
<1>4. CASE WorkCheck BY <1>4 DEF WorkCheck
<1>5. CASE WorkSpuriousWakeup BY <1>5 DEF WorkSpuriousWakeup
<1>6. CASE WorkTake
  <2>1. workerKind = "stream" => queue'["packet"] = queue["packet"]
    BY <1>6 DEF WorkTake, TypeOK, QueueTypeOK, Kinds
  <2> QED BY <1>6, <2>1 DEF WorkTake
<1>7. CASE WorkQueueEmpty BY SMTT(30), <1>7 DEF WorkQueueEmpty
<1>8. CASE WorkWrite BY <1>8 DEF WorkWrite, Handle
<1>9. CASE WorkSend BY <1>9 DEF WorkSend, Handle
<1>10. CASE Connect BY <1>10 DEF Connect
<1>11. CASE Close BY <1>11 DEF Close
<1>12. CASE CloseStatus BY <1>12 DEF CloseStatus
<1>13. CASE Destroy BY <1>13 DEF Destroy, NotifyAll
<1>14. CASE DestroyJoin BY <1>14 DEF DestroyJoin
<1>15. CASE DestroyClose BY <1>15 DEF DestroyClose
<1>16. CASE UNCHANGED vars BY SMTT(30), <1>16 DEF vars
<1> QED BY Zenon, <1>1, <1>2, <1>3, <1>4, <1>5, <1>6, <1>7, <1>8, <1>9, <1>10, <1>11, <1>12,
          <1>13, <1>14, <1>15, <1>16 DEF Next, Work, WriterStep, OwnerStep

(* What the worker sends before the first close() goes to connection 1. *)
LEMMA HandleOnFirst ==
  ASSUME TypeOK, ~closed, FirstConnection, Handle(1),
         UNCHANGED <<connection, ownerPc, writerPc, writerConnection, accepted>>
  PROVE  FirstConnection'
<1>1. ASSUME NEW k \in Kinds, NEW i \in 1 .. Len(handled'[k]) PROVE handled'[k][i].on = 1
  <2> DEFINE entry == [item |-> workerItem, on |-> 1]
  <2>1. handled[k] \in Seq([item : Items, on : Nat])
    BY Zenon DEF TypeOK, QueueTypeOK
  <2>2. handled'[k] \in {handled[k], Append(handled[k], entry)}
    BY DEF Handle, TypeOK, QueueTypeOK
  <2>3. entry.on = 1
    OBVIOUS
  <2> HIDE DEF entry
  <2>4. (i \in 1 .. Len(handled[k]) /\ handled'[k][i] = handled[k][i]) \/ handled'[k][i] = entry
    <3>1. CASE handled'[k] = handled[k] BY <3>1
    <3>2. CASE handled'[k] = Append(handled[k], entry) BY <2>1, <3>2
    <3> QED BY <2>2, <3>1, <3>2
  <2> QED BY <2>3, <2>4 DEF FirstConnection
<1> QED BY SMTT(30), <1>1 DEF FirstConnection, Handle

LEMMA ClosedStays == [Next]_vars => closed' = closed \/ closed' = TRUE
<1> SUFFICES ASSUME [Next]_vars PROVE closed' = closed \/ closed' = TRUE
  BY Zenon
<1>1. ASSUME NEW w \in Writers, NEW k \in Kinds, WriteAsync(w, k) PROVE closed' = closed
  BY <1>1 DEF WriteAsync
<1>2. ASSUME NEW w \in Writers, WriterStep(w) PROVE closed' = closed
  BY Zenon, <1>2 DEF WriterStep, PushAsync, NotifyAsync
<1>3. CASE Work \/ WorkSpuriousWakeup
  BY <1>3 DEF Work, WorkCheck, WorkTake, WorkQueueEmpty, WorkWrite, WorkSend, WorkSpuriousWakeup
<1>4. CASE Connect \/ Destroy \/ OwnerStep
  BY <1>4 DEF Connect, Destroy, OwnerStep, CloseStatus, DestroyJoin, DestroyClose
<1>5. CASE Close BY <1>5 DEF Close
<1>6. CASE UNCHANGED vars BY SMTT(30), <1>6 DEF vars
<1> QED BY Zenon, <1>1, <1>2, <1>3, <1>4, <1>5, <1>6 DEF Next

LEMMA FirstConnectionStep == FlushInv /\ [Next]_vars => FirstConnection'
<1> SUFFICES ASSUME TypeOK, Ordered, Flushing, FirstConnection, [Next]_vars,
                    closed' = closed \/ closed' = TRUE
             PROVE  FirstConnection'
  BY Zenon, ClosedStays DEF FlushInv
<1> SUFFICES ASSUME ~closed, ~closed' PROVE FirstConnection'
  <2>1. ~closed' => ~closed BY Zenon, Zenon
  <2> QED BY Zenon, <2>1 DEF FirstConnection
<1> USE DEF FirstConnection
<1>0. workerPc \in {"write", "send"} => connects = 1 /\ ownerPc # "destroyed"
  <2> HAVE workerPc \in {"write", "send"}
  <2>1. InHand(workerKind) = 1 /\ workerKind \in Kinds
    BY DEF InHand, TypeOK, WorkerTypeOK
  <2>2. Len(accepted[workerKind]) = Len(handled[workerKind]) + 1 + Len(queue[workerKind])
    BY Zenon, <2>1 DEF Ordered, InOrder
  <2>3. Len(handled[workerKind]) \in Nat /\ Len(queue[workerKind]) \in Nat
    BY <2>1 DEF TypeOK, QueueTypeOK
  <2>4. 1 \in 1 .. (Len(handled[workerKind]) + 1 + Len(queue[workerKind]))
    BY ZenonT(30), <2>3, FirstPosition
  <2>5. 1 \in 1 .. Len(accepted[workerKind])
    BY Zenon, <2>2, <2>4, Zenon
  <2> QED BY <2>1, <2>5 DEF Flushing
<1>1. ASSUME NEW w \in Writers, NEW k \in Kinds, WriteAsync(w, k) PROVE FirstConnection'
  BY <1>1 DEF WriteAsync, TypeOK, WriterTypeOK
<1>2. ASSUME NEW w \in Writers, PushAsync(w) PROVE FirstConnection'
  <2> DEFINE item == [id |-> Len(accepted["packet"]) + Len(accepted["stream"]) + 1,
                      from |-> writerConnection[w]]
  <2>1. connects = 1 /\ item.from = 1
    BY ZenonT(30), <1>2 DEF PushAsync
  <2>2. ASSUME NEW k \in Kinds, NEW i \in 1 .. Len(accepted'[k]) PROVE accepted'[k][i].from = 1
    <3>1. accepted[k] \in Seq(Items) /\ accepted'[k] \in {accepted[k], Append(accepted[k], item)}
      BY SMTT(30), <1>2 DEF PushAsync, TypeOK, QueueTypeOK
    <3> HIDE DEF item
    <3>2. (i \in 1 .. Len(accepted[k]) /\ accepted'[k][i] = accepted[k][i]) \/ accepted'[k][i] = item
      BY SMTT(30), <3>1
    <3> QED BY SMTT(30), <2>1, <3>2
  <2> QED BY SMTT(30), <1>2, <2>1, <2>2 DEF PushAsync, TypeOK, WriterTypeOK
<1>3. ASSUME NEW w \in Writers, NotifyAsync(w) PROVE FirstConnection'
  BY SMTT(30), <1>3 DEF NotifyAsync, NotifyAll, TypeOK, WriterTypeOK
<1>4. CASE WorkCheck BY SMTT(30), <1>4 DEF WorkCheck
<1>5. CASE WorkSpuriousWakeup BY SMTT(30), <1>5 DEF WorkSpuriousWakeup
<1>6. CASE WorkTake BY SMTT(30), <1>6 DEF WorkTake
<1>7. CASE WorkQueueEmpty BY SMTT(30), <1>7 DEF WorkQueueEmpty
<1>8. CASE WorkWrite BY SMTT(30), <1>0, <1>8 DEF WorkWrite
<1>9. CASE WorkSend
  <2>1. Handle(1) BY <1>0, <1>9 DEF WorkSend
  <2> QED BY ZenonT(30), <1>9, <2>1, HandleOnFirst DEF WorkSend
<1>10. CASE Connect BY <1>10 DEF Connect
<1>11. CASE Close BY SMTT(30), <1>11 DEF Close
<1>12. CASE CloseStatus BY SMTT(30), <1>12 DEF CloseStatus
<1>13. CASE Destroy BY SMTT(30), <1>13 DEF Destroy, NotifyAll
<1>14. CASE DestroyJoin BY SMTT(30), <1>14 DEF DestroyJoin
<1>15. CASE DestroyClose BY SMTT(30), <1>15 DEF DestroyClose, Flushing
<1>16. CASE UNCHANGED vars BY <1>16 DEF vars
<1> QED BY ZenonT(30), <1>1, <1>2, <1>3, <1>4, <1>5, <1>6, <1>7, <1>8, <1>9, <1>10, <1>11, <1>12,
          <1>13, <1>14, <1>15, <1>16 DEF Next, Work, WriterStep, OwnerStep

LEMMA FlushImplies == FlushInv => DestructorFlushes
<1> SUFFICES ASSUME FlushInv, ownerPc \in {"joined", "destroyed"}, NEW k \in Kinds
             PROVE  /\ HandledItems(k) = accepted[k]
                    /\ ~closed => \A i \in 1 .. Len(handled[k]) :
                                    handled[k][i].on = accepted[k][i].from
  BY DEF DestructorFlushes
<1>1. queue[k] = << >> /\ InHand(k) = 0
  BY DEF FlushInv, Flushing, InHand, Kinds
<1>2. /\ handled[k] \in Seq([item : Items, on : Nat]) /\ accepted[k] \in Seq(Items)
      /\ Len(handled[k]) \in Nat
  <2>1. handled[k] \in Seq([item : Items, on : Nat]) /\ accepted[k] \in Seq(Items)
    BY Zenon DEF FlushInv, TypeOK, QueueTypeOK
  <2> QED BY <2>1, LenProperties
<1>3. Len(accepted[k]) = Len(handled[k])
  <2>1. Len(accepted[k]) = Len(handled[k]) + 0 + 0
    BY <1>1 DEF FlushInv, Ordered, InOrder
  <2> QED BY <1>2, <2>1
<1>4. \A i \in 1 .. Len(handled[k]) : handled[k][i].item = accepted[k][i]
  BY DEF FlushInv, Ordered, InOrder
<1>5. HandledItems(k) = accepted[k]
  <2>1. accepted[k] = [i \in 1 .. Len(accepted[k]) |-> accepted[k][i]]
    BY <1>2
  <2> QED BY <1>3, <1>4, <2>1 DEF HandledItems
<1>6. ~closed => \A i \in 1 .. Len(handled[k]) : handled[k][i].on = accepted[k][i].from
  BY <1>3 DEF FlushInv, FirstConnection
<1> QED BY <1>5, <1>6

(* For any number of writers and writes: once the destructor has joined the  *)
(* worker (TcpSocket.cpp:57-68), every accepted write was handled in order,  *)
(* and sent on its own connection if the socket was never closed before.     *)
THEOREM DestructorFlushesHolds == Spec => []DestructorFlushes
<1>1. FlushInv /\ [Next]_vars => FlushInv'
  BY TypeStep, OrderStep, FlushingStep, FirstConnectionStep DEF FlushInv
<1> QED BY <1>1, FlushInit, FlushImplies, PTL DEF Spec
=============================================================================
