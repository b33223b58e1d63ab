------------------------- MODULE UdpLifecycleProofs -------------------------
(***************************************************************************)
(* Proofs about the threads of a UdpSocket, for any number of writing      *)
(* threads, writes and binds.                                              *)
(***************************************************************************)
EXTENDS UdpLifecycle, SequenceTheorems, TLAPS

USE DEF kernel, async

Items == [id : Nat, from : Nat]
Sent == [item : Items, on : Nat]

SocketTypeOK ==
  /\ sock \in BOOLEAN /\ terminate \in BOOLEAN
  /\ socket \in Nat /\ binds \in Nat
QueueTypeOK ==
  /\ queue \in [Kinds -> Seq(Items)] /\ accepted \in [Kinds -> Seq(Items)]
  /\ handled \in [Kinds -> Seq(Sent)]
WriterTypeOK ==
  writer \in [Writers -> [pc : {"idle", "push", "notify"}, kind : Kinds, from : Nat, id : Nat]]
WorkerTypeOK ==
  worker \in [pc : {"check", "waiting", "drain", "write", "send", "finished"},
              kind : Kinds, item : Items, finish : BOOLEAN]
OwnerTypeOK ==
  owner \in [pc : {"idle", "replace", "binding", "close", "reset", "join", "terminating",
                   "joining", "destroyed"},
             then : {"idle", "destroyed"}]
TypeInv == SocketTypeOK /\ QueueTypeOK /\ WriterTypeOK /\ WorkerTypeOK /\ OwnerTypeOK

(* Every accepted write is handled or queued, in this order; the worker is   *)
(* at the first one of its queue.                                            *)
InOrder(k) ==
  /\ Len(accepted[k]) = Len(handled[k]) + Len(queue[k])
  /\ \A i \in 1 .. Len(handled[k]) : handled[k][i].item = accepted[k][i]
  /\ \A i \in 1 .. Len(queue[k]) : queue[k][i] = accepted[k][Len(handled[k]) + i]
InHand ==
  worker.pc \in {"write", "send"} => queue[worker.kind] # << >> /\ worker.item = Head(queue[worker.kind])
Ordered == (\A k \in Kinds : InOrder(k)) /\ InHand

(* The worker's last round starts after the last write, and leaves a queue   *)
(* only when it is empty.                                                    *)
Flushing ==
  /\ owner.then = "destroyed" => terminate
  /\ terminate => \A w \in Writers : writer[w].pc = "idle"
  /\ worker.finish => terminate
  /\ worker.finish /\ worker.kind = "raw" => queue["packet"] = << >>
  /\ worker.pc = "finished" => worker.finish /\ worker.kind = "raw" /\ queue["raw"] = << >>
  /\ terminate /\ owner.pc \notin {"terminating", "joining"} => worker.pc = "finished"

(* Nothing was written to a socket that does not exist yet, and what was     *)
(* written to the open one and handled was sent from it.                     *)
SentFrom(k) ==
  \A i \in 1 .. Len(handled[k]) :
    /\ handled[k][i].item.from <= binds
    /\ socket # 0 /\ handled[k][i].item.from = socket => handled[k][i].on = socket
Origins ==
  /\ socket # 0 => sock /\ owner.pc # "reset"
  /\ \A w \in Writers : writer[w].from <= binds
  /\ \A k \in Kinds : \A i \in 1 .. Len(queue[k]) : queue[k][i].from <= binds
  /\ worker.pc \in {"write", "send"} => worker.item.from <= binds
  /\ \A k \in Kinds : SentFrom(k)

UdpInv == TypeInv /\ Ordered /\ Flushing /\ Origins
-----------------------------------------------------------------------------
(* The steps that touch neither the queues nor the writers and the worker. *)
Elsewhere == UNCHANGED <<queue, accepted, handled, writer, worker>>

(* The callback thread and the network change nothing that is spoken of here. *)
LEMMA CallbackFrame ==
  CallbackStep \/ CallbackInterrupted \/ Arrive =>
    Elsewhere /\ UNCHANGED <<sock, socket, binds, terminate, owner>>
BY DEF Elsewhere, CallbackStep, CallbackLoop, CallbackReceive, CallbackPacket, CallbackShut,
       CallbackCall, CallbackInterrupted, Arrive

(* A step is one of these. *)
LEMMA StepCases ==
  ASSUME [Next]_vars
  PROVE  \/ \E w \in Writers : (\E k \in Kinds : WriteAsync(w, k)) \/ PushAsync(w) \/ NotifyAsync(w)
         \/ WorkCheck \/ WorkTake \/ WorkQueueEmpty \/ WorkWrite \/ WorkSend \/ WorkSpuriousWakeup
         \/ Elsewhere /\ UNCHANGED <<sock, socket, binds, terminate, owner>>
         \/ ReceiveCallback \/ Bind \/ Close \/ Destroy
         \/ ReceiveCallbackJoin \/ BindReturn \/ CloseDescriptor \/ CloseReset \/ CloseJoin
         \/ DestroyNotify \/ DestroyJoin
<1>1. CASE UNCHANGED vars BY <1>1 DEF vars, Elsewhere
<1>2. CASE Next BY Zenon, <1>2, CallbackFrame DEF Next, WriterStep, Work, OwnerStep
<1> QED BY <1>1, <1>2

-----------------------------------------------------------------------------
(* Initially every variable has its type. *)
LEMMA TypeInit == Init => TypeInv
<1> SUFFICES ASSUME Init PROVE TypeInv
  OBVIOUS
<1>1. SocketTypeOK BY DEF Init, SocketTypeOK
<1>2. QueueTypeOK BY DEF Init, QueueTypeOK
<1>3. WriterTypeOK BY DEF Init, WriterTypeOK, IdleWriter, Kinds
<1>4. WorkerTypeOK BY DEF Init, WorkerTypeOK, Kinds, NoItem, Items
<1>5. OwnerTypeOK BY DEF Init, OwnerTypeOK
<1> QED BY <1>1, <1>2, <1>3, <1>4, <1>5 DEF TypeInv

(* The worker pops an item that is there. *)
LEMMA HandleTypes ==
  ASSUME TypeInv, NEW on \in Nat, Handle(on), worker.pc \in {"write", "send"}, InHand
  PROVE  handled' \in [Kinds -> Seq(Sent)] /\ queue' \in [Kinds -> Seq(Items)] /\ WorkerTypeOK'
<1> USE DEF TypeInv
<1>0. worker.kind \in Kinds /\ worker.item \in Items
  BY DEF WorkerTypeOK
<1>1. [item |-> worker.item, on |-> on] \in Sent
  BY <1>0 DEF Sent
<1>2. Append(handled[worker.kind], [item |-> worker.item, on |-> on]) \in Seq(Sent)
  BY Zenon, <1>0, <1>1, AppendProperties DEF QueueTypeOK
<1>3. queue[worker.kind] \in Seq(Items) /\ queue[worker.kind] # << >>
  BY <1>0 DEF QueueTypeOK, InHand
<1>4. Tail(queue[worker.kind]) \in Seq(Items)
  BY Zenon, <1>3, HeadTailProperties
<1>5. WorkerTypeOK'
  BY DEF Handle, WorkerTypeOK, NoItem, Items
<1> QED BY Zenon, <1>2, <1>4, <1>5 DEF Handle, QueueTypeOK

(* Every step keeps every variable in its type. *)
LEMMA TypeStep == TypeInv /\ InHand /\ [Next]_vars => TypeInv'
<1> SUFFICES ASSUME SocketTypeOK, QueueTypeOK, WriterTypeOK, WorkerTypeOK, OwnerTypeOK, InHand,
                    [Next]_vars
             PROVE  TypeInv'
  BY DEF TypeInv
<1> USE DEF TypeInv
<1>1. ASSUME NEW w \in Writers, NEW k \in Kinds, WriteAsync(w, k) PROVE TypeInv'
  <2>1. WriterTypeOK' BY <1>1 DEF WriteAsync, WriterTypeOK, SocketTypeOK
  <2> QED BY <1>1, <2>1 DEF WriteAsync, SocketTypeOK, QueueTypeOK, WorkerTypeOK, OwnerTypeOK
<1>2. ASSUME NEW w \in Writers, PushAsync(w) PROVE TypeInv'
  <2> DEFINE item == [id |-> Count(accepted) + 1, from |-> writer[w].from]
  <2>1. writer[w].kind \in Kinds /\ writer[w].from \in Nat
    BY DEF WriterTypeOK
  <2>2. Count(accepted) + 1 \in Nat
    BY DEF Count, QueueTypeOK, Kinds
  <2>3. item \in Items
    BY <2>1, <2>2 DEF Items
  <2>4. /\ Append(queue[writer[w].kind], item) \in Seq(Items)
        /\ Append(accepted[writer[w].kind], item) \in Seq(Items)
    BY Zenon, <2>1, <2>3, AppendProperties DEF QueueTypeOK
  <2>5. QueueTypeOK'
    BY Zenon, <1>2, <2>4 DEF PushAsync, QueueTypeOK
  <2>6. WriterTypeOK'
    BY <1>2, <2>2 DEF PushAsync, WriterTypeOK
  <2> QED BY <1>2, <2>5, <2>6 DEF PushAsync, SocketTypeOK, WorkerTypeOK, OwnerTypeOK
<1>3. ASSUME NEW w \in Writers, NotifyAsync(w) PROVE TypeInv'
  <2>1. WriterTypeOK' BY <1>3 DEF NotifyAsync, WriterTypeOK, IdleWriter, Kinds
  <2>2. WorkerTypeOK' BY <1>3 DEF NotifyAsync, Woken, WorkerTypeOK
  <2> QED BY <1>3, <2>1, <2>2 DEF NotifyAsync, SocketTypeOK, QueueTypeOK, OwnerTypeOK
<1>4. CASE WorkCheck \/ WorkSpuriousWakeup \/ WorkQueueEmpty
  <2>1. WorkerTypeOK'
    BY <1>4 DEF WorkCheck, WorkSpuriousWakeup, WorkQueueEmpty, WorkerTypeOK, Kinds
  <2> QED BY <1>4, <2>1 DEF WorkCheck, WorkSpuriousWakeup, WorkQueueEmpty, SocketTypeOK, QueueTypeOK,
                            WriterTypeOK, OwnerTypeOK
<1>5. CASE WorkTake
  <2>1. Head(queue[worker.kind]) \in Items
    BY Zenon, <1>5, HeadTailProperties DEF WorkTake, QueueTypeOK, WorkerTypeOK
  <2>2. WorkerTypeOK' BY <1>5, <2>1 DEF WorkTake, WorkerTypeOK
  <2> QED BY <1>5, <2>2 DEF WorkTake, SocketTypeOK, QueueTypeOK, WriterTypeOK, OwnerTypeOK
<1>6. CASE WorkWrite
  <2>1. CASE Handle(0)
    BY <1>6, <2>1, HandleTypes DEF WorkWrite, SocketTypeOK, QueueTypeOK, WriterTypeOK, OwnerTypeOK
  <2>2. CASE worker' = [worker EXCEPT !.pc = "send"] /\ UNCHANGED <<queue, handled>>
    BY <1>6, <2>2 DEF WorkWrite, SocketTypeOK, QueueTypeOK, WriterTypeOK, WorkerTypeOK, OwnerTypeOK
  <2> QED BY <1>6, <2>1, <2>2 DEF WorkWrite
<1>7. CASE WorkSend
  BY <1>7, HandleTypes DEF WorkSend, SocketTypeOK, QueueTypeOK, WriterTypeOK, OwnerTypeOK
<1>8. CASE Elsewhere /\ UNCHANGED <<sock, socket, binds, terminate, owner>>
  BY <1>8 DEF Elsewhere, SocketTypeOK, QueueTypeOK, WriterTypeOK, WorkerTypeOK, OwnerTypeOK
<1>9. CASE ReceiveCallback \/ ReceiveCallbackJoin \/ Bind \/ BindReturn \/ Close
  <2>1. SocketTypeOK'
    <3>1. sock' \in BOOLEAN /\ terminate' \in BOOLEAN
      BY Zenon, <1>9 DEF ReceiveCallback, ReceiveCallbackJoin, Bind, BindReturn, Close, SocketTypeOK
    <3>2. socket' \in Nat /\ binds' \in Nat
      BY <1>9 DEF ReceiveCallback, ReceiveCallbackJoin, Bind, BindReturn, Close, SocketTypeOK
    <3> QED BY <3>1, <3>2 DEF SocketTypeOK
  <2>2. owner' = owner \/ \E p \in {"idle", "replace", "binding", "close", "join"} : Owner(p)
    BY <1>9 DEF ReceiveCallback, ReceiveCallbackJoin, Bind, BindReturn, Close
  <2>3. OwnerTypeOK'
    BY <2>2 DEF Owner, OwnerTypeOK
  <2> QED BY <1>9, <2>1, <2>3 DEF ReceiveCallback, ReceiveCallbackJoin, Bind, BindReturn, Close,
                            QueueTypeOK, WriterTypeOK, WorkerTypeOK
<1>10. CASE CloseDescriptor \/ CloseReset \/ CloseJoin \/ Destroy \/ DestroyJoin
  <2>1. SocketTypeOK'
    <3>1. sock' \in BOOLEAN /\ terminate' \in BOOLEAN
      BY Zenon, <1>10 DEF CloseDescriptor, CloseReset, CloseJoin, Destroy, DestroyJoin, SocketTypeOK
    <3>2. socket' \in Nat /\ binds' \in Nat
      BY <1>10 DEF CloseDescriptor, CloseReset, CloseJoin, Destroy, DestroyJoin, SocketTypeOK
    <3> QED BY <3>1, <3>2 DEF SocketTypeOK
  <2>2. \/ \E p \in {"reset", "close", "join", owner.then} : Owner(p)
        \/ owner' = [pc |-> "terminating", then |-> "destroyed"]
    BY <1>10 DEF CloseDescriptor, CloseReset, CloseJoin, Destroy, DestroyJoin
  <2>3. OwnerTypeOK'
    BY <2>2 DEF Owner, OwnerTypeOK
  <2> QED BY <1>10, <2>1, <2>3 DEF CloseDescriptor, CloseReset, CloseJoin, Destroy, DestroyJoin,
                             QueueTypeOK, WriterTypeOK, WorkerTypeOK
<1>11. CASE DestroyNotify
  <2>1. WorkerTypeOK' /\ OwnerTypeOK' BY <1>11 DEF DestroyNotify, Woken, Owner, WorkerTypeOK, OwnerTypeOK
  <2> QED BY <1>11, <2>1 DEF DestroyNotify, SocketTypeOK, QueueTypeOK, WriterTypeOK
<1> QED BY Zenon, StepCases, <1>1, <1>2, <1>3, <1>4, <1>5, <1>6, <1>7, <1>8, <1>9, <1>10, <1>11

-----------------------------------------------------------------------------
(* A step that leaves the queues alone and has the worker take no item. *)
LEMMA OrderUntouched ==
  ASSUME Ordered, UNCHANGED <<queue, accepted, handled>>,
         worker'.pc \in {"write", "send"} =>
           worker.pc \in {"write", "send"} /\ worker'.kind = worker.kind /\ worker'.item = worker.item
  PROVE  Ordered'
<1>1. \A k \in Kinds : InOrder(k)'
  BY DEF Ordered, InOrder
<1>2. InHand'
  BY DEF Ordered, InHand
<1> QED BY <1>1, <1>2 DEF Ordered

(* A queue and what was accepted grow by the same item. *)
LEMMA PushPositions ==
  ASSUME NEW q \in Seq(Items), NEW a \in Seq(Items), NEW x \in Items, NEW h \in Nat,
         Len(a) = h + Len(q), \A i \in 1 .. Len(q) : q[i] = a[h + i]
  PROVE  /\ Len(Append(a, x)) = h + Len(Append(q, x))
         /\ \A i \in 1 .. h : Append(a, x)[i] = a[i]
         /\ \A i \in 1 .. Len(Append(q, x)) : Append(q, x)[i] = Append(a, x)[h + i]
         /\ q # << >> => Append(q, x) # << >> /\ Head(Append(q, x)) = Head(q)
<1>1. /\ Len(Append(q, x)) = Len(q) + 1 /\ Append(q, x)[Len(q) + 1] = x
      /\ \A i \in 1 .. Len(q) : Append(q, x)[i] = q[i]
  BY AppendProperties
<1>2. /\ Len(Append(a, x)) = Len(a) + 1 /\ Append(a, x)[Len(a) + 1] = x
      /\ \A i \in 1 .. Len(a) : Append(a, x)[i] = a[i]
  BY AppendProperties
<1>3. Len(q) \in Nat /\ Len(a) \in Nat
  OBVIOUS
<1>4. ASSUME NEW i \in 1 .. Len(Append(q, x)) PROVE Append(q, x)[i] = Append(a, x)[h + i]
  <2>1. CASE i = Len(q) + 1
    <3>1. h + i = Len(a) + 1 BY <1>3, <2>1
    <3> QED BY <1>1, <1>2, <2>1, <3>1
  <2>2. CASE i \in 1 .. Len(q)
    <3>1. h + i \in 1 .. Len(a) BY <1>3, <2>2
    <3> QED BY Zenon, <1>1, <1>2, <2>2, <3>1
  <2> QED BY <1>1, <1>3, <2>1, <2>2
<1>5. q # << >> => Append(q, x) # << >> /\ Head(Append(q, x)) = Head(q)
  OBVIOUS
<1>6. Len(Append(a, x)) = h + Len(Append(q, x))
  BY <1>1, <1>2, <1>3
<1>7. \A i \in 1 .. h : Append(a, x)[i] = a[i]
  <2> TAKE i \in 1 .. h
  <2>1. i \in 1 .. Len(a) BY <1>3
  <2> QED BY <1>2, <2>1
<1> QED BY <1>4, <1>5, <1>6, <1>7

(* The first of a queue becomes the next one that is handled. *)
LEMMA HandlePositions ==
  ASSUME NEW q \in Seq(Items), NEW a \in Seq(Items), NEW h \in Nat, q # << >>,
         Len(a) = h + Len(q), \A i \in 1 .. Len(q) : q[i] = a[h + i]
  PROVE  /\ Len(a) = h + 1 + Len(Tail(q))
         /\ Head(q) = a[h + 1]
         /\ \A i \in 1 .. Len(Tail(q)) : Tail(q)[i] = a[h + 1 + i]
<1>1. /\ Len(Tail(q)) = Len(q) - 1 /\ \A i \in 1 .. Len(Tail(q)) : Tail(q)[i] = q[i + 1]
  BY HeadTailProperties
<1>2. Len(q) \in Nat /\ Len(a) \in Nat /\ 1 \in 1 .. Len(q) /\ Head(q) = q[1]
  OBVIOUS
<1>3. ASSUME NEW i \in 1 .. Len(Tail(q)) PROVE Tail(q)[i] = a[h + 1 + i]
  <2>1. i + 1 \in 1 .. Len(q) /\ h + (i + 1) = h + 1 + i BY <1>1, <1>2
  <2> QED BY <1>1, <2>1
<1>4. Len(a) = h + 1 + Len(Tail(q))
  BY <1>1, <1>2
<1>5. Head(q) = a[h + 1]
  BY <1>2
<1> QED BY <1>3, <1>4, <1>5

(* Sending the item in hand moves it from the queue to what is handled. *)
LEMMA HandleKeepsOrder ==
  ASSUME TypeInv, Ordered, NEW on \in Nat, Handle(on), worker.pc \in {"write", "send"},
         UNCHANGED accepted
  PROVE  Ordered'
<1>1. ASSUME NEW k \in Kinds PROVE InOrder(k)'
  <2>0. InOrder(k) BY DEF Ordered
  <2>1. handled[k] \in Seq(Sent) /\ queue[k] \in Seq(Items) /\ accepted[k] \in Seq(Items)
    BY Zenon DEF TypeInv, QueueTypeOK
  <2>2. CASE worker.kind = k
    <3> DEFINE entry == [item |-> worker.item, on |-> on]
    <3>1. handled'[k] = Append(handled[k], entry) /\ queue'[k] = Tail(queue[k])
      BY <2>2 DEF Handle, TypeInv, QueueTypeOK
    <3>2. queue[k] # << >> /\ entry.item = Head(queue[k])
      BY <2>2 DEF Ordered, InHand
    <3> HIDE DEF entry
    <3>3. Len(handled[k]) \in Nat
      BY <2>1
    <3>4. /\ Len(accepted[k]) = Len(handled[k]) + Len(queue[k])
          /\ \A i \in 1 .. Len(queue[k]) : queue[k][i] = accepted[k][Len(handled[k]) + i]
          /\ \A i \in 1 .. Len(handled[k]) : handled[k][i].item = accepted[k][i]
      BY <2>0 DEF InOrder
    <3>5. /\ Len(accepted[k]) = Len(handled[k]) + 1 + Len(queue'[k])
          /\ entry.item = accepted[k][Len(handled[k]) + 1]
          /\ \A i \in 1 .. Len(queue'[k]) : queue'[k][i] = accepted[k][Len(handled[k]) + 1 + i]
      <4> DEFINE q == queue[k]  a == accepted[k]  h == Len(handled[k])
      <4>1. /\ q \in Seq(Items) /\ a \in Seq(Items) /\ h \in Nat /\ q # << >>
            /\ Len(a) = h + Len(q) /\ \A i \in 1 .. Len(q) : q[i] = a[h + i]
        BY <2>1, <3>2, <3>3, <3>4
      <4>2. /\ queue'[k] = Tail(q) /\ entry.item = Head(q)
        BY <3>1, <3>2
      <4> HIDE DEF q, a, h
      <4>3. /\ Len(a) = h + 1 + Len(Tail(q)) /\ Head(q) = a[h + 1]
            /\ \A i \in 1 .. Len(Tail(q)) : Tail(q)[i] = a[h + 1 + i]
        BY <4>1, HandlePositions
      <4>4. /\ Len(a) = h + 1 + Len(queue'[k]) /\ entry.item = a[h + 1]
            /\ \A i \in 1 .. Len(queue'[k]) : queue'[k][i] = a[h + 1 + i]
        BY Zenon, <4>2, <4>3
      <4> QED BY Zenon, <4>4 DEF a, h
    <3>6. /\ Len(handled'[k]) = Len(handled[k]) + 1
          /\ handled'[k][Len(handled[k]) + 1] = entry
          /\ \A i \in 1 .. Len(handled[k]) : handled'[k][i] = handled[k][i]
      BY <2>1, <3>1
    <3>7. ASSUME NEW i \in 1 .. Len(handled'[k]) PROVE handled'[k][i].item = accepted[k][i]
      <4>1. CASE i \in 1 .. Len(handled[k]) BY Zenon, <3>4, <3>6, <4>1
      <4>2. CASE i = Len(handled[k]) + 1 BY <3>5, <3>6, <4>2
      <4> QED BY <3>3, <3>6, <4>1, <4>2
    <3> QED BY Zenon, <3>5, <3>6, <3>7 DEF InOrder
  <2>3. CASE worker.kind # k
    <3>1. handled'[k] = handled[k] /\ queue'[k] = queue[k]
      BY <2>3 DEF Handle, TypeInv, QueueTypeOK
    <3> QED BY <2>0, <3>1 DEF InOrder
  <2> QED BY <2>2, <2>3
<1>2. InHand'
  BY DEF Handle, InHand, TypeInv, WorkerTypeOK
<1> QED BY <1>1, <1>2 DEF Ordered

(* No step loses, repeats or reorders an accepted write. *)
LEMMA OrderStep == TypeInv /\ Ordered /\ [Next]_vars => Ordered'
<1> SUFFICES ASSUME TypeInv, Ordered, [Next]_vars PROVE Ordered'
  OBVIOUS
<1>1. ASSUME NEW w \in Writers, NEW k \in Kinds, WriteAsync(w, k) PROVE Ordered'
  BY <1>1, OrderUntouched DEF WriteAsync
<1>2. ASSUME NEW w \in Writers, PushAsync(w) PROVE Ordered'
  <2> DEFINE x == [id |-> Count(accepted) + 1, from |-> writer[w].from]
             j == writer[w].kind
  <2>1. x \in Items /\ j \in Kinds
    BY DEF Items, Count, TypeInv, QueueTypeOK, WriterTypeOK, Kinds
  <2>2. /\ queue' = [queue EXCEPT ![j] = Append(@, x)]
        /\ accepted' = [accepted EXCEPT ![j] = Append(@, x)]
        /\ UNCHANGED <<handled, worker>>
    BY <1>2 DEF PushAsync
  <2> HIDE DEF x, j
  <2>3. ASSUME NEW k \in Kinds
        PROVE  /\ InOrder(k)'
               /\ queue[k] # << >> => queue'[k] # << >> /\ Head(queue'[k]) = Head(queue[k])
    <3>0. InOrder(k) BY DEF Ordered
    <3>1. handled[k] \in Seq(Sent) /\ queue[k] \in Seq(Items) /\ accepted[k] \in Seq(Items)
      BY Zenon DEF TypeInv, QueueTypeOK
    <3>2. CASE k = j
      <4> DEFINE q == queue[k]  a == accepted[k]  h == Len(handled[k])
      <4>1. /\ q \in Seq(Items) /\ a \in Seq(Items) /\ h \in Nat
            /\ Len(a) = h + Len(q) /\ \A i \in 1 .. Len(q) : q[i] = a[h + i]
            /\ \A i \in 1 .. h : handled[k][i].item = a[i]
        BY <3>0, <3>1 DEF InOrder
      <4>2. queue'[k] = Append(q, x) /\ accepted'[k] = Append(a, x) /\ handled'[k] = handled[k]
        BY <2>1, <2>2, <3>2 DEF TypeInv, QueueTypeOK
      <4>3. h = Len(handled'[k]) /\ q = queue[k]
        BY <4>2
      <4> HIDE DEF q, a, h
      <4>4. /\ Len(Append(a, x)) = h + Len(Append(q, x))
            /\ \A i \in 1 .. h : Append(a, x)[i] = a[i]
            /\ \A i \in 1 .. Len(Append(q, x)) : Append(q, x)[i] = Append(a, x)[h + i]
            /\ q # << >> => Append(q, x) # << >> /\ Head(Append(q, x)) = Head(q)
        BY <2>1, <4>1, PushPositions
      <4>5. \A i \in 1 .. h : handled'[k][i].item = accepted'[k][i]
        BY Zenon, <4>1, <4>2, <4>4
      <4> QED BY Zenon, <4>2, <4>3, <4>4, <4>5 DEF InOrder
    <3>3. CASE k # j
      <4>1. queue'[k] = queue[k] /\ accepted'[k] = accepted[k]
        BY <2>2, <3>3 DEF TypeInv, QueueTypeOK
      <4> QED BY <2>2, <3>0, <4>1 DEF InOrder
    <3> QED BY <3>2, <3>3
  <2>4. worker.kind \in Kinds
    BY DEF TypeInv, WorkerTypeOK
  <2>5. InHand'
    BY <2>2, <2>3, <2>4 DEF Ordered, InHand
  <2> QED BY <2>3, <2>5 DEF Ordered
<1>3. ASSUME NEW w \in Writers, NotifyAsync(w) PROVE Ordered'
  BY <1>3, OrderUntouched DEF NotifyAsync, Woken, TypeInv, WorkerTypeOK
<1>4. CASE WorkCheck \/ WorkSpuriousWakeup \/ WorkQueueEmpty
  BY <1>4, OrderUntouched DEF WorkCheck, WorkSpuriousWakeup, WorkQueueEmpty, TypeInv, WorkerTypeOK
<1>5. CASE WorkTake
  <2>1. \A k \in Kinds : InOrder(k)'
    BY <1>5 DEF WorkTake, Ordered, InOrder
  <2>2. InHand'
    BY <1>5 DEF WorkTake, InHand, TypeInv, WorkerTypeOK
  <2> QED BY <2>1, <2>2 DEF Ordered
<1>6. CASE WorkWrite
  <2>1. CASE Handle(0) BY <1>6, <2>1, HandleKeepsOrder DEF WorkWrite
  <2>2. CASE worker' = [worker EXCEPT !.pc = "send"] /\ UNCHANGED <<queue, handled>>
    BY <1>6, <2>2, OrderUntouched DEF WorkWrite, TypeInv, WorkerTypeOK
  <2> QED BY <1>6, <2>1, <2>2 DEF WorkWrite
<1>7. CASE WorkSend
  BY <1>7, HandleKeepsOrder DEF WorkSend, TypeInv, SocketTypeOK
<1>8. CASE Elsewhere
  BY <1>8, OrderUntouched DEF Elsewhere
<1>9. CASE ReceiveCallback \/ ReceiveCallbackJoin \/ Bind \/ BindReturn \/ Close
  BY <1>9, <1>8 DEF Elsewhere, ReceiveCallback, ReceiveCallbackJoin, Bind, BindReturn, Close
<1>10. CASE CloseDescriptor \/ CloseReset \/ CloseJoin \/ Destroy \/ DestroyJoin
  BY <1>10, <1>8 DEF Elsewhere, CloseDescriptor, CloseReset, CloseJoin, Destroy, DestroyJoin
<1>11. CASE DestroyNotify
  BY <1>11, OrderUntouched DEF DestroyNotify, Woken, TypeInv, WorkerTypeOK
<1> QED BY Zenon, StepCases, <1>1, <1>2, <1>3, <1>4, <1>5, <1>6, <1>7, <1>8, <1>9, <1>10, <1>11

(* No write arrives, and no queue grows, in the worker's last round. *)
LEMMA FlushingStep == TypeInv /\ Ordered /\ Flushing /\ [Next]_vars => Flushing'
<1> SUFFICES ASSUME TypeInv, InHand, Flushing, [Next]_vars PROVE Flushing'
  BY DEF Ordered
<1> USE DEF Flushing
<1>1. ASSUME NEW w \in Writers, NEW k \in Kinds, WriteAsync(w, k) PROVE Flushing'
  BY SMTT(30), <1>1 DEF WriteAsync
<1>2. ASSUME NEW w \in Writers, PushAsync(w) PROVE Flushing'
  BY SMTT(30), <1>2 DEF PushAsync
<1>3. ASSUME NEW w \in Writers, NotifyAsync(w) PROVE Flushing'
  BY SMTT(30), <1>3 DEF NotifyAsync, Woken, TypeInv, WorkerTypeOK
<1>4. CASE WorkCheck
  <2>1. worker.pc = "check" /\ UNCHANGED <<terminate, queue, writer, owner>>
    BY <1>4 DEF WorkCheck
  <2>2. worker'.pc # "finished" /\ worker'.kind = "packet"
    BY <1>4 DEF WorkCheck, TypeInv, WorkerTypeOK
  <2>3. worker'.finish => terminate
    <3>1. CASE terminate BY <3>1
    <3>2. CASE worker'.finish = worker.finish BY <3>2
    <3> QED BY <1>4, <3>1, <3>2 DEF WorkCheck, TypeInv, WorkerTypeOK
  <2> QED BY <2>1, <2>2, <2>3
<1>5. CASE WorkSpuriousWakeup BY <1>5 DEF WorkSpuriousWakeup, TypeInv, WorkerTypeOK
<1>6. CASE WorkTake BY <1>6 DEF WorkTake, TypeInv, WorkerTypeOK
<1>7. CASE WorkQueueEmpty
  BY SMTT(30), <1>7 DEF WorkQueueEmpty, LastRound, TypeInv, WorkerTypeOK, Kinds
<1>8. ASSUME NEW on \in Nat, Handle(on), worker.pc \in {"write", "send"},
             UNCHANGED <<terminate, writer, owner>>
      PROVE  Flushing'
  <2>1. worker' = [worker EXCEPT !.pc = "drain", !.item = NoItem]
    BY <1>8 DEF Handle
  <2>2. worker.kind = "raw" => queue'["packet"] = queue["packet"]
    BY <1>8 DEF Handle, TypeInv, QueueTypeOK, Kinds
  <2> QED BY SMTT(30), <1>8, <2>1, <2>2 DEF TypeInv, WorkerTypeOK
<1>9. CASE WorkWrite
  <2>1. CASE Handle(0) BY <1>8, <1>9, <2>1 DEF WorkWrite
  <2>2. CASE worker' = [worker EXCEPT !.pc = "send"] /\ UNCHANGED <<queue, handled>>
    BY <1>9, <2>2 DEF WorkWrite, TypeInv, WorkerTypeOK
  <2> QED BY <1>9, <2>1, <2>2 DEF WorkWrite
<1>10. CASE WorkSend BY <1>8, <1>10 DEF WorkSend, TypeInv, SocketTypeOK
<1>11. CASE Elsewhere /\ UNCHANGED <<sock, socket, binds, terminate, owner>>
  BY <1>11 DEF Elsewhere
<1>12. ASSUME Elsewhere, UNCHANGED terminate, NEW p, Owner(p),
              owner.pc \notin {"terminating", "joining"} \/ worker.pc = "finished"
       PROVE  Flushing'
  BY SMTT(30), <1>12 DEF Elsewhere, Owner, TypeInv, OwnerTypeOK
<1>13. CASE ReceiveCallback
  <2>1. CASE UNCHANGED owner BY <1>13, <2>1 DEF ReceiveCallback
  <2>2. CASE Owner("replace") BY <1>12, <1>13, <2>2 DEF ReceiveCallback, Elsewhere
  <2> QED BY <1>13, <2>1, <2>2 DEF ReceiveCallback
<1>14. CASE ReceiveCallbackJoin BY <1>12, <1>14 DEF ReceiveCallbackJoin, Elsewhere
<1>15. CASE Bind
  <2>1. PICK p \in {"binding", "join"} : Owner(p) BY <1>15 DEF Bind
  <2> QED BY <1>12, <1>15, <2>1 DEF Bind, Elsewhere
<1>16. CASE BindReturn
  <2>1. PICK p \in {"idle", "close"} : Owner(p) BY <1>16 DEF BindReturn
  <2> QED BY <1>12, <1>16, <2>1 DEF BindReturn, Elsewhere
<1>17. CASE Close BY <1>12, <1>17 DEF Close, Elsewhere
<1>18. CASE CloseDescriptor BY <1>12, <1>18 DEF CloseDescriptor, Elsewhere
<1>19. CASE CloseReset BY <1>12, <1>19 DEF CloseReset, Elsewhere
<1>20. CASE CloseJoin BY <1>12, <1>20 DEF CloseJoin, Elsewhere
<1>21. CASE Destroy BY SMTT(30), <1>21 DEF Destroy
<1>22. CASE DestroyNotify
  BY SMTT(30), <1>22 DEF DestroyNotify, Woken, Owner, TypeInv, WorkerTypeOK, OwnerTypeOK
<1>23. CASE DestroyJoin BY <1>12, <1>23 DEF DestroyJoin, Elsewhere
<1> QED BY Zenon, StepCases, <1>1, <1>2, <1>3, <1>4, <1>5, <1>6, <1>7, <1>9, <1>10, <1>11, <1>13,
          <1>14, <1>15, <1>16, <1>17, <1>18, <1>19, <1>20, <1>21, <1>22, <1>23

-----------------------------------------------------------------------------
(* What is handled now was sent from the socket that is open, if any is and   *)
(* the write was meant for it.                                                *)
LEMMA HandleKeepsOrigins ==
  ASSUME TypeInv, Ordered, Origins, NEW on \in Nat, Handle(on), worker.pc \in {"write", "send"},
         on = socket \/ socket = 0, UNCHANGED <<sock, socket, binds, writer, owner>>
  PROVE  Origins'
<1>0. worker.kind \in Kinds /\ queue[worker.kind] # << >>
  BY DEF TypeInv, WorkerTypeOK, Ordered, InHand
<1>1. ASSUME NEW k \in Kinds PROVE SentFrom(k)'
  <2> DEFINE entry == [item |-> worker.item, on |-> on]
  <2>1. handled[k] \in Seq(Sent)
    BY Zenon DEF TypeInv, QueueTypeOK
  <2>2. handled'[k] \in {handled[k], Append(handled[k], entry)}
    BY DEF Handle, TypeInv, QueueTypeOK
  <2>3. /\ entry.item.from <= binds
        /\ socket # 0 => entry.on = socket
    BY DEF Origins
  <2> HIDE DEF entry
  <2>4. ASSUME NEW i \in 1 .. Len(handled'[k])
        PROVE  (i \in 1 .. Len(handled[k]) /\ handled'[k][i] = handled[k][i]) \/ handled'[k][i] = entry
    <3>1. CASE handled'[k] = handled[k] BY <3>1
    <3>2. CASE handled'[k] = Append(handled[k], entry) BY <2>1, <3>2
    <3> QED BY <2>2, <3>1, <3>2
  <2>5. SentFrom(k)
    BY DEF Origins
  <2> QED BY Zenon, <2>3, <2>4, <2>5 DEF SentFrom
<1>2. ASSUME NEW k \in Kinds, NEW i \in 1 .. Len(queue'[k]) PROVE queue'[k][i].from <= binds
  <2>1. queue[k] \in Seq(Items)
    BY Zenon DEF TypeInv, QueueTypeOK
  <2>2. CASE k = worker.kind
    <3>1. queue'[k] = Tail(queue[k]) BY <2>2 DEF Handle, TypeInv, QueueTypeOK
    <3>2. i + 1 \in 1 .. Len(queue[k]) /\ queue'[k][i] = queue[k][i + 1]
      BY <1>0, <2>1, <2>2, <3>1
    <3> QED BY <3>2 DEF Origins
  <2>3. CASE k # worker.kind
    <3>1. queue'[k] = queue[k] BY <2>3 DEF Handle, TypeInv, QueueTypeOK
    <3> QED BY <3>1 DEF Origins
  <2> QED BY <2>2, <2>3
<1>3. worker'.pc = "drain"
  BY DEF Handle, TypeInv, WorkerTypeOK
<1> QED BY <1>1, <1>2, <1>3 DEF Origins

(* A step that leaves queues, writers and worker alone, and the open socket  *)
(* too, or closes it.                                                        *)
LEMMA OriginsUntouched ==
  ASSUME Origins, UNCHANGED <<queue, handled, writer, worker, binds>>,
         socket' = 0 \/ (socket' = socket /\ sock' = sock /\ owner'.pc # "reset")
  PROVE  Origins'
<1>1. ASSUME NEW k \in Kinds PROVE SentFrom(k)'
  BY DEF Origins, SentFrom
<1> QED BY <1>1 DEF Origins

(* Only bind opens a socket, under a new number, and only close closes it. *)
LEMMA OriginsStep == UdpInv /\ [Next]_vars => Origins'
<1> SUFFICES ASSUME TypeInv, Ordered, Origins, [Next]_vars PROVE Origins'
  BY DEF UdpInv
<1> USE DEF Origins
<1>1. ASSUME NEW w \in Writers, NEW k \in Kinds, WriteAsync(w, k) PROVE Origins'
  <2>1. \A v \in Writers : writer'[v].from <= binds
    BY <1>1 DEF WriteAsync, TypeInv, WriterTypeOK, SocketTypeOK
  <2>2. ASSUME NEW j \in Kinds PROVE SentFrom(j)' BY <1>1 DEF WriteAsync, SentFrom
  <2> QED BY <1>1, <2>1, <2>2 DEF WriteAsync
<1>2. ASSUME NEW w \in Writers, PushAsync(w) PROVE Origins'
  <2> DEFINE x == [id |-> Count(accepted) + 1, from |-> writer[w].from]
  <2>1. x.from <= binds
    OBVIOUS
  <2>2. ASSUME NEW k \in Kinds, NEW i \in 1 .. Len(queue'[k]) PROVE queue'[k][i].from <= binds
    <3>1. queue[k] \in Seq(Items) /\ queue'[k] \in {queue[k], Append(queue[k], x)}
      BY <1>2 DEF PushAsync, TypeInv, QueueTypeOK
    <3> HIDE DEF x
    <3>2. (i \in 1 .. Len(queue[k]) /\ queue'[k][i] = queue[k][i]) \/ queue'[k][i] = x
      BY SMTT(30), <3>1
    <3> QED BY <2>1, <3>2
  <2>3. \A v \in Writers : writer'[v].from <= binds
    BY <1>2 DEF PushAsync, TypeInv, WriterTypeOK
  <2>4. ASSUME NEW k \in Kinds PROVE SentFrom(k)' BY <1>2 DEF PushAsync, SentFrom
  <2> QED BY <1>2, <2>2, <2>3, <2>4 DEF PushAsync
<1>3. ASSUME NEW w \in Writers, NotifyAsync(w) PROVE Origins'
  <2>1. \A v \in Writers : writer'[v].from <= binds
    BY <1>3 DEF NotifyAsync, IdleWriter, TypeInv, WriterTypeOK, SocketTypeOK
  <2>2. ASSUME NEW k \in Kinds PROVE SentFrom(k)' BY <1>3 DEF NotifyAsync, SentFrom
  <2>3. worker'.pc \in {"write", "send"} => worker' = worker
    BY <1>3 DEF NotifyAsync, Woken, TypeInv, WorkerTypeOK
  <2> QED BY <1>3, <2>1, <2>2, <2>3 DEF NotifyAsync
<1>4. CASE WorkCheck \/ WorkSpuriousWakeup \/ WorkQueueEmpty
  <2>1. worker'.pc \notin {"write", "send"}
    BY <1>4 DEF WorkCheck, WorkSpuriousWakeup, WorkQueueEmpty, TypeInv, WorkerTypeOK
  <2>2. UNCHANGED <<sock, socket, binds, queue, handled, writer, owner>>
    BY <1>4 DEF WorkCheck, WorkSpuriousWakeup, WorkQueueEmpty
  <2>3. ASSUME NEW k \in Kinds PROVE SentFrom(k)' BY <2>2 DEF SentFrom
  <2> QED BY <2>1, <2>2, <2>3
<1>5. CASE WorkTake
  <2>1. worker.kind \in Kinds /\ queue[worker.kind] \in Seq(Items) /\ queue[worker.kind] # << >>
    BY <1>5 DEF WorkTake, TypeInv, WorkerTypeOK, QueueTypeOK
  <2>2. 1 \in 1 .. Len(queue[worker.kind]) /\ Head(queue[worker.kind]) = queue[worker.kind][1]
    BY <2>1
  <2>3. worker'.item.from <= binds
    BY <1>5, <2>1, <2>2 DEF WorkTake, TypeInv, WorkerTypeOK
  <2>4. ASSUME NEW k \in Kinds PROVE SentFrom(k)' BY <1>5 DEF WorkTake, SentFrom
  <2> QED BY <1>5, <2>3, <2>4 DEF WorkTake
<1>6. CASE WorkWrite
  <2>1. CASE ~sock /\ Handle(0) BY <1>6, <2>1, HandleKeepsOrigins DEF WorkWrite
  <2>2. CASE worker' = [worker EXCEPT !.pc = "send"] /\ UNCHANGED <<queue, handled>>
    <3>1. ASSUME NEW k \in Kinds PROVE SentFrom(k)' BY <1>6, <2>2 DEF WorkWrite, SentFrom
    <3> QED BY <1>6, <2>2, <3>1 DEF WorkWrite, TypeInv, WorkerTypeOK
  <2> QED BY <1>6, <2>1, <2>2 DEF WorkWrite
<1>7. CASE WorkSend
  BY <1>7, HandleKeepsOrigins DEF WorkSend, TypeInv, SocketTypeOK
<1>8. CASE Elsewhere /\ UNCHANGED <<sock, socket, binds, terminate, owner>>
  BY <1>8, OriginsUntouched DEF Elsewhere
<1>9. CASE Bind
  <2>1. CASE Owner("join") /\ UNCHANGED <<sock, socket, binds>>
    BY <1>9, <2>1, OriginsUntouched DEF Bind, Owner, TypeInv, OwnerTypeOK
  <2>2. CASE sock' = TRUE /\ socket' = binds + 1 /\ binds' = binds + 1 /\ Owner("binding")
    <3>1. \A n \in Nat : n <= binds => n <= binds' /\ n # socket'
      BY <2>2 DEF TypeInv, SocketTypeOK
    <3>2. ASSUME NEW k \in Kinds PROVE SentFrom(k)'
      <4>1. \A i \in 1 .. Len(handled[k]) : handled[k][i].item.from \in Nat
        <5>1. handled[k] \in Seq(Sent) BY Zenon DEF TypeInv, QueueTypeOK
        <5>2. \A i \in 1 .. Len(handled[k]) : handled[k][i] \in Sent
          BY Zenon, <5>1, ElementOfSeq
        <5> QED BY <5>2 DEF Sent, Items
      <4> QED BY <1>9, <3>1, <4>1 DEF Bind, SentFrom
    <3>3. \A k \in Kinds : \A i \in 1 .. Len(queue[k]) : queue[k][i].from <= binds'
      <4>1. \A k \in Kinds : \A i \in 1 .. Len(queue[k]) : queue[k][i].from \in Nat
        <5>1. \A k \in Kinds : queue[k] \in Seq(Items) BY Zenon DEF TypeInv, QueueTypeOK
        <5>2. \A k \in Kinds : \A i \in 1 .. Len(queue[k]) : queue[k][i] \in Items
          BY Zenon, <5>1, ElementOfSeq
        <5> QED BY <5>2 DEF Items
      <4> QED BY <3>1, <4>1
    <3>4. \A w \in Writers : writer[w].from <= binds'
      BY <3>1 DEF TypeInv, WriterTypeOK
    <3>5. worker.pc \in {"write", "send"} => worker.item.from <= binds'
      BY <3>1 DEF TypeInv, WorkerTypeOK, Items
    <3>6. sock' /\ owner'.pc # "reset"
      BY <2>2 DEF Owner, TypeInv, OwnerTypeOK
    <3> QED BY <1>9, <3>2, <3>3, <3>4, <3>5, <3>6 DEF Bind
  <2> QED BY <1>9, <2>1, <2>2 DEF Bind
<1>10. CASE ReceiveCallback \/ ReceiveCallbackJoin \/ BindReturn \/ Close
  <2>1. UNCHANGED <<sock, socket, binds, queue, handled, writer, worker>>
    BY <1>10 DEF ReceiveCallback, ReceiveCallbackJoin, BindReturn, Close
  <2>2. owner' = owner \/ \E p \in {"idle", "replace", "close", "join"} : Owner(p)
    BY <1>10 DEF ReceiveCallback, ReceiveCallbackJoin, BindReturn, Close
  <2>3. owner' = owner \/ owner'.pc # "reset"
    BY <2>2 DEF Owner, TypeInv, OwnerTypeOK
  <2> QED BY <2>1, <2>3, OriginsUntouched
<1>11. CASE CloseDescriptor
  BY <1>11, OriginsUntouched DEF CloseDescriptor
<1>12. CASE CloseReset
  BY <1>12, OriginsUntouched DEF CloseReset
<1>13. CASE CloseJoin \/ Destroy \/ DestroyJoin
  <2>1. UNCHANGED <<sock, socket, binds, queue, handled, writer, worker>>
    BY <1>13 DEF CloseJoin, Destroy, DestroyJoin
  <2>2. owner'.pc # "reset"
    BY <1>13 DEF CloseJoin, Destroy, DestroyJoin, Owner, TypeInv, OwnerTypeOK
  <2> QED BY <2>1, <2>2, OriginsUntouched
<1>14. CASE DestroyNotify
  <2>1. worker'.pc \in {"write", "send"} => worker' = worker
    BY <1>14 DEF DestroyNotify, Woken, TypeInv, WorkerTypeOK
  <2>2. ASSUME NEW k \in Kinds PROVE SentFrom(k)' BY <1>14 DEF DestroyNotify, SentFrom
  <2>3. owner'.pc # "reset" BY <1>14 DEF DestroyNotify, Owner, TypeInv, OwnerTypeOK
  <2> QED BY <1>14, <2>1, <2>2, <2>3 DEF DestroyNotify
<1> QED BY Zenon, StepCases, <1>1, <1>2, <1>3, <1>4, <1>5, <1>6, <1>7, <1>8, <1>9, <1>10, <1>11,
          <1>12, <1>13, <1>14

-----------------------------------------------------------------------------
(* The invariant holds initially, is kept by every step, and is enough. *)
LEMMA InvInit == Init => UdpInv
<1> SUFFICES ASSUME Init PROVE UdpInv
  OBVIOUS
<1>1. TypeInv BY TypeInit
<1>2. Ordered BY DEF Init, Ordered, InOrder, InHand
<1>3. Flushing BY DEF Init, Flushing
<1>4. Origins BY DEF Init, Origins, SentFrom, IdleWriter
<1> QED BY <1>1, <1>2, <1>3, <1>4 DEF UdpInv

LEMMA InvStep == UdpInv /\ [Next]_vars => UdpInv'
<1> SUFFICES ASSUME UdpInv, [Next]_vars PROVE UdpInv'
  OBVIOUS
<1>1. TypeInv' BY TypeStep DEF UdpInv, Ordered
<1>2. Ordered' BY OrderStep DEF UdpInv
<1>3. Flushing' BY FlushingStep DEF UdpInv
<1>4. Origins' BY OriginsStep
<1> QED BY <1>1, <1>2, <1>3, <1>4 DEF UdpInv

LEMMA InvFlushes == UdpInv => DestructorFlushes
<1> SUFFICES ASSUME UdpInv, owner.then = "destroyed", owner.pc \notin {"terminating", "joining"},
                    NEW k \in Kinds
             PROVE  /\ HandledItems(k) = accepted[k]
                    /\ \A i \in 1 .. Len(handled[k]) :
                         socket # 0 /\ handled[k][i].item.from = socket => handled[k][i].on = socket
  BY DEF DestructorFlushes
<1>1. queue[k] = << >>
  BY DEF UdpInv, Flushing, Kinds
<1>2. handled[k] \in Seq(Sent) /\ accepted[k] \in Seq(Items)
  BY Zenon DEF UdpInv, TypeInv, QueueTypeOK
<1>3. /\ Len(accepted[k]) = Len(handled[k])
      /\ \A i \in 1 .. Len(handled[k]) : handled[k][i].item = accepted[k][i]
  <2>1. InOrder(k)
    BY Zenon DEF UdpInv, Ordered
  <2>2. Len(queue[k]) = 0 /\ Len(handled[k]) \in Nat
    BY <1>1, <1>2
  <2> QED BY <2>1, <2>2 DEF InOrder
<1>4. HandledItems(k) = accepted[k]
  BY <1>2, <1>3 DEF HandledItems
<1>5. SentFrom(k)
  BY DEF UdpInv, Origins
<1> QED BY <1>4, <1>5 DEF SentFrom

(* For any number of writers, writes and binds: once the destructor has      *)
(* joined the worker (linux/UdpSocket.cpp:40-51), every accepted write was   *)
(* handled in the order of its queue, and what was written to the socket     *)
(* that is still open was sent from it.                                      *)
THEOREM DestructorFlushesHolds == Spec => []DestructorFlushes
<1>1. Init => UdpInv BY InvInit
<1>2. UdpInv /\ [Next]_vars => UdpInv' BY InvStep
<1>3. UdpInv => DestructorFlushes BY InvFlushes
<1> QED BY <1>1, <1>2, <1>3, PTL DEF Spec

(* For any number of packets and binds: after close() or the destructor no   *)
(* callback runs until receiveCallback is called again                       *)
(* (linux/UdpSocket.cpp:53-64).                                              *)
THEOREM ClosedMeansSilentHolds == Spec => []ClosedMeansSilent
<1> DEFINE Quiet == silent => callback.pc = "none"
<1>1. Init => Quiet
  BY DEF Init
<1>2. Quiet /\ [Next]_vars => Quiet'
  <2> SUFFICES ASSUME Quiet, [Next]_vars PROVE Quiet'
    OBVIOUS
  <2>1. ASSUME NEW w \in Writers, NEW k \in Kinds, WriteAsync(w, k) PROVE Quiet'
    BY <2>1 DEF WriteAsync
  <2>2. ASSUME NEW w \in Writers, WriterStep(w) PROVE Quiet'
    BY <2>2 DEF WriterStep, PushAsync, NotifyAsync
  <2>3. CASE Work \/ WorkSpuriousWakeup
    BY <2>3 DEF Work, WorkCheck, WorkTake, WorkQueueEmpty, WorkWrite, WorkSend, WorkSpuriousWakeup
  <2>4. CASE CallbackStep \/ CallbackInterrupted
    BY <2>4 DEF CallbackStep, CallbackLoop, CallbackReceive, CallbackPacket, CallbackShut,
                CallbackCall, CallbackInterrupted
  <2>5. CASE Arrive \/ Bind \/ Close \/ Destroy
    BY <2>5 DEF Arrive, Bind, Close, Destroy
  <2>6. CASE ReceiveCallback BY <2>6 DEF ReceiveCallback
  <2>7. CASE OwnerStep
    <3>1. CASE ReceiveCallbackJoin BY <3>1 DEF ReceiveCallbackJoin
    <3>2. CASE CloseDescriptor BY <3>2 DEF CloseDescriptor, AfterShutdown
    <3>3. CASE CloseJoin BY <3>3 DEF CloseJoin, Joined, Thread
    <3>4. CASE BindReturn \/ CloseReset \/ DestroyNotify \/ DestroyJoin
      BY <3>4 DEF BindReturn, CloseReset, DestroyNotify, DestroyJoin
    <3> QED BY Zenon, <2>7, <3>1, <3>2, <3>3, <3>4 DEF OwnerStep
  <2>8. CASE UNCHANGED vars BY <2>8 DEF vars
  <2> QED BY Zenon, <2>1, <2>2, <2>3, <2>4, <2>5, <2>6, <2>7, <2>8 DEF Next
<1>3. Quiet => ClosedMeansSilent
  BY DEF ClosedMeansSilent
<1> QED BY <1>1, <1>2, <1>3, PTL DEF Spec
=============================================================================
