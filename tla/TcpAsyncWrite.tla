---------------------------- MODULE TcpAsyncWrite ----------------------------
(***************************************************************************)
(* The asynchronous write path of libs/sockets/src/TcpSocket.cpp: user     *)
(* threads queue data with writePacketAsync and writeAsync, the worker     *)
(* thread of the socket (work) sends it, and the thread that owns the      *)
(* object connects, closes and finally destroys it.                        *)
(*                                                                         *)
(* Every section under _condMutex, _writePacketAsyncLock or                *)
(* _writeAsyncLock is one step.  work() reads the sizes of both queues     *)
(* under _condMutex only, while a writer changes them under the other      *)
(* mutexes: what that race can return is in MaySeeWork and MustSeeWork.    *)
(***************************************************************************)
EXTENDS Naturals, Sequences

CONSTANTS Writers,     \* the threads that write
          MaxWrites,   \* bound on asynchronous writes
          MaxConnects  \* bound on connections of the one object

ASSUME AsyncAssumption == MaxWrites \in Nat /\ MaxConnects \in Nat

VARIABLES status,      \* _status
          sock,        \* _sock # INVALID_SOCKET
          fdConnection,\* the connection the descriptor denotes, 0 when closed
          connects,    \* how often connect succeeded
          closed,      \* history: was close() called on a live connection
          terminate,   \* _terminate
          queue,       \* _writePacketAsyncQueue and _writeAsyncQueue
          accepted,    \* history: everything ever queued, in order
          handled,     \* history: what the worker sent (on which connection)
                       \* or dropped (on connection 0), in order
          writerPc, writerKind, writerConnection, writerItem,
          writes,      \* asynchronous writes begun
          workerPc, workerKind, workerItem, workerFd, finish,
          ownerPc

connection == <<status, sock, fdConnection, connects, closed>>
writer == <<writerPc, writerKind, writerConnection, writerItem, writes>>
worker == <<workerKind, workerItem, workerFd, finish>>
vars == <<connection, terminate, queue, accepted, handled, writer, workerPc, worker, ownerPc>>

(* Which queue: that of writePacketAsync or that of writeAsync.  The worker *)
(* empties the packet queue first.                                          *)
Kinds == {"packet", "stream"}
NoItem == [id |-> 0, from |-> 0]
Items == [id : Nat, from : Nat]

Init ==
  /\ status = "INACTIVE" /\ sock = FALSE /\ fdConnection = 0 /\ connects = 0
  /\ closed = FALSE /\ terminate = FALSE
  /\ queue = [k \in Kinds |-> << >>]
  /\ accepted = [k \in Kinds |-> << >>]
  /\ handled = [k \in Kinds |-> << >>]
  /\ writerPc = [w \in Writers |-> "idle"]
  /\ writerKind = [w \in Writers |-> "packet"]
  /\ writerConnection = [w \in Writers |-> 0]
  /\ writerItem = [w \in Writers |-> 0]
  /\ writes = 0
  /\ workerPc = "check" /\ workerKind = "packet" /\ workerItem = NoItem
  /\ workerFd = FALSE /\ finish = FALSE
  /\ ownerPc = "idle"

(* notify_all wakes the worker if it waits, and is lost otherwise. *)
NotifyAll == workerPc' = IF workerPc = "waiting" THEN "drain" ELSE workerPc

-----------------------------------------------------------------------------
(* writePacketAsync and writeAsync *)

(* The status check.  A write on a socket that is not connected returns      *)
(* NOT_READY and changes nothing.                                            *)
WriteAsync(w, k) ==
  /\ writerPc[w] = "idle" /\ ~terminate
  /\ status = "CONNECTED"
  /\ writes < MaxWrites
  /\ writes' = writes + 1
  /\ writerPc' = [writerPc EXCEPT ![w] = "push"]
  /\ writerKind' = [writerKind EXCEPT ![w] = k]
  /\ writerConnection' = [writerConnection EXCEPT ![w] = connects]
  /\ UNCHANGED <<connection, terminate, queue, accepted, handled, writerItem, workerPc, worker, ownerPc>>

PushAsync(w) ==
  LET k == writerKind[w]
      item == [id |-> Len(accepted["packet"]) + Len(accepted["stream"]) + 1,
               from |-> writerConnection[w]]
  IN /\ writerPc[w] = "push"
     /\ queue' = [queue EXCEPT ![k] = Append(@, item)]
     /\ accepted' = [accepted EXCEPT ![k] = Append(@, item)]
     /\ writerItem' = [writerItem EXCEPT ![w] = item.id]
     /\ writerPc' = [writerPc EXCEPT ![w] = "notify"]
     /\ UNCHANGED <<connection, terminate, handled, writerKind, writerConnection, writes,
                    workerPc, worker, ownerPc>>

(* A mistake: the writer does not notify. *)
NotifyAsyncForgotten(w) ==
  /\ writerPc[w] = "notify"
  /\ writerPc' = [writerPc EXCEPT ![w] = "idle"]
  /\ writerKind' = [writerKind EXCEPT ![w] = "packet"]
  /\ writerConnection' = [writerConnection EXCEPT ![w] = 0]
  /\ writerItem' = [writerItem EXCEPT ![w] = 0]
  /\ UNCHANGED <<connection, terminate, queue, accepted, handled, writes, workerPc, worker, ownerPc>>

NotifyAsync(w) ==
  /\ writerPc[w] = "notify"
  /\ NotifyAll
  /\ writerPc' = [writerPc EXCEPT ![w] = "idle"]
  /\ writerKind' = [writerKind EXCEPT ![w] = "packet"]
  /\ writerConnection' = [writerConnection EXCEPT ![w] = 0]
  /\ writerItem' = [writerItem EXCEPT ![w] = 0]
  /\ UNCHANGED <<connection, terminate, queue, accepted, handled, writes, worker, ownerPc>>

-----------------------------------------------------------------------------
(* work *)

(* The worker must see an item once its writer has been through _condMutex,  *)
(* and may see one that is pushed or just being pushed before that.          *)
Unannounced == {writerItem[w] : w \in {v \in Writers : writerPc[v] = "notify"}}
MustSeeWork == \E k \in Kinds : \E i \in 1 .. Len(queue[k]) : queue[k][i].id \notin Unannounced
MaySeeWork == (\E k \in Kinds : queue[k] # << >>) \/ (\E w \in Writers : writerPc[w] = "push")

(* A mistake: the worker waits without looking at the queues first. *)
WorkCheckBlind ==
  /\ workerPc = "check"
  /\ \/ terminate /\ finish' = TRUE /\ workerPc' = "drain"
     \/ ~terminate /\ workerPc' = "waiting" /\ UNCHANGED finish
  /\ workerKind' = "packet"
  /\ UNCHANGED <<connection, terminate, queue, accepted, handled, writer, workerItem, workerFd, ownerPc>>

WorkCheck ==
  /\ workerPc = "check"
  /\ \/ /\ terminate
        /\ finish' = TRUE /\ workerPc' = "drain"
     \/ /\ ~terminate /\ MaySeeWork
        /\ workerPc' = "drain" /\ UNCHANGED finish
     \/ /\ ~terminate /\ ~MustSeeWork
        /\ workerPc' = "waiting" /\ UNCHANGED finish
  /\ workerKind' = "packet"
  /\ UNCHANGED <<connection, terminate, queue, accepted, handled, writer, workerItem, workerFd, ownerPc>>

(* A condition variable may wake up without a notification. *)
WorkSpuriousWakeup ==
  /\ workerPc = "waiting"
  /\ workerPc' = "drain"
  /\ UNCHANGED <<connection, terminate, queue, accepted, handled, writer, worker, ownerPc>>

(* The head of the queue is moved out and popped before the lock is dropped. *)
WorkTake ==
  /\ workerPc = "drain"
  /\ queue[workerKind] # << >>
  /\ workerItem' = Head(queue[workerKind])
  /\ queue' = [queue EXCEPT ![workerKind] = Tail(@)]
  /\ workerPc' = "write"
  /\ UNCHANGED <<connection, terminate, accepted, handled, writer, workerKind, workerFd, finish, ownerPc>>

(* A mistake: the loop ends on _terminate itself, without a last round. *)
WorkQueueEmptyNoLastRound ==
  /\ workerPc = "drain"
  /\ queue[workerKind] = << >>
  /\ \/ /\ workerKind = "packet"
        /\ workerKind' = "stream" /\ UNCHANGED workerPc
     \/ /\ workerKind = "stream"
        /\ workerPc' = IF terminate THEN "finished" ELSE "check"
        /\ UNCHANGED workerKind
  /\ UNCHANGED <<connection, terminate, queue, accepted, handled, writer, workerItem, workerFd, finish, ownerPc>>

(* A queue is empty: on to the other one, or to the end of the round. *)
WorkQueueEmpty ==
  /\ workerPc = "drain"
  /\ queue[workerKind] = << >>
  /\ \/ /\ workerKind = "packet"
        /\ workerKind' = "stream" /\ UNCHANGED workerPc
     \/ /\ workerKind = "stream"
        /\ workerPc' = IF finish THEN "finished" ELSE "check"
        /\ UNCHANGED workerKind
  /\ UNCHANGED <<connection, terminate, queue, accepted, handled, writer, workerItem, workerFd, finish, ownerPc>>

Handle(on) ==
  /\ handled' = [handled EXCEPT ![workerKind] = Append(@, [item |-> workerItem, on |-> on])]
  /\ workerItem' = NoItem
  /\ workerFd' = FALSE
  /\ workerPc' = "drain"

(* writePacket and write: the status check, then _sock is loaded. *)
WorkWrite ==
  /\ workerPc = "write"
  /\ \/ /\ status # "CONNECTED"
        /\ Handle(0)
     \/ /\ status = "CONNECTED"
        /\ workerFd' = sock
        /\ workerPc' = "send"
        /\ UNCHANGED <<handled, workerItem>>
  /\ UNCHANGED <<connection, terminate, queue, accepted, writer, workerKind, finish, ownerPc>>

(* send() goes to whatever connection the descriptor denotes by now; on a   *)
(* closed or invalid one it fails, and the worker ignores the error.        *)
WorkSend ==
  /\ workerPc = "send"
  /\ Handle(IF workerFd THEN fdConnection ELSE 0)
  /\ UNCHANGED <<connection, terminate, queue, accepted, writer, workerKind, finish, ownerPc>>

-----------------------------------------------------------------------------
(* A mistake: connect() sets the status of listen(). *)
ConnectListening ==
  /\ ownerPc = "idle" /\ status = "INACTIVE"
  /\ connects < MaxConnects
  /\ connects' = connects + 1
  /\ sock' = TRUE /\ fdConnection' = connects + 1
  /\ status' = "LISTENING"
  /\ UNCHANGED <<closed, terminate, queue, accepted, handled, writer, workerPc, worker, ownerPc>>

(* The owner.  connect() gets the lowest free descriptor, the one close()    *)
(* freed.                                                                    *)
Connect ==
  /\ ownerPc = "idle" /\ status = "INACTIVE"
  /\ connects < MaxConnects
  /\ connects' = connects + 1
  /\ sock' = TRUE /\ fdConnection' = connects + 1
  /\ status' = "CONNECTED"
  /\ UNCHANGED <<closed, terminate, queue, accepted, handled, writer, workerPc, worker, ownerPc>>

CloseDescriptor == sock' = FALSE /\ fdConnection' = 0

Close ==
  /\ ownerPc = "idle" /\ status # "INACTIVE"
  /\ CloseDescriptor
  /\ closed' = TRUE
  /\ ownerPc' = "closing"
  /\ UNCHANGED <<status, connects, terminate, queue, accepted, handled, writer, workerPc, worker>>

CloseStatus ==
  /\ ownerPc = "closing"
  /\ status' = "INACTIVE"
  /\ ownerPc' = "idle"
  /\ UNCHANGED <<sock, fdConnection, connects, closed, terminate, queue, accepted, handled, writer, workerPc, worker>>

(* A mistake: the destructor does not notify. *)
DestroySilent ==
  /\ ownerPc = "idle"
  /\ \A w \in Writers : writerPc[w] = "idle"
  /\ terminate' = TRUE
  /\ ownerPc' = "joining"
  /\ UNCHANGED <<connection, queue, accepted, handled, writer, workerPc, worker>>

(* ~TcpSocket; no other thread may be inside a member function by then. *)
Destroy ==
  /\ ownerPc = "idle"
  /\ \A w \in Writers : writerPc[w] = "idle"
  /\ terminate' = TRUE
  /\ NotifyAll
  /\ ownerPc' = "joining"
  /\ UNCHANGED <<connection, queue, accepted, handled, writer, worker>>

DestroyJoin ==
  /\ ownerPc = "joining" /\ workerPc = "finished"
  /\ ownerPc' = "joined"
  /\ UNCHANGED <<connection, terminate, queue, accepted, handled, writer, workerPc, worker>>

(* The close() that ends the destructor. *)
DestroyClose ==
  /\ ownerPc = "joined"
  /\ \/ status = "INACTIVE" /\ UNCHANGED <<status, sock, fdConnection>>
     \/ status # "INACTIVE" /\ CloseDescriptor /\ status' = "INACTIVE"
  /\ ownerPc' = "destroyed"
  /\ UNCHANGED <<connects, closed, terminate, queue, accepted, handled, writer, workerPc, worker>>

-----------------------------------------------------------------------------
Work == WorkCheck \/ WorkTake \/ WorkQueueEmpty \/ WorkWrite \/ WorkSend
WriterStep(w) == PushAsync(w) \/ NotifyAsync(w)
OwnerStep == CloseStatus \/ DestroyJoin \/ DestroyClose

Next ==
  \/ \E w \in Writers : (\E k \in Kinds : WriteAsync(w, k)) \/ WriterStep(w)
  \/ Work \/ WorkSpuriousWakeup
  \/ Connect \/ Close \/ Destroy \/ OwnerStep

Spec == Init /\ [][Next]_vars

(* Every thread that can go on does; nothing makes a user start a call. *)
FairSpec ==
  /\ Spec
  /\ WF_vars(Work) /\ WF_vars(OwnerStep)
  /\ \A w \in Writers : WF_vars(WriterStep(w))

-----------------------------------------------------------------------------
WorkerPCs == {"check", "waiting", "drain", "write", "send", "finished"}
OwnerPCs == {"idle", "closing", "joining", "joined", "destroyed"}

SocketTypeOK ==
  /\ status \in {"INACTIVE", "CONNECTED"} /\ sock \in BOOLEAN
  /\ fdConnection \in Nat /\ connects \in Nat /\ closed \in BOOLEAN
  /\ terminate \in BOOLEAN /\ ownerPc \in OwnerPCs

QueueTypeOK ==
  /\ queue \in [Kinds -> Seq(Items)] /\ accepted \in [Kinds -> Seq(Items)]
  /\ handled \in [Kinds -> Seq([item : Items, on : Nat])]

WriterTypeOK ==
  /\ writerPc \in [Writers -> {"idle", "push", "notify"}]
  /\ writerKind \in [Writers -> Kinds]
  /\ writerConnection \in [Writers -> Nat] /\ writerItem \in [Writers -> Nat]
  /\ writes \in Nat

WorkerTypeOK ==
  /\ workerPc \in WorkerPCs /\ workerKind \in Kinds /\ workerItem \in Items
  /\ workerFd \in BOOLEAN /\ finish \in BOOLEAN

(* Types of the socket, the queues of pending writes, the writers and the     *)
(* locals of work (TcpSocket.cpp:43-49, 604-648).                             *)
TypeOK == SocketTypeOK /\ QueueTypeOK /\ WriterTypeOK /\ WorkerTypeOK

(* The worker never sleeps on work nobody will wake it for: while it waits,  *)
(* the destructor has not run and every queued item belongs to a writer that *)
(* is still going to call notify_all ("this check needs to be inside the     *)
(* lock to avoid a lost wake-up", TcpSocket.cpp:615).                        *)
NoLostWakeup == workerPc = "waiting" => ~terminate /\ ~MustSeeWork

HandledItems(k) == [i \in 1 .. Len(handled[k]) |-> handled[k][i].item]

(* When the destructor has joined the worker, every accepted write was       *)
(* handled, in the order it was accepted, and unless close() was called      *)
(* before, was sent on the connection it was written to ("This ensures       *)
(* handling the pending writes", TcpSocket.cpp:606).                         *)
DestructorFlushes ==
  ownerPc \in {"joined", "destroyed"} =>
    \A k \in Kinds :
      /\ HandledItems(k) = accepted[k]
      /\ ~closed => \A i \in 1 .. Len(handled[k]) : handled[k][i].on = accepted[k][i].from

Count(f) == Len(f["packet"]) + Len(f["stream"])

(* Every write that was accepted is eventually handled, whether or not the   *)
(* socket is ever destroyed (work, TcpSocket.cpp:604-648).                   *)
AcceptedIsHandled ==
  \A n \in 1 .. MaxWrites : (Count(accepted) >= n) ~> (Count(handled) >= n)

(* The destructor never hangs on the worker (TcpSocket.cpp:57-68).           *)
DestructorReturns == terminate ~> (ownerPc = "destroyed")
=============================================================================
