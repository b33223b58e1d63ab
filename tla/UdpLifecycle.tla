---------------------------- MODULE UdpLifecycle ----------------------------
(***************************************************************************)
(* The threads of a UdpSocket, libs/sockets/src/UdpSocket.cpp and          *)
(* linux/UdpSocket.cpp: the owner binds, closes and destroys the object    *)
(* and starts callbacks, writers queue data, the worker (work) sends it,   *)
(* and the thread of receiveCallback receives packets.  Nothing guards     *)
(* _sock, which every thread reads on its own.                             *)
(*                                                                         *)
(* The owner does not call close or receiveCallback from inside a          *)
(* callback: the thread would join itself, which ends the process.         *)
(***************************************************************************)
EXTENDS Naturals, Sequences, FiniteSets

CONSTANTS Writers,    \* the threads that write
          MaxWrites,  \* bound on asynchronous writes
          MaxBinds,   \* bound on sockets bind creates
          MaxInbox    \* bound on packets waiting at the socket

ASSUME UdpLifecycleAssumption == MaxWrites \in Nat /\ MaxBinds \in Nat /\ MaxInbox \in Nat

VARIABLES sock,      \* _sock # INVALID_SOCKET
          socket,    \* the kernel's socket behind the descriptor, 0 when closed
          binds,     \* sockets ever created
          inbox,     \* packets waiting at the socket
          terminate,          \* _terminate
          queue,              \* _writePacketAsyncQueue and _writeAsyncQueue
          accepted, handled,  \* history: items queued, items sent (and from where)
          writer,    \* for each writer: pc, kind and item
          worker,    \* pc, kind, item and finish of work
          callback,  \* _callbackThread: pc and the error it tells
          owner,     \* pc, and what close returns to
          silent     \* history: close returned and no callback was started since

kernel == <<socket, binds, inbox>>
async == <<queue, accepted, handled>>
vars == <<sock, kernel, terminate, async, writer, worker, callback, owner, silent>>

(* The queue of writePacketAsync and that of writeAsync, emptied in this order. *)
Kinds == {"packet", "raw"}
NoItem == [id |-> 0, from |-> 0]
Count(f) == Len(f["packet"]) + Len(f["raw"])
IdleWriter == [pc |-> "idle", kind |-> "packet", from |-> 0, id |-> 0]

Init ==
  /\ sock = FALSE
  /\ socket = 0 /\ binds = 0 /\ inbox = 0
  /\ terminate = FALSE
  /\ queue = [k \in Kinds |-> << >>] /\ accepted = queue /\ handled = queue
  /\ writer = [w \in Writers |-> IdleWriter]
  /\ worker = [pc |-> "check", kind |-> "packet", item |-> NoItem, finish |-> FALSE]
  /\ callback = [pc |-> "none", err |-> "SUCCESS"]
  /\ owner = [pc |-> "idle", then |-> "idle"]
  /\ silent = FALSE

-----------------------------------------------------------------------------
(* writePacketAsync and writeAsync; without a socket they return NOT_READY *)

WriteAsync(w, k) ==
  /\ writer[w].pc = "idle" /\ ~terminate
  /\ sock
  /\ Count(accepted) + Cardinality({v \in Writers : writer[v].pc = "push"}) < MaxWrites
  /\ writer' = [writer EXCEPT ![w] = [@ EXCEPT !.pc = "push", !.kind = k, !.from = binds]]
  /\ UNCHANGED <<sock, kernel, terminate, async, worker, callback, owner, silent>>

PushAsync(w) ==
  LET k == writer[w].kind
      item == [id |-> Count(accepted) + 1, from |-> writer[w].from]
  IN /\ writer[w].pc = "push"
     /\ queue' = [queue EXCEPT ![k] = Append(@, item)]
     /\ accepted' = [accepted EXCEPT ![k] = Append(@, item)]
     /\ writer' = [writer EXCEPT ![w] = [@ EXCEPT !.pc = "notify", !.id = item.id]]
     /\ UNCHANGED <<sock, kernel, terminate, handled, worker, callback, owner, silent>>

(* A mistake: nobody is woken. *)
WokenNever == worker

(* notify_all wakes the worker if it waits, and is lost otherwise. *)
Woken == IF worker.pc = "waiting" THEN [worker EXCEPT !.pc = "drain"] ELSE worker

NotifyAsync(w) ==
  /\ writer[w].pc = "notify"
  /\ worker' = Woken
  /\ writer' = [writer EXCEPT ![w] = IdleWriter]
  /\ UNCHANGED <<sock, kernel, terminate, async, callback, owner, silent>>

-----------------------------------------------------------------------------
(* work *)

(* The worker sees an item once its writer was in _condMutex, and _terminate *)
(* once the destructor was; before that it may see either value of them.     *)
Unannounced == {writer[w].id : w \in {v \in Writers : writer[v].pc = "notify"}}
MustSeeWork == \E k \in Kinds : \E i \in 1 .. Len(queue[k]) : queue[k][i].id \notin Unannounced
MaySeeWork == (\E k \in Kinds : queue[k] # << >>) \/ (\E w \in Writers : writer[w].pc = "push")
MustSeeTerminate == terminate /\ owner.pc # "terminating"

WorkCheck ==
  /\ worker.pc = "check"
  /\ \/ /\ terminate
        /\ worker' = [worker EXCEPT !.pc = "drain", !.kind = "packet", !.finish = TRUE]
     \/ /\ ~MustSeeTerminate /\ MaySeeWork
        /\ worker' = [worker EXCEPT !.pc = "drain", !.kind = "packet"]
     \/ /\ ~MustSeeTerminate /\ ~MustSeeWork
        /\ worker' = [worker EXCEPT !.pc = "waiting", !.kind = "packet"]
  /\ UNCHANGED <<sock, kernel, terminate, async, writer, callback, owner, silent>>

WorkSpuriousWakeup ==
  /\ worker.pc = "waiting"
  /\ worker' = [worker EXCEPT !.pc = "drain"]
  /\ UNCHANGED <<sock, kernel, terminate, async, writer, callback, owner, silent>>

(* The head of the queue is moved out, but popped only after it was sent. *)
WorkTake ==
  /\ worker.pc = "drain" /\ queue[worker.kind] # << >>
  /\ worker' = [worker EXCEPT !.pc = "write", !.item = Head(queue[worker.kind])]
  /\ UNCHANGED <<sock, kernel, terminate, async, writer, callback, owner, silent>>

(* A mistake: the loop ends on _terminate itself, without a last round. *)
LastRoundSkipped == terminate

LastRound == worker.finish

WorkQueueEmpty ==
  /\ worker.pc = "drain" /\ queue[worker.kind] = << >>
  /\ worker' = IF worker.kind = "packet" THEN [worker EXCEPT !.kind = "raw"]
               ELSE [worker EXCEPT !.pc = IF LastRound THEN "finished" ELSE "check"]
  /\ UNCHANGED <<sock, kernel, terminate, async, writer, callback, owner, silent>>

(* The item is sent from a socket, or is lost (0); the worker ignores that. *)
Handle(from) ==
  /\ handled' = [handled EXCEPT ![worker.kind] = Append(@, [item |-> worker.item, on |-> from])]
  /\ queue' = [queue EXCEPT ![worker.kind] = Tail(@)]
  /\ worker' = [worker EXCEPT !.pc = "drain", !.item = NoItem]

(* writePacket and write: the test of _sock, which is then loaded. *)
WorkWrite ==
  /\ worker.pc = "write"
  /\ \/ ~sock /\ Handle(0)
     \/ sock /\ worker' = [worker EXCEPT !.pc = "send"] /\ UNCHANGED <<queue, handled>>
  /\ UNCHANGED <<sock, kernel, terminate, accepted, writer, callback, owner, silent>>

(* sendto goes to what the descriptor denotes by then; the next bind gets the *)
(* one that close freed.                                                      *)
WorkSend ==
  /\ worker.pc = "send"
  /\ Handle(socket)
  /\ UNCHANGED <<sock, kernel, terminate, accepted, writer, callback, owner, silent>>

-----------------------------------------------------------------------------
(* The thread of receiveCallback *)

Thread(pc, err) == [pc |-> pc, err |-> err]

CallbackLoop ==
  /\ callback.pc = "loop"
  /\ callback' = Thread(IF sock THEN "receive" ELSE "ended", "SUCCESS")
  /\ UNCHANGED <<sock, kernel, terminate, async, writer, worker, owner, silent>>

(* receivePacket and read test _sock again; recvfrom blocks on an open        *)
(* descriptor, returns 0 on one that is shut down and fails on a closed one.  *)
CallbackReceive ==
  /\ callback.pc = "receive"
  /\ \/ ~sock /\ callback' = Thread("call", "NOT_READY")
     \/ sock /\ socket # 0 /\ callback' = Thread("blocked", "SUCCESS")
     \/ /\ sock /\ socket = 0
        /\ \E e \in {"NOT_CONNECTED", "INVALID_USAGE"} : callback' = Thread("call", e)
  /\ UNCHANGED <<sock, kernel, terminate, async, writer, worker, owner, silent>>

CallbackPacket ==
  /\ callback.pc = "blocked" /\ inbox > 0
  /\ inbox' = inbox - 1
  /\ callback' = Thread("call", "SUCCESS")
  /\ UNCHANGED <<sock, socket, binds, terminate, async, writer, worker, owner, silent>>

(* recvfrom returns 0 after the shutdown. *)
CallbackShut ==
  /\ callback.pc = "shut"
  /\ callback' = Thread("call", "NOT_CONNECTED")
  /\ UNCHANGED <<sock, kernel, terminate, async, writer, worker, owner, silent>>

(* recvfrom fails with EINTR, which getLastError turns into NOT_READY. *)
CallbackInterrupted ==
  /\ callback.pc = "blocked"
  /\ callback' = Thread("call", "NOT_READY")
  /\ UNCHANGED <<sock, kernel, terminate, async, writer, worker, owner, silent>>

(* The callback returns; an error was the last thing it was told. *)
CallbackCall ==
  /\ callback.pc = "call"
  /\ callback' = Thread(IF callback.err = "SUCCESS" THEN "loop" ELSE "ended", "SUCCESS")
  /\ UNCHANGED <<sock, kernel, terminate, async, writer, worker, owner, silent>>

(* A packet arrives at the bound socket. *)
Arrive ==
  /\ socket # 0 /\ owner.pc # "binding" /\ inbox < MaxInbox
  /\ inbox' = inbox + 1
  /\ UNCHANGED <<sock, socket, binds, terminate, async, writer, worker, callback, owner, silent>>

-----------------------------------------------------------------------------
(* The owner *)

Owner(pc) == owner' = [owner EXCEPT !.pc = pc]

(* receiveCallback; the thread of an earlier call is waited for first. *)
ReceiveCallback ==
  /\ owner.pc = "idle"
  /\ silent' = FALSE
  /\ \/ callback.pc = "none" /\ callback' = Thread("loop", "SUCCESS") /\ UNCHANGED owner
     \/ callback.pc # "none" /\ Owner("replace") /\ UNCHANGED callback
  /\ UNCHANGED <<sock, kernel, terminate, async, writer, worker>>

ReceiveCallbackJoin ==
  /\ owner.pc = "replace" /\ callback.pc = "ended"
  /\ callback' = Thread("loop", "SUCCESS")
  /\ Owner("idle")
  /\ UNCHANGED <<sock, kernel, terminate, async, writer, worker, silent>>

(* bind creates the socket, which the other threads see at once; it is closed *)
(* again when no socket is to be had or the port is taken.  On a socket that  *)
(* is bound already bind returns INVALID_USAGE.                               *)
Bind ==
  /\ owner.pc = "idle" /\ ~sock /\ binds < MaxBinds
  /\ \/ sock' = TRUE /\ socket' = binds + 1 /\ binds' = binds + 1 /\ Owner("binding")
     \/ Owner("join") /\ UNCHANGED <<sock, socket, binds>>
  /\ UNCHANGED <<inbox, terminate, async, writer, worker, callback, silent>>

BindReturn ==
  /\ owner.pc = "binding"
  /\ Owner("idle") \/ Owner("close")
  /\ UNCHANGED <<sock, kernel, terminate, async, writer, worker, callback, silent>>

Close ==
  /\ owner.pc = "idle"
  /\ Owner(IF sock THEN "close" ELSE "join")
  /\ UNCHANGED <<sock, kernel, terminate, async, writer, worker, callback, silent>>

(* A mistake: close() closes the descriptor without the shutdown. *)
AfterCloseOnly == callback

(* shutdown wakes up a thread that is blocked in recvfrom; close alone does not. *)
AfterShutdown == IF callback.pc = "blocked" THEN Thread("shut", "SUCCESS") ELSE callback

CloseDescriptor ==
  /\ owner.pc = "close"
  /\ socket' = 0 /\ inbox' = 0
  /\ callback' = AfterShutdown
  /\ Owner("reset")
  /\ UNCHANGED <<sock, binds, terminate, async, writer, worker, silent>>

CloseReset ==
  /\ owner.pc = "reset"
  /\ sock' = FALSE
  /\ Owner("join")
  /\ UNCHANGED <<kernel, terminate, async, writer, worker, callback, silent>>

(* A mistake: the thread is not waited for. *)
Joinable == TRUE

Joined == callback.pc \in {"none", "ended"}

CloseJoin ==
  /\ owner.pc = "join" /\ Joined
  /\ callback' = IF callback.pc = "ended" THEN Thread("none", "SUCCESS") ELSE callback
  /\ silent' = TRUE
  /\ Owner(owner.then)
  /\ UNCHANGED <<sock, kernel, terminate, async, writer, worker>>

(* ~UdpSocket; no other thread is inside a member function by then.           *)
(* _terminate is set before _condMutex is taken for the notification.         *)
Destroy ==
  /\ owner.pc = "idle" /\ \A w \in Writers : writer[w].pc = "idle"
  /\ terminate' = TRUE
  /\ owner' = [pc |-> "terminating", then |-> "destroyed"]
  /\ UNCHANGED <<sock, kernel, async, writer, worker, callback, silent>>

DestroyNotify ==
  /\ owner.pc = "terminating"
  /\ worker' = Woken
  /\ Owner("joining")
  /\ UNCHANGED <<sock, kernel, terminate, async, writer, callback, silent>>

DestroyJoin ==
  /\ owner.pc = "joining" /\ worker.pc = "finished"
  /\ Owner(IF sock THEN "close" ELSE "join")
  /\ UNCHANGED <<sock, kernel, terminate, async, writer, worker, callback, silent>>

-----------------------------------------------------------------------------
Work == WorkCheck \/ WorkTake \/ WorkQueueEmpty \/ WorkWrite \/ WorkSend
WriterStep(w) == PushAsync(w) \/ NotifyAsync(w)
CallbackStep ==
  CallbackLoop \/ CallbackReceive \/ CallbackPacket \/ CallbackShut \/ CallbackCall
OwnerStep ==
  \/ ReceiveCallbackJoin \/ BindReturn \/ CloseDescriptor \/ CloseReset \/ CloseJoin
  \/ DestroyNotify \/ DestroyJoin

Next ==
  \/ \E w \in Writers : (\E k \in Kinds : WriteAsync(w, k)) \/ WriterStep(w)
  \/ Work \/ WorkSpuriousWakeup
  \/ CallbackStep \/ CallbackInterrupted \/ Arrive
  \/ ReceiveCallback \/ Bind \/ Close \/ Destroy \/ OwnerStep

Spec == Init /\ [][Next]_vars

(* Every thread that can go on does, and a callback returns; nobody has to   *)
(* start a call, and no packet has to come.                                  *)
FairSpec ==
  /\ Spec
  /\ WF_vars(Work) /\ WF_vars(CallbackStep) /\ WF_vars(OwnerStep)
  /\ \A w \in Writers : WF_vars(WriterStep(w))

-----------------------------------------------------------------------------
HandledItems(k) == [i \in 1 .. Len(handled[k]) |-> handled[k][i].item]

(* When the destructor has joined the worker, every accepted write was       *)
(* handled in the order of its queue, and what was written to the socket     *)
(* that is still open was sent from it ("This ensures handling the pending   *)
(* writes", UdpSocket.cpp:269), although _terminate is set without the lock  *)
(* (linux/UdpSocket.cpp:40-51).                                              *)
DestructorFlushes ==
  owner.then = "destroyed" /\ owner.pc \notin {"terminating", "joining"} =>
    \A k \in Kinds :
      /\ HandledItems(k) = accepted[k]
      /\ \A i \in 1 .. Len(handled[k]) :
           socket # 0 /\ handled[k][i].item.from = socket => handled[k][i].on = socket

(* Once close() or the destructor has returned no callback of this socket    *)
(* runs or will run, until receiveCallback is called again                   *)
(* (linux/UdpSocket.cpp:53-64).                                              *)
ClosedMeansSilent == silent /\ owner.pc \in {"idle", "destroyed"} => callback.pc = "none"

(* close(), a failing bind() and the destructor return, whatever the worker  *)
(* and the callback thread are doing: neither is left waiting for a          *)
(* notification or blocked in recvfrom (linux/UdpSocket.cpp:40-64).          *)
CloseReturns ==
  (owner.pc \in {"close", "join"} \/ terminate) ~> (owner.pc \in {"idle", "destroyed"})

(* Every write that was accepted is eventually handled, whatever the owner   *)
(* does (work, UdpSocket.cpp:267-311).                                       *)
AcceptedIsHandled ==
  \A n \in 1 .. MaxWrites : (Count(accepted) >= n) ~> (Count(handled) >= n)
=============================================================================
