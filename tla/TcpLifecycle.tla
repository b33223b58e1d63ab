---------------------------- MODULE TcpLifecycle ----------------------------
(***************************************************************************)
(* The life of one TcpSocket, libs/sockets/src/TcpSocket.cpp: listen and   *)
(* its thread, connect, receiveCallback and its thread, close with its     *)
(* joins, the destructor.  Three threads use the object: its owner, the    *)
(* listen thread and the callback thread, whose callback may call close.   *)
(* Data is left out: of a packet only its arrival matters, of a connection *)
(* only its descriptor.  A step is what happens between two accesses to    *)
(* _sock, _status, _terminate or to a thread, or one section under         *)
(* _condMutex.                                                             *)
(***************************************************************************)
EXTENDS Naturals

CONSTANTS MaxFd,          \* descriptors are 1 .. MaxFd, 0 is INVALID_SOCKET
          MaxSessions,    \* bound on calls of listen and connect
          MaxClients,     \* bound on clients that connect to the listener
          CallbackCloses  \* the callback of receiveCallback may call close

ASSUME LifecycleAssumption ==
  MaxFd \in Nat /\ MaxSessions \in Nat /\ MaxClients \in Nat /\ CallbackCloses \in BOOLEAN

VARIABLES sock, status, terminate,    \* _sock, _status, _terminate
          listenThread, callbackThread, \* the pointer is not nullptr
          pc,          \* where each thread is
          listenSock, acceptMultiple, clientSock, \* locals of listenFunc
          err,         \* local of the callback thread: receivePacket failed
          leftover,    \* _buffer is not empty
          kernel,      \* what each descriptor is
          backlog,     \* clients that wait to be accepted
          given, notified, \* history: calls acb(sockPtr, SUCCESS) and acb(nullptr, error) of this listen
          selfClosed,  \* history: the callback thread ("thread") or an earlier one has called close
          sessions, clients

object == <<sock, status, terminate, listenThread, callbackThread>>
listener == <<listenSock, acceptMultiple, clientSock, given, notified>>
receiver == <<err, leftover>>
bounds == <<sessions, clients>>
threads == <<terminate, listenThread, callbackThread>>
vars == <<object, pc, listener, receiver, kernel, backlog, selfClosed, bounds>>

INVALID_SOCKET == 0
Fd == 1 .. MaxFd
Closers == {"owner", "callback"}

FreeFds == {fd \in Fd : kernel[fd] = "free"}

(* The kernel hands out the lowest free descriptor. *)
IsNewFd(fd) == fd \in FreeFds /\ \A f \in FreeFds : fd <= f

Goto(t, l) == pc' = [pc EXCEPT ![t] = l]

Init ==
  /\ sock = INVALID_SOCKET /\ status = "INACTIVE" /\ terminate = FALSE
  /\ listenThread = FALSE /\ callbackThread = FALSE
  /\ pc = [owner |-> "idle", listen |-> "done", callback |-> "done"]
  /\ listenSock = INVALID_SOCKET /\ acceptMultiple = FALSE /\ clientSock = INVALID_SOCKET
  /\ err = FALSE /\ leftover = FALSE
  /\ kernel = [fd \in Fd |-> "free"]
  /\ backlog = 0 /\ given = 0 /\ notified = 0
  /\ selfClosed = "no"
  /\ sessions = 0 /\ clients = 0

(* A mistake: the descriptor is closed and _sock keeps its number. *)
ReleaseSockForgetsReset ==
  /\ kernel' = [fd \in Fd |-> IF fd = sock THEN "free" ELSE kernel[fd]]
  /\ backlog' = IF sock = listenSock THEN 0 ELSE backlog
  /\ UNCHANGED sock

(* ::close(_sock); _sock = INVALID_SOCKET, if there is one.  The clients of a *)
(* closed listener are turned away.                                           *)
ReleaseSock ==
  /\ kernel' = [fd \in Fd |-> IF fd = sock THEN "free" ELSE kernel[fd]]
  /\ backlog' = IF sock = listenSock THEN 0 ELSE backlog
  /\ sock' = INVALID_SOCKET

-----------------------------------------------------------------------------
(* listen *)

(* The checks and socket(); with no descriptor left nothing happens. *)
ListenSocket(m) ==
  /\ pc["owner"] = "idle" /\ status = "INACTIVE" /\ sessions < MaxSessions
  /\ \E fd \in Fd : IsNewFd(fd) /\ sock' = fd /\ kernel' = [kernel EXCEPT ![fd] = "open"]
  /\ acceptMultiple' = m
  /\ sessions' = sessions + 1
  /\ Goto("owner", "listen")
  /\ UNCHANGED <<status, threads, listenSock, clientSock,
                 given, notified, receiver, backlog, selfClosed, clients>>

(* setsockopt, bind or ::listen fails (l = "listen"), or the connection is    *)
(* refused or times out (l = "connect").                                      *)
OpenFail(l) ==
  /\ pc["owner"] = l
  /\ Goto("owner", "idle")
  /\ ReleaseSock
  /\ UNCHANGED <<status, threads, listener, receiver, selfClosed, bounds>>

ListenStart ==
  /\ pc["owner"] = "listen"
  /\ kernel' = [kernel EXCEPT ![sock] = "listening"]
  /\ status' = "LISTENING"
  /\ listenThread' = TRUE
  /\ listenSock' = sock /\ clientSock' = INVALID_SOCKET
  /\ given' = 0 /\ notified' = 0
  /\ pc' = [pc EXCEPT !["owner"] = "idle", !["listen"] = "accept"]
  /\ UNCHANGED <<sock, terminate, callbackThread, acceptMultiple, receiver, backlog, selfClosed, bounds>>

(* The environment: a client connects while the listener is open. *)
ClientConnects ==
  /\ clients < MaxClients
  /\ listenSock \in Fd /\ kernel[listenSock] = "listening"
  /\ clients' = clients + 1 /\ backlog' = backlog + 1
  /\ UNCHANGED <<object, pc, listener, receiver, kernel, selfClosed, sessions>>

-----------------------------------------------------------------------------
(* listenFunc *)

(* A call of accept blocks while the listener is open and fails otherwise. *)
AcceptCall ==
  /\ pc["listen"] = "accept"
  /\ Goto("listen", IF kernel[listenSock] = "listening" THEN "accepting" ELSE "failed")
  /\ UNCHANGED <<object, listener, receiver, kernel, backlog, selfClosed, bounds>>

AcceptClient ==
  /\ pc["listen"] = "accepting"
  /\ kernel[listenSock] = "listening" /\ backlog > 0
  /\ \E fd \in Fd :
       /\ IsNewFd(fd)
       /\ clientSock' = fd
       /\ kernel' = [kernel EXCEPT ![fd] = "accepted"]
  /\ backlog' = backlog - 1
  /\ Goto("listen", "accepted")
  /\ UNCHANGED <<object, listenSock, acceptMultiple, given, notified, receiver, selfClosed, bounds>>

(* accept fails for a reason of its own: no descriptors, an aborted client. *)
AcceptError ==
  /\ pc["listen"] = "accepting"
  /\ Goto("listen", "failed")
  /\ UNCHANGED <<object, listener, receiver, kernel, backlog, selfClosed, bounds>>

(* A mistake: the failure is reported to nobody. *)
ReportedNever == notified

Reported == IF terminate THEN notified ELSE notified + 1

(* clientSock is invalid: acb(nullptr, error) and closeSocket, unless the     *)
(* destructor has begun.                                                      *)
AcceptFailed ==
  /\ pc["listen"] = "failed"
  /\ Goto("listen", IF terminate THEN "done" ELSE "closing")
  /\ notified' = Reported
  /\ UNCHANGED <<object, listenSock, acceptMultiple, clientSock, given, receiver, kernel, backlog,
                 selfClosed, bounds>>

(* A new TcpSocket is made for the client and given to acb; during the        *)
(* destructor the descriptor is dropped.                                      *)
HandOver ==
  /\ pc["listen"] = "accepted"
  /\ IF terminate
       THEN Goto("listen", "done") /\ UNCHANGED <<given, kernel, clientSock>>
       ELSE /\ Goto("listen", "next")
            /\ given' = given + 1
            /\ kernel' = [kernel EXCEPT ![clientSock] = "given"]
            /\ clientSock' = INVALID_SOCKET
  /\ UNCHANGED <<object, listenSock, acceptMultiple, notified, receiver, backlog, selfClosed, bounds>>

(* while (acceptMultiple && !_terminate) *)
ListenNext ==
  /\ pc["listen"] = "next"
  /\ Goto("listen", IF acceptMultiple /\ ~terminate THEN "accept" ELSE "stop")
  /\ UNCHANGED <<object, listener, receiver, kernel, backlog, selfClosed, bounds>>

ListenStop ==
  /\ pc["listen"] = "stop"
  /\ Goto("listen", IF terminate THEN "done" ELSE "closing")
  /\ UNCHANGED <<object, listener, receiver, kernel, backlog, selfClosed, bounds>>

ListenClose ==
  /\ pc["listen"] = "closing"
  /\ Goto("listen", "done")
  /\ ReleaseSock
  /\ UNCHANGED <<status, threads, listener, receiver, selfClosed, bounds>>

(* The environment: the user of an accepted socket closes it. *)
ClientCloses(fd) ==
  /\ kernel[fd] = "given"
  /\ kernel' = [kernel EXCEPT ![fd] = "free"]
  /\ UNCHANGED <<object, pc, listener, receiver, backlog, selfClosed, bounds>>

-----------------------------------------------------------------------------
(* connect *)

ConnectSocket ==
  /\ pc["owner"] = "idle" /\ status = "INACTIVE" /\ sessions < MaxSessions
  /\ \E fd \in Fd : IsNewFd(fd) /\ sock' = fd /\ kernel' = [kernel EXCEPT ![fd] = "open"]
  /\ sessions' = sessions + 1
  /\ Goto("owner", "connect")
  /\ UNCHANGED <<status, threads, listener, receiver, backlog,
                 selfClosed, clients>>

ConnectDone ==
  /\ pc["owner"] = "connect"
  /\ kernel' = [kernel EXCEPT ![sock] = "connected"]
  /\ status' = "CONNECTED"
  /\ Goto("owner", "idle")
  /\ UNCHANGED <<sock, threads, listener, receiver, backlog,
                 selfClosed, bounds>>

-----------------------------------------------------------------------------
(* receiveCallback and its thread *)

ReceiveCallback ==
  /\ pc["owner"] = "idle" /\ status = "CONNECTED"
  /\ Goto("owner", "receiveCallback")
  /\ UNCHANGED <<object, listener, receiver, kernel, backlog, selfClosed, bounds>>

(* The thread of an earlier call is joined before the new one starts. *)
ReceiveCallbackStart ==
  /\ pc["owner"] = "receiveCallback"
  /\ callbackThread => pc["callback"] = "done"
  /\ callbackThread' = TRUE
  /\ pc' = [pc EXCEPT !["owner"] = "idle", !["callback"] = "loop"]
  /\ err' = FALSE
  /\ selfClosed' = IF selfClosed = "no" THEN "no" ELSE "earlier"
  /\ UNCHANGED <<sock, status, terminate, listenThread, listener, leftover, kernel, backlog, bounds>>

(* while (_sock != INVALID_SOCKET) *)
CallbackLoop ==
  /\ pc["callback"] = "loop"
  /\ Goto("callback", IF sock # INVALID_SOCKET THEN "receive" ELSE "done")
  /\ UNCHANGED <<object, listener, receiver, kernel, backlog, selfClosed, bounds>>

(* receivePacket finds the socket not connected, or a whole packet in         *)
(* _buffer, or needs to read.                                                 *)
ReceivePacket ==
  /\ pc["callback"] = "receive"
  /\ \/ /\ status # "CONNECTED"
        /\ err' = TRUE /\ UNCHANGED leftover /\ Goto("callback", "pcb")
     \/ /\ status = "CONNECTED" /\ leftover
        /\ err' = FALSE /\ leftover' \in BOOLEAN /\ Goto("callback", "pcb")
     \/ /\ status = "CONNECTED"
        /\ UNCHANGED receiver /\ Goto("callback", "read")
  /\ UNCHANGED <<object, listener, kernel, backlog, selfClosed, bounds>>

(* read: the status again, and recv, which fails without a descriptor. *)
ReadCall ==
  /\ pc["callback"] = "read"
  /\ IF status = "CONNECTED" /\ sock # INVALID_SOCKET
       THEN Goto("callback", "receiving") /\ UNCHANGED err
       ELSE Goto("callback", "pcb") /\ err' = TRUE
  /\ UNCHANGED <<object, listener, leftover, kernel, backlog, selfClosed, bounds>>

(* The environment: recv returns, with the last bytes of a packet and perhaps *)
(* some of the next, with other bytes, or with an error since the peer left.  *)
RecvReturns ==
  /\ pc["callback"] = "receiving"
  /\ \/ err' = FALSE /\ leftover' \in BOOLEAN /\ Goto("callback", "pcb")
     \/ UNCHANGED receiver /\ Goto("callback", "read")
     \/ err' = TRUE /\ UNCHANGED leftover /\ Goto("callback", "pcb")
  /\ UNCHANGED <<object, listener, kernel, backlog, selfClosed, bounds>>

(* pcb returns; after an error the loop ends. *)
PacketCallback ==
  /\ pc["callback"] = "pcb"
  /\ Goto("callback", IF err THEN "done" ELSE "loop")
  /\ UNCHANGED <<object, listener, receiver, kernel, backlog, selfClosed, bounds>>

-----------------------------------------------------------------------------
(* close, called by the owner or, once per thread, by the callback *)

(* An inactive socket is left alone. *)
Close ==
  \/ /\ pc["owner"] = "idle" /\ status # "INACTIVE"
     /\ Goto("owner", "close")
     /\ UNCHANGED <<object, listener, receiver, kernel, backlog, selfClosed, bounds>>
  \/ /\ CallbackCloses /\ pc["callback"] = "pcb" /\ selfClosed # "thread" /\ status # "INACTIVE"
     /\ Goto("callback", "close")
     /\ selfClosed' = "thread"
     /\ UNCHANGED <<object, listener, receiver, kernel, backlog, bounds>>

(* A mistake: the descriptor is closed and not shut down; the call that waits *)
(* on it goes on waiting.                                                     *)
WokenNever(t) == pc[t]

(* The place of thread t once the calls blocked on the descriptor return. *)
Woken(t) ==
  IF pc[t] = "accepting" THEN "failed" ELSE IF pc[t] = "receiving" THEN "pcb" ELSE pc[t]

(* The section under _condMutex: shutdown, which makes the blocked calls      *)
(* return, and ::close.                                                       *)
CloseSock(c) ==
  /\ pc[c] = "close"
  /\ pc' = [t \in DOMAIN pc |-> IF t = c THEN "joinListen" ELSE Woken(t)]
  /\ err' = (err \/ pc["callback"] = "receiving")
  /\ ReleaseSock
  /\ UNCHANGED <<status, threads, listener, leftover, selfClosed, bounds>>

CloseJoinListen(c) ==
  /\ pc[c] = "joinListen"
  /\ listenThread => pc["listen"] = "done"
  /\ listenThread' = FALSE
  /\ Goto(c, "joinCallback")
  /\ UNCHANGED <<sock, status, terminate, callbackThread, listener, receiver, kernel, backlog,
                 selfClosed, bounds>>

(* A mistake: the thread object is deleted and its thread not waited for. *)
WaitsNever(c) == FALSE

WaitsForCallback(c) == callbackThread /\ c # "callback"

(* A thread that joins itself gets a system_error, which close swallows; the  *)
(* pointer stays.                                                             *)
CloseJoinCallback(c) ==
  /\ pc[c] = "joinCallback"
  /\ WaitsForCallback(c) => pc["callback"] = "done"
  /\ callbackThread' = (callbackThread /\ c = "callback")
  /\ selfClosed' = IF c = "callback" THEN selfClosed ELSE "no"
  /\ Goto(c, "setStatus")
  /\ UNCHANGED <<sock, status, terminate, listenThread, listener, receiver, kernel, backlog, bounds>>

CloseStatus(c) ==
  /\ pc[c] = "setStatus"
  /\ status' = "INACTIVE"
  /\ Goto(c, IF c = "callback" THEN "pcb" ELSE IF terminate THEN "destroyed" ELSE "idle")
  /\ UNCHANGED <<sock, threads, listener, receiver, kernel, backlog,
                 selfClosed, bounds>>

-----------------------------------------------------------------------------
(* ~TcpSocket.  The worker thread it joins is modelled in TcpAsyncWrite. *)
Destroy ==
  /\ pc["owner"] = "idle"
  /\ terminate' = TRUE
  /\ Goto("owner", "destroy")
  /\ UNCHANGED <<sock, status, listenThread, callbackThread, listener, receiver, kernel, backlog,
                 selfClosed, bounds>>

DestroyClose ==
  /\ pc["owner"] = "destroy"
  /\ Goto("owner", IF status = "INACTIVE" THEN "destroyed" ELSE "close")
  /\ UNCHANGED <<object, listener, receiver, kernel, backlog, selfClosed, bounds>>

-----------------------------------------------------------------------------
CloseStep(c) == CloseSock(c) \/ CloseJoinListen(c) \/ CloseJoinCallback(c) \/ CloseStatus(c)
ListenStep ==
  AcceptCall \/ AcceptClient \/ AcceptFailed \/ HandOver \/ ListenNext \/ ListenStop \/ ListenClose
CallbackStep == CallbackLoop \/ ReceivePacket \/ ReadCall \/ PacketCallback
OpenStep == OpenFail("listen") \/ ListenStart \/ OpenFail("connect") \/ ConnectDone

Next ==
  \/ \E m \in BOOLEAN : ListenSocket(m)
  \/ ConnectSocket \/ OpenStep
  \/ ClientConnects \/ AcceptError \/ ListenStep
  \/ \E fd \in Fd : ClientCloses(fd)
  \/ ReceiveCallback \/ ReceiveCallbackStart \/ CallbackStep \/ RecvReturns
  \/ Close \/ \E c \in Closers : CloseStep(c)
  \/ Destroy \/ DestroyClose

Spec == Init /\ [][Next]_vars

(* Threads inside a call keep running, user callbacks return and a connection *)
(* attempt ends (it has a timeout).  Clients, peers and the owner need not do *)
(* anything.                                                                  *)
FairSpec ==
  /\ Spec
  /\ WF_vars(OpenStep) /\ WF_vars(ListenStep) /\ WF_vars(CallbackStep)
  /\ WF_vars(ReceiveCallbackStart) /\ WF_vars(DestroyClose)
  /\ \A c \in Closers : WF_vars(CloseStep(c))

-----------------------------------------------------------------------------
(* The descriptors that the object has opened for itself and not closed are   *)
(* exactly the one in _sock: no path of listen, connect, close or of the      *)
(* listen thread leaks one, and none closes a number that may by then belong  *)
(* to somebody else (closeSocket and close test and reset under _condMutex).  *)
(* An accepted one is with the listen thread or with acb, and is dropped only *)
(* by the destructor.                                                         *)
DescriptorsAreOwned ==
  /\ {fd \in Fd : kernel[fd] \in {"open", "listening", "connected"}} = {sock} \ {INVALID_SOCKET}
  /\ \A fd \in Fd : kernel[fd] = "accepted" =>
       terminate \/ (pc["listen"] = "accepted" /\ clientSock = fd)

(* acb hears of the end of a listen exactly once: when close has joined the   *)
(* listen thread, acb got one error, or it got the one connection it was to   *)
(* get (acceptMultiple false); never neither, never both.                     *)
ListenOutcome ==
  \A c \in Closers :
    (pc[c] = "joinCallback" /\ status = "LISTENING" /\ ~terminate) =>
      IF acceptMultiple THEN notified = 1 ELSE notified + given = 1

(* When close or the destructor has returned to the owner, no thread of the   *)
(* object runs any more, unless the callback itself closed the socket.        *)
ClosedMeansAlone ==
  (pc["owner"] \in {"idle", "destroyed"} /\ status = "INACTIVE" /\ selfClosed = "no") =>
    pc["listen"] = "done" /\ pc["callback"] = "done"

(* After close from the callback that thread may outlive the object; its steps *)
(* then read freed memory, which the model shows with the last values.         *)

(* close and the destructor return: closing the descriptor ends the accept or *)
(* recv that the joined thread is blocked in.                                 *)
CloseReturns ==
  \A c \in Closers : (pc[c] = "close") ~> (pc[c] \in {"idle", "destroyed", "pcb"})
=============================================================================
