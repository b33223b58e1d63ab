------------------------- MODULE TcpLifecycleProofs -------------------------
(***************************************************************************)
(* Proofs of the safety invariants of TcpLifecycle, for any number of      *)
(* descriptors, calls and clients and for a callback that may or may not   *)
(* close the socket.  The argument is about who may be where: while a      *)
(* thread is inside close the status is not INACTIVE, so the owner opens   *)
(* nothing; a listen thread exists only while the status is LISTENING; a   *)
(* callback thread outlives a close only if the callback was the one to    *)
(* call it.                                                                *)
(***************************************************************************)
EXTENDS TcpLifecycle, TLAPS

Threads == {"owner", "listen", "callback"}
Joining == {"joinListen", "joinCallback", "setStatus"}
Closing == {"close"} \cup Joining
OwnerPlaces == {"idle", "listen", "connect", "receiveCallback", "destroy", "destroyed"} \cup Closing
ListenPlaces == {"done", "accept", "accepting", "accepted", "failed", "next", "stop", "closing"}
CallbackPlaces == {"done", "loop", "receive", "read", "receiving", "pcb"} \cup Closing
Own == {"open", "listening", "connected"}

SocketTypeOK ==
  /\ sock \in Fd \cup {INVALID_SOCKET}
  /\ status \in {"INACTIVE", "LISTENING", "CONNECTED"}
  /\ kernel \in [Fd -> Own \cup {"free", "accepted", "given"}]
  /\ terminate \in BOOLEAN /\ listenThread \in BOOLEAN /\ callbackThread \in BOOLEAN

PlacesOK ==
  /\ pc = [t \in Threads |-> pc[t]]
  /\ pc["owner"] \in OwnerPlaces
  /\ pc["listen"] \in ListenPlaces
  /\ pc["callback"] \in CallbackPlaces

CountsOK ==
  /\ acceptMultiple \in BOOLEAN
  /\ given \in Nat /\ notified \in Nat
  /\ selfClosed \in {"no", "thread", "earlier"}

TypeInv == SocketTypeOK /\ PlacesOK /\ CountsOK

(* A thread that runs has its pointer; the listen thread's is set only while *)
(* the socket listens, and reset by close before it goes on.                 *)
Pointers ==
  /\ pc["listen"] # "done" => listenThread
  /\ pc["callback"] # "done" => callbackThread
  /\ listenThread => status = "LISTENING"
  /\ \A c \in Closers : pc[c] \in {"joinCallback", "setStatus"} => ~listenThread
  /\ pc["owner"] = "setStatus" => pc["callback"] = "done"

(* When the status is INACTIVE: the owner may be opening a socket, otherwise *)
(* there is none, and nobody is on the way to close one.                     *)
Phases ==
  /\ pc["owner"] \in {"listen", "connect"} => status = "INACTIVE" /\ sock \in Fd
  /\ pc["callback"] \in Closing => status # "INACTIVE"
  /\ status = "INACTIVE" => pc["owner"] \in {"listen", "connect"} \/ sock = INVALID_SOCKET
  /\ \A c \in Closers : pc[c] \in Joining => sock = INVALID_SOCKET

(* The descriptors: DescriptorsAreOwned, and what the listen thread holds.   *)
Descriptors ==
  /\ \A fd \in Fd : kernel[fd] \in Own <=> fd = sock
  /\ \A fd \in Fd : kernel[fd] = "accepted" =>
       terminate \/ (pc["listen"] = "accepted" /\ clientSock = fd)
  /\ pc["listen"] = "accepted" => clientSock \in Fd /\ kernel[clientSock] = "accepted"

(* A callback thread of which no close is on record runs on a connection.    *)
SelfClosing ==
  /\ pc["callback"] \in Closing => selfClosed = "thread"
  /\ pc["callback"] # "done" /\ selfClosed = "no" => status = "CONNECTED"
  /\ pc["owner"] = "receiveCallback" /\ selfClosed = "no" => status = "CONNECTED"

(* What acb has been told when the listen thread is at each of its places.   *)
Told ==
  status = "LISTENING" /\ ~terminate =>
    /\ pc["listen"] \in {"accept", "accepting", "failed", "accepted"} =>
         notified = 0 /\ (~acceptMultiple => given = 0)
    /\ pc["listen"] = "next" => notified = 0 /\ (~acceptMultiple => given = 1)
    /\ pc["listen"] = "stop" => notified = 0 /\ ~acceptMultiple /\ given = 1
    /\ pc["listen"] \in {"closing", "done"} =>
         IF acceptMultiple THEN notified = 1 ELSE notified + given = 1

Inv == TypeInv /\ Pointers /\ Phases /\ Descriptors /\ SelfClosing /\ Told
-----------------------------------------------------------------------------
(* The socket starts inactive, with no thread and no descriptor. *)
LEMMA InitInv == Init => Inv
<1> SUFFICES ASSUME Init PROVE Inv
  OBVIOUS
<1> USE LifecycleAssumption DEF Init, Fd, INVALID_SOCKET
<1>1. TypeInv
  <2>1. SocketTypeOK
    BY DEF SocketTypeOK, Own
  <2>2. PlacesOK
    BY DEF PlacesOK, Threads, OwnerPlaces, ListenPlaces, CallbackPlaces
  <2>3. CountsOK
    BY DEF CountsOK
  <2> QED BY <2>1, <2>2, <2>3 DEF TypeInv
<1>2. Pointers /\ Phases /\ SelfClosing
  BY DEF Pointers, Phases, SelfClosing, Closers, Closing, Joining
<1>3. Descriptors
  BY DEF Descriptors, Own
<1>4. Told
  BY DEF Told
<1> QED BY <1>1, <1>2, <1>3, <1>4 DEF Inv

(* Every thread stays among its places. *)
LEMMA PlacesOKStep ==
  ASSUME Inv, [Next]_vars
  PROVE  PlacesOK'
<1> USE LifecycleAssumption, Inv DEF Inv, TypeInv, PlacesOK, Goto, Threads, Joining,
      Closing, OwnerPlaces, ListenPlaces, CallbackPlaces, Own, Closers, Fd, INVALID_SOCKET,
      object, listener, receiver, bounds, threads
<1>1. ASSUME NEW m \in BOOLEAN, ListenSocket(m) PROVE PlacesOK'
  BY <1>1 DEF ListenSocket, IsNewFd, FreeFds
<1>2. ASSUME ConnectSocket PROVE PlacesOK'
  BY <1>2 DEF ConnectSocket, IsNewFd, FreeFds
<1>3. ASSUME OpenStep PROVE PlacesOK'
  BY <1>3 DEF OpenStep, OpenFail, ListenStart, ConnectDone, ReleaseSock
<1>4. ASSUME ClientConnects \/ AcceptError PROVE PlacesOK'
  BY <1>4 DEF ClientConnects, AcceptError
<1>5. ASSUME ListenStep PROVE PlacesOK'
  BY <1>5 DEF ListenStep, AcceptCall, AcceptClient, AcceptFailed, HandOver, ListenNext,
         ListenStop, ListenClose, ReleaseSock, IsNewFd, FreeFds, Reported
<1>6. ASSUME NEW fd \in Fd, ClientCloses(fd) PROVE PlacesOK'
  BY <1>6 DEF ClientCloses
<1>7. ASSUME ReceiveCallback \/ ReceiveCallbackStart PROVE PlacesOK'
  BY <1>7 DEF ReceiveCallback, ReceiveCallbackStart
<1>8. ASSUME CallbackStep \/ RecvReturns PROVE PlacesOK'
  BY <1>8 DEF CallbackStep, RecvReturns, CallbackLoop, ReceivePacket, ReadCall,
         PacketCallback
<1>9. ASSUME Close PROVE PlacesOK'
  BY <1>9 DEF Close
<1>10. ASSUME NEW c \in Closers, CloseSock(c) PROVE PlacesOK'
  BY <1>10 DEF CloseSock, Woken, ReleaseSock
<1>11. ASSUME NEW c \in Closers, CloseJoinListen(c) PROVE PlacesOK'
  BY <1>11 DEF CloseJoinListen
<1>12. ASSUME NEW c \in Closers, CloseJoinCallback(c) PROVE PlacesOK'
  BY <1>12 DEF CloseJoinCallback, WaitsForCallback
<1>13. ASSUME NEW c \in Closers, CloseStatus(c) PROVE PlacesOK'
  BY <1>13 DEF CloseStatus
<1>14. ASSUME Destroy \/ DestroyClose PROVE PlacesOK'
  BY <1>14 DEF Destroy, DestroyClose
<1>15. ASSUME UNCHANGED vars PROVE PlacesOK'
  BY <1>15 DEF vars
<1> QED BY <1>1, <1>2, <1>3, <1>4, <1>5, <1>6, <1>7, <1>8, <1>9, <1>10, <1>11, <1>12, <1>13,
          <1>14, <1>15 DEF Next, CloseStep

(* The members and the descriptors keep their types. *)
LEMMA SocketTypeOKStep ==
  ASSUME Inv, [Next]_vars
  PROVE  SocketTypeOK'
<1> USE LifecycleAssumption, Inv DEF Inv, TypeInv, SocketTypeOK, PlacesOK, Phases, Goto,
      Threads, Joining, Closing, OwnerPlaces, ListenPlaces, CallbackPlaces, Own, Closers,
      Fd, INVALID_SOCKET, object, listener, receiver, bounds, threads
<1>1. ASSUME NEW m \in BOOLEAN, ListenSocket(m) PROVE SocketTypeOK'
  BY <1>1 DEF ListenSocket, IsNewFd, FreeFds
<1>2. ASSUME ConnectSocket PROVE SocketTypeOK'
  BY <1>2 DEF ConnectSocket, IsNewFd, FreeFds
<1>3. ASSUME OpenStep PROVE SocketTypeOK'
  <2>1. ASSUME OpenFail("listen") \/ OpenFail("connect") PROVE SocketTypeOK'
    BY <2>1 DEF OpenFail, ReleaseSock
  <2>2. ASSUME ListenStart PROVE SocketTypeOK'
    BY <2>2 DEF ListenStart
  <2>3. ASSUME ConnectDone PROVE SocketTypeOK'
    BY <2>3 DEF ConnectDone
  <2> QED BY <1>3, <2>1, <2>2, <2>3 DEF OpenStep
<1>4. ASSUME ClientConnects \/ AcceptError PROVE SocketTypeOK'
  BY <1>4 DEF ClientConnects, AcceptError
<1>5. ASSUME ListenStep PROVE SocketTypeOK'
  BY <1>5 DEF ListenStep, AcceptCall, AcceptClient, AcceptFailed, HandOver, ListenNext,
         ListenStop, ListenClose, ReleaseSock, IsNewFd, FreeFds, Reported
<1>6. ASSUME NEW fd \in Fd, ClientCloses(fd) PROVE SocketTypeOK'
  BY <1>6 DEF ClientCloses
<1>7. ASSUME ReceiveCallback \/ ReceiveCallbackStart PROVE SocketTypeOK'
  BY <1>7 DEF ReceiveCallback, ReceiveCallbackStart
<1>8. ASSUME CallbackStep \/ RecvReturns PROVE SocketTypeOK'
  BY <1>8 DEF CallbackStep, RecvReturns, CallbackLoop, ReceivePacket, ReadCall,
         PacketCallback
<1>9. ASSUME Close PROVE SocketTypeOK'
  BY <1>9 DEF Close
<1>10. ASSUME NEW c \in Closers, CloseSock(c) PROVE SocketTypeOK'
  BY <1>10 DEF CloseSock, Woken, ReleaseSock
<1>11. ASSUME NEW c \in Closers, CloseJoinListen(c) PROVE SocketTypeOK'
  BY <1>11 DEF CloseJoinListen
<1>12. ASSUME NEW c \in Closers, CloseJoinCallback(c) PROVE SocketTypeOK'
  BY <1>12 DEF CloseJoinCallback, WaitsForCallback
<1>13. ASSUME NEW c \in Closers, CloseStatus(c) PROVE SocketTypeOK'
  BY <1>13 DEF CloseStatus
<1>14. ASSUME Destroy \/ DestroyClose PROVE SocketTypeOK'
  BY <1>14 DEF Destroy, DestroyClose
<1>15. ASSUME UNCHANGED vars PROVE SocketTypeOK'
  BY <1>15 DEF vars
<1> QED BY <1>1, <1>2, <1>3, <1>4, <1>5, <1>6, <1>7, <1>8, <1>9, <1>10, <1>11, <1>12, <1>13,
          <1>14, <1>15 DEF Next, CloseStep

(* So do the listener's flag and the history. *)
LEMMA CountsOKStep ==
  ASSUME Inv, [Next]_vars
  PROVE  CountsOK'
<1> USE LifecycleAssumption, Inv DEF Inv, TypeInv, CountsOK, Goto, Threads, Joining,
      Closing, OwnerPlaces, ListenPlaces, CallbackPlaces, Own, Closers, Fd, INVALID_SOCKET,
      object, listener, receiver, bounds, threads
<1>1. ASSUME NEW m \in BOOLEAN, ListenSocket(m) PROVE CountsOK'
  BY <1>1 DEF ListenSocket, IsNewFd, FreeFds
<1>2. ASSUME ConnectSocket PROVE CountsOK'
  BY <1>2 DEF ConnectSocket, IsNewFd, FreeFds
<1>3. ASSUME OpenStep PROVE CountsOK'
  BY <1>3 DEF OpenStep, OpenFail, ListenStart, ConnectDone, ReleaseSock
<1>4. ASSUME ClientConnects \/ AcceptError PROVE CountsOK'
  BY <1>4 DEF ClientConnects, AcceptError
<1>5. ASSUME ListenStep PROVE CountsOK'
  BY <1>5 DEF ListenStep, AcceptCall, AcceptClient, AcceptFailed, HandOver, ListenNext,
         ListenStop, ListenClose, ReleaseSock, IsNewFd, FreeFds, Reported
<1>6. ASSUME NEW fd \in Fd, ClientCloses(fd) PROVE CountsOK'
  BY <1>6 DEF ClientCloses
<1>7. ASSUME ReceiveCallback \/ ReceiveCallbackStart PROVE CountsOK'
  BY <1>7 DEF ReceiveCallback, ReceiveCallbackStart
<1>8. ASSUME CallbackStep \/ RecvReturns PROVE CountsOK'
  BY <1>8 DEF CallbackStep, RecvReturns, CallbackLoop, ReceivePacket, ReadCall,
         PacketCallback
<1>9. ASSUME Close PROVE CountsOK'
  BY <1>9 DEF Close
<1>10. ASSUME NEW c \in Closers, CloseSock(c) PROVE CountsOK'
  BY <1>10 DEF CloseSock, Woken, ReleaseSock
<1>11. ASSUME NEW c \in Closers, CloseJoinListen(c) PROVE CountsOK'
  BY <1>11 DEF CloseJoinListen
<1>12. ASSUME NEW c \in Closers, CloseJoinCallback(c) PROVE CountsOK'
  BY <1>12 DEF CloseJoinCallback, WaitsForCallback
<1>13. ASSUME NEW c \in Closers, CloseStatus(c) PROVE CountsOK'
  BY <1>13 DEF CloseStatus
<1>14. ASSUME Destroy \/ DestroyClose PROVE CountsOK'
  BY <1>14 DEF Destroy, DestroyClose
<1>15. ASSUME UNCHANGED vars PROVE CountsOK'
  BY <1>15 DEF vars
<1> QED BY <1>1, <1>2, <1>3, <1>4, <1>5, <1>6, <1>7, <1>8, <1>9, <1>10, <1>11, <1>12, <1>13,
          <1>14, <1>15 DEF Next, CloseStep

(* A pointer outlives its thread: close resets one only after the join. *)
LEMMA PointersStep ==
  ASSUME Inv, [Next]_vars
  PROVE  Pointers'
<1> USE LifecycleAssumption, Inv DEF Inv, TypeInv, SocketTypeOK, PlacesOK, Pointers, Phases,
      Goto, Threads, Joining, Closing, OwnerPlaces, ListenPlaces, CallbackPlaces, Own,
      Closers, Fd, INVALID_SOCKET, object, listener, receiver, bounds, threads
<1>1. ASSUME NEW m \in BOOLEAN, ListenSocket(m) PROVE Pointers'
  BY <1>1 DEF ListenSocket, IsNewFd, FreeFds
<1>2. ASSUME ConnectSocket PROVE Pointers'
  BY <1>2 DEF ConnectSocket, IsNewFd, FreeFds
<1>3. ASSUME OpenStep PROVE Pointers'
  BY <1>3 DEF OpenStep, OpenFail, ListenStart, ConnectDone, ReleaseSock
<1>4. ASSUME ClientConnects \/ AcceptError PROVE Pointers'
  BY <1>4 DEF ClientConnects, AcceptError
<1>5. ASSUME ListenStep PROVE Pointers'
  BY <1>5 DEF ListenStep, AcceptCall, AcceptClient, AcceptFailed, HandOver, ListenNext,
         ListenStop, ListenClose, ReleaseSock, IsNewFd, FreeFds, Reported
<1>6. ASSUME NEW fd \in Fd, ClientCloses(fd) PROVE Pointers'
  BY <1>6 DEF ClientCloses
<1>7. ASSUME ReceiveCallback \/ ReceiveCallbackStart PROVE Pointers'
  BY <1>7 DEF ReceiveCallback, ReceiveCallbackStart
<1>8. ASSUME CallbackStep \/ RecvReturns PROVE Pointers'
  BY <1>8 DEF CallbackStep, RecvReturns, CallbackLoop, ReceivePacket, ReadCall,
         PacketCallback
<1>9. ASSUME Close PROVE Pointers'
  BY <1>9 DEF Close
<1>10. ASSUME NEW c \in Closers, CloseSock(c) PROVE Pointers'
  BY <1>10 DEF CloseSock, Woken, ReleaseSock
<1>11. ASSUME NEW c \in Closers, CloseJoinListen(c) PROVE Pointers'
  BY <1>11 DEF CloseJoinListen
<1>12. ASSUME NEW c \in Closers, CloseJoinCallback(c) PROVE Pointers'
  BY <1>12 DEF CloseJoinCallback, WaitsForCallback
<1>13. ASSUME NEW c \in Closers, CloseStatus(c) PROVE Pointers'
  BY <1>13 DEF CloseStatus
<1>14. ASSUME Destroy \/ DestroyClose PROVE Pointers'
  BY <1>14 DEF Destroy, DestroyClose
<1>15. ASSUME UNCHANGED vars PROVE Pointers'
  BY <1>15 DEF vars
<1> QED BY <1>1, <1>2, <1>3, <1>4, <1>5, <1>6, <1>7, <1>8, <1>9, <1>10, <1>11, <1>12, <1>13,
          <1>14, <1>15 DEF Next, CloseStep

(* The owner opens a socket only when nobody is inside close. *)
LEMMA PhasesStep ==
  ASSUME Inv, [Next]_vars
  PROVE  Phases'
<1> USE LifecycleAssumption, Inv DEF Inv, TypeInv, SocketTypeOK, PlacesOK, Pointers, Phases,
      Goto, Threads, Joining, Closing, OwnerPlaces, ListenPlaces, CallbackPlaces, Own,
      Closers, Fd, INVALID_SOCKET, object, listener, receiver, bounds, threads
<1>1. ASSUME NEW m \in BOOLEAN, ListenSocket(m) PROVE Phases'
  BY <1>1 DEF ListenSocket, IsNewFd, FreeFds
<1>2. ASSUME ConnectSocket PROVE Phases'
  BY <1>2 DEF ConnectSocket, IsNewFd, FreeFds
<1>3. ASSUME OpenStep PROVE Phases'
  BY <1>3 DEF OpenStep, OpenFail, ListenStart, ConnectDone, ReleaseSock
<1>4. ASSUME ClientConnects \/ AcceptError PROVE Phases'
  BY <1>4 DEF ClientConnects, AcceptError
<1>5. ASSUME ListenStep PROVE Phases'
  BY <1>5 DEF ListenStep, AcceptCall, AcceptClient, AcceptFailed, HandOver, ListenNext,
         ListenStop, ListenClose, ReleaseSock, IsNewFd, FreeFds, Reported
<1>6. ASSUME NEW fd \in Fd, ClientCloses(fd) PROVE Phases'
  BY <1>6 DEF ClientCloses
<1>7. ASSUME ReceiveCallback \/ ReceiveCallbackStart PROVE Phases'
  BY <1>7 DEF ReceiveCallback, ReceiveCallbackStart
<1>8. ASSUME CallbackStep \/ RecvReturns PROVE Phases'
  BY <1>8 DEF CallbackStep, RecvReturns, CallbackLoop, ReceivePacket, ReadCall,
         PacketCallback
<1>9. ASSUME Close PROVE Phases'
  BY <1>9 DEF Close
<1>10. ASSUME NEW c \in Closers, CloseSock(c) PROVE Phases'
  BY <1>10 DEF CloseSock, Woken, ReleaseSock
<1>11. ASSUME NEW c \in Closers, CloseJoinListen(c) PROVE Phases'
  BY <1>11 DEF CloseJoinListen
<1>12. ASSUME NEW c \in Closers, CloseJoinCallback(c) PROVE Phases'
  BY <1>12 DEF CloseJoinCallback, WaitsForCallback
<1>13. ASSUME NEW c \in Closers, CloseStatus(c) PROVE Phases'
  BY <1>13 DEF CloseStatus
<1>14. ASSUME Destroy \/ DestroyClose PROVE Phases'
  BY <1>14 DEF Destroy, DestroyClose
<1>15. ASSUME UNCHANGED vars PROVE Phases'
  BY <1>15 DEF vars
<1> QED BY <1>1, <1>2, <1>3, <1>4, <1>5, <1>6, <1>7, <1>8, <1>9, <1>10, <1>11, <1>12, <1>13,
          <1>14, <1>15 DEF Next, CloseStep

(* close releases the descriptor of _sock and no other. *)
LEMMA DescriptorsStep ==
  ASSUME Inv, [Next]_vars
  PROVE  Descriptors'
<1> USE LifecycleAssumption, Inv DEF Inv, TypeInv, SocketTypeOK, PlacesOK, Pointers, Phases,
      Descriptors, Goto, Threads, Joining, Closing, OwnerPlaces, ListenPlaces,
      CallbackPlaces, Own, Closers, Fd, INVALID_SOCKET, object, listener, receiver, bounds,
      threads
<1>1. ASSUME NEW m \in BOOLEAN, ListenSocket(m) PROVE Descriptors'
  BY <1>1 DEF ListenSocket, IsNewFd, FreeFds
<1>2. ASSUME ConnectSocket PROVE Descriptors'
  BY <1>2 DEF ConnectSocket, IsNewFd, FreeFds
<1>3. ASSUME OpenStep PROVE Descriptors'
  BY <1>3 DEF OpenStep, OpenFail, ListenStart, ConnectDone, ReleaseSock
<1>4. ASSUME ClientConnects \/ AcceptError PROVE Descriptors'
  BY <1>4 DEF ClientConnects, AcceptError
<1>5. ASSUME ListenStep PROVE Descriptors'
  BY <1>5 DEF ListenStep, AcceptCall, AcceptClient, AcceptFailed, HandOver, ListenNext,
         ListenStop, ListenClose, ReleaseSock, IsNewFd, FreeFds, Reported
<1>6. ASSUME NEW fd \in Fd, ClientCloses(fd) PROVE Descriptors'
  BY <1>6 DEF ClientCloses
<1>7. ASSUME ReceiveCallback \/ ReceiveCallbackStart PROVE Descriptors'
  BY <1>7 DEF ReceiveCallback, ReceiveCallbackStart
<1>8. ASSUME CallbackStep \/ RecvReturns PROVE Descriptors'
  BY <1>8 DEF CallbackStep, RecvReturns, CallbackLoop, ReceivePacket, ReadCall,
         PacketCallback
<1>9. ASSUME Close PROVE Descriptors'
  BY <1>9 DEF Close
<1>10. ASSUME NEW c \in Closers, CloseSock(c) PROVE Descriptors'
  <2>1. kernel' = [fd \in Fd |-> IF fd = sock THEN "free" ELSE kernel[fd]] /\ sock' = INVALID_SOCKET
    BY <1>10 DEF CloseSock, ReleaseSock
  <2>2. pc'["listen"] = "accepted" <=> pc["listen"] = "accepted"
    BY <1>10 DEF CloseSock, Woken
  <2>3. UNCHANGED <<terminate, clientSock>>
    BY <1>10 DEF CloseSock
  <2> QED BY <2>1, <2>2, <2>3
<1>11. ASSUME NEW c \in Closers, CloseJoinListen(c) PROVE Descriptors'
  BY <1>11 DEF CloseJoinListen
<1>12. ASSUME NEW c \in Closers, CloseJoinCallback(c) PROVE Descriptors'
  BY <1>12 DEF CloseJoinCallback, WaitsForCallback
<1>13. ASSUME NEW c \in Closers, CloseStatus(c) PROVE Descriptors'
  BY <1>13 DEF CloseStatus
<1>14. ASSUME Destroy \/ DestroyClose PROVE Descriptors'
  BY <1>14 DEF Destroy, DestroyClose
<1>15. ASSUME UNCHANGED vars PROVE Descriptors'
  BY <1>15 DEF vars
<1> QED BY <1>1, <1>2, <1>3, <1>4, <1>5, <1>6, <1>7, <1>8, <1>9, <1>10, <1>11, <1>12, <1>13,
          <1>14, <1>15 DEF Next, CloseStep

(* Only a callback that calls close itself survives one. *)
LEMMA SelfClosingStep ==
  ASSUME Inv, [Next]_vars
  PROVE  SelfClosing'
<1> USE LifecycleAssumption, Inv DEF Inv, TypeInv, SocketTypeOK, PlacesOK, CountsOK,
      Pointers, Phases, SelfClosing, Goto, Threads, Joining, Closing, OwnerPlaces,
      ListenPlaces, CallbackPlaces, Own, Closers, Fd, INVALID_SOCKET, object, listener,
      receiver, bounds, threads
<1>1. ASSUME NEW m \in BOOLEAN, ListenSocket(m) PROVE SelfClosing'
  BY <1>1 DEF ListenSocket, IsNewFd, FreeFds
<1>2. ASSUME ConnectSocket PROVE SelfClosing'
  BY <1>2 DEF ConnectSocket, IsNewFd, FreeFds
<1>3. ASSUME OpenStep PROVE SelfClosing'
  BY <1>3 DEF OpenStep, OpenFail, ListenStart, ConnectDone, ReleaseSock
<1>4. ASSUME ClientConnects \/ AcceptError PROVE SelfClosing'
  BY <1>4 DEF ClientConnects, AcceptError
<1>5. ASSUME ListenStep PROVE SelfClosing'
  BY <1>5 DEF ListenStep, AcceptCall, AcceptClient, AcceptFailed, HandOver, ListenNext,
         ListenStop, ListenClose, ReleaseSock, IsNewFd, FreeFds, Reported
<1>6. ASSUME NEW fd \in Fd, ClientCloses(fd) PROVE SelfClosing'
  BY <1>6 DEF ClientCloses
<1>7. ASSUME ReceiveCallback \/ ReceiveCallbackStart PROVE SelfClosing'
  BY <1>7 DEF ReceiveCallback, ReceiveCallbackStart
<1>8. ASSUME CallbackStep \/ RecvReturns PROVE SelfClosing'
  BY <1>8 DEF CallbackStep, RecvReturns, CallbackLoop, ReceivePacket, ReadCall,
         PacketCallback
<1>9. ASSUME Close PROVE SelfClosing'
  BY <1>9 DEF Close
<1>10. ASSUME NEW c \in Closers, CloseSock(c) PROVE SelfClosing'
  BY <1>10 DEF CloseSock, Woken, ReleaseSock
<1>11. ASSUME NEW c \in Closers, CloseJoinListen(c) PROVE SelfClosing'
  BY <1>11 DEF CloseJoinListen
<1>12. ASSUME NEW c \in Closers, CloseJoinCallback(c) PROVE SelfClosing'
  BY <1>12 DEF CloseJoinCallback, WaitsForCallback
<1>13. ASSUME NEW c \in Closers, CloseStatus(c) PROVE SelfClosing'
  BY <1>13 DEF CloseStatus
<1>14. ASSUME Destroy \/ DestroyClose PROVE SelfClosing'
  BY <1>14 DEF Destroy, DestroyClose
<1>15. ASSUME UNCHANGED vars PROVE SelfClosing'
  BY <1>15 DEF vars
<1> QED BY <1>1, <1>2, <1>3, <1>4, <1>5, <1>6, <1>7, <1>8, <1>9, <1>10, <1>11, <1>12, <1>13,
          <1>14, <1>15 DEF Next, CloseStep

(* The listen thread tells acb once how it ends. *)
LEMMA ToldStep ==
  ASSUME Inv, [Next]_vars
  PROVE  Told'
<1> USE LifecycleAssumption, Inv DEF Inv, TypeInv, SocketTypeOK, PlacesOK, CountsOK,
      Pointers, Phases, Told, Goto, Threads, Joining, Closing, OwnerPlaces, ListenPlaces,
      CallbackPlaces, Own, Closers, Fd, INVALID_SOCKET, object, listener, receiver, bounds,
      threads
<1>1. ASSUME NEW m \in BOOLEAN, ListenSocket(m) PROVE Told'
  BY <1>1 DEF ListenSocket, IsNewFd, FreeFds
<1>2. ASSUME ConnectSocket PROVE Told'
  BY <1>2 DEF ConnectSocket, IsNewFd, FreeFds
<1>3. ASSUME OpenStep PROVE Told'
  BY <1>3 DEF OpenStep, OpenFail, ListenStart, ConnectDone, ReleaseSock
<1>4. ASSUME ClientConnects \/ AcceptError PROVE Told'
  BY <1>4 DEF ClientConnects, AcceptError
<1>5. ASSUME ListenStep PROVE Told'
  BY <1>5 DEF ListenStep, AcceptCall, AcceptClient, AcceptFailed, HandOver, ListenNext,
         ListenStop, ListenClose, ReleaseSock, IsNewFd, FreeFds, Reported
<1>6. ASSUME NEW fd \in Fd, ClientCloses(fd) PROVE Told'
  BY <1>6 DEF ClientCloses
<1>7. ASSUME ReceiveCallback \/ ReceiveCallbackStart PROVE Told'
  BY <1>7 DEF ReceiveCallback, ReceiveCallbackStart
<1>8. ASSUME CallbackStep \/ RecvReturns PROVE Told'
  <2>1. ASSUME CallbackLoop PROVE Told'
    BY <2>1 DEF CallbackLoop
  <2>2. ASSUME ReceivePacket PROVE Told'
    BY <2>2 DEF ReceivePacket
  <2>3. ASSUME ReadCall PROVE Told'
    BY <2>3 DEF ReadCall
  <2>4. ASSUME PacketCallback PROVE Told'
    BY <2>4 DEF PacketCallback
  <2>5. ASSUME RecvReturns PROVE Told'
    BY <2>5 DEF RecvReturns
  <2> QED BY <1>8, <2>1, <2>2, <2>3, <2>4, <2>5 DEF CallbackStep
<1>9. ASSUME Close PROVE Told'
  BY <1>9 DEF Close
<1>10. ASSUME NEW c \in Closers, CloseSock(c) PROVE Told'
  BY <1>10 DEF CloseSock, Woken, ReleaseSock
<1>11. ASSUME NEW c \in Closers, CloseJoinListen(c) PROVE Told'
  BY <1>11 DEF CloseJoinListen
<1>12. ASSUME NEW c \in Closers, CloseJoinCallback(c) PROVE Told'
  BY <1>12 DEF CloseJoinCallback, WaitsForCallback
<1>13. ASSUME NEW c \in Closers, CloseStatus(c) PROVE Told'
  BY <1>13 DEF CloseStatus
<1>14. ASSUME Destroy \/ DestroyClose PROVE Told'
  BY <1>14 DEF Destroy, DestroyClose
<1>15. ASSUME UNCHANGED vars PROVE Told'
  BY <1>15 DEF vars
<1> QED BY <1>1, <1>2, <1>3, <1>4, <1>5, <1>6, <1>7, <1>8, <1>9, <1>10, <1>11, <1>12, <1>13,
          <1>14, <1>15 DEF Next, CloseStep

(* The invariant is inductive. *)
LEMMA InvHolds == Spec => []Inv
<1>1. Inv /\ [Next]_vars => Inv'
  BY PlacesOKStep, SocketTypeOKStep, CountsOKStep, PointersStep, PhasesStep, DescriptorsStep,
     SelfClosingStep, ToldStep DEF Inv, TypeInv
<1> QED BY InitInv, <1>1, PTL DEF Spec

(* For any number of descriptors: the object owns exactly the descriptor in  *)
(* _sock, whatever the order in which the owner, closeSocket of the listen   *)
(* thread and a close from the callback run.                                 *)
THEOREM DescriptorsAreOwnedHolds == Spec => []DescriptorsAreOwned
<1>1. Inv => DescriptorsAreOwned
  <2> SUFFICES ASSUME Inv PROVE DescriptorsAreOwned
    OBVIOUS
  <2>1. {fd \in Fd : kernel[fd] \in Own} = {sock} \ {INVALID_SOCKET}
    BY LifecycleAssumption DEF Inv, TypeInv, SocketTypeOK, Descriptors, Fd, INVALID_SOCKET
  <2> QED BY <2>1 DEF Inv, Descriptors, DescriptorsAreOwned, Own
<1> QED BY InvHolds, <1>1, PTL

(* For any number of clients: acb hears of the end of a listen exactly once, *)
(* by an error or by its one connection, before close returns.               *)
THEOREM ListenOutcomeHolds == Spec => []ListenOutcome
<1>1. Inv => ListenOutcome
  BY DEF Inv, TypeInv, PlacesOK, ListenPlaces, Pointers, Told, ListenOutcome
<1> QED BY InvHolds, <1>1, PTL

(* For any number of calls: after close no thread of the object runs, unless *)
(* the callback itself closed the socket.                                    *)
THEOREM ClosedMeansAloneHolds == Spec => []ClosedMeansAlone
<1>1. Inv => ClosedMeansAlone
  BY DEF Inv, TypeInv, SocketTypeOK, Pointers, SelfClosing, ClosedMeansAlone
<1> QED BY InvHolds, <1>1, PTL
=============================================================================
