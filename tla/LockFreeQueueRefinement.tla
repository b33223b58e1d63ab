----------------------- MODULE LockFreeQueueRefinement -----------------------
(***************************************************************************)
(* LockFreeQueue implements BoundedFifo.  The abstract queue is the window *)
(* of the ring between the two indices.  A push takes effect when it       *)
(* publishes _writeIndex, or, when the queue is full, when it loads        *)
(* _readIndex.  A pop or poll takes effect when it advances _readIndex,    *)
(* front when it copies the element, and each of them, when the queue is   *)
(* empty, when it loads _writeIndex: the other index cannot move while the *)
(* thread holds its flag.                                                  *)
(***************************************************************************)
EXTENDS LockFreeQueue

(* The elements between the two indices, oldest first. *)
queueBar == [i \in 1 .. writeIndex - readIndex |-> data[(readIndex + i - 1) % SIZE]]

pushCall(t, e) == [op |-> "push", value |-> value[t], err |-> e]
takeCall(t, e) ==
  [op |-> op[t], value |-> IF e = "pending" THEN NoValue ELSE value[t], err |-> e]

(* What the callers see of the call that thread t is in. *)
callOf(t) ==
  CASE pc[t] \in {"push_loadRead", "push_store", "push_publish"} -> pushCall(t, "pending")
    [] At(t, "push_loadWrite") ->
         pushCall(t, IF HasSpace(writeIndex, localRead[t]) THEN "pending"
                                                           ELSE "NO_SPACE_AVAILABLE")
    [] At(t, "push_unlock") -> pushCall(t, err[t])
    [] pc[t] \in {"take_loadWrite", "take_copy", "take_advance"} -> takeCall(t, "pending")
    [] At(t, "take_loadRead") ->
         takeCall(t, IF localWrite[t] > readIndex THEN "pending" ELSE "NO_ELEMENT")
    [] At(t, "take_unlock") -> takeCall(t, err[t])
    [] OTHER -> [op |-> "none", value |-> NoValue, err |-> "none"]

callBar == [t \in Threads |-> callOf(t)]

Fifo == INSTANCE BoundedFifo WITH Capacity <- SIZE, queue <- queueBar, call <- callBar

(* Seen from its callers, the ring buffer is a FIFO queue of SIZE elements   *)
(* whose push, pop, front and poll (lines 57-141) each happen at one instant *)
(* and return the error code of that instant; nothing is lost, duplicated or *)
(* reordered under any interleaving.  Holds when nobody calls clear().       *)
IsLinearizable == Fifo!Spec
=============================================================================
