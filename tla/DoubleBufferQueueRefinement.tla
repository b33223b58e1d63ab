---------------------- MODULE DoubleBufferQueueRefinement ----------------------
(***************************************************************************)
(* DoubleBufferQueue implements BoundedFifo.  The abstract queue is the    *)
(* read side followed by the write side (and preceded by what a clear in   *)
(* progress has taken out of the read side).  push takes effect under      *)
(* _writeLock, pop, front and poll under _readLock: when they touch the    *)
(* element, or, when both sides are empty, when swap() is done.            *)
(***************************************************************************)
EXTENDS DoubleBufferQueue, FiniteSets

queueBar == drained \o buffer[queueRead] \o buffer[Other(queueRead)]

callRecord(o, v, e) == [op |-> o, value |-> v, err |-> e]

(* What the callers see of the call that thread t is in. *)
callOf(t) ==
  CASE At(t, "push_locked") -> callRecord("push", value[t], "pending")
    [] At(t, "push_return") -> callRecord("push", value[t], "SUCCESS")
    [] pc[t] \in {"take_swap", "swap_read"} -> callRecord(op[t], NoValue, "pending")
    [] At(t, "take_front") ->
         callRecord(op[t], NoValue, IF buffer[queueRead] = << >> THEN "NO_ELEMENT" ELSE "pending")
    [] At(t, "take_return") -> callRecord(op[t], value[t], err[t])
    [] At(t, "clear_write") -> callRecord("clear", NoValue, "pending")
    [] At(t, "clear_return") -> callRecord("clear", NoValue, "SUCCESS")
    [] OTHER -> callRecord("none", NoValue, "none")

callBar == [t \in Threads |-> callOf(t)]

(* The queue has no limit of its own: the bound on the pushes is one it     *)
(* never reaches.                                                           *)
Fifo == INSTANCE BoundedFifo WITH Capacity <- MaxPushes + Cardinality(Producers),
                                  queue <- queueBar, call <- callBar

(* Seen from its callers, the two buffers are one FIFO queue: push, pop,     *)
(* front, poll and clear (lines 65-119 and 137-238) each happen at one       *)
(* instant and return the error code of that instant.  Holds with consumer   *)
(* = true as long as nobody calls clear(), which releases _readLock before   *)
(* it takes _writeLock.                                                      *)
IsLinearizable == Fifo!Spec
================================================================================
