----------------------------- MODULE BoundedFifo -----------------------------
(***************************************************************************)
(* What the containers of clockUtils promise to their callers: a           *)
(* first-in-first-out queue of at most Capacity elements.  A call takes    *)
(* effect at one instant between its invocation and its return, and the    *)
(* error code it returns is the one that instant calls for                 *)
(* (docs/container.doxygen).  LockFreeQueue and DoubleBufferQueue are      *)
(* shown to implement this module.                                         *)
(***************************************************************************)
EXTENDS Naturals, Sequences

CONSTANTS Threads,   \* the threads that call the queue
          Values,    \* the elements
          NoValue,   \* the content of an out-parameter nobody wrote
          Capacity   \* how many elements the queue has space for

VARIABLES queue,     \* the elements, oldest first
          call       \* the call each thread has in progress

vars == <<queue, call>>

Operations == {"push", "pop", "front", "poll", "clear"}
Errors == {"SUCCESS", "NO_ELEMENT", "NO_SPACE_AVAILABLE"}

NoCall == [op |-> "none", value |-> NoValue, err |-> "none"]
Pending(op, v) == [op |-> op, value |-> v, err |-> "pending"]
Done(op, v, e) == [op |-> op, value |-> v, err |-> e]

FifoTypeOK ==
  /\ queue \in Seq(Values) /\ Len(queue) <= Capacity
  /\ call \in [Threads -> [op : Operations \cup {"none"},
                           value : Values \cup {NoValue},
                           err : Errors \cup {"none", "pending"}]]

Init == queue = << >> /\ call = [t \in Threads |-> NoCall]

(* A thread enters an operation; only push brings a value along. *)
Invoke(t, op, v) ==
  /\ call[t] = NoCall
  /\ (op = "push") <=> (v # NoValue)
  /\ call' = [call EXCEPT ![t] = Pending(op, v)]
  /\ UNCHANGED queue

Finish(t, v, e) == call' = [call EXCEPT ![t] = Done(@.op, v, e)]
IsPending(t, ops) == call[t].err = "pending" /\ call[t].op \in ops

PerformPush(t) ==
  /\ IsPending(t, {"push"})
  /\ \/ /\ Len(queue) < Capacity
        /\ queue' = Append(queue, call[t].value)
        /\ Finish(t, call[t].value, "SUCCESS")
     \/ /\ Len(queue) = Capacity
        /\ Finish(t, call[t].value, "NO_SPACE_AVAILABLE")
        /\ UNCHANGED queue

PerformTake(t) ==
  /\ IsPending(t, {"pop", "front", "poll"})
  /\ \/ /\ queue = << >>
        /\ Finish(t, NoValue, "NO_ELEMENT")
        /\ UNCHANGED queue
     \/ /\ queue # << >>
        /\ Finish(t, IF call[t].op = "pop" THEN NoValue ELSE Head(queue), "SUCCESS")
        /\ queue' = IF call[t].op = "front" THEN queue ELSE Tail(queue)

PerformClear(t) ==
  /\ IsPending(t, {"clear"})
  /\ queue' = << >>
  /\ Finish(t, NoValue, "SUCCESS")

Return(t) ==
  /\ call[t].err \in Errors
  /\ call' = [call EXCEPT ![t] = NoCall]
  /\ UNCHANGED queue

Next ==
  \E t \in Threads :
    \/ \E op \in Operations, v \in Values \cup {NoValue} : Invoke(t, op, v)
    \/ PerformPush(t) \/ PerformTake(t) \/ PerformClear(t)
    \/ Return(t)

Spec == Init /\ [][Next]_vars
=============================================================================
