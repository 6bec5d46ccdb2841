------------------------------ MODULE TaskService ------------------------------
(***************************************************************************)
(* What ThreadPool promises whoever gives it tasks.  A task given is       *)
(* called once, by one of so many threads.  It may be dropped instead, but *)
(* only after stop_tp was called; and once stop_tp has returned no task is *)
(* being called and none will be.                                          *)
(***************************************************************************)
EXTENDS Naturals, FiniteSets

CONSTANTS Tasks, Size

VARIABLES
  stage,      \* of every task: "new", "accepted", "running", "done" or "dropped"
  stopping,   \* stop_tp was called
  over        \* stop_tp has returned to its first caller

Running == {k \in Tasks : stage[k] = "running"}
Moves(k, from, to) == stage[k] = from /\ stage' = [stage EXCEPT ![k] = to]

Init == stage = [k \in Tasks |-> "new"] /\ stopping = FALSE /\ over = FALSE

Give(k) == Moves(k, "new", "accepted") /\ UNCHANGED <<stopping, over>>

Call(k) ==
  /\ ~over /\ Cardinality(Running) < Size
  /\ Moves(k, "accepted", "running")
  /\ UNCHANGED <<stopping, over>>

Return(k) == Moves(k, "running", "done") /\ UNCHANGED <<stopping, over>>

Drop(k) == stopping /\ Moves(k, "accepted", "dropped") /\ UNCHANGED <<stopping, over>>

Stop == stopping' = TRUE /\ UNCHANGED <<stage, over>>

StopReturns ==
  /\ stopping /\ Running = {} /\ over' = TRUE
  /\ UNCHANGED <<stage, stopping>>

Next == (\E k \in Tasks : Give(k) \/ Call(k) \/ Return(k) \/ Drop(k)) \/ Stop \/ StopReturns
Spec == Init /\ [][Next]_<<stage, stopping, over>>
=============================================================================
