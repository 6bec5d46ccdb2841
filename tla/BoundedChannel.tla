----------------------------- MODULE BoundedChannel -----------------------------
(***************************************************************************)
(* What SyncQueue promises its callers: a first-in first-out channel of    *)
(* limited capacity that freezes when it is stopped.  An item is received  *)
(* once, in the order sent, and nothing is sent or received afterwards.    *)
(***************************************************************************)
EXTENDS Naturals, Sequences

CONSTANTS Items, Capacity

VARIABLES pending, stopped

Send ==
  /\ ~stopped /\ Len(pending) < Capacity
  /\ \E x \in Items : pending' = Append(pending, x)
  /\ UNCHANGED stopped

Receive ==
  /\ ~stopped /\ pending # <<>>
  /\ pending' = Tail(pending)
  /\ UNCHANGED stopped

ReceiveAll ==
  /\ ~stopped /\ pending' = <<>>
  /\ UNCHANGED stopped

Stop == stopped' = TRUE /\ UNCHANGED pending

Init == pending = <<>> /\ stopped = FALSE
Next == Send \/ Receive \/ ReceiveAll \/ Stop
Spec == Init /\ [][Next]_<<pending, stopped>>
=============================================================================
