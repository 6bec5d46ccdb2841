----------------------------- MODULE MCThreadPool -----------------------------
(* Small pools for model-checking ThreadPool. *)
EXTENDS ThreadPool

CONSTANTS a, b, c

\* No task adds another one, or a adds c.
NoAdds == [k \in Tasks |-> {}]
AddsOne == [k \in Tasks |-> IF k = a THEN {c} ELSE {}]
=============================================================================
