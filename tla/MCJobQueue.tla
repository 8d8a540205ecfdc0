----------------------------- MODULE MCJobQueue -----------------------------
(* JobQueue on small instances: the constants TLC's runs choose from. *)
EXTENDS JobQueue

CONSTANTS r1, c1, w1, w2

\* Every request is an inactive sweep, the most urgent kind.
SweepPriority == [r \in Requests |-> 100]
=============================================================================
