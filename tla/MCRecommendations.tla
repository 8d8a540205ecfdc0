-------------------------- MODULE MCRecommendations --------------------------
(* Recommendations on small instances. *)
EXTENDS Recommendations

CONSTANTS a, b, b1, b2, b3, v1, v2

\* The third batch is of another league than the others.
Leagues2 == [x \in Batches |-> IF x = b3 THEN b ELSE a]
Sweeps   == [x \in Batches |-> "inactive-sweep"]
Full     == [x \in Batches |-> "full"]
=============================================================================
