---------------------------- MODULE MCAuthGrants ----------------------------
(* AuthGrants on small instances. *)
EXTENDS AuthGrants, TLC

CONSTANTS q1, q2, s1, s2, u1, a1, v1

\* One client makes every request.
SameClient == [r \in Requests |-> a1]

Symmetry == Permutations(Requests) \cup Permutations(Submissions)
=============================================================================
