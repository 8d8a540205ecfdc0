------------------------------- MODULE Ranking -------------------------------
(***************************************************************************)
(* What Python's sorted() makes of players or slots that are numbered in   *)
(* the order in which it meets them.                                       *)
(***************************************************************************)
EXTENDS Integers, FiniteSets

\* The greatest keys first, ties as they come.
Sorted(S, key) ==
    CHOOSE s \in [1..Cardinality(S) -> S] :
        \A i, j \in DOMAIN s : i < j =>
            key[s[i]] > key[s[j]] \/ (key[s[i]] = key[s[j]] /\ s[i] < s[j])
=============================================================================
