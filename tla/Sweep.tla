------------------------------- MODULE Sweep -------------------------------
(***************************************************************************)
(* enqueueInactiveSweeps (cloudpod/pb_hooks/leaguepilot_lib.js), which the *)
(* lock-window crons call: an inactive-sweep job for every connected       *)
(* connection, read in pages by offset.  Jobs that end between two pages   *)
(* move connections into and out of the filter.                            *)
(***************************************************************************)
EXTENDS Naturals, FiniteSets

CONSTANTS
    Swept,     \* the connections, numbered in the order of their ids
    PageSize   \* 250

ASSUME SweepAssumption == Swept \subseteq Nat /\ IsFiniteSet(Swept) /\ PageSize \in Nat \ {0}

VARIABLES
    linked,    \* connections with status connected
    offset,    \* offset of the next page; 0 before the first
    finished,  \* the loop is over
    queued,    \* connections an inactive-sweep job was enqueued for
    left,      \* history: connections that left the filter between two pages
    stayed     \* history: connections that have been in the filter from the first page on

sweepVars == <<linked, offset, finished, queued, left, stayed>>

Before(c)  == Cardinality({d \in linked : d < c})
\* Mutant: the page is skipped along with its last row.
PageShort  == {c \in linked : Before(c) >= offset /\ Before(c) + 1 < offset + PageSize}
Page       == {c \in linked : Before(c) >= offset /\ Before(c) < offset + PageSize}

SweepInit ==
    /\ linked \in SUBSET Swept
    /\ offset = 0 /\ finished = FALSE /\ queued = {} /\ left = {} /\ stayed = linked

\* One query and the enqueues of its rows, none of which depends on anything else.
SweepPage ==
    /\ ~finished
    /\ queued' = queued \cup Page
    /\ offset' = offset + Cardinality(Page)
    /\ finished' = (Cardinality(Page) < PageSize)
    /\ UNCHANGED <<linked, left, stayed>>

\* Between two pages a completion connects, or a failure or a save unlinks.
Relink(c) ==
    /\ ~finished /\ offset > 0
    /\ linked' = IF c \in linked THEN linked \ {c} ELSE linked \cup {c}
    /\ left' = left \cup ({c} \cap linked)
    /\ stayed' = stayed \ {c}
    /\ UNCHANGED <<offset, finished, queued>>

SweepNext == SweepPage \/ \E c \in Swept : Relink(c)

SweepSpec == SweepInit /\ [][SweepNext]_sweepVars

\* A connection that is connected all the time gets its job, unless one before it left the
\* filter between two pages; the offset then passes over one row.
SkippedForCause ==
    finished => \A c \in stayed \ queued : \E d \in left : d < c
=============================================================================
