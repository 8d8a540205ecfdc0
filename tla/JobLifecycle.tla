---------------------------- MODULE JobLifecycle ----------------------------
(***************************************************************************)
(* What the documentation promises of a durable job, as one atomic step    *)
(* per event: a job is claimed by one worker at a time, at most            *)
(* MaxAttempts times, its result is written once, and a finished job never *)
(* changes again (docs/WORKER_DEPLOYMENT.md, docs/CLOUDPOD_BACKEND.md).    *)
(***************************************************************************)
EXTENDS Naturals

CONSTANTS Jobs,        \* every job there may ever be
          Finished,    \* jobs that have finished at the start, at their first attempt
          Waiting,     \* jobs that are queued at the start
          MaxAttempts

VARIABLES life,     \* life of each job
          claims,   \* claims so far
          outcomes  \* pairs <<job, attempt>> whose result has been written

vars == <<life, claims, outcomes>>

Init ==
    /\ life = [j \in Jobs |-> IF j \in Finished THEN "succeeded"
                              ELSE IF j \in Waiting THEN "queued" ELSE "absent"]
    /\ claims = [j \in Jobs |-> IF j \in Finished THEN 1 ELSE 0]
    /\ outcomes = Finished \X {1}

\* New jobs enter the queue.
Queued(new) == [j \in Jobs |-> IF j \in new THEN "queued" ELSE life[j]]
Absent == {j \in Jobs : life[j] = "absent"}

Enqueue(j) ==
    /\ j \in Absent
    /\ life' = Queued({j})
    /\ UNCHANGED <<claims, outcomes>>

Claim(j) ==
    /\ life[j] = "queued"
    /\ claims[j] < MaxAttempts
    /\ claims' = [claims EXCEPT ![j] = @ + 1]
    /\ \E s \in {"running", "cancelled"} : life' = [life EXCEPT ![j] = s]
    /\ UNCHANGED outcomes

\* The result is written and the jobs that announce it are queued.
Finish(j) ==
    /\ life[j] = "running"
    /\ \E new \in SUBSET Absent : life' = [Queued(new) EXCEPT ![j] = "succeeded"]
    /\ outcomes' = outcomes \cup {<<j, claims[j]>>}
    /\ UNCHANGED claims

Retry(j) ==
    /\ life[j] = "running"
    /\ claims[j] < MaxAttempts
    /\ life' = [life EXCEPT ![j] = "queued"]
    /\ UNCHANGED <<claims, outcomes>>

Bury(j) ==
    /\ life[j] = "running"
    /\ life' = [life EXCEPT ![j] = "dead-letter"]
    /\ UNCHANGED <<claims, outcomes>>

Next == \E j \in Jobs : Enqueue(j) \/ Claim(j) \/ Finish(j) \/ Retry(j) \/ Bury(j)

Spec == Init /\ [][Next]_vars
=============================================================================
