------------------------------- MODULE MCWork -------------------------------
(* The work of the two editions on small instances: JobQueue of the hosted one, with no two calls
   at the copies of one job, and LocalSession, LocalRuns and LocalDecisions of the local one,
   which has no queue.  They share no state: a run explores one after the other, the part being
   chosen at the start. *)
EXTENDS MCJobQueue, LocalSession, LocalRuns, LocalDecisions

CONSTANTS
    b1, b2,          \* tabs of a browser
    x1, x2,          \* a sync and a scheduled run
    l1, l2, g1,      \* analyses
    d1, d2           \* decision calls

VARIABLE part

RunKinds == [r \in Runs |-> IF r = x1 THEN "sync" ELSE "full"]
AskedFor == [x \in AnalysisCalls |-> IF x = g1 THEN "waivers" ELSE "lineup"]

MCVars == <<part, vars, sessionVars, runVars, localVars>>

\* The parts with several initial states are in one of them unless they are the part that runs.
SessionParked == cookies = [session |-> 1, csrf |-> 1] /\ SessionInit
RunsParked    == espn = [settings |-> 0, status |-> "pending"] /\ RunsInit

MCInit ==
    /\ part \in {"queue", "session", "runs", "local"}
    /\ Init /\ LocalInit
    /\ IF part = "session" THEN SessionInit ELSE SessionParked
    /\ IF part = "runs" THEN RunsInit ELSE RunsParked

MCNext ==
    \/ /\ part = "queue" /\ Next /\ SerialWriters'
       /\ UNCHANGED <<part, sessionVars, runVars, localVars>>
    \/ /\ part = "session" /\ SessionNext
       /\ UNCHANGED <<part, vars, runVars, localVars>>
    \/ /\ part = "runs" /\ RunsNext
       /\ UNCHANGED <<part, vars, sessionVars, localVars>>
    \/ /\ part = "local" /\ LocalNext
       /\ UNCHANGED <<part, vars, sessionVars, runVars>>

MCSpec == MCInit /\ [][MCNext]_MCVars
=============================================================================
