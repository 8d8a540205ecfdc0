----------------------------- MODULE LocalRuns -----------------------------
(***************************************************************************)
(* The ESPN connection of a workspace of the local edition: saving it,     *)
(* synchronizing it, and the scheduled runs that fetch, analyse, report    *)
(* and notify (app/routers/connections.py, jobs.py).  A handler keeps the  *)
(* row it has read for all its commits, and a commit writes only the       *)
(* columns it has changed from what it read.                               *)
(***************************************************************************)
EXTENDS Integers, FiniteSets

CONSTANTS
    Runs,        \* syncs and scheduled runs
    RunKind,     \* "sync", or what a scheduled run is asked for
    Settings,    \* the numbers of the saves, each with league, team and credentials of its own
    MaxHalts     \* restarts of the server

VARIABLES
    espn,        \* the connection: the save its settings come from, and its status
    newest,      \* the settings the workspace's newest snapshot was fetched with
    save,        \* where each save is, and the status it has read
    run,         \* where each run is, what it has read, and the analyses it has left
    fetched,     \* settings ESPN has answered for
    met,         \* saves that overlapped a run
    halts

runVars == <<espn, newest, save, run, fetched, met, halts>>

AnalysesOf(r) == CASE RunKind[r] = "full" -> 3
                 [] RunKind[r] \in {"lineup", "waivers", "trades"} -> 1
                 [] OTHER -> 0

AtWork(r) == run[r].at \notin {"new", "ended"}

-----------------------------------------------------------------------------
\* PUT connections/espn: the row of this league, or failing that the oldest.
SaveReads(s) ==
    /\ save[s].at = "new"
    /\ save' = [save EXCEPT ![s] = [at |-> "read", loaded |-> espn.status]]
    /\ met' = IF \E r \in Runs : AtWork(r) THEN met \cup {s} ELSE met
    /\ UNCHANGED <<espn, newest, run, fetched, halts>>

\* Mutant: new settings leave the status alone.
OldStatus(loaded) == loaded

\* What the save sets status to.
NewStatus(loaded) == "pending"

\* The columns that differ from what was read are written: a row that was read as pending
\* keeps whatever status it has by now.
Written(value, loaded) == IF value = loaded THEN espn.status ELSE value

SaveCommits(s) ==
    /\ save[s].at = "read"
    /\ save' = [save EXCEPT ![s].at = "ended"]
    /\ espn' = [settings |-> s, status |-> Written(NewStatus(save[s].loaded), save[s].loaded)]
    /\ met' = IF \E r \in Runs : AtWork(r) THEN met \cup {s} ELSE met
    /\ UNCHANGED <<newest, run, fetched, halts>>

-----------------------------------------------------------------------------
\* A sync, or a scheduled run, which reads all connections before it takes up the first.
RunReads(r) ==
    /\ run[r].at = "new"
    /\ run' = [run EXCEPT ![r] = [at |-> "read", settings |-> espn.settings,
                                  loaded |-> espn.status, left |-> AnalysesOf(r)]]
    /\ met' = met \cup {s \in Settings : save[s].at = "read"}
    /\ UNCHANGED <<espn, newest, save, fetched, halts>>

Moves(r, from, to) ==
    /\ run[r].at = from
    /\ run' = [run EXCEPT ![r].at = to]

\* ESPN answers, or an EspnGatewayError is raised.
Fetches(r) ==
    /\ \/ Moves(r, "read", "fetched") /\ fetched' = fetched \cup {run[r].settings}
       \/ Moves(r, "read", "raised") /\ UNCHANGED fetched
    /\ UNCHANGED <<espn, newest, save, met, halts>>

\* save_snapshot.
SnapshotCommits(r) ==
    /\ Moves(r, "fetched", "analysing")
    /\ newest' = run[r].settings
    /\ UNCHANGED <<espn, save, fetched, met, halts>>

\* A commit of this session, with what it has set the status to.
Flushes(r, value, to, left) ==
    /\ espn' = [espn EXCEPT !.status = Written(value, run[r].loaded)]
    /\ run' = [run EXCEPT ![r] = [@ EXCEPT !.at = to, !.loaded = value, !.left = left]]
    /\ UNCHANGED <<newest, save, fetched, met, halts>>

\* replace_recommendations commits the status too.
AnalysisFlushes(r) ==
    /\ run[r].at = "analysing" /\ run[r].left > 0
    /\ Flushes(r, "connected", "analysing", run[r].left - 1)

\* _notify_channels: nothing is raised for a channel that does not answer, but for one whose
\* secret cannot be opened.
Notifies(r) ==
    /\ RunKind[r] # "sync" /\ run[r].left = 0
    /\ \/ Moves(r, "analysing", "notified")
       \/ Moves(r, "analysing", "raised")
    /\ UNCHANGED <<espn, newest, save, fetched, met, halts>>

\* The last commit, with report, audit event and status.
RunEnds(r) ==
    /\ \/ run[r].at = "analysing" /\ RunKind[r] = "sync"
       \/ run[r].at = "notified"
    /\ Flushes(r, "connected", "ended", 0)

\* The status is error, and what had been added to the session is committed all the same.
RunFails(r) ==
    /\ run[r].at = "raised"
    /\ Flushes(r, "error", "ended", 0)

\* A restart loses the handlers in progress; a save that had read is lost with them.
ServerHalts ==
    /\ halts < MaxHalts
    /\ halts' = halts + 1
    /\ run' = [r \in Runs |-> IF AtWork(r) THEN [run[r] EXCEPT !.at = "ended"] ELSE run[r]]
    /\ save' = [s \in Settings |-> IF save[s].at = "read" THEN [save[s] EXCEPT !.at = "ended"]
                                   ELSE save[s]]
    /\ UNCHANGED <<espn, newest, fetched, met>>

-----------------------------------------------------------------------------
\* A connection that was saved and never synchronized, or whose sync has failed.
RunsInit ==
    /\ espn \in {[settings |-> 0, status |-> status] : status \in {"pending", "error"}}
    /\ newest = -1
    /\ save = [s \in Settings |-> [at |-> "new", loaded |-> "pending"]]
    /\ run = [r \in Runs |-> [at |-> "new", settings |-> 0, loaded |-> "pending", left |-> 0]]
    /\ fetched = {} /\ met = {} /\ halts = 0

RunsNext ==
    \/ \E s \in Settings : SaveReads(s) \/ SaveCommits(s)
    \/ \E r \in Runs :
          \/ RunReads(r) \/ Fetches(r) \/ SnapshotCommits(r) \/ AnalysisFlushes(r)
          \/ Notifies(r) \/ RunEnds(r) \/ RunFails(r)
    \/ ServerHalts

RunsSpec == RunsInit /\ [][RunsNext]_runVars

-----------------------------------------------------------------------------
\* A connection that counts as connected has been fetched with the settings it has now, and
\* the snapshot the dashboard shows with it is of these settings: unless they were saved
\* while a sync or a scheduled run was at work, which may then write its own answer over them.
LocalConnectedIsProven ==
    espn.status = "connected" /\ espn.settings \notin met =>
        espn.settings \in fetched /\ newest = espn.settings
=============================================================================
