--------------------------- MODULE ConnectionSync ---------------------------
(***************************************************************************)
(* ESPN connections of the control plane: saving one (PUT connections/     *)
(* espn), asking for a sync or an analysis of it, the keys that make jobs  *)
(* idempotent, and what a claimed, completed or failed job does with the   *)
(* row (cloudpod/pb_hooks).                                                *)
(*                                                                         *)
(* The PUT handler reads the row, saves it and enqueues a job in three     *)
(* steps with no transaction around them.  A save writes the columns that  *)
(* differ from the copy that was read: the settings always do (the cookies *)
(* are encrypted with a fresh nonce), status only if it was not "pending"  *)
(* in the copy.  Every save makes a new version of the settings.           *)
(*                                                                         *)
(* Leases, retries by the cron and the single steps of a failure are the   *)
(* subject of JobQueue; here a job is claimed, and completes or fails, in  *)
(* one step each, and no attempt overlaps another.                         *)
(***************************************************************************)
EXTENDS Naturals, FiniteSets

CONSTANTS
    Connections,    \* rows: one per league and season of the workspace
    Saves,          \* PUT calls of a connection
    Routes,         \* routes with a key per minute: "sync" and one per analysis kind
    Instants,       \* minutes since the epoch
    HourOf(_),      \* hour of a minute
    SyncAttempts    \* max_attempts of a job

ASSUME ConnectionSyncAssumption ==
    /\ "save" \notin Routes
    /\ Instants \subseteq Nat
    /\ 0 \in Instants
    /\ \A m \in Instants : HourOf(m) \in Nat
    /\ SyncAttempts \in Nat \ {0}

Calls   == Connections \X Saves
Hours   == {HourOf(m) : m \in Instants}
Keys    == Connections \X ((Routes \X Instants) \cup ({"save"} \X Hours))
Rows    == [status : {"absent", "pending", "connected", "error", "expired"},
            version : Nat]
JobRows == [status : {"absent", "queued", "running", "succeeded", "dead-letter"},
            attempts : Nat, read : Nat]
PutState == [stage : {"none", "read", "saved", "answered", "over"},
             copy : {"none", "absent", "pending", "connected", "error", "expired"},
             version : Nat,
             found : {"none", "absent", "queued", "running", "succeeded", "dead-letter"},
             hour : Hours \cup {0}]
NoRow   == [status |-> "absent", version |-> 0]
NoJob   == [status |-> "absent", attempts |-> 0, read |-> 0]
NoPut   == [stage |-> "none", copy |-> "none", version |-> 0, found |-> "none", hour |-> 0]

VARIABLES
    clock,     \* the current minute
    row,       \* espn_connections
    job,       \* job_runs, by idempotency key
    put,       \* PUT handlers and what they hold between their steps
    proven,    \* history: version read by the last job that succeeded
    overtaken  \* history: connections whose last save met a job at work on them

syncVars == <<clock, row, job, put, proven, overtaken>>

-----------------------------------------------------------------------------
KeyRow(k) == k[1]
Running(c) == {k \in Keys : KeyRow(k) = c /\ job[k].status = "running"}
Done(k)    == job[k].status \in {"succeeded", "dead-letter"}

SyncInit ==
    /\ clock = 0
    /\ row = [c \in Connections |-> NoRow]
    /\ job = [k \in Keys |-> NoJob]
    /\ put = [p \in Calls |-> NoPut]
    /\ proven = [c \in Connections |-> 0]
    /\ overtaken = {}

MinutePasses ==
    /\ clock + 1 \in Instants
    /\ clock' = clock + 1
    /\ UNCHANGED <<row, job, put, proven, overtaken>>

\* enqueueJob: a row with the key, whatever its status, is returned as it is.  The unique
\* index keeps two calls that both find none from inserting two.
EnqueueKey(k) ==
    job' = IF job[k].status # "absent" THEN job
           ELSE [job EXCEPT ![k].status = "queued"]

-----------------------------------------------------------------------------
(* PUT workspaces/{id}/connections/espn. *)

PutReads(p) ==
    /\ put[p].stage = "none"
    /\ put' = [put EXCEPT ![p] = [@ EXCEPT !.stage = "read", !.copy = row[p[1]].status]]
    /\ UNCHANGED <<clock, row, job, proven, overtaken>>

\* Mutants: the status of a job, which the schema does not allow here, is written; the
\* status of the copy is kept.
SavedStatusQueued(p) == IF put[p].copy = "pending" THEN row[p[1]].status ELSE "queued"
SavedStatusKept(p) == IF put[p].copy = "absent" THEN "pending" ELSE row[p[1]].status

SavedStatus(p) == IF put[p].copy = "pending" THEN row[p[1]].status ELSE "pending"

\* A save that would insert a second row for the league is refused by the unique index.
PutSaves(p) ==
    LET c == p[1]
        v == row[c].version + 1 IN
    /\ put[p].stage = "read"
    /\ put[p].copy = "absent" => row[c].status = "absent"
    /\ row' = [row EXCEPT ![c] = [status |-> SavedStatus(p), version |-> v]]
    /\ put' = [put EXCEPT ![p] = [@ EXCEPT !.stage = "saved", !.version = v]]
    /\ overtaken' = IF Running(c) # {} \/ (put[p].copy = "pending" /\ row[c].status # "pending")
                    THEN overtaken \cup {c} ELSE overtaken \ {c}
    /\ UNCHANGED <<clock, job, proven>>

\* The job's key names the connection and the current hour.
PutEnqueues(p) ==
    LET h == HourOf(clock)
        k == <<p[1], <<"save", h>>>> IN
    /\ put[p].stage = "saved"
    /\ EnqueueKey(k)
    /\ put' = [put EXCEPT ![p] = [@ EXCEPT !.stage = "answered", !.found = job[k].status,
                                           !.hour = h]]
    /\ UNCHANGED <<clock, row, proven, overtaken>>

\* The call is refused, or CloudPod stops between two of its steps.
PutEnds(p) ==
    /\ put[p].stage \in {"read", "saved"}
    /\ put' = [put EXCEPT ![p].stage = "over"]
    /\ UNCHANGED <<clock, row, job, proven, overtaken>>

-----------------------------------------------------------------------------
\* POST connections/{id}/sync; POST workspaces/{id}/analysis for the connection it names,
\* or for the only one of the workspace.  The answer is "queued" whatever was found.
RequestSync(c, r) ==
    /\ row[c].status # "absent"
    /\ EnqueueKey(<<c, <<r, clock>>>>)
    /\ UNCHANGED <<clock, row, put, proven, overtaken>>

\* Mutant: the settings of the first claim are kept for the retries.
ReadOnce(k) == IF job[k].attempts = 0 THEN row[KeyRow(k)].version ELSE job[k].read

\* claim reads the connection, with its credentials, at every attempt.
ReadAtClaim(k) == row[KeyRow(k)].version

SyncClaimed(k) ==
    /\ job[k].status = "queued"
    /\ job[k].attempts < SyncAttempts
    /\ job' = [job EXCEPT ![k] = [status |-> "running", attempts |-> @.attempts + 1,
                                  read |-> ReadAtClaim(k)]]
    /\ UNCHANGED <<clock, row, put, proven, overtaken>>

\* complete: whichever settings the job was run with, the connection is connected.
SyncCompletes(k) ==
    LET c == KeyRow(k) IN
    /\ job[k].status = "running"
    /\ job' = [job EXCEPT ![k].status = "succeeded"]
    /\ row' = [row EXCEPT ![c].status = "connected"]
    /\ proven' = [proven EXCEPT ![c] = job[k].read]
    /\ UNCHANGED <<clock, put, overtaken>>

\* fail: another attempt if the worker allows one and there is one left.
SyncFails(k, retryable) ==
    LET again == retryable /\ job[k].attempts < SyncAttempts IN
    /\ job[k].status = "running"
    /\ job' = [job EXCEPT ![k].status = IF again THEN "queued" ELSE "dead-letter"]
    /\ row' = [row EXCEPT ![KeyRow(k)].status = IF again THEN "error" ELSE "expired"]
    /\ UNCHANGED <<clock, put, proven, overtaken>>

PutStep(p) == PutReads(p) \/ PutSaves(p) \/ PutEnqueues(p) \/ PutEnds(p)
JobStep(k) == SyncClaimed(k) \/ SyncCompletes(k) \/ \E retryable \in BOOLEAN : SyncFails(k, retryable)

SyncNext ==
    \/ MinutePasses
    \/ \E p \in Calls : PutStep(p)
    \/ \E c \in Connections, r \in Routes : RequestSync(c, r)
    \/ \E k \in Keys : JobStep(k)

\* Workers poll for ever and every attempt ends, by its own end or by the end of its lease
\* (JobQueue): whichever job that is, there are so many attempts and no more.  Nothing makes a
\* user save, ask or wait.
SyncFairness == WF_syncVars(\E k \in Keys : JobStep(k))

SyncSpec == SyncInit /\ [][SyncNext]_syncVars /\ SyncFairness

-----------------------------------------------------------------------------
SyncTypeOK ==
    /\ clock \in Instants
    /\ row \in [Connections -> Rows]
    /\ job \in [Keys -> JobRows]
    /\ put \in [Calls -> PutState]
    /\ proven \in [Connections -> Nat]
    /\ overtaken \subseteq Connections

\* A connection is shown as connected with settings no job has tried only if its last save
\* met a job at work: a claim before the save whose completion came after it, or between
\* the read and the save of the handler.
ConnectedIsProven ==
    \A c \in Connections :
        row[c].status = "connected" /\ c \notin overtaken => proven[c] = row[c].version

\* A save whose job was still to be claimed when the handler answered gets its settings,
\* or later ones, tried: the job settles, and its last attempt read at least that version.
SavedIsTried ==
    \A p \in Calls :
        (put[p].stage = "answered" /\ put[p].found \in {"absent", "queued"})
            ~> LET k == <<p[1], <<"save", put[p].hour>>>> IN
               Done(k) /\ job[k].read >= put[p].version
=============================================================================
