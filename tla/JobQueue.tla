------------------------------ MODULE JobQueue ------------------------------
(***************************************************************************)
(* The durable job queue of the CloudPod control plane and the workers     *)
(* that drain it: the job_runs table, the claim / complete / fail routes,  *)
(* the cron that requeues expired leases (cloudpod/pb_hooks) and the poll  *)
(* loop of app/cloud_worker.py.                                            *)
(*                                                                         *)
(* The routes run concurrently.  Claim does all its work in one            *)
(* transaction.  Complete reads and validates the job BEFORE it opens its  *)
(* transaction; fail and the cron open none, so each of their saves is a   *)
(* step of its own.  A save of a record that was read earlier writes only  *)
(* the columns whose value differs from the copy that was read (that is    *)
(* how PocketBase saves), so attempts is never written by a stale copy.    *)
(*                                                                         *)
(* A lease <<j, n>> is the n-th claim of job j; n, the attempts it counts,  *)
(* stands for the claim's fresh 48-character token.  Snapshots, recommendations and   *)
(* the report written by one completion are one batch, named by its lease. *)
(***************************************************************************)
EXTENDS Naturals, FiniteSets

CONSTANTS
    Requests,         \* sync and analysis jobs, one per idempotency key
    Channels,         \* notification channels of the workspace
    Workers,          \* worker processes
    Notify,           \* the requests whose payload says notify
    Sweeps,           \* the requests of kind inactive-sweep
    RequestPriority,  \* priority column of each request
    Finished,         \* the requests that have finished before the model starts
    MaxAttempts,      \* max_attempts column
    FailureLimit,     \* failures after which a channel is switched off
    MaxClaims,        \* bound: claims of one job
    MaxRestarts       \* bound: restarts of the CloudPod process

Deliveries == Notify \X Channels     \* key "notification:" + job + ":" + channel
Jobs       == Requests \cup Deliveries
Leases     == Jobs \X (1..MaxClaims)
NoLease    == <<>>

ASSUME JobQueueAssumption ==
    /\ Requests \cap Deliveries = {}
    /\ Notify \subseteq Requests
    /\ Sweeps \subseteq Requests
    /\ Finished \subseteq Notify
    /\ RequestPriority \in [Requests -> Nat]
    /\ MaxAttempts \in Nat \ {0}
    /\ FailureLimit \in Nat \ {0}
    /\ MaxClaims \in Nat \ {0}
    /\ MaxRestarts \in Nat

JobStatus        == {"absent", "queued", "running", "succeeded", "dead-letter", "cancelled"}
Settled          == {"succeeded", "dead-letter", "cancelled"}
ConnectionStatus == {"pending", "connected", "error", "expired"}
ChannelRow       == [active : BOOLEAN, failures : Nat]
CompleteStage    == {"none", "sent", "read", "committed"}
FailStage        == {"none", "sent", "read", "saved", "owner"}
OwnerCopy        == [status : ConnectionStatus \cup {"none"}, active : BOOLEAN, failures : Nat]
NoCopy           == [status |-> "none", active |-> FALSE, failures |-> 0]
Verdict          == {"none", "retry", "bury"}
WorkerState      == [pc : {"idle", "working", "completing", "failing"},
                     lease : Leases \cup {NoLease}]
Idle             == [pc |-> "idle", lease |-> NoLease]

VARIABLES
    \* job_runs
    status,      \* status column; "absent" before the row is inserted
    attempts,    \* attempts column
    lease,       \* lease_token_hash column: number of the claim, 0 when empty
    expired,     \* jobs whose lease_expires_at lies in the past
    due,         \* jobs whose scheduled_for has been reached
    \* the other rows the handlers write
    connection,  \* status column of the ESPN connection of the requests
    channel,     \* notification_channels rows
    results,     \* leases whose completion wrote snapshot, recommendations, report
    usage,       \* jobs with a usage_events row
    \* handlers in progress in CloudPod
    completion,  \* stage of the complete call in progress for each lease
    failure,     \* stage of the fail call in progress for each lease
    verdict,     \* what that fail call asks for, then what it decided
    copy,        \* what the fail call read of the job's connection or channel
    batch,       \* verdicts of the running cron for the jobs it has read
    \* the rest of the world
    worker,      \* state of each worker process
    delivered,   \* notification jobs whose message has reached the chat service
    refused,     \* jobs a worker has reported a permanent failure for
    restarts     \* restarts of CloudPod so far

jobVars     == <<status, attempts, lease, expired, due>>
rowVars     == <<connection, channel, results, usage>>
handlerVars == <<completion, failure, verdict, copy, batch>>
worldVars   == <<worker, delivered, refused, restarts>>
vars        == <<jobVars, rowVars, handlerVars, worldVars>>

-----------------------------------------------------------------------------
JobOf(l)        == l[1]
Request(d)      == d[1]
ChannelOf(d)    == d[2]
Deliverable(j)  == channel[ChannelOf(j)].active
\* validateLease: the job runs and the token is that of its current claim.
ValidLease(l)   == status[JobOf(l)] = "running" /\ lease[JobOf(l)] = l[2]

Priority(j) ==
    IF j \in Requests THEN RequestPriority[j]
    ELSE IF Request(j) \in Sweeps THEN 100 ELSE 60

Ready == {j \in Jobs : status[j] = "queued" /\ j \in due}
Head  == {j \in Ready : \A k \in Ready : Priority(k) <= Priority(j)}

\* The queue starts with the finished requests, each at its first attempt and
\* with its notifications waiting; nothing else has happened yet.
Waiting == {d \in Deliveries : Request(d) \in Finished}

Init ==
    /\ status     = [j \in Jobs |-> IF j \in Finished THEN "succeeded"
                                    ELSE IF j \in Waiting THEN "queued" ELSE "absent"]
    /\ attempts   = [j \in Jobs |-> IF j \in Finished THEN 1 ELSE 0]
    /\ lease      = [j \in Jobs |-> 0]
    /\ expired    = {}
    /\ due        = Waiting
    /\ connection = IF Finished = {} THEN "pending" ELSE "connected"
    /\ channel    = [c \in Channels |-> [active |-> TRUE, failures |-> 0]]
    /\ results    = Finished \X {1}
    /\ usage      = Finished
    /\ completion = [l \in Leases |-> "none"]
    /\ failure    = [l \in Leases |-> "none"]
    /\ verdict    = [l \in Leases |-> "none"]
    /\ copy       = [l \in Leases |-> NoCopy]
    /\ batch      = [j \in Jobs |-> "none"]
    /\ worker     = [w \in Workers |-> Idle]
    /\ delivered  = {}
    /\ refused    = {}
    /\ restarts   = 0

-----------------------------------------------------------------------------
(* Users and the passage of time. *)

\* enqueueJob for a user request or a sweep cron: the idempotency key finds an
\* existing row, which is returned unchanged, so only the first call inserts.
EnqueueJob(r) ==
    /\ status[r] = "absent"
    /\ status' = [status EXCEPT ![r] = "queued"]
    /\ due' = due \cup {r}
    /\ UNCHANGED <<attempts, lease, expired, rowVars, handlerVars, worldVars>>

\* POST notifications/{id}/disable.
DisableChannel(c) ==
    /\ channel[c].active
    /\ channel' = [channel EXCEPT ![c].active = FALSE]
    /\ UNCHANGED <<connection, results, usage, jobVars, handlerVars, worldVars>>

\* Five minutes pass: complete and fail do not look at lease_expires_at, only
\* the cron does.
LeaseExpires(j) ==
    /\ status[j] = "running"
    /\ j \notin expired
    /\ expired' = expired \cup {j}
    /\ UNCHANGED <<status, attempts, lease, due, rowVars, handlerVars, worldVars>>

\* The backoff of a retried job runs out.
BackoffElapses(j) ==
    /\ status[j] = "queued"
    /\ j \notin due
    /\ due' = due \cup {j}
    /\ UNCHANGED <<status, attempts, lease, expired, rowVars, handlerVars, worldVars>>

-----------------------------------------------------------------------------
(* POST internal/jobs/claim, one transaction. *)

CountClaim(j) ==
    /\ attempts[j] < MaxClaims
    /\ attempts' = [attempts EXCEPT ![j] = @ + 1]

\* The job goes to the worker, or the answer is lost and the worker dies of the
\* exception and is restarted: the job then runs with nobody working on it.
ClaimJob(w, j) ==
    /\ worker[w].pc = "idle"
    /\ j \in Head
    /\ j \in Deliveries => Deliverable(j)
    /\ CountClaim(j)
    /\ status' = [status EXCEPT ![j] = "running"]
    /\ lease' = [lease EXCEPT ![j] = attempts'[j]]
    /\ expired' = expired \ {j}
    /\ \/ worker' = [worker EXCEPT ![w] = [pc |-> "working", lease |-> <<j, attempts'[j]>>]]
       \/ UNCHANGED worker
    /\ UNCHANGED <<due, delivered, refused, restarts, rowVars, handlerVars>>

\* A notification whose channel was switched off is cancelled, and the worker
\* is told that there is no job.
ClaimCancels(w, j) ==
    /\ worker[w].pc = "idle"
    /\ j \in Head \cap Deliveries
    /\ ~Deliverable(j)
    /\ CountClaim(j)
    /\ status' = [status EXCEPT ![j] = "cancelled"]
    /\ lease' = [lease EXCEPT ![j] = 0]
    /\ UNCHANGED <<expired, due, rowVars, handlerVars, worldVars>>

-----------------------------------------------------------------------------
(* The worker's loop. *)

\* The job's result is ready: complete is called.  A delivery job has posted
\* its message just before.
SendComplete(w) ==
    LET l == worker[w].lease IN
    /\ worker[w].pc = "working"
    /\ worker' = [worker EXCEPT ![w].pc = "completing"]
    /\ completion' = [completion EXCEPT ![l] = "sent"]
    /\ delivered' = delivered \cup ({JobOf(l)} \cap Deliveries)
    /\ UNCHANGED <<refused, restarts, jobVars, rowVars, failure, verdict, copy, batch>>

\* Any exception makes the worker call fail: the job's own (possibly permanent)
\* error, or complete timing out, being refused or losing its answer while its
\* handler may still be running.  A failed delivery may have reached the chat.
SendFail(w, permanent) ==
    LET l == worker[w].lease IN
    /\ \/ worker[w].pc = "working" /\ (permanent => JobOf(l) \in Requests)
       \/ worker[w].pc = "completing" /\ ~permanent
    /\ worker' = [worker EXCEPT ![w].pc = "failing"]
    /\ failure' = [failure EXCEPT ![l] = "sent"]
    /\ verdict' = [verdict EXCEPT ![l] = IF permanent THEN "bury" ELSE "retry"]
    /\ refused' = IF permanent THEN refused \cup {JobOf(l)} ELSE refused
    /\ \/ /\ worker[w].pc = "working" /\ JobOf(l) \in Deliveries /\ ~permanent
          /\ delivered' = delivered \cup {JobOf(l)}
       \/ UNCHANGED delivered
    /\ UNCHANGED <<restarts, jobVars, rowVars, completion, copy, batch>>

\* fail returned, or it raised and the process died; either way the loop starts
\* over.  Or the process is killed while it holds a job.
WorkerStartsOver(w) ==
    /\ worker[w].pc # "idle"
    /\ worker' = [worker EXCEPT ![w] = Idle]
    /\ UNCHANGED <<delivered, refused, restarts, jobVars, rowVars, handlerVars>>

-----------------------------------------------------------------------------
(* POST internal/jobs/{id}/complete. *)

\* The job is read and the lease validated, outside any transaction.
CompleteReads(l) ==
    /\ completion[l] = "sent"
    /\ completion' = [completion EXCEPT ![l] = IF ValidLease(l) THEN "read" ELSE "none"]
    /\ UNCHANGED <<failure, verdict, copy, batch, jobVars, rowVars, worldVars>>

\* The channels a committed request must notify: every active one, if the
\* request asks for it and its result has a message.
Notified(j, message) ==
    IF message /\ j \in Notify
    THEN {d \in Deliveries : Request(d) = j /\ channel[ChannelOf(d)].active}
    ELSE {}

\* The transaction.  It does not read the job again: it saves the copy.
CompleteCommits(l, message) ==
    LET j == JobOf(l)
        new == {d \in Notified(j, message) : status[d] = "absent"} IN
    /\ completion[l] = "read"
    /\ completion' = [completion EXCEPT ![l] = "committed"]
    /\ results' = results \cup {l}
    /\ status' = [k \in Jobs |-> IF k = j THEN "succeeded"
                                 ELSE IF k \in new THEN "queued" ELSE status[k]]
    /\ due' = due \cup new
    /\ lease' = [lease EXCEPT ![j] = 0]
    /\ expired' = expired \ {j}
    /\ IF j \in Requests
       THEN connection' = "connected" /\ UNCHANGED channel
       ELSE /\ channel' = [channel EXCEPT ![ChannelOf(j)].failures = 0]
            /\ UNCHANGED connection
    /\ UNCHANGED <<attempts, usage, failure, verdict, copy, batch, worldVars>>

\* Mutant: without a transaction, the job is saved before its results fail to be.
CompleteHalfDone(l) ==
    /\ completion[l] = "read"
    /\ completion' = [completion EXCEPT ![l] = "none"]
    /\ status' = [status EXCEPT ![JobOf(l)] = "succeeded"]
    /\ lease' = [lease EXCEPT ![JobOf(l)] = 0]
    /\ UNCHANGED <<attempts, expired, due, failure, verdict, copy, batch, rowVars, worldVars>>

\* The transaction throws and is rolled back.
CompleteRollsBack(l) ==
    /\ completion[l] = "read"
    /\ completion' = [completion EXCEPT ![l] = "none"]
    /\ UNCHANGED <<failure, verdict, copy, batch, jobVars, rowVars, worldVars>>

\* The usage event, after the transaction and idempotent; then the answer, which
\* frees the worker if it still waits and the answer reaches it.
CompleteRecordsUsage(l) ==
    /\ completion[l] = "committed"
    /\ completion' = [completion EXCEPT ![l] = "none"]
    /\ usage' = usage \cup {JobOf(l)}
    /\ \/ \E w \in Workers :
            /\ worker[w] = [pc |-> "completing", lease |-> l]
            /\ worker' = [worker EXCEPT ![w] = Idle]
       \/ UNCHANGED worker
    /\ UNCHANGED <<connection, channel, results, failure, verdict, copy, batch,
                   delivered, refused, restarts, jobVars>>

-----------------------------------------------------------------------------
(* POST internal/jobs/{id}/fail. *)

\* Mutants: the limit is not checked; it is one too low.
RetryAlways(wanted, n)  == IF wanted = "retry" THEN "retry" ELSE "bury"
RetryOneLess(wanted, n) == IF wanted = "retry" /\ n + 1 < MaxAttempts THEN "retry" ELSE "bury"

RetryOrBury(wanted, n) == IF wanted = "retry" /\ n < MaxAttempts THEN "retry" ELSE "bury"

\* Mutant: the lease is not cleared.
SaveKeepsLease(j, v, delayed) ==
    /\ status' = [status EXCEPT ![j] = IF v = "retry" THEN "queued" ELSE "dead-letter"]
    /\ expired' = expired \ {j}
    /\ due' = IF v = "bury" THEN due ELSE IF delayed THEN due \ {j} ELSE due \cup {j}
    /\ UNCHANGED <<attempts, lease>>

\* What a save of a failed job writes, by the handler or by the cron.
SaveFailed(j, v, delayed) ==
    /\ status' = [status EXCEPT ![j] = IF v = "retry" THEN "queued" ELSE "dead-letter"]
    /\ lease' = [lease EXCEPT ![j] = 0]
    /\ expired' = expired \ {j}
    /\ due' = IF v = "bury" THEN due ELSE IF delayed THEN due \ {j} ELSE due \cup {j}
    /\ UNCHANGED attempts

\* The call is over and its local variables are gone.
FailEnds(l) ==
    /\ failure' = [failure EXCEPT ![l] = "none"]
    /\ verdict' = [verdict EXCEPT ![l] = "none"]
    /\ copy' = [copy EXCEPT ![l] = NoCopy]

\* The job is read, the lease validated, and the verdict reached on the copy.
FailReads(l) ==
    /\ failure[l] = "sent"
    /\ IF ValidLease(l)
       THEN /\ failure' = [failure EXCEPT ![l] = "read"]
            /\ verdict' = [verdict EXCEPT ![l] = RetryOrBury(@, attempts[JobOf(l)])]
            /\ UNCHANGED copy
       ELSE FailEnds(l)
    /\ UNCHANGED <<completion, batch, jobVars, rowVars, worldVars>>

FailSavesJob(l) ==
    /\ failure[l] = "read"
    /\ failure' = [failure EXCEPT ![l] = "saved"]
    /\ SaveFailed(JobOf(l), verdict[l], TRUE)
    /\ UNCHANGED <<completion, verdict, copy, batch, rowVars, worldVars>>

\* The connection of a request, or the channel of a delivery, is read ...
FailReadsOwner(l) ==
    /\ failure[l] = "saved"
    /\ failure' = [failure EXCEPT ![l] = "owner"]
    /\ copy' = [copy EXCEPT ![l] =
                    IF JobOf(l) \in Requests THEN [@ EXCEPT !.status = connection]
                    ELSE [@ EXCEPT !.active = channel[ChannelOf(JobOf(l))].active,
                                   !.failures = channel[ChannelOf(JobOf(l))].failures]]
    /\ UNCHANGED <<completion, verdict, batch, jobVars, rowVars, worldVars>>

\* ... and saved: a status equal to the one that was read is not written.
FailSavesConnection(l) ==
    LET new == IF verdict[l] = "retry" THEN "error" ELSE "expired" IN
    /\ failure[l] = "owner"
    /\ JobOf(l) \in Requests
    /\ FailEnds(l)
    /\ connection' = IF new # copy[l].status THEN new ELSE connection
    /\ UNCHANGED <<channel, results, usage, completion, batch, jobVars, worldVars>>

\* Mutant: the whole copy is saved.
SavedWholeCopy(row, l) ==
    LET n   == copy[l].failures + 1
        off == verdict[l] = "bury" \/ n >= FailureLimit IN
    [active |-> copy[l].active /\ ~off, failures |-> n]

\* The row after the save of a channel: the count of the copy plus one, and is_active
\* cleared by a permanent failure or at the limit, if the copy had it set.
SavedChannel(row, l) ==
    LET n   == copy[l].failures + 1
        off == verdict[l] = "bury" \/ n >= FailureLimit IN
    [active |-> row.active /\ ~(copy[l].active /\ off), failures |-> n]

FailSavesChannel(l) ==
    /\ failure[l] = "owner"
    /\ JobOf(l) \in Deliveries
    /\ FailEnds(l)
    /\ channel' = [channel EXCEPT ![ChannelOf(JobOf(l))] = SavedChannel(@, l)]
    /\ UNCHANGED <<connection, results, usage, completion, batch, jobVars, worldVars>>

-----------------------------------------------------------------------------
(* The cron "leaguepilot-requeue-expired-leases". *)

\* The running jobs with an expired lease are read, all at once.
\* Mutant: only the jobs that may be retried are found.
OverdueRetryable == {j \in Jobs : status[j] = "running" /\ j \in expired
                                  /\ attempts[j] < MaxAttempts}
Overdue == {j \in Jobs : status[j] = "running" /\ j \in expired}

RequeueReads ==
    /\ \A j \in Jobs : batch[j] = "none"
    /\ Overdue # {}
    /\ batch' = [j \in Jobs |-> IF j \in Overdue THEN RetryOrBury("retry", attempts[j])
                                ELSE "none"]
    /\ UNCHANGED <<completion, failure, verdict, copy, jobVars, rowVars, worldVars>>

\* Each is saved in turn, from the copy, whatever has happened to it since.
RequeueSaves(j) ==
    /\ batch[j] # "none"
    /\ batch' = [batch EXCEPT ![j] = "none"]
    /\ SaveFailed(j, batch[j], FALSE)
    /\ UNCHANGED <<completion, failure, verdict, copy, rowVars, worldVars>>

\* CloudPod restarts: every call in progress and the cron's batch are gone.
ServerRestarts ==
    /\ restarts < MaxRestarts
    /\ restarts' = restarts + 1
    /\ completion' = [l \in Leases |-> "none"]
    /\ failure' = [l \in Leases |-> "none"]
    /\ verdict' = [l \in Leases |-> "none"]
    /\ copy' = [l \in Leases |-> NoCopy]
    /\ batch' = [j \in Jobs |-> "none"]
    /\ UNCHANGED <<worker, delivered, refused, jobVars, rowVars>>

-----------------------------------------------------------------------------
\* The next step of a call in progress.
CompleteStep(l) ==
    \/ CompleteReads(l)
    \/ \E message \in BOOLEAN : CompleteCommits(l, message)
    \/ CompleteRollsBack(l)
    \/ CompleteRecordsUsage(l)

FailStep(l) ==
    \/ FailReads(l)
    \/ FailSavesJob(l)
    \/ FailReadsOwner(l)
    \/ FailSavesConnection(l)
    \/ FailSavesChannel(l)

Next ==
    \/ \E r \in Requests : EnqueueJob(r)
    \/ \E c \in Channels : DisableChannel(c)
    \/ \E j \in Jobs : LeaseExpires(j)
    \/ \E j \in Jobs : BackoffElapses(j)
    \/ \E w \in Workers, j \in Jobs : ClaimJob(w, j)
    \/ \E w \in Workers, j \in Jobs : ClaimCancels(w, j)
    \/ \E w \in Workers : SendComplete(w)
    \/ \E w \in Workers, permanent \in BOOLEAN : SendFail(w, permanent)
    \/ \E w \in Workers : WorkerStartsOver(w)
    \/ \E l \in Leases : CompleteStep(l)
    \/ \E l \in Leases : FailStep(l)
    \/ RequeueReads
    \/ \E j \in Jobs : RequeueSaves(j)
    \/ ServerRestarts

Spec == Init /\ [][Next]_vars

(* Fairness: as long as the worker, which its container restarts, a call in  *)
(* progress, the cron or the clock can go on, one of them does.  Users owe    *)
(* nothing, and no crash is owed.                                             *)
Machinery ==
    \/ \E j \in Jobs : LeaseExpires(j) \/ BackoffElapses(j)
    \/ \E w \in Workers :
        \/ \E j \in Jobs : ClaimJob(w, j) \/ ClaimCancels(w, j)
        \/ SendComplete(w)
        \/ \E permanent \in BOOLEAN : SendFail(w, permanent)
        \/ WorkerStartsOver(w)
    \/ \E l \in Leases : CompleteStep(l) \/ FailStep(l)
    \/ RequeueReads
    \/ \E j \in Jobs : RequeueSaves(j)

Fairness == WF_vars(Machinery)

FairSpec == Spec /\ Fairness

\* The calls and cron entries that have read job j and have yet to save it.
Writers(j) ==
    {<<"complete", l>> : l \in {x \in Leases : JobOf(x) = j /\ completion[x] = "read"}}
    \cup {<<"fail", l>> : l \in {x \in Leases : JobOf(x) = j /\ failure[x] = "read"}}
    \cup IF batch[j] = "none" THEN {} ELSE {<<"cron", j>>}

\* No two of them overlap, which is what the documentation takes for granted.
SerialWriters == \A j \in Jobs : \A x, y \in Writers(j) : x = y

SerialSpec == Init /\ [][Next /\ SerialWriters']_vars

-----------------------------------------------------------------------------
TypeOK ==
    /\ status \in [Jobs -> JobStatus]
    /\ attempts \in [Jobs -> 0..MaxClaims]
    /\ lease \in [Jobs -> 0..MaxClaims]
    /\ expired \subseteq Jobs
    /\ due \subseteq Jobs
    /\ connection \in ConnectionStatus
    /\ channel \in [Channels -> ChannelRow]
    /\ results \subseteq Leases
    /\ usage \subseteq Jobs
    /\ completion \in [Leases -> CompleteStage]
    /\ failure \in [Leases -> FailStage]
    /\ verdict \in [Leases -> Verdict]
    /\ copy \in [Leases -> OwnerCopy]
    /\ batch \in [Jobs -> Verdict]
    /\ worker \in [Workers -> WorkerState]
    /\ \A w \in Workers : worker[w].pc # "idle" => worker[w].lease \in Leases
    /\ delivered \subseteq Deliveries
    /\ refused \subseteq Jobs
    /\ restarts \in 0..MaxRestarts

\* A job holds a lease exactly while it runs, and only the token of its latest
\* claim can ever be valid again (claim, complete, fail and cron all write both
\* columns, from copies of any age).
OnlyLatestLease ==
    \A j \in Jobs : /\ lease[j] \in {0, attempts[j]}
                    /\ status[j] = "running" <=> lease[j] # 0

\* However retries, expiries and late saves interleave, a job is claimed fewer
\* than twice max_attempts times: the claim route has no limit of its own.
AttemptsBounded == \A j \in Jobs : attempts[j] < 2 * MaxAttempts

\* A job is given up only when its attempts are exhausted or its worker called
\* the failure permanent, although fail and the cron judge by an old copy.
DeadLetterEarned ==
    \A j \in Jobs : status[j] = "dead-letter" =>
        attempts[j] >= MaxAttempts \/ j \in refused

\* What a reader of the tables may conclude survives every interleaving and
\* crash: success has results behind it and, for a notification, a message
\* that reached the chat; usage and announcements have results behind them.
BackedByResults ==
    LET done == {JobOf(l) : l \in results} IN
    /\ \A j \in Jobs : status[j] = "succeeded" => j \in done
    /\ \A j \in Deliveries : j \in done => j \in delivered
    /\ \A d \in Deliveries : status[d] # "absent" => Request(d) \in done
    /\ usage \subseteq done

\* A channel that has reached the failure limit is off, even when several fail
\* calls count from the same copy of it.
FailingChannelIsOff ==
    \A c \in Channels : channel[c].failures >= FailureLimit => ~channel[c].active

\* A channel that was switched off, by its owner or by failures, never comes
\* back: no save of an older copy of it switches it on again.
ChannelStaysOff ==
    [][\A c \in Channels : ~channel[c].active => ~channel'[c].active]_vars

\* The result of a job is written at most once ("a stale worker cannot overwrite
\* a job another worker finished", docs/WORKER_DEPLOYMENT.md).
FinishedOnce == \A l, m \in results : JobOf(l) = JobOf(m) => l = m

\* Every job that is queued reaches an end and stays there, in spite of crashes,
\* lost answers, restarts and late saves that revive finished jobs.
EveryJobSettles ==
    \A j \in Jobs : <>[](status[j] \in Settled \cup {"absent"})

\* The promise of the documentation, as a specification.
Lifecycle == INSTANCE JobLifecycle
               WITH life <- status, claims <- attempts, outcomes <- results
LifecycleSpec == Lifecycle!Spec

=============================================================================
