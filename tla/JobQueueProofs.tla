--------------------------- MODULE JobQueueProofs ---------------------------
(***************************************************************************)
(* Theorems about JobQueue, for every number of jobs, workers and claims.  *)
(***************************************************************************)
EXTENDS JobQueue, FiniteSetTheorems, TLAPS

\* What a lease and a notification job are made of.
LEMMA LeaseParts ==
    ASSUME NEW l \in Leases
    PROVE  JobOf(l) \in Jobs /\ l[2] \in 1..MaxClaims /\ l[2] \in Nat
BY JobQueueAssumption DEF Leases, JobOf

LEMMA DeliveryParts ==
    ASSUME NEW j \in Jobs, j \notin Requests
    PROVE  j \in Deliveries /\ Request(j) \in Requests /\ ChannelOf(j) \in Channels
BY JobQueueAssumption DEF Jobs, Deliveries, Request, ChannelOf

\* Writing some columns of a row, or of a copy of one, leaves a row.
LEMMA RowUpdates ==
    ASSUME NEW row \in ChannelRow, NEW on \in BOOLEAN, NEW n \in Nat
    PROVE  /\ [row EXCEPT !.active = on] \in ChannelRow
           /\ [row EXCEPT !.failures = n] \in ChannelRow
           /\ row.active \in BOOLEAN /\ row.failures \in Nat
BY DEF ChannelRow

LEMMA NewRow ==
    ASSUME NEW on \in BOOLEAN, NEW n \in Nat
    PROVE  [active |-> on, failures |-> n] \in ChannelRow
BY DEF ChannelRow

LEMMA NewRows ==
    /\ [active |-> TRUE, failures |-> 0] \in ChannelRow
    /\ NoCopy \in OwnerCopy
    /\ Idle \in WorkerState /\ Idle.pc = "idle"
BY DEF ChannelRow, NoCopy, OwnerCopy, Idle, WorkerState

\* What the worker's moves leave of its record.
LEMMA WorkerUpdates ==
    ASSUME NEW old \in WorkerState, NEW l \in Leases,
           NEW pc \in {"working", "completing", "failing"}
    PROVE  /\ [old EXCEPT !.pc = pc] \in WorkerState
           /\ [old EXCEPT !.pc = pc].lease = old.lease
           /\ [pc |-> pc, lease |-> l] \in WorkerState
BY DEF WorkerState

LEMMA CopyUpdates ==
    ASSUME NEW old \in OwnerCopy, NEW s \in ConnectionStatus, NEW on \in BOOLEAN, NEW n \in Nat
    PROVE  /\ [old EXCEPT !.status = s] \in OwnerCopy
           /\ [old EXCEPT !.active = on, !.failures = n] \in OwnerCopy
           /\ old.active \in BOOLEAN /\ old.failures \in Nat
BY DEF OwnerCopy, ConnectionStatus

\* What a fail call saves to a channel is a row, on only if it was on already.
LEMMA SavedRow ==
    ASSUME NEW row, NEW l \in Leases, TypeOK
    PROVE  /\ SavedChannel(row, l) \in ChannelRow
           /\ SavedChannel(row, l).active => row.active
           /\ SavedChannel(row, l).failures >= FailureLimit /\ copy[l].active
                  => ~SavedChannel(row, l).active
<1> DEFINE n  == copy[l].failures + 1
           on == row.active /\ ~(copy[l].active /\ (verdict[l] = "bury" \/ n >= FailureLimit))
<1>1. copy[l] \in OwnerCopy /\ connection \in ConnectionStatus
  BY DEF TypeOK
<1>2. copy[l].failures \in Nat /\ copy[l].active \in BOOLEAN
  BY <1>1, CopyUpdates, Zenon
<1>3. SavedChannel(row, l) = [active |-> on, failures |-> n]
  BY DEF SavedChannel
<1>4. n \in Nat /\ on \in BOOLEAN
  BY <1>2
<1>5. SavedChannel(row, l).active = on /\ SavedChannel(row, l).failures = n
  BY <1>3
<1>6. SavedChannel(row, l) \in ChannelRow
  BY <1>3, <1>4, NewRow, Zenon
<1>7. on => row.active /\ ~(copy[l].active /\ n >= FailureLimit)
  OBVIOUS
<1> HIDE DEF on, n
<1>8. QED
  BY <1>5, <1>6, <1>7, Zenon

-----------------------------------------------------------------------------
\* Every action keeps every column, call and worker within its type.
LEMMA TypeStep == TypeOK /\ [Next]_vars => TypeOK'
<1> SUFFICES ASSUME TypeOK, [Next]_vars PROVE TypeOK'
  OBVIOUS
<1> USE JobQueueAssumption DEF JobStatus, Verdict, CompleteStage, FailStage,
        TypeOK, jobVars, rowVars, handlerVars, worldVars
<1>1. ASSUME NEW r \in Requests, EnqueueJob(r) PROVE TypeOK'
  <2>1. r \in Jobs
    BY DEF Jobs
  <2>2. QED
    BY <1>1, <2>1 DEF EnqueueJob
<1>2. ASSUME NEW c \in Channels, DisableChannel(c) PROVE TypeOK'
  <2>1. channel[c] \in ChannelRow
    OBVIOUS
  <2>a. [channel[c] EXCEPT !.active = FALSE] \in ChannelRow
    BY <2>1, RowUpdates, 0 \in Nat, Zenon
  <2>2. channel' \in [Channels -> ChannelRow]
    BY <1>2, <2>a DEF DisableChannel
  <2>3. QED
    BY <1>2, <2>2 DEF DisableChannel
<1>3. ASSUME NEW j \in Jobs, LeaseExpires(j) PROVE TypeOK'
  BY <1>3 DEF LeaseExpires
<1>4. ASSUME NEW j \in Jobs, BackoffElapses(j) PROVE TypeOK'
  BY <1>4 DEF BackoffElapses
<1>5. ASSUME NEW w \in Workers, NEW j \in Jobs, ClaimJob(w, j) PROVE TypeOK'
  <2>1. attempts' \in [Jobs -> 0..MaxClaims] /\ attempts'[j] \in 1..MaxClaims
    BY <1>5 DEF ClaimJob, CountClaim
  <2>2. <<j, attempts'[j]>> \in Leases
    BY <2>1 DEF Leases
  <2>3. QED
    <3>1. status' \in [Jobs -> JobStatus] /\ lease' \in [Jobs -> 0..MaxClaims]
      BY <1>5, <2>1 DEF ClaimJob
    <3>2. worker' \in [Workers -> WorkerState]
          /\ \A v \in Workers : worker'[v].pc # "idle" => worker'[v].lease \in Leases
      <4>1. CASE UNCHANGED worker
        BY <4>1
      <4>2. CASE worker' = [worker EXCEPT ![w] =
                               [pc |-> "working", lease |-> <<j, attempts'[j]>>]]
        <5>1. [pc |-> "working", lease |-> <<j, attempts'[j]>>] \in WorkerState
          BY <2>2, worker[w] \in WorkerState, WorkerUpdates
        <5>2. QED
          BY <2>2, <4>2, <5>1
      <4>3. QED
        BY <1>5, <4>1, <4>2 DEF ClaimJob
    <3>3. QED
      BY <1>5, <2>1, <3>1, <3>2 DEF ClaimJob
<1>6. ASSUME NEW w \in Workers, NEW j \in Jobs, ClaimCancels(w, j) PROVE TypeOK'
  <2>1. attempts' \in [Jobs -> 0..MaxClaims]
    BY <1>6 DEF ClaimCancels, CountClaim
  <2>2. QED
    <3>1. status' \in [Jobs -> JobStatus] /\ lease' \in [Jobs -> 0..MaxClaims]
      BY <1>6 DEF ClaimCancels
    <3>2. QED
      BY <1>6, <2>1, <3>1 DEF ClaimCancels
<1>7. ASSUME NEW w \in Workers, SendComplete(w) PROVE TypeOK'
  <2> DEFINE l == worker[w].lease
             new == [worker[w] EXCEPT !.pc = "completing"]
  <2>1. worker[w] \in WorkerState /\ l \in Leases
    BY <1>7 DEF SendComplete
  <2>2. new \in WorkerState /\ new.lease = l
    BY <2>1, WorkerUpdates, Zenon
  <2>3. worker' = [worker EXCEPT ![w] = new]
    BY <1>7 DEF SendComplete
  <2> HIDE DEF new
  <2>4. worker' \in [Workers -> WorkerState]
        /\ \A v \in Workers : worker'[v].pc # "idle" => worker'[v].lease \in Leases
    BY <2>1, <2>2, <2>3
  <2>5. QED
    BY <1>7, <2>1, <2>4 DEF SendComplete
<1>8. ASSUME NEW w \in Workers, NEW permanent \in BOOLEAN, SendFail(w, permanent)
      PROVE TypeOK'
  <2> DEFINE l == worker[w].lease
             new == [worker[w] EXCEPT !.pc = "failing"]
  <2>1. worker[w] \in WorkerState /\ l \in Leases
    BY <1>8 DEF SendFail
  <2>2. new \in WorkerState /\ new.lease = l
    BY <2>1, WorkerUpdates, Zenon
  <2>3. worker' = [worker EXCEPT ![w] = new]
    BY <1>8 DEF SendFail
  <2> HIDE DEF new
  <2>4. worker' \in [Workers -> WorkerState]
        /\ \A v \in Workers : worker'[v].pc # "idle" => worker'[v].lease \in Leases
    BY <2>1, <2>2, <2>3
  <2>5. QED
    BY <1>8, <2>1, <2>4, LeaseParts DEF SendFail
<1>9. ASSUME NEW w \in Workers, WorkerStartsOver(w) PROVE TypeOK'
  BY <1>9, NewRows DEF WorkerStartsOver
<1>10. ASSUME NEW l \in Leases, CompleteStep(l) PROVE TypeOK'
  <2>1. CASE CompleteReads(l)
    BY <2>1 DEF CompleteReads
  <2>2. ASSUME NEW message \in BOOLEAN, CompleteCommits(l, message) PROVE TypeOK'
    <3>1. channel' \in [Channels -> ChannelRow] /\ connection' \in ConnectionStatus
      <4>1. CASE JobOf(l) \in Requests
        BY <2>2, <4>1 DEF CompleteCommits, ConnectionStatus
      <4>2. CASE JobOf(l) \notin Requests
        <5>1. ChannelOf(JobOf(l)) \in Channels
          BY <4>2, LeaseParts, DeliveryParts
        <5>a. channel[ChannelOf(JobOf(l))] \in ChannelRow
          BY <5>1
        <5>2. [channel[ChannelOf(JobOf(l))] EXCEPT !.failures = 0] \in ChannelRow
          BY <5>a, RowUpdates, 0 \in Nat, TRUE \in BOOLEAN, Zenon
        <5>3. channel' = [channel EXCEPT ![ChannelOf(JobOf(l))] = [@ EXCEPT !.failures = 0]]
          BY <2>2, <4>2 DEF CompleteCommits
        <5>4. QED
          BY <2>2, <4>2, <5>1, <5>2, <5>3 DEF CompleteCommits
      <4>3. QED
        BY <4>1, <4>2
    <3>2. status' \in [Jobs -> JobStatus] /\ due' \subseteq Jobs
      BY <2>2 DEF CompleteCommits, Notified, Jobs
    <3>3. QED
      BY <2>2, <3>1, <3>2, LeaseParts DEF CompleteCommits
  <2>3. CASE CompleteRollsBack(l)
    BY <2>3 DEF CompleteRollsBack
  <2>4. CASE CompleteRecordsUsage(l)
    <3>1. worker' \in [Workers -> WorkerState]
          /\ \A v \in Workers : worker'[v].pc # "idle" => worker'[v].lease \in Leases
      <4>1. CASE UNCHANGED worker
        BY <4>1
      <4>2. ASSUME NEW w \in Workers, worker' = [worker EXCEPT ![w] = Idle]
            PROVE  worker' \in [Workers -> WorkerState]
                   /\ \A v \in Workers : worker'[v].pc # "idle" => worker'[v].lease \in Leases
        BY <4>2, NewRows
      <4>3. QED
        BY <2>4, <4>1, <4>2 DEF CompleteRecordsUsage
    <3>2. QED
      BY <2>4, <3>1, LeaseParts DEF CompleteRecordsUsage
  <2>5. QED
    BY <1>10, <2>1, <2>2, <2>3, <2>4 DEF CompleteStep
<1>11. ASSUME NEW l \in Leases, FailStep(l) PROVE TypeOK'
  <2>1. CASE FailReads(l)
    <3>1. verdict' \in [Leases -> Verdict]
      BY <2>1 DEF FailReads, FailEnds, RetryOrBury
    <3>2. copy' \in [Leases -> OwnerCopy] /\ failure' \in [Leases -> FailStage]
      BY <2>1, NewRows DEF FailReads, FailEnds
    <3>3. QED
      BY <2>1, <3>1, <3>2 DEF FailReads
  <2>2. CASE FailSavesJob(l)
    BY <2>2, LeaseParts DEF FailSavesJob, SaveFailed
  <2>3. CASE FailReadsOwner(l)
    <3>1. CASE JobOf(l) \in Requests
      <4>1. [copy[l] EXCEPT !.status = connection] \in OwnerCopy
        BY CopyUpdates, copy[l] \in OwnerCopy, Zenon
      <4>2. QED
        BY <2>3, <3>1, <4>1 DEF FailReadsOwner
    <3>2. CASE JobOf(l) \notin Requests
      <4> DEFINE row == channel[ChannelOf(JobOf(l))]
      <4>1. row \in ChannelRow
        BY <3>2, LeaseParts, DeliveryParts
      <4>2. [copy[l] EXCEPT !.active = row.active, !.failures = row.failures] \in OwnerCopy
        <5> HIDE DEF row
        <5>1. row.active \in BOOLEAN /\ row.failures \in Nat
          BY <4>1, RowUpdates
        <5>2. QED
          BY <5>1, CopyUpdates, copy[l] \in OwnerCopy, connection \in ConnectionStatus, Zenon
      <4>3. QED
        BY <2>3, <3>2, <4>2 DEF FailReadsOwner
    <3>3. QED
      BY <3>1, <3>2
  <2>4. CASE FailSavesConnection(l)
    BY <2>4, NewRows DEF FailSavesConnection, FailEnds, ConnectionStatus
  <2>5. CASE FailSavesChannel(l)
    <3>1. channel' \in [Channels -> ChannelRow]
      <4> DEFINE c == ChannelOf(JobOf(l))
      <4>1. SavedChannel(channel[c], l) \in ChannelRow
        BY SavedRow
      <4>2. QED
        BY <2>5, <4>1 DEF FailSavesChannel
    <3>2. QED
      BY <2>5, <3>1, NewRows DEF FailSavesChannel, FailEnds
  <2>6. QED
    BY <1>11, <2>1, <2>2, <2>3, <2>4, <2>5 DEF FailStep
<1>12. ASSUME RequeueReads PROVE TypeOK'
  BY <1>12 DEF RequeueReads, Overdue, RetryOrBury
<1>13. ASSUME NEW j \in Jobs, RequeueSaves(j) PROVE TypeOK'
  BY <1>13 DEF RequeueSaves, SaveFailed
<1>14. ASSUME ServerRestarts PROVE TypeOK'
  BY <1>14, NewRows DEF ServerRestarts
<1>15. CASE UNCHANGED vars
  BY <1>15 DEF vars
<1>16. QED
  BY <1>1, <1>2, <1>3, <1>4, <1>5, <1>6, <1>7, <1>8, <1>9, <1>10, <1>11, <1>12, <1>13,
     <1>14, <1>15 DEF Next

LEMMA TypeInit == Init => TypeOK
<1> SUFFICES ASSUME Init PROVE TypeOK
  OBVIOUS
<1> USE JobQueueAssumption DEF JobStatus, Verdict, CompleteStage, FailStage
<1>1. Waiting \subseteq Jobs /\ Finished \subseteq Jobs /\ Finished \X {1} \subseteq Leases
  BY DEF Waiting, Jobs, Leases
<1>2. QED
  BY <1>1, NewRows DEF Init, TypeOK, ConnectionStatus

\* JobQueue is type correct: every column, call and worker stays within its type
\* whatever the interleaving of routes, cron, workers and crashes.
THEOREM TypeCorrect == Spec => []TypeOK
  BY TypeInit, TypeStep, PTL DEF Spec

-----------------------------------------------------------------------------
\* A job runs exactly while it holds a lease, and that lease is its latest claim,
\* so a token of an earlier claim is refused for ever: claim, complete, fail and
\* the cron write status and lease_token_hash together, whatever copy they hold.
LEMMA LatestLeaseStep == TypeOK /\ OnlyLatestLease /\ [Next]_vars => OnlyLatestLease'
<1> SUFFICES ASSUME TypeOK, OnlyLatestLease, [Next]_vars PROVE OnlyLatestLease'
  OBVIOUS
<1> USE JobQueueAssumption DEF OnlyLatestLease, TypeOK, jobVars, rowVars, handlerVars, worldVars
<1>1. ASSUME NEW r \in Requests, EnqueueJob(r) PROVE OnlyLatestLease'
  BY <1>1 DEF EnqueueJob, Jobs
<1>2. ASSUME NEW w \in Workers, NEW j \in Jobs, ClaimJob(w, j) PROVE OnlyLatestLease'
  <2>1. attempts'[j] # 0 /\ attempts' = [attempts EXCEPT ![j] = @ + 1]
    BY <1>2 DEF ClaimJob, CountClaim
  <2>2. QED
    BY <1>2, <2>1 DEF ClaimJob
<1>3. ASSUME NEW w \in Workers, NEW j \in Jobs, ClaimCancels(w, j) PROVE OnlyLatestLease'
  BY <1>3 DEF ClaimCancels, CountClaim, Head, Ready
<1>4. ASSUME NEW l \in Leases, CompleteStep(l) PROVE OnlyLatestLease'
  <2>1. ASSUME NEW message \in BOOLEAN, CompleteCommits(l, message) PROVE OnlyLatestLease'
    BY <2>1 DEF CompleteCommits
  <2>2. CASE CompleteReads(l) \/ CompleteRollsBack(l) \/ CompleteRecordsUsage(l)
    BY <2>2 DEF CompleteReads, CompleteRollsBack, CompleteRecordsUsage
  <2>3. QED
    BY <1>4, <2>1, <2>2 DEF CompleteStep
<1>5. ASSUME NEW l \in Leases, FailStep(l) PROVE OnlyLatestLease'
  <2>1. CASE FailSavesJob(l)
    BY <2>1, LeaseParts DEF FailSavesJob, SaveFailed
  <2>2. CASE FailReads(l) \/ FailReadsOwner(l) \/ FailSavesConnection(l) \/ FailSavesChannel(l)
    BY <2>2 DEF FailReads, FailReadsOwner, FailSavesConnection, FailSavesChannel
  <2>3. QED
    BY <1>5, <2>1, <2>2 DEF FailStep
<1>6. ASSUME NEW j \in Jobs, RequeueSaves(j) PROVE OnlyLatestLease'
  BY <1>6 DEF RequeueSaves, SaveFailed
<1>7. CASE UNCHANGED <<status, attempts, lease>>
  BY <1>7
<1>8. QED
  BY <1>1, <1>2, <1>3, <1>4, <1>5, <1>6, <1>7 DEF Next, vars, DisableChannel, LeaseExpires,
     BackoffElapses, SendComplete, SendFail, WorkerStartsOver, RequeueReads, ServerRestarts

THEOREM LatestLease == Spec => []OnlyLatestLease
<1>1. Init => OnlyLatestLease
  BY DEF Init, OnlyLatestLease
<1>2. QED
  BY <1>1, TypeCorrect, LatestLeaseStep, PTL DEF Spec

-----------------------------------------------------------------------------
\* Attempts only ever grow and a permanent failure is never forgotten, so a
\* verdict reached on an old copy of a job is still justified when it is saved.
LEMMA CountsOnlyGrow ==
    ASSUME TypeOK, [Next]_vars
    PROVE  (\A j \in Jobs : attempts'[j] >= attempts[j]) /\ refused \subseteq refused'
<1> USE DEF TypeOK, jobVars, rowVars, handlerVars, worldVars
<1>1. ASSUME NEW w \in Workers, NEW j \in Jobs, ClaimJob(w, j) \/ ClaimCancels(w, j)
      PROVE  (\A k \in Jobs : attempts'[k] >= attempts[k]) /\ refused \subseteq refused'
  BY <1>1 DEF ClaimJob, ClaimCancels, CountClaim
<1>2. ASSUME NEW l \in Leases, CompleteStep(l) \/ FailStep(l)
      PROVE  UNCHANGED <<attempts, refused>>
  BY <1>2 DEF CompleteStep, CompleteReads, CompleteCommits, CompleteRollsBack,
     CompleteRecordsUsage, FailStep, FailReads, FailSavesJob, SaveFailed, FailReadsOwner,
     FailSavesConnection, FailSavesChannel
<1>3. ASSUME NEW w \in Workers, NEW permanent \in BOOLEAN, SendFail(w, permanent)
      PROVE  UNCHANGED attempts /\ refused \subseteq refused'
  BY <1>3 DEF SendFail
<1>4. CASE UNCHANGED <<attempts, refused>>
  BY <1>4
<1>5. QED
  BY <1>1, <1>2, <1>3, <1>4 DEF Next, vars, EnqueueJob, DisableChannel, LeaseExpires,
     BackoffElapses, SendComplete, WorkerStartsOver, RequeueReads, RequeueSaves, SaveFailed,
     ServerRestarts

\* The inductive invariant: a job that is given up, or about to be by a call or a
\* cron entry that has decided so, has earned it.
Spent(j) == attempts[j] >= MaxAttempts \/ j \in refused

VerdictsEarned ==
    /\ \A j \in Jobs : status[j] = "dead-letter" => Spent(j)
    /\ \A j \in Jobs : batch[j] = "bury" => Spent(j)
    /\ \A l \in Leases : failure[l] = "sent" =>
           verdict[l] = "retry" \/ (verdict[l] = "bury" /\ JobOf(l) \in refused)
    /\ \A l \in Leases : failure[l] = "read" /\ verdict[l] # "retry" => Spent(JobOf(l))

LEMMA VerdictsEarnedStep ==
    TypeOK /\ VerdictsEarned /\ [Next]_vars => VerdictsEarned'
<1> SUFFICES ASSUME TypeOK, VerdictsEarned, [Next]_vars PROVE VerdictsEarned'
  OBVIOUS
<1>0. \A j \in Jobs : Spent(j) => Spent(j)'
  <2>1. \A j \in Jobs : attempts[j] \in Nat /\ attempts'[j] \in Nat
    BY TypeStep, JobQueueAssumption DEF TypeOK
  <2>2. QED
    BY <2>1, CountsOnlyGrow, JobQueueAssumption DEF Spent
<1> USE JobQueueAssumption DEF VerdictsEarned, TypeOK, jobVars, rowVars, handlerVars, worldVars
<1>1. CASE UNCHANGED <<batch, failure, verdict>>
           /\ \A j \in Jobs : status'[j] = "dead-letter" => status[j] = "dead-letter"
  BY <1>0, <1>1, CountsOnlyGrow, LeaseParts
<1>2. ASSUME NEW w \in Workers, NEW permanent \in BOOLEAN, SendFail(w, permanent)
      PROVE  VerdictsEarned'
  <2>1. worker[w].lease \in Leases /\ UNCHANGED <<status, batch>>
    BY <1>2 DEF SendFail
  <2>2. failure' = [failure EXCEPT ![worker[w].lease] = "sent"]
        /\ verdict' = [verdict EXCEPT ![worker[w].lease] = IF permanent THEN "bury" ELSE "retry"]
        /\ (permanent => JobOf(worker[w].lease) \in refused')
    BY <1>2, <2>1 DEF SendFail
  <2>3. ASSUME NEW m \in Leases, failure'[m] = "sent"
        PROVE  verdict'[m] = "retry" \/ (verdict'[m] = "bury" /\ JobOf(m) \in refused')
    <3>1. CASE m = worker[w].lease
      <4>1. verdict'[m] = IF permanent THEN "bury" ELSE "retry"
        BY <2>1, <2>2, <3>1
      <4>2. CASE permanent
        BY <2>2, <3>1, <4>1, <4>2, Zenon
      <4>3. CASE ~permanent
        BY <4>1, <4>3
      <4>4. QED
        BY <4>2, <4>3
    <3>2. CASE m # worker[w].lease
      <4>1. failure[m] = "sent" /\ verdict'[m] = verdict[m]
        BY <2>2, <2>3, <3>2
      <4>2. QED
        BY <4>1, CountsOnlyGrow
    <3>3. QED
      BY <3>1, <3>2
  <2>4. ASSUME NEW m \in Leases, failure'[m] = "read", verdict'[m] # "retry"
        PROVE  Spent(JobOf(m))'
    <3>1. failure[m] = "read" /\ verdict[m] # "retry"
      BY <2>1, <2>2, <2>4
    <3>2. QED
      BY <1>0, <3>1, LeaseParts
  <2>5. QED
    BY <1>0, <2>1, <2>3, <2>4
<1>3. ASSUME NEW l \in Leases, FailStep(l) PROVE VerdictsEarned'
  <2>1. CASE FailReads(l)
    BY <1>0, <2>1, CountsOnlyGrow, LeaseParts DEF FailReads, FailEnds, RetryOrBury, Spent
  <2>2. CASE FailSavesJob(l)
    BY <1>0, <2>2, CountsOnlyGrow, LeaseParts DEF FailSavesJob, SaveFailed
  <2>3. CASE FailReadsOwner(l) \/ FailSavesConnection(l) \/ FailSavesChannel(l)
    <3>1. UNCHANGED <<status, batch>>
          /\ \A m \in Leases : failure'[m] \in {"sent", "read"}
                 => failure'[m] = failure[m] /\ verdict'[m] = verdict[m]
      BY <2>3 DEF FailReadsOwner, FailSavesConnection, FailSavesChannel, FailEnds
    <3>2. QED
      BY <1>0, <3>1, CountsOnlyGrow, LeaseParts
  <2>4. QED
    BY <1>3, <2>1, <2>2, <2>3 DEF FailStep
<1>4. CASE RequeueReads
  BY <1>0, <1>4, CountsOnlyGrow, LeaseParts DEF RequeueReads, RetryOrBury, Spent
<1>5. ASSUME NEW j \in Jobs, RequeueSaves(j) PROVE VerdictsEarned'
  <2>1. status' = [status EXCEPT ![j] = IF batch[j] = "retry" THEN "queued" ELSE "dead-letter"]
        /\ batch' = [batch EXCEPT ![j] = "none"] /\ batch[j] # "none"
        /\ UNCHANGED <<failure, verdict>>
    BY <1>5 DEF RequeueSaves, SaveFailed
  <2>2. batch[j] = "retry" \/ Spent(j)
    BY <2>1 DEF Verdict
  <2>3. QED
    BY <1>0, <2>1, <2>2, CountsOnlyGrow, LeaseParts
<1>6. CASE ServerRestarts
  BY <1>0, <1>6 DEF ServerRestarts
<1>7. ASSUME NEW l \in Leases, CompleteStep(l) PROVE VerdictsEarned'
  <2>1. UNCHANGED <<batch, failure, verdict>>
        /\ \A j \in Jobs : status'[j] = "dead-letter" => status[j] = "dead-letter"
    BY <1>7 DEF CompleteStep, CompleteReads, CompleteCommits, CompleteRollsBack,
       CompleteRecordsUsage
  <2>2. QED
    BY <1>1, <2>1
<1>8. ASSUME NEW w \in Workers, NEW j \in Jobs, ClaimJob(w, j) \/ ClaimCancels(w, j)
      PROVE  VerdictsEarned'
  <2>1. UNCHANGED <<batch, failure, verdict>>
        /\ \A k \in Jobs : status'[k] = "dead-letter" => status[k] = "dead-letter"
    BY <1>8 DEF ClaimJob, ClaimCancels
  <2>2. QED
    BY <1>1, <2>1
<1>9. QED
  BY <1>1, <1>2, <1>3, <1>4, <1>5, <1>6, <1>7, <1>8 DEF Next, vars, EnqueueJob,
     DisableChannel, LeaseExpires, BackoffElapses, SendComplete, WorkerStartsOver

\* A job becomes a dead letter only when its attempts are used up or a worker
\* called its failure permanent, however stale the copy fail or the cron judged.
THEOREM DeadLettersAreEarned == Spec => []DeadLetterEarned
<1>1. Init => VerdictsEarned
  BY DEF Init, VerdictsEarned
<1>2. VerdictsEarned => DeadLetterEarned
  BY DEF VerdictsEarned, DeadLetterEarned, Spent
<1>3. QED
  BY <1>1, <1>2, TypeCorrect, VerdictsEarnedStep, PTL DEF Spec

-----------------------------------------------------------------------------
\* What each step does to a channel: it is left alone or switched off, or its
\* failures are counted anew by one complete or one fail call.
LEMMA ChannelRows ==
    ASSUME TypeOK, [Next]_vars, NEW c \in Channels
    PROVE  \/ channel'[c] = channel[c]
           \/ ~channel'[c].active /\ channel'[c].failures = channel[c].failures
           \/ channel'[c].active = channel[c].active /\ channel'[c].failures = 0
           \/ \E l \in Leases : /\ FailSavesChannel(l) /\ ChannelOf(JobOf(l)) = c
                                /\ JobOf(l) \notin Requests
<1> USE JobQueueAssumption DEF TypeOK, jobVars, rowVars, handlerVars, worldVars
<1>0. channel[c] \in ChannelRow /\ channel \in [Channels -> ChannelRow]
  OBVIOUS
<1>1. ASSUME NEW d \in Channels, DisableChannel(d)
      PROVE  \/ channel'[c] = channel[c]
             \/ ~channel'[c].active /\ channel'[c].failures = channel[c].failures
  BY <1>0, <1>1 DEF DisableChannel, ChannelRow
<1>2. ASSUME NEW l \in Leases, NEW message \in BOOLEAN, CompleteCommits(l, message)
      PROVE  \/ channel'[c] = channel[c]
             \/ channel'[c].active = channel[c].active /\ channel'[c].failures = 0
  <2>1. CASE JobOf(l) \in Requests
    BY <1>2, <2>1 DEF CompleteCommits
  <2>2. CASE JobOf(l) \notin Requests
    <3>1. channel' = [channel EXCEPT ![ChannelOf(JobOf(l))].failures = 0]
      BY <1>2, <2>2 DEF CompleteCommits
    <3>2. QED
      BY <1>0, <3>1 DEF ChannelRow
  <2>3. QED
    BY <2>1, <2>2
<1>3. ASSUME NEW l \in Leases, FailSavesChannel(l)
      PROVE  channel'[c] = channel[c] \/ (ChannelOf(JobOf(l)) = c /\ JobOf(l) \notin Requests)
  BY <1>3 DEF FailSavesChannel
<1>4. CASE UNCHANGED channel
  BY <1>4
<1>5. QED
  BY <1>1, <1>2, <1>3, <1>4 DEF Next, vars, EnqueueJob, LeaseExpires, BackoffElapses,
     ClaimJob, ClaimCancels, SendComplete, SendFail, WorkerStartsOver, CompleteStep,
     CompleteReads, CompleteRollsBack, CompleteRecordsUsage, FailStep, FailReads,
     FailSavesJob, SaveFailed, FailReadsOwner, FailSavesConnection, RequeueReads,
     RequeueSaves, ServerRestarts

\* What the fail call of a notification writes to its channel.
LEMMA FailCounts ==
    ASSUME TypeOK, NEW l \in Leases, FailSavesChannel(l)
    PROVE  LET c == ChannelOf(JobOf(l)) IN
           /\ c \in Channels => (channel'[c].active => channel[c].active)
           /\ c \in Channels /\ channel'[c].failures >= FailureLimit /\ copy[l].active
                  => ~channel'[c].active
<1> DEFINE c == ChannelOf(JobOf(l))
<1>1. c \in Channels => channel'[c] = SavedChannel(channel[c], l)
  BY DEF FailSavesChannel, TypeOK
<1>2. QED
  BY <1>1, SavedRow

\* No step of the queue switches a channel on: fail writes is_active only when it
\* clears it, whatever copy of the channel it holds.
LEMMA ChannelStaysOffStep ==
    TypeOK /\ [Next]_vars => \A c \in Channels : ~channel[c].active => ~channel'[c].active
<1> SUFFICES ASSUME TypeOK, [Next]_vars, NEW c \in Channels, ~channel[c].active
             PROVE  ~channel'[c].active
  OBVIOUS
<1>1. ASSUME NEW l \in Leases, FailSavesChannel(l), ChannelOf(JobOf(l)) = c
      PROVE  ~channel'[c].active
  BY <1>1, FailCounts
<1>2. QED
  BY <1>1, ChannelRows

\* A channel its owner or repeated failures have switched off stays off, for any
\* number of fail and complete calls in progress on it.
THEOREM ChannelsStayOff == Spec => ChannelStaysOff
<1>1. TypeOK /\ [Next]_vars => [\A c \in Channels : ~channel[c].active => ~channel'[c].active]_vars
  BY ChannelStaysOffStep
<1>2. QED
  BY <1>1, TypeCorrect, PTL DEF Spec, ChannelStaysOff

\* The inductive invariant: moreover, a fail call that read the channel as off is
\* right about it, so it need not switch it off when it saves a count at the limit.
OffCopiesAreRight ==
    \A l \in Leases : failure[l] = "owner" /\ JobOf(l) \notin Requests /\ ~copy[l].active
                          => ~channel[ChannelOf(JobOf(l))].active

LEMMA OffCopiesStep ==
    TypeOK /\ OffCopiesAreRight /\ [Next]_vars => OffCopiesAreRight'
<1> SUFFICES ASSUME TypeOK, OffCopiesAreRight, [Next]_vars,
                    NEW m \in Leases, failure'[m] = "owner", JobOf(m) \notin Requests,
                    ~copy'[m].active
             PROVE  ~channel'[ChannelOf(JobOf(m))].active
  BY DEF OffCopiesAreRight
<1> DEFINE c == ChannelOf(JobOf(m))
<1>1. c \in Channels
  BY LeaseParts, DeliveryParts
<1>2. CASE failure[m] = "owner" /\ copy'[m] = copy[m]
  BY <1>1, <1>2, ChannelStaysOffStep DEF OffCopiesAreRight
<1> USE DEF TypeOK, jobVars, rowVars, handlerVars, worldVars
<1>3. ASSUME NEW l \in Leases, FailReadsOwner(l), l = m PROVE ~channel'[c].active
  <2>1. copy'[m] = [copy[m] EXCEPT !.active = channel[c].active,
                                   !.failures = channel[c].failures]
    BY <1>3 DEF FailReadsOwner
  <2>2. copy'[m].active = channel[c].active /\ channel' = channel
    BY <1>3, <2>1 DEF FailReadsOwner, OwnerCopy
  <2>3. QED
    BY <2>2
<1>4. ASSUME NEW l \in Leases, FailStep(l), ~(FailReadsOwner(l) /\ l = m)
      PROVE  failure[m] = "owner" /\ copy'[m] = copy[m]
  BY <1>4 DEF FailStep, FailReads, FailSavesJob, FailReadsOwner, FailSavesConnection,
     FailSavesChannel, FailEnds
<1>5. ASSUME NEW w \in Workers, NEW permanent \in BOOLEAN, SendFail(w, permanent)
      PROVE  failure[m] = "owner" /\ copy'[m] = copy[m]
  BY <1>5 DEF SendFail
<1>6. CASE ServerRestarts
  BY <1>6 DEF ServerRestarts
<1>7. CASE UNCHANGED <<failure, copy>>
  BY <1>2, <1>7
<1>8. QED
  BY <1>2, <1>3, <1>4, <1>5, <1>6, <1>7 DEF Next, vars, EnqueueJob, DisableChannel,
     LeaseExpires, BackoffElapses, ClaimJob, ClaimCancels, SendComplete, WorkerStartsOver,
     CompleteStep, CompleteReads, CompleteCommits, CompleteRollsBack, CompleteRecordsUsage,
     RequeueReads, RequeueSaves

LEMMA FailingChannelStep ==
    TypeOK /\ OffCopiesAreRight /\ FailingChannelIsOff /\ [Next]_vars => FailingChannelIsOff'
<1> SUFFICES ASSUME TypeOK, OffCopiesAreRight, FailingChannelIsOff, [Next]_vars,
                    NEW c \in Channels, channel'[c].failures >= FailureLimit
             PROVE  ~channel'[c].active
  BY DEF FailingChannelIsOff
<1>1. CASE channel'[c] = channel[c]
  BY <1>1 DEF FailingChannelIsOff
<1>2. CASE channel'[c].active = channel[c].active /\ channel'[c].failures = 0
  BY <1>2, JobQueueAssumption
<1>3. ASSUME NEW l \in Leases, FailSavesChannel(l), ChannelOf(JobOf(l)) = c,
             JobOf(l) \notin Requests
      PROVE  ~channel'[c].active
  <2>1. CASE copy[l].active
    BY <1>3, <2>1, FailCounts
  <2>2. CASE ~copy[l].active
    <3>1. ~channel[c].active
      BY <1>3, <2>2 DEF OffCopiesAreRight, FailSavesChannel
    <3>2. QED
      BY <3>1, ChannelStaysOffStep
  <2>3. QED
    BY <2>1, <2>2
<1>4. QED
  BY <1>1, <1>2, <1>3, ChannelRows

\* A channel at the failure limit is off although fail adds one to a count that
\* may be old: several calls may lose counts of each other, none loses the switch.
THEOREM FailingChannelsAreOff == Spec => []FailingChannelIsOff
<1>1. Init => OffCopiesAreRight /\ FailingChannelIsOff
  BY JobQueueAssumption DEF Init, OffCopiesAreRight, FailingChannelIsOff
<1>2. QED
  BY <1>1, TypeCorrect, OffCopiesStep, FailingChannelStep, PTL DEF Spec

-----------------------------------------------------------------------------
\* Every worker, call and cron entry in progress is about a job that has a row.
CallsHaveJobs ==
    /\ \A w \in Workers : worker[w].pc # "idle" => status[JobOf(worker[w].lease)] # "absent"
    /\ \A l \in Leases : completion[l] \in {"sent", "read"} => status[JobOf(l)] # "absent"
    /\ \A l \in Leases : failure[l] \in {"sent", "read"} => status[JobOf(l)] # "absent"
    /\ \A j \in Jobs : batch[j] # "none" => status[j] # "absent"

\* Rows are never deleted.
LEMMA RowsStay ==
    ASSUME TypeOK, [Next]_vars
    PROVE  \A j \in Jobs : status[j] # "absent" => status'[j] # "absent"
<1> USE JobQueueAssumption DEF TypeOK, jobVars, rowVars, handlerVars, worldVars
<1>1. ASSUME NEW r \in Requests, EnqueueJob(r)
      PROVE  \A j \in Jobs : status[j] # "absent" => status'[j] # "absent"
  BY <1>1 DEF EnqueueJob
<1>2. ASSUME NEW w \in Workers, NEW k \in Jobs, ClaimJob(w, k) \/ ClaimCancels(w, k)
      PROVE  \A j \in Jobs : status[j] # "absent" => status'[j] # "absent"
  BY <1>2 DEF ClaimJob, ClaimCancels
<1>3. ASSUME NEW l \in Leases, CompleteStep(l) \/ FailStep(l)
      PROVE  \A j \in Jobs : status[j] # "absent" => status'[j] # "absent"
  BY <1>3 DEF CompleteStep, CompleteReads, CompleteCommits, CompleteRollsBack,
     CompleteRecordsUsage, FailStep, FailReads, FailSavesJob, SaveFailed, FailReadsOwner,
     FailSavesConnection, FailSavesChannel
<1>4. ASSUME NEW k \in Jobs, RequeueSaves(k)
      PROVE  \A j \in Jobs : status[j] # "absent" => status'[j] # "absent"
  BY <1>4 DEF RequeueSaves, SaveFailed
<1>5. CASE UNCHANGED status
  BY <1>5
<1>6. QED
  BY <1>1, <1>2, <1>3, <1>4, <1>5 DEF Next, vars, DisableChannel, LeaseExpires,
     BackoffElapses, SendComplete, SendFail, WorkerStartsOver, RequeueReads, ServerRestarts

LEMMA CallsHaveJobsStep == TypeOK /\ CallsHaveJobs /\ [Next]_vars => CallsHaveJobs'
<1> SUFFICES ASSUME TypeOK, CallsHaveJobs, [Next]_vars PROVE CallsHaveJobs'
  OBVIOUS
<1>0. /\ \A j \in Jobs : status[j] # "absent" => status'[j] # "absent"
      /\ \A l \in Leases : JobOf(l) \in Jobs
      /\ \A w \in Workers : worker[w].pc # "idle" => JobOf(worker[w].lease) \in Jobs
  BY RowsStay, LeaseParts DEF TypeOK
<1> USE JobQueueAssumption DEF CallsHaveJobs, TypeOK, CompleteStage, FailStage, jobVars,
        rowVars, handlerVars, worldVars
<1>1. CASE /\ UNCHANGED worker
           /\ \A l \in Leases : completion'[l] \in {"sent", "read"}
                                  => completion[l] \in {"sent", "read"}
           /\ \A l \in Leases : failure'[l] \in {"sent", "read"}
                                  => failure[l] \in {"sent", "read"}
           /\ \A j \in Jobs : batch'[j] \in {batch[j], "none"}
  BY <1>0, <1>1
<1>2. ASSUME NEW w \in Workers, NEW j \in Jobs, ClaimJob(w, j) PROVE CallsHaveJobs'
  <2>1. CASE UNCHANGED worker
    BY <1>1, <1>2, <2>1 DEF ClaimJob
  <2>2. CASE worker' = [worker EXCEPT ![w] = [pc |-> "working", lease |-> <<j, attempts'[j]>>]]
    <3>1. status'[j] = "running" /\ UNCHANGED <<completion, failure, batch>>
      BY <1>2 DEF ClaimJob
    <3>2. JobOf(<<j, attempts'[j]>>) = j
      BY DEF JobOf
    <3>3. QED
      BY <1>0, <2>2, <3>1, <3>2
  <2>3. QED
    BY <1>2, <2>1, <2>2 DEF ClaimJob
<1>3. ASSUME NEW w \in Workers, SendComplete(w) PROVE CallsHaveJobs'
  <2>1. worker'[w].lease = worker[w].lease /\ \A v \in Workers : v # w => worker'[v] = worker[v]
    <3>1. worker[w] \in WorkerState /\ worker' = [worker EXCEPT ![w].pc = "completing"]
      BY <1>3 DEF SendComplete
    <3>2. QED
      BY <3>1 DEF WorkerState
  <2>2. worker[w].pc # "idle" /\ worker[w].lease \in Leases
        /\ completion' = [completion EXCEPT ![worker[w].lease] = "sent"]
        /\ UNCHANGED <<failure, batch, status>>
    BY <1>3 DEF SendComplete
  <2>3. QED
    BY <1>0, <2>1, <2>2
<1>4. ASSUME NEW w \in Workers, NEW permanent \in BOOLEAN, SendFail(w, permanent)
      PROVE  CallsHaveJobs'
  <2>1. worker'[w].lease = worker[w].lease /\ \A v \in Workers : v # w => worker'[v] = worker[v]
    <3>1. worker[w] \in WorkerState /\ worker' = [worker EXCEPT ![w].pc = "failing"]
      BY <1>4 DEF SendFail
    <3>2. QED
      BY <3>1 DEF WorkerState
  <2>2. worker[w].pc # "idle" /\ worker[w].lease \in Leases
        /\ failure' = [failure EXCEPT ![worker[w].lease] = "sent"]
        /\ UNCHANGED <<completion, batch, status>>
    BY <1>4 DEF SendFail
  <2>3. QED
    BY <1>0, <2>1, <2>2
<1>5. ASSUME NEW w \in Workers, WorkerStartsOver(w) PROVE CallsHaveJobs'
  BY <1>5, NewRows DEF WorkerStartsOver
<1>6. ASSUME NEW l \in Leases, CompleteRecordsUsage(l) PROVE CallsHaveJobs'
  BY <1>1, <1>6, NewRows DEF CompleteRecordsUsage
<1>7. ASSUME NEW l \in Leases, CompleteStep(l), ~CompleteRecordsUsage(l) PROVE CallsHaveJobs'
  BY <1>1, <1>7 DEF CompleteStep, CompleteReads, CompleteCommits, CompleteRollsBack
<1>8. ASSUME NEW l \in Leases, FailStep(l) PROVE CallsHaveJobs'
  BY <1>1, <1>8 DEF FailStep, FailReads, FailEnds, FailSavesJob, SaveFailed, FailReadsOwner,
     FailSavesConnection, FailSavesChannel
<1>9. CASE RequeueReads
  BY <1>0, <1>9 DEF RequeueReads, Overdue
<1>10. ASSUME NEW j \in Jobs, RequeueSaves(j) PROVE CallsHaveJobs'
  BY <1>1, <1>10 DEF RequeueSaves
<1>11. CASE ServerRestarts
  BY <1>1, <1>11 DEF ServerRestarts
<1>12. CASE UNCHANGED <<worker, handlerVars>>
  BY <1>1, <1>12
<1>13. QED
  BY <1>2, <1>3, <1>4, <1>5, <1>6, <1>7, <1>8, <1>9, <1>10, <1>11, <1>12 DEF Next, vars,
     EnqueueJob, DisableChannel, LeaseExpires, BackoffElapses, ClaimCancels

-----------------------------------------------------------------------------
\* The inductive invariant: moreover, a notification's complete call is made after
\* its message was posted, and what follows a commit has the commit's results.
Backing ==
    /\ BackedByResults
    /\ \A l \in Leases : completion[l] \in {"sent", "read"} /\ JobOf(l) \in Deliveries
                             => JobOf(l) \in delivered
    /\ \A l \in Leases : completion[l] = "committed" => l \in results

LEMMA BackingStep == TypeOK /\ CallsHaveJobs /\ Backing /\ [Next]_vars => Backing'
<1> SUFFICES ASSUME TypeOK, CallsHaveJobs, Backing, [Next]_vars PROVE Backing'
  OBVIOUS
<1> USE JobQueueAssumption DEF TypeOK, jobVars, rowVars, handlerVars, worldVars
<1> USE DEF Backing, BackedByResults, Jobs, CompleteStage
<1>1. CASE /\ UNCHANGED <<results, usage>>
           /\ \A l \in Leases : completion'[l] \in {completion[l], "none"}
           /\ delivered \subseteq delivered'
           /\ \A j \in Jobs : status'[j] = "succeeded" => status[j] = "succeeded"
           /\ \A j \in Deliveries : status'[j] # "absent" => status[j] # "absent"
  BY <1>1
<1>2. ASSUME NEW w \in Workers, SendComplete(w) PROVE Backing'
  BY <1>2 DEF SendComplete
<1>3. ASSUME NEW l \in Leases, NEW message \in BOOLEAN, CompleteCommits(l, message)
      PROVE  Backing'
  <2> DEFINE new == {d \in Notified(JobOf(l), message) : status[d] = "absent"}
  <2>1. /\ results' = results \cup {l} /\ completion' = [completion EXCEPT ![l] = "committed"]
        /\ completion[l] = "read" /\ UNCHANGED <<usage, delivered>>
        /\ status' = [k \in Jobs |-> IF k = JobOf(l) THEN "succeeded"
                                     ELSE IF k \in new THEN "queued" ELSE status[k]]
    BY <1>3 DEF CompleteCommits
  <2>2. \A d \in new : Request(d) = JobOf(l)
    BY DEF Notified
  <2>3. status[JobOf(l)] # "absent" /\ (JobOf(l) \in Deliveries => JobOf(l) \in delivered)
    BY <2>1 DEF CallsHaveJobs
  <2> HIDE DEF new
  <2>4. ASSUME NEW d \in Deliveries, status'[d] # "absent"
        PROVE  Request(d) \in {JobOf(k) : k \in results'}
    <3>1. CASE d \in new
      BY <2>1, <2>2, <3>1
    <3>2. CASE d \notin new
      <4>1. status[d] # "absent"
        BY <2>1, <2>3, <2>4, <3>2
      <4>2. QED
        BY <2>1, <4>1
    <3>3. QED
      BY <3>1, <3>2
  <2>5. QED
    BY <2>1, <2>3, <2>4, LeaseParts
<1>4. ASSUME NEW l \in Leases, CompleteRecordsUsage(l) PROVE Backing'
  BY <1>4 DEF CompleteRecordsUsage
<1>5. ASSUME NEW l \in Leases, FailStep(l) PROVE Backing'
  <2>1. CASE FailSavesJob(l)
    <3>1. /\ UNCHANGED <<results, usage, completion, delivered>> /\ JobOf(l) \in Jobs
          /\ \E s \in {"queued", "dead-letter"} : status' = [status EXCEPT ![JobOf(l)] = s]
      BY <2>1, LeaseParts DEF FailSavesJob, SaveFailed
    <3>2. status[JobOf(l)] # "absent"
      BY <2>1 DEF CallsHaveJobs, FailSavesJob
    <3>3. QED
      BY <1>1, <3>1, <3>2
  <2>2. CASE FailReads(l) \/ FailReadsOwner(l) \/ FailSavesConnection(l) \/ FailSavesChannel(l)
    BY <1>1, <2>2 DEF FailReads, FailReadsOwner, FailSavesConnection, FailSavesChannel
  <2>3. QED
    BY <1>5, <2>1, <2>2 DEF FailStep
<1>6. ASSUME NEW j \in Jobs, RequeueSaves(j) PROVE Backing'
  <2>1. /\ UNCHANGED <<results, usage, completion, delivered>>
        /\ \E s \in {"queued", "dead-letter"} : status' = [status EXCEPT ![j] = s]
    BY <1>6 DEF RequeueSaves, SaveFailed
  <2>2. status[j] # "absent"
    BY <1>6 DEF CallsHaveJobs, RequeueSaves
  <2>3. QED
    BY <1>1, <2>1, <2>2
<1>7. ASSUME NEW w \in Workers, NEW j \in Jobs, ClaimJob(w, j) \/ ClaimCancels(w, j)
      PROVE  Backing'
  <2>1. /\ UNCHANGED <<results, usage, completion, delivered>> /\ status[j] = "queued"
        /\ \E s \in {"running", "cancelled"} : status' = [status EXCEPT ![j] = s]
    BY <1>7 DEF ClaimJob, ClaimCancels, Head, Ready
  <2>2. QED
    BY <1>1, <2>1
<1>8. ASSUME NEW r \in Requests, EnqueueJob(r) PROVE Backing'
  BY <1>1, <1>8 DEF EnqueueJob
<1>9. ASSUME NEW w \in Workers, NEW permanent \in BOOLEAN, SendFail(w, permanent)
      PROVE  Backing'
  BY <1>1, <1>9 DEF SendFail
<1>10. CASE ServerRestarts
  BY <1>1, <1>10 DEF ServerRestarts
<1>11. ASSUME NEW l \in Leases, CompleteReads(l) \/ CompleteRollsBack(l) PROVE Backing'
  BY <1>11 DEF CompleteReads, CompleteRollsBack
<1>12. CASE UNCHANGED <<status, results, usage, completion, delivered>>
  BY <1>1, <1>12
<1>13. QED
  BY <1>2, <1>3, <1>4, <1>5, <1>6, <1>7, <1>8, <1>9, <1>10, <1>11, <1>12 DEF Next, vars,
     DisableChannel, LeaseExpires, BackoffElapses, CompleteStep, WorkerStartsOver, RequeueReads

\* Success, usage and announcements always have a written result behind them, and
\* the success of a notification has a message that was posted, whatever crashes
\* between the steps of a call and however stale the copies that are saved.
THEOREM ResultsBackStatus == Spec => []BackedByResults
<1>1. Init => CallsHaveJobs
  BY NewRows DEF Init, CallsHaveJobs
<1>2. Init => Backing
  <2> SUFFICES ASSUME Init PROVE Backing
    OBVIOUS
  <2>1. \A r \in Finished : <<r, 1>> \in results /\ JobOf(<<r, 1>>) = r
    BY DEF Init, JobOf
  <2>2. \A l \in results : JobOf(l) \in Finished
    BY DEF Init, JobOf
  <2>3. \A d \in Deliveries : d \notin Finished /\ (d \in Waiting => Request(d) \in Finished)
    BY JobQueueAssumption DEF Waiting
  <2>4. QED
    BY ZenonT(40), <2>1, <2>2, <2>3, JobQueueAssumption DEF Init, Backing, BackedByResults, Jobs
<1>3. Backing => BackedByResults
  BY DEF Backing
<1>4. QED
  BY <1>1, <1>2, <1>3, TypeCorrect, CallsHaveJobsStep, BackingStep, PTL DEF Spec

-----------------------------------------------------------------------------
(* How often a job is claimed.  A claim needs the job queued, and what queues *)
(* it again is a save of a copy read while it ran with an attempt left: at    *)
(* most one by the fail call of that claim and one by the cron.               *)

\* The claims of job j whose fail call is about to queue it again.
Retriers(j) == {n \in 1..MaxClaims : failure[<<j, n>>] = "read" /\ verdict[<<j, n>>] = "retry"}

\* The claims a job may still see: it counts if it is queued, each copy about to
\* queue it counts, and so does each read of a running job that may yet be made.
Saves(s, R, b) == (IF s = "queued" THEN 1 ELSE 0) + Cardinality(R)
                  + IF b = "retry" THEN 1 ELSE 0
Reads(a, s, R, b) ==
    IF a >= MaxAttempts THEN 0
    ELSE 2 * (MaxAttempts - 1 - a)
         + IF s # "running" THEN 0
           ELSE (IF a \in R THEN 0 ELSE 1) + IF b = "retry" THEN 0 ELSE 1
Afforded(a, s, R, b) == a + Saves(s, R, b) + Reads(a, s, R, b) < 2 * MaxAttempts

AffordedBy(j) == Afforded(attempts[j], status[j], Retriers(j), batch[j])

\* The inductive invariant: no job can be claimed too often any more, and a job
\* without a row has no claim behind it and no copy of it is held.
ClaimsLeft == \A j \in Jobs : AffordedBy(j)

AbsentIsUntouched ==
    \A j \in Jobs : status[j] = "absent" =>
        attempts[j] = 0 /\ Retriers(j) = {} /\ batch[j] = "none"

LEMMA RetriersFinite == ASSUME NEW j PROVE IsFiniteSet(Retriers(j))
<1>1. IsFiniteSet(1..MaxClaims)
  BY FS_Interval, JobQueueAssumption
<1>2. QED
  BY <1>1, FS_Subset DEF Retriers

\* What each kind of step does to the count.
LEMMA AffordedSteps ==
    ASSUME NEW a \in Nat, NEW R, IsFiniteSet(R), NEW s, NEW b, Afforded(a, s, R, b)
    PROVE  /\ a < 2 * MaxAttempts
           /\ s = "queued" =>
                  \A new \in {"running", "cancelled"} : Afforded(a + 1, new, R, b)
           /\ s = "running" /\ a \notin R /\ a < MaxAttempts => Afforded(a, s, R \cup {a}, b)
           /\ s = "running" /\ b # "retry" /\ a < MaxAttempts => Afforded(a, s, R, "retry")
           /\ b # "retry" => \A c \in {"none", "bury"} : Afforded(a, s, R, c)
           /\ \A new \in {"succeeded", "dead-letter"} : Afforded(a, new, R, b) /\ Afforded(a, new, R, "none")
           /\ b = "retry" => Afforded(a, "queued", R, "none")
           /\ \A n \in R : Afforded(a, s, R \ {n}, b) /\ Afforded(a, "queued", R \ {n}, b)
           /\ Afforded(a, s, {}, "none")
<1>1. Cardinality(R) \in Nat /\ (R # {} => Cardinality(R) > 0) /\ Cardinality({}) = 0
  BY FS_CardinalityType, FS_EmptySet
<1>2. a \notin R => Cardinality(R \cup {a}) = Cardinality(R) + 1
  BY FS_AddElement
<1>3. \A n \in R : Cardinality(R \ {n}) = Cardinality(R) - 1
  BY FS_RemoveElement
<1> USE JobQueueAssumption DEF Afforded, Saves, Reads
<1>4. /\ a < 2 * MaxAttempts
      /\ s = "queued" => \A new \in {"running", "cancelled"} : Afforded(a + 1, new, R, b)
      /\ s = "running" /\ b # "retry" /\ a < MaxAttempts => Afforded(a, s, R, "retry")
      /\ b # "retry" => \A c \in {"none", "bury"} : Afforded(a, s, R, c)
      /\ \A new \in {"succeeded", "dead-letter"} : Afforded(a, new, R, b) /\ Afforded(a, new, R, "none")
      /\ b = "retry" => Afforded(a, "queued", R, "none")
  BY <1>1
<1>5. s = "running" /\ a \notin R /\ a < MaxAttempts => Afforded(a, s, R \cup {a}, b)
  BY <1>1, <1>2
<1>6. ASSUME NEW n \in R PROVE Afforded(a, s, R \ {n}, b) /\ Afforded(a, "queued", R \ {n}, b)
  <2>1. Cardinality(R \ {n}) = Cardinality(R) - 1 /\ Cardinality(R) > 0
    BY <1>1, <1>3
  <2>2. a \in R \ {n} => a \in R
    OBVIOUS
  <2>3. QED
    BY <1>1, <2>1, <2>2
<1>7. Afforded(a, s, {}, "none")
  BY <1>1
<1>8. QED
  BY <1>4, <1>5, <1>6, <1>7

LEMMA ClaimsLeftStep ==
    TypeOK /\ OnlyLatestLease /\ AbsentIsUntouched /\ ClaimsLeft /\ [Next]_vars
    => AbsentIsUntouched' /\ ClaimsLeft'
<1> SUFFICES ASSUME TypeOK, OnlyLatestLease, AbsentIsUntouched, ClaimsLeft, [Next]_vars,
                    NEW j \in Jobs
             PROVE  /\ AffordedBy(j)'
                    /\ status'[j] = "absent" =>
                          attempts'[j] = 0 /\ Retriers(j)' = {} /\ batch'[j] = "none"
  BY DEF AbsentIsUntouched, ClaimsLeft
<1> DEFINE a == attempts[j]
           R == Retriers(j)
           b == batch[j]
           s == status[j]
           Goal == /\ AffordedBy(j)'
                   /\ status'[j] = "absent" =>
                          attempts'[j] = 0 /\ Retriers(j)' = {} /\ batch'[j] = "none"
<1>0. a \in Nat /\ IsFiniteSet(R) /\ Afforded(a, s, R, b)
  BY RetriersFinite, JobQueueAssumption DEF TypeOK, ClaimsLeft, AffordedBy
<1>a. s = "absent" => a = 0 /\ R = {} /\ b = "none"
  BY DEF AbsentIsUntouched
<1>b. \A n \in 1..MaxClaims : <<j, n>> \in Leases /\ JobOf(<<j, n>>) = j
  BY DEF Leases, JobOf
<1>c. ASSUME Afforded(attempts'[j], status'[j], Retriers(j)', batch'[j]) PROVE AffordedBy(j)'
  BY <1>c DEF AffordedBy
<1>d. /\ s = "queued" => \A new \in {"running", "cancelled"} : Afforded(a + 1, new, R, b)
      /\ s = "running" /\ a \notin R /\ a < MaxAttempts => Afforded(a, s, R \cup {a}, b)
      /\ s = "running" /\ b # "retry" /\ a < MaxAttempts => Afforded(a, s, R, "retry")
      /\ b # "retry" => \A c \in {"none", "bury"} : Afforded(a, s, R, c)
      /\ \A new \in {"succeeded", "dead-letter"} : Afforded(a, new, R, b) /\ Afforded(a, new, R, "none")
      /\ b = "retry" => Afforded(a, "queued", R, "none")
      /\ \A n \in R : Afforded(a, s, R \ {n}, b) /\ Afforded(a, "queued", R \ {n}, b)
      /\ Afforded(a, s, {}, "none")
  <2> HIDE DEF a, R, b, s
  <2>1. QED
    BY <1>0, AffordedSteps
<1> USE JobQueueAssumption DEF jobVars, rowVars, handlerVars, worldVars
\* The row or the cron's copy of j changes, or nothing about j does.
<1>1. ASSUME Retriers(j)' = R, attempts'[j] = a, status'[j] = s, batch'[j] = b PROVE Goal
  <2> HIDE DEF Retriers
  <2>1. QED
    BY <1>0, <1>a, <1>c, <1>1
<1>2. ASSUME Retriers(j)' = R, attempts'[j] = a, status'[j] = "queued", s = "absent", batch'[j] = b
      PROVE  Goal
  <2>1. Afforded(0, "queued", {}, "none")
    BY FS_EmptySet DEF Afforded, Saves, Reads
  <2>2. QED
    BY <1>a, <1>c, <1>2, <2>1
<1>3. ASSUME UNCHANGED <<failure, verdict>> PROVE Retriers(j)' = R
  BY <1>3 DEF Retriers
<1>4. ASSUME NEW w \in Workers, ClaimJob(w, j) \/ ClaimCancels(w, j) PROVE Goal
  <2>1. /\ s = "queued" /\ attempts'[j] = a + 1 /\ batch'[j] = b
        /\ status'[j] \in {"running", "cancelled"} /\ UNCHANGED <<failure, verdict>>
    BY <1>4 DEF ClaimJob, ClaimCancels, CountClaim, Head, Ready, TypeOK
  <2>2. Afforded(attempts'[j], status'[j], R, batch'[j])
    BY <1>d, <2>1
  <2>3. QED
    BY <1>3, <1>c, <2>1, <2>2
<1>5. CASE RequeueReads
  <2>1. attempts' = attempts /\ status' = status /\ b = "none" /\ UNCHANGED <<failure, verdict>>
    BY <1>5 DEF RequeueReads
  <2>2. \/ batch'[j] \in {"none", "bury"} /\ (s = "absent" => batch'[j] = "none")
        \/ batch'[j] = "retry" /\ s = "running" /\ a < MaxAttempts
    BY <1>5 DEF RequeueReads, Overdue, RetryOrBury
  <2>3. Afforded(a, s, R, batch'[j])
    BY <1>d, <2>1, <2>2
  <2>4. QED
    BY <1>3, <1>a, <1>c, <2>1, <2>2, <2>3
<1>6. CASE RequeueSaves(j)
  <2>1. /\ attempts'[j] = a /\ batch'[j] = "none" /\ UNCHANGED <<failure, verdict>>
        /\ status'[j] = IF b = "retry" THEN "queued" ELSE "dead-letter"
    BY <1>6 DEF RequeueSaves, SaveFailed, TypeOK
  <2>2. Afforded(a, status'[j], R, "none")
    BY <1>d, <2>1
  <2>3. QED
    BY <1>3, <1>c, <2>1, <2>2
<1>7. ASSUME NEW l \in Leases, NEW message \in BOOLEAN, CompleteCommits(l, message) PROVE Goal
  <2>1. attempts'[j] = a /\ batch'[j] = b /\ Retriers(j)' = R
    BY <1>3, <1>7 DEF CompleteCommits
  <2>2. status'[j] = "succeeded" \/ status'[j] = s \/ (status'[j] = "queued" /\ s = "absent")
    <3> DEFINE new == {d \in Notified(JobOf(l), message) : status[d] = "absent"}
    <3>1. status' = [k \in Jobs |-> IF k = JobOf(l) THEN "succeeded"
                                    ELSE IF k \in new THEN "queued" ELSE status[k]]
      BY <1>7 DEF CompleteCommits
    <3>2. j \in new => status[j] = "absent"
      OBVIOUS
    <3> HIDE DEF new
    <3>3. QED
      BY <3>1, <3>2
  <2>3. CASE status'[j] = "succeeded"
    BY <1>c, <1>d, <2>1, <2>3
  <2>4. QED
    BY <1>1, <1>2, <2>1, <2>2, <2>3
<1>8. ASSUME NEW e \in Requests, EnqueueJob(e) PROVE Goal
  <2>1. /\ attempts'[j] = a /\ batch'[j] = b
        /\ status'[j] = s \/ (s = "absent" /\ status'[j] = "queued")
    BY <1>8 DEF EnqueueJob, TypeOK
  <2>2. QED
    BY <1>1, <1>2, <1>3, <1>8, <2>1 DEF EnqueueJob
<1>9. ASSUME NEW k \in Jobs, k # j, \/ \E w \in Workers : ClaimJob(w, k) \/ ClaimCancels(w, k)
                                    \/ RequeueSaves(k)
      PROVE  Goal
  <2>1. attempts'[j] = a /\ status'[j] = s /\ batch'[j] = b /\ UNCHANGED <<failure, verdict>>
    BY <1>9 DEF ClaimJob, ClaimCancels, CountClaim, RequeueSaves, SaveFailed, TypeOK
  <2>2. QED
    BY <1>1, <1>3, <2>1
\* A fail call changes.
<1>10. ASSUME NEW l \in Leases, FailReads(l) PROVE Goal
  <2> DEFINE n == l[2]
  <2>1. /\ attempts'[j] = a /\ status'[j] = s /\ batch'[j] = b /\ failure[l] = "sent"
        /\ n \in 1..MaxClaims /\ l = <<JobOf(l), n>>
    BY <1>10 DEF FailReads, Leases, JobOf
  <2>2. CASE JobOf(l) = j /\ ValidLease(l) /\ verdict'[l] = "retry"
    <3>1. s = "running" /\ a = n
      BY <2>1, <2>2 DEF ValidLease, OnlyLatestLease
    <3>2. a < MaxAttempts
      BY <1>10, <2>2 DEF FailReads, RetryOrBury, TypeOK
    <3>3. Retriers(j)' = R \cup {a} /\ a \notin R
      <4>1. \A m \in 1..MaxClaims : m # n =>
               failure'[<<j, m>>] = failure[<<j, m>>] /\ verdict'[<<j, m>>] = verdict[<<j, m>>]
        BY <1>b, <1>10, <2>1, <2>2 DEF FailReads, TypeOK
      <4>2. failure'[<<j, n>>] = "read" /\ verdict'[<<j, n>>] = "retry" /\ failure[<<j, n>>] = "sent"
        BY <1>10, <2>1, <2>2 DEF FailReads, TypeOK
      <4>3. QED
        BY <2>1, <3>1, <4>1, <4>2 DEF Retriers
    <3>4. QED
      BY <1>c, <1>d, <2>1, <3>1, <3>2, <3>3
  <2>3. CASE ~(JobOf(l) = j /\ ValidLease(l) /\ verdict'[l] = "retry")
    <3>1. \A m \in 1..MaxClaims : <<j, m>> # l =>
             failure'[<<j, m>>] = failure[<<j, m>>] /\ verdict'[<<j, m>>] = verdict[<<j, m>>]
      BY <1>b, <1>10 DEF FailReads, FailEnds, TypeOK
    <3>2. JobOf(l) = j => ~(failure'[l] = "read" /\ verdict'[l] = "retry") /\ failure[l] # "read"
      BY <1>10, <2>1, <2>3 DEF FailReads, FailEnds, TypeOK
    <3>3. Retriers(j)' = R
      BY <1>b, <3>1, <3>2 DEF Retriers
    <3>4. QED
      BY <1>1, <2>1, <3>3
  <2>4. QED
    BY <2>2, <2>3
<1>11. ASSUME NEW l \in Leases, FailSavesJob(l) PROVE Goal
  <2> DEFINE n == l[2]
  <2>1. /\ UNCHANGED <<attempts, batch, verdict>> /\ failure[l] = "read" /\ JobOf(l) \in Jobs
        /\ failure' = [failure EXCEPT ![l] = "saved"]
        /\ status' = [status EXCEPT ![JobOf(l)] = IF verdict[l] = "retry" THEN "queued"
                                                  ELSE "dead-letter"]
        /\ n \in 1..MaxClaims /\ l = <<JobOf(l), n>>
    BY <1>11, LeaseParts DEF FailSavesJob, SaveFailed, Leases, JobOf
  <2>2. \A m \in 1..MaxClaims : <<j, m>> # l => failure'[<<j, m>>] = failure[<<j, m>>]
    BY <1>b, <2>1 DEF TypeOK
  <2>3. failure'[l] = "saved"
    BY <2>1 DEF TypeOK
  <2>4. CASE JobOf(l) # j
    <3>1. Retriers(j)' = R
      BY <1>b, <2>1, <2>2, <2>4 DEF Retriers
    <3>2. status'[j] = s
      BY <2>1, <2>4 DEF TypeOK
    <3>3. QED
      BY <1>1, <2>1, <3>1, <3>2
  <2>5. CASE JobOf(l) = j /\ verdict[l] = "retry"
    <3>1. n \in R /\ Retriers(j)' = R \ {n}
      BY <2>1, <2>2, <2>3, <2>5 DEF Retriers
    <3>2. status'[j] = "queued"
      BY <2>1, <2>5 DEF TypeOK
    <3>3. QED
      BY <1>c, <1>d, <2>1, <3>1, <3>2
  <2>6. CASE JobOf(l) = j /\ verdict[l] # "retry"
    <3>1. Retriers(j)' = R
      BY <1>b, <2>1, <2>2, <2>3, <2>6 DEF Retriers
    <3>2. status'[j] = "dead-letter"
      BY <2>1, <2>6 DEF TypeOK
    <3>3. QED
      BY <1>c, <1>d, <2>1, <3>1, <3>2
  <2>7. QED
    BY <2>4, <2>5, <2>6
<1>12. ASSUME NEW l \in Leases, FailSavesConnection(l) \/ FailSavesChannel(l) \/ FailReadsOwner(l)
       PROVE  Goal
  <2>1. UNCHANGED <<attempts, status, batch>>
    BY <1>12 DEF FailSavesConnection, FailSavesChannel, FailReadsOwner
  <2>2. /\ failure[l] # "read" /\ failure'[l] # "read"
        /\ \A m \in Leases : m # l => failure'[m] = failure[m] /\ verdict'[m] = verdict[m]
    BY <1>12 DEF FailSavesConnection, FailSavesChannel, FailReadsOwner, FailEnds, TypeOK
  <2>3. Retriers(j)' = R
    BY <1>b, <2>2 DEF Retriers
  <2>4. QED
    BY <1>1, <2>1, <2>3
<1>13. ASSUME NEW w \in Workers, NEW permanent \in BOOLEAN, SendFail(w, permanent) PROVE Goal
  <2> DEFINE l == worker[w].lease
             n == l[2]
  <2>1. UNCHANGED <<attempts, status, batch>> /\ l \in Leases
    BY <1>13 DEF SendFail, TypeOK
  <2>2. /\ failure'[l] = "sent" /\ l = <<JobOf(l), n>>
        /\ \A m \in Leases : m # l => failure'[m] = failure[m] /\ verdict'[m] = verdict[m]
    BY <1>13, <2>1 DEF SendFail, TypeOK, Leases, JobOf
  <2>3. CASE JobOf(l) = j /\ n \in R
    <3>1. Retriers(j)' = R \ {n}
      BY <1>b, <2>2, <2>3 DEF Retriers
    <3>2. QED
      BY <1>a, <1>c, <1>d, <2>1, <2>3, <3>1
  <2>4. CASE ~(JobOf(l) = j /\ n \in R)
    <3>1. Retriers(j)' = R
      BY <1>b, <2>2, <2>4 DEF Retriers
    <3>2. QED
      BY <1>1, <2>1, <3>1
  <2>5. QED
    BY <2>3, <2>4
<1>14. CASE ServerRestarts
  <2>1. attempts'[j] = a /\ status'[j] = s /\ batch'[j] = "none"
    BY <1>14 DEF ServerRestarts
  <2>2. Retriers(j)' = {}
    BY <1>14, <1>b DEF ServerRestarts, Retriers
  <2>3. QED
    BY <1>a, <1>c, <1>d, <2>1, <2>2
<1>15. CASE UNCHANGED <<attempts, status, batch, failure, verdict>>
  BY <1>1, <1>3, <1>15
<1>16. QED
  BY <1>4, <1>5, <1>6, <1>7, <1>8, <1>9, <1>10, <1>11, <1>12, <1>13, <1>14, <1>15 DEF Next, vars,
     DisableChannel, LeaseExpires, BackoffElapses, WorkerStartsOver, SendComplete, CompleteStep,
     CompleteReads, CompleteRollsBack, CompleteRecordsUsage, FailStep

\* However retries, expiries and late saves interleave, no job is claimed twice
\* max_attempts times: each claim below the limit lets its own fail call and the
\* cron queue the job again, once each, and no later copy does.
THEOREM ClaimsBounded == Spec => []AttemptsBounded
<1>1. Init => AbsentIsUntouched /\ ClaimsLeft
  <2> SUFFICES ASSUME Init PROVE AbsentIsUntouched /\ ClaimsLeft
    OBVIOUS
  <2>1. \A j \in Jobs : Retriers(j) = {} /\ batch[j] = "none" /\ attempts[j] \in Nat
    <3>1. \A j \in Jobs, n \in 1..MaxClaims : <<j, n>> \in Leases
      BY DEF Leases
    <3>2. QED
      BY <3>1 DEF Init, Retriers
  <2>2. Finished \cap Waiting = {}
    BY JobQueueAssumption DEF Waiting
  <2>3. \A j \in Jobs : \/ status[j] = "succeeded" /\ attempts[j] = 1
                        \/ status[j] \in {"queued", "absent"} /\ attempts[j] = 0
    BY <2>2 DEF Init
  <2>4. /\ Afforded(1, "succeeded", {}, "none")
        /\ Afforded(0, "queued", {}, "none") /\ Afforded(0, "absent", {}, "none")
    BY FS_EmptySet, JobQueueAssumption DEF Afforded, Saves, Reads
  <2>5. ASSUME NEW j \in Jobs PROVE AffordedBy(j) /\ (status[j] = "absent" => attempts[j] = 0)
    BY <2>1, <2>3, <2>4 DEF AffordedBy
  <2>6. QED
    BY <2>1, <2>5 DEF AbsentIsUntouched, ClaimsLeft
<1>2. TypeOK /\ ClaimsLeft => AttemptsBounded
  <2> SUFFICES ASSUME TypeOK, ClaimsLeft, NEW j \in Jobs PROVE attempts[j] < 2 * MaxAttempts
    BY DEF AttemptsBounded
  <2>1. attempts[j] \in Nat /\ Afforded(attempts[j], status[j], Retriers(j), batch[j])
    BY JobQueueAssumption DEF TypeOK, ClaimsLeft, AffordedBy
  <2>2. QED
    BY <2>1, RetriersFinite, AffordedSteps
<1>3. QED
  BY <1>1, <1>2, ClaimsLeftStep, TypeCorrect, LatestLease, PTL DEF Spec

-----------------------------------------------------------------------------
(***************************************************************************)
(* When no two calls or cron entries hold copies of one job at a time, the *)
(* queue keeps the promise of JobLifecycle: each job is claimed by one     *)
(* worker at a time, at most MaxAttempts times, and finished once.         *)
(***************************************************************************)

\* A call or cron entry that has read a job is the only one that holds a copy.
LEMMA OneWriter ==
    ASSUME SerialWriters, NEW l \in Leases, JobOf(l) \in Jobs
    PROVE  /\ completion[l] = "read" =>
                  /\ batch[JobOf(l)] = "none"
                  /\ \A m \in Leases : JobOf(m) = JobOf(l) =>
                         failure[m] # "read" /\ (completion[m] = "read" => m = l)
           /\ failure[l] = "read" =>
                  /\ batch[JobOf(l)] = "none"
                  /\ \A m \in Leases : JobOf(m) = JobOf(l) =>
                         completion[m] # "read" /\ (failure[m] = "read" => m = l)
<1> DEFINE j == JobOf(l)
<1>1. \A m \in Leases : /\ JobOf(m) = j /\ completion[m] = "read" => <<"complete", m>> \in Writers(j)
                        /\ JobOf(m) = j /\ failure[m] = "read" => <<"fail", m>> \in Writers(j)
  BY DEF Writers
<1>2. batch[j] # "none" => <<"cron", j>> \in Writers(j)
  BY DEF Writers
<1>3. \A x, y \in Writers(j) : x = y
  BY DEF SerialWriters
<1>4. QED
  BY <1>1, <1>2, <1>3

-----------------------------------------------------------------------------
\* The inductive invariant: a copy that is held is up to date, a job that waits has
\* an attempt left, and a written result is that of a job finished by its last claim.
CopiesAreCurrent ==
    /\ \A l \in Leases : completion[l] = "read" => ValidLease(l)
    /\ \A l \in Leases : failure[l] = "read" => ValidLease(l)
    /\ \A l \in Leases : failure[l] = "read" /\ verdict[l] = "retry"
                             => attempts[JobOf(l)] < MaxAttempts
    /\ \A j \in Jobs : batch[j] # "none" => status[j] = "running"
    /\ \A j \in Jobs : batch[j] = "retry" => attempts[j] < MaxAttempts
    /\ \A j \in Jobs : status[j] \in {"absent", "queued"} => attempts[j] < MaxAttempts
    /\ \A l \in results : status[JobOf(l)] = "succeeded" /\ attempts[JobOf(l)] = l[2]

LEMMA SerialStep ==
    /\ TypeOK /\ OnlyLatestLease /\ SerialWriters /\ CopiesAreCurrent
    /\ [Next /\ SerialWriters']_vars
    => SerialWriters' /\ CopiesAreCurrent'
<1> SUFFICES ASSUME TypeOK, OnlyLatestLease, SerialWriters, CopiesAreCurrent,
                    [Next /\ SerialWriters']_vars
             PROVE  SerialWriters' /\ CopiesAreCurrent'
  OBVIOUS
<1>0. SerialWriters'
  <2>1. CASE UNCHANGED vars
    BY <2>1 DEF vars, handlerVars, SerialWriters, Writers
  <2>2. QED
    BY <2>1
<1>a. \A l \in Leases : JobOf(l) \in Jobs
  BY LeaseParts
<1>b. \A j \in Jobs : attempts[j] \in Nat
  BY JobQueueAssumption DEF TypeOK
<1>c. \A l \in results : l \in Leases
  BY DEF TypeOK
<1> USE JobQueueAssumption DEF CopiesAreCurrent, ValidLease, TypeOK, CompleteStage, FailStage,
        jobVars, rowVars, handlerVars, worldVars
<1>d. SUFFICES CopiesAreCurrent'
  BY <1>0
<1>1. CASE /\ UNCHANGED <<status, attempts, lease, batch, verdict, results>>
           /\ \A l \in Leases : completion'[l] = "read" => completion[l] = "read"
           /\ \A l \in Leases : failure'[l] = "read" => failure[l] = "read"
  <2>1. \A l \in Leases : ValidLease(l)' <=> ValidLease(l)
    BY <1>1
  <2> HIDE DEF ValidLease
  <2>2. QED
    BY <1>1, <2>1
<1>2. ASSUME NEW r \in Requests, EnqueueJob(r) PROVE CopiesAreCurrent'
  BY <1>a, <1>c, <1>2 DEF EnqueueJob, Jobs
<1>3. ASSUME NEW w \in Workers, NEW j \in Jobs, ClaimJob(w, j) \/ ClaimCancels(w, j)
      PROVE  CopiesAreCurrent'
  <2>1. /\ UNCHANGED <<completion, failure, verdict, batch, results>> /\ status[j] = "queued"
        /\ attempts' = [attempts EXCEPT ![j] = @ + 1]
        /\ \E s \in {"running", "cancelled"} : status' = [status EXCEPT ![j] = s]
        /\ \E n \in Nat : lease' = [lease EXCEPT ![j] = n]
    <3>1. attempts'[j] \in Nat
      BY <1>b, <1>3 DEF ClaimJob, ClaimCancels, CountClaim
    <3>2. QED
      BY <1>3, <3>1 DEF ClaimJob, ClaimCancels, CountClaim, Head, Ready
  <2>2. QED
    BY <1>a, <1>c, <2>1
<1>4. ASSUME NEW w \in Workers, SendComplete(w) PROVE CopiesAreCurrent'
  BY <1>1, <1>4 DEF SendComplete
<1>5. ASSUME NEW w \in Workers, NEW permanent \in BOOLEAN, SendFail(w, permanent)
      PROVE  CopiesAreCurrent'
  BY <1>5 DEF SendFail
<1>6. ASSUME NEW l \in Leases, CompleteReads(l) PROVE CopiesAreCurrent'
  BY <1>6 DEF CompleteReads
<1>7. ASSUME NEW l \in Leases, NEW message \in BOOLEAN, CompleteCommits(l, message)
      PROVE  CopiesAreCurrent'
  <2> DEFINE j   == JobOf(l)
             new == {d \in Notified(j, message) : status[d] = "absent"}
  <2>1. /\ UNCHANGED <<attempts, failure, verdict, batch>> /\ completion[l] = "read"
        /\ completion' = [completion EXCEPT ![l] = "committed"]
        /\ results' = results \cup {l} /\ lease' = [lease EXCEPT ![j] = 0]
        /\ status' = [k \in Jobs |-> IF k = j THEN "succeeded"
                                     ELSE IF k \in new THEN "queued" ELSE status[k]]
    BY <1>7 DEF CompleteCommits
  <2>2. status[j] = "running" /\ lease[j] = l[2] /\ j \in Jobs
    BY <1>a, <2>1
  <2>3. \A d \in new : status[d] = "absent"
    OBVIOUS
  <2>4. attempts[j] = l[2]
    BY <2>2 DEF OnlyLatestLease
  <2> HIDE DEF new
  <2>5. QED
    BY <1>a, <1>c, <2>1, <2>2, <2>3, <2>4, OneWriter
<1>8. ASSUME NEW l \in Leases, CompleteRollsBack(l) \/ CompleteRecordsUsage(l)
      PROVE  CopiesAreCurrent'
  BY <1>1, <1>8 DEF CompleteRollsBack, CompleteRecordsUsage
<1>9. ASSUME NEW l \in Leases, FailReads(l) PROVE CopiesAreCurrent'
  BY <1>a, <1>9 DEF FailReads, FailEnds, RetryOrBury
<1>10. ASSUME NEW l \in Leases, FailSavesJob(l) PROVE CopiesAreCurrent'
  <2> DEFINE j == JobOf(l)
  <2>1. /\ UNCHANGED <<attempts, completion, verdict, batch, results>> /\ failure[l] = "read"
        /\ failure' = [failure EXCEPT ![l] = "saved"] /\ lease' = [lease EXCEPT ![j] = 0]
        /\ status' = [status EXCEPT ![j] = IF verdict[l] = "retry" THEN "queued"
                                           ELSE "dead-letter"]
    BY <1>10 DEF FailSavesJob, SaveFailed
  <2>2. status[j] = "running" /\ j \in Jobs
    BY <1>a, <2>1
  <2>3. QED
    BY <1>a, <1>c, <2>1, <2>2, OneWriter
<1>11. ASSUME NEW l \in Leases, FailReadsOwner(l) PROVE CopiesAreCurrent'
  BY <1>1, <1>11 DEF FailReadsOwner
<1>12. ASSUME NEW l \in Leases, FailSavesConnection(l) \/ FailSavesChannel(l)
       PROVE  CopiesAreCurrent'
  BY <1>12 DEF FailSavesConnection, FailSavesChannel, FailEnds
<1>13. CASE RequeueReads
  <2>1. UNCHANGED <<status, attempts, lease, completion, failure, verdict, results>>
    BY <1>13 DEF RequeueReads
  <2>2. ASSUME NEW j \in Jobs, batch'[j] # "none"
        PROVE  status[j] = "running" /\ (batch'[j] = "retry" => attempts[j] < MaxAttempts)
    BY <1>13, <2>2 DEF RequeueReads, Overdue, RetryOrBury
  <2>3. QED
    BY <2>1, <2>2
<1>14. ASSUME NEW j \in Jobs, RequeueSaves(j) PROVE CopiesAreCurrent'
  <2>1. /\ UNCHANGED <<attempts, completion, failure, verdict, results>> /\ batch[j] # "none"
        /\ batch' = [batch EXCEPT ![j] = "none"] /\ lease' = [lease EXCEPT ![j] = 0]
        /\ status' = [status EXCEPT ![j] = IF batch[j] = "retry" THEN "queued"
                                           ELSE "dead-letter"]
    BY <1>14 DEF RequeueSaves, SaveFailed
  <2>2. QED
    BY <1>a, <1>c, <2>1, OneWriter
<1>15. CASE ServerRestarts
  <2>1. UNCHANGED <<status, attempts, lease, results>>
    BY <1>15 DEF ServerRestarts
  <2>2. /\ \A l \in Leases : completion'[l] = "none" /\ failure'[l] = "none"
        /\ \A j \in Jobs : batch'[j] = "none"
    BY <1>15 DEF ServerRestarts
  <2>3. QED
    BY <2>1, <2>2
<1>16. CASE UNCHANGED <<status, attempts, lease, batch, verdict, results, completion, failure>>
  BY <1>1, <1>16
<1>17. QED
  BY <1>2, <1>3, <1>4, <1>5, <1>6, <1>7, <1>8, <1>9, <1>10, <1>11, <1>12, <1>13, <1>14,
     <1>15, <1>16 DEF Next, vars, DisableChannel, LeaseExpires, BackoffElapses, CompleteStep,
     FailStep, WorkerStartsOver

LEMMA SerialInit == Init => TypeOK /\ OnlyLatestLease /\ SerialWriters /\ CopiesAreCurrent
<1> SUFFICES ASSUME Init PROVE TypeOK /\ OnlyLatestLease /\ SerialWriters /\ CopiesAreCurrent
  OBVIOUS
<1>1. TypeOK
  BY TypeInit
<1>2. OnlyLatestLease
  BY DEF Init, OnlyLatestLease
<1>3. SerialWriters
  <2>1. \A j \in Jobs : Writers(j) = {}
    BY DEF Init, Writers
  <2>2. QED
    BY <2>1 DEF SerialWriters
<1>4. CopiesAreCurrent
  <2>1. \A l \in results : JobOf(l) \in Finished /\ JobOf(l) \in Jobs /\ l[2] = 1
    BY JobQueueAssumption DEF Init, JobOf, Jobs
  <2>2. QED
    BY <2>1, JobQueueAssumption DEF Init, CopiesAreCurrent
<1>5. QED
  BY <1>1, <1>2, <1>3, <1>4

\* The queue with overlapping copies excluded stays in these states.
SerialInv == TypeOK /\ OnlyLatestLease /\ SerialWriters /\ CopiesAreCurrent

LEMMA SerialInvariant == SerialSpec => []SerialInv
<1>1. Init => SerialInv
  BY SerialInit DEF SerialInv
<1>2. SerialInv /\ [Next /\ SerialWriters']_vars => SerialInv'
  <2> SUFFICES ASSUME SerialInv, [Next /\ SerialWriters']_vars PROVE SerialInv'
    OBVIOUS
  <2>1. [Next]_vars
    OBVIOUS
  <2>2. QED
    BY <2>1, TypeStep, LatestLeaseStep, SerialStep DEF SerialInv
<1>3. QED
  BY <1>1, <1>2, PTL DEF SerialSpec

\* No job is finished twice, as docs/WORKER_DEPLOYMENT.md says, as long as no call
\* or cron entry reads a job while another one still holds a copy of it.
THEOREM SerialFinishedOnce == SerialSpec => []FinishedOnce
<1>1. SerialInv => FinishedOnce
  <2> SUFFICES ASSUME SerialInv, NEW l \in results, NEW m \in results, JobOf(l) = JobOf(m)
               PROVE  l = m
    BY DEF FinishedOnce
  <2>1. l \in Leases /\ m \in Leases /\ l[2] = m[2]
    BY DEF SerialInv, CopiesAreCurrent, TypeOK
  <2>2. QED
    BY <2>1 DEF Leases, JobOf
<1>2. QED
  BY <1>1, SerialInvariant, PTL

-----------------------------------------------------------------------------
\* Each step of the queue is a step of the lifecycle of one job, or none.
LEMMA LifecycleStep == SerialInv /\ [Next]_vars => [Lifecycle!Next]_(Lifecycle!vars)
<1> SUFFICES ASSUME SerialInv, [Next]_vars PROVE [Lifecycle!Next]_(Lifecycle!vars)
  OBVIOUS
<1> USE JobQueueAssumption DEF Lifecycle!Next, Lifecycle!vars, jobVars, rowVars, handlerVars,
        worldVars
<1>0. TypeOK /\ OnlyLatestLease /\ CopiesAreCurrent
  BY DEF SerialInv
<1>1. ASSUME NEW r \in Requests, EnqueueJob(r) PROVE Lifecycle!Next
  <2>1. status \in [Jobs -> JobStatus] /\ r \in Jobs
    BY <1>0 DEF TypeOK, Jobs
  <2>2. Lifecycle!Enqueue(r)
    BY <1>1, <2>1 DEF EnqueueJob, Lifecycle!Enqueue, Lifecycle!Queued, Lifecycle!Absent
  <2>3. QED
    BY <2>1, <2>2
<1>2. ASSUME NEW w \in Workers, NEW j \in Jobs, ClaimJob(w, j) \/ ClaimCancels(w, j)
      PROVE  Lifecycle!Next
  <2>1. status[j] = "queued" /\ attempts[j] < MaxAttempts
    BY <1>0, <1>2 DEF ClaimJob, ClaimCancels, Head, Ready, CopiesAreCurrent
  <2>2. Lifecycle!Claim(j)
    BY <1>2, <2>1 DEF ClaimJob, ClaimCancels, CountClaim, Lifecycle!Claim
  <2>3. QED
    BY <2>2
<1>3. ASSUME NEW l \in Leases, NEW message \in BOOLEAN, CompleteCommits(l, message)
      PROVE  Lifecycle!Next
  <2> DEFINE j   == JobOf(l)
             new == {d \in Notified(j, message) : status[d] = "absent"}
  <2>1. j \in Jobs /\ status[j] = "running" /\ attempts[j] = l[2] /\ l = <<j, l[2]>>
    BY <1>0, <1>3, LeaseParts DEF CompleteCommits, CopiesAreCurrent, ValidLease, OnlyLatestLease,
       Leases, JobOf
  <2>2. new \in SUBSET Lifecycle!Absent
    BY DEF Notified, Lifecycle!Absent, Jobs
  <2>3. status' = [Lifecycle!Queued(new) EXCEPT ![j] = "succeeded"]
    BY <1>3, <2>1 DEF CompleteCommits, Lifecycle!Queued
  <2>4. results' = results \cup {<<j, attempts[j]>>} /\ UNCHANGED attempts
    BY <1>3, <2>1 DEF CompleteCommits
  <2> HIDE DEF new, j
  <2>5. Lifecycle!Finish(j)
    BY <2>1, <2>2, <2>3, <2>4 DEF Lifecycle!Finish
  <2>6. QED
    BY <2>1, <2>5
<1>4. ASSUME NEW j \in Jobs, NEW v \in {"retry", "bury", "none"}, SaveFailed(j, v, TRUE) \/ SaveFailed(j, v, FALSE),
             status[j] = "running", v = "retry" => attempts[j] < MaxAttempts,
             UNCHANGED results
      PROVE  Lifecycle!Next
  <2>1. Lifecycle!Retry(j) \/ Lifecycle!Bury(j)
    BY <1>4 DEF SaveFailed, Lifecycle!Retry, Lifecycle!Bury
  <2>2. QED
    BY <2>1
<1>5. ASSUME NEW l \in Leases, FailSavesJob(l) PROVE Lifecycle!Next
  <2>1. JobOf(l) \in Jobs /\ verdict[l] \in {"retry", "bury", "none"}
    BY <1>0, LeaseParts DEF TypeOK, Verdict
  <2>2. QED
    BY <1>0, <1>4, <1>5, <2>1 DEF FailSavesJob, CopiesAreCurrent, ValidLease
<1>6. ASSUME NEW j \in Jobs, RequeueSaves(j) PROVE Lifecycle!Next
  <2>1. batch[j] \in {"retry", "bury", "none"}
    BY <1>0 DEF TypeOK, Verdict
  <2>2. QED
    BY <1>0, <1>4, <1>6, <2>1 DEF RequeueSaves, CopiesAreCurrent
<1>7. CASE UNCHANGED <<status, attempts, results>>
  BY <1>7
<1>8. QED
  BY <1>1, <1>2, <1>3, <1>5, <1>6, <1>7 DEF Next, vars, DisableChannel, LeaseExpires,
     BackoffElapses, SendComplete, SendFail, WorkerStartsOver, CompleteStep, CompleteReads,
     CompleteRollsBack, CompleteRecordsUsage, FailStep, FailReads, FailReadsOwner,
     FailSavesConnection, FailSavesChannel, RequeueReads, ServerRestarts

\* Under the same condition the queue implements the lifecycle the documentation
\* promises: one lease at a time, at most MaxAttempts of them, one result, one end.
THEOREM SerialImplementsLifecycle == SerialSpec => LifecycleSpec
<1>1. Init => Lifecycle!Init
  BY DEF Init, Lifecycle!Init
<1>2. SerialInv /\ [Next /\ SerialWriters']_vars => [Lifecycle!Next]_(Lifecycle!vars)
  <2>1. [Next /\ SerialWriters']_vars => [Next]_vars
    OBVIOUS
  <2>2. QED
    BY <2>1, LifecycleStep
<1>3. QED
  BY <1>1, <1>2, SerialInvariant, PTL DEF SerialSpec, LifecycleSpec, Lifecycle!Spec
=============================================================================
