# LeaguePilot: a verification project

TLA+ modules, TLC runs and TLAPS proofs for the parts of LeaguePilot whose
correctness depends on what happens at the same time as something else, and for
the algorithms whose output is hard to check by eye. Every definition is
translated from the source; `PROJECT.json` names the lines behind each one.

    tlc -workers 2 -config MCJobQueue_delivery.cfg MCJobQueue      # a run
    tlapm JobQueueProofs.tla                                       # proofs

## The system

LeaguePilot reads a fantasy league from ESPN, analyses it and proposes moves.
Its hosted edition has five programs; the repository also holds a
single-machine edition (`app/main.py`, its routers and its page).

| part | state it keeps | operations | interacts with |
|---|---|---|---|
| Control plane (`cloudpod/pb_hooks`, PocketBase) | job_runs, espn_connections, recommendations, snapshots, reports, notification_channels, usage and audit rows | bootstrap, save connection, sync, analysis, review, channel create/disable; claim, complete, fail, heartbeat for workers; requeue cron, three sweep crons | worker and dashboard over HTTP; dashboard over the realtime stream |
| Cloud worker (`app/cloud_worker.py`) | the job and lease it holds | poll loop: heartbeat, claim, fetch and analyse or deliver, complete or fail | control plane, ESPN, chat services |
| Dashboard (`web/`) | selected league, its rows, the stream, the analysis it follows, the form that connects a league | load, select, refresh, review, sync, analyse, realtime events, discover and save a connection | control plane and ESPN through stateless Next.js routes |
| Authorization server (`app/auth_server`) | pending requests and throttles (memory), clients, codes, grants, keys (SQLite), fetched documents | register, authorize, token, refresh, revoke, introspect, key rotation | MCP clients, gateway, control plane |
| MCP gateway (`app/mcp_gateway`) | the cached key set | verify a bearer, read-only tools | authorization server, control plane |
| Local edition (`app/routers`, `app/services`, `app/static`) | the same tables in SQLite, sessions; cookies and panels of its page | sign in, connect, sync, run jobs, decide | ESPN, chat services |
| Algorithms (`app/services/analysis.py`, `availability.py`) | none | optimal lineup, swaps, waivers, trades, alerts | called by worker and local edition |

What is hard in it:

* **Concurrency without transactions.** PocketBase runs handlers concurrently and
  serialises only single saves and transactions. `claim` is one transaction.
  `complete` validates the lease before it opens its transaction; `fail`, `review`
  and the requeue cron open none: each of their saves works from an older copy.
  The local server's handlers each keep the rows they read for all their commits.
* **Failure.** A worker may die at any point, a server may restart between two
  saves, an answer may be lost after its handler has committed.
* **Ordering.** Completions of one league commit in any order; a page's answers,
  events and cookies arrive in any order; documents are fetched across an await.
* **Time.** Leases that only a cron looks at, backoff, idempotency keys that hold a
  minute or an hour, keys that sign, verify and are cached for different periods.

The full list of hazards, with the line of each and the properties that would show
it going wrong, is in `PROJECT.json`.

## Modules

| module | models |
|---|---|
| `JobQueue` | job_runs with claim, complete, fail, cron, enqueue, disable; workers; restarts |
| `JobLifecycle` | abstract: the life of a job the documentation promises, one atomic step per event |
| `Recommendations` | retiring and inserting at a completion; reviews |
| `ConnectionSync` | PUT connections/espn, the sync routes with their idempotency keys, the jobs' verdict on the connection |
| `Bootstrap` | profile, workspace and membership, looked up and saved one after the other |
| `Sweep` | the inactive sweep, which pages through a set that changes |
| `Lineup`, `Trades` | optimal lineup, swaps, alerts and waiver claims; the trade search |
| `Ranking` | Python's stable sort of numbered things, which both use |
| `LeagueScope` | the hook `useLeagueScope`, its page and its event stream |
| `AnalysisPolling` | how the dashboard follows the analysis it has asked for |
| `ConnectForm` | the two steps in which a league is connected |
| `AuthGrants` | consent, codes, grants, refresh rotation, revocation, the check at the gateway |
| `SigningKeys` | key rotation, the published set, the gateway's cached copy, tokens in use |
| `SignInThrottle` | the two throttles of overlapping sign-ins, with eviction |
| `ClientMetadata` | registration, documents of URL clients, the check of a redirect URI |
| `LocalDecisions` | analyses of the local edition that replace proposals, and decisions on them |
| `LocalRuns` | saves of the local connection against syncs and scheduled runs |
| `LocalSession` | cookies, sessions and CSRF tokens of two tabs |
| `Console` | the handlers of the local page, its loads, panels and buttons |
| `MCJobQueue`, `MCRecommendations`, `MCLeagueScope`, `MCAuthGrants` | constants of the runs |
| `MCServers`, `MCEditions`, `MCAuthServer`, `MCWork` | several components in one run, see below |
| `*Proofs` | theorems about the modules they extend |

A host module chooses one `part` at the start and then takes only that component's
steps; the others rest. The components of a host share no state in the code, so
nothing is lost by not interleaving them, and one run answers for all of them.

**JobQueue.** The columns the handlers read are variables of the same names:
`status`, `attempts`, `lease` (the token hash: the number of the claim whose token
is valid, 0 when empty), `expired` (lease_expires_at has passed), `due`
(scheduled_for has come), `connection`, `channel`, `usage`; `results` is the set
of leases whose completion wrote a snapshot, recommendations and report.
`completion`, `failure`, `verdict`, `copy` and `batch` hold a handler's local
state between two database accesses. Saving a copy writes only what differs from
it (PocketBase does so), hence attempts, which no late handler sets, are never
turned back, and a channel that was read as inactive is not written inactive
again. A lost answer is `SendFail` from the state "completing" or a worker that
starts over while the handler goes on. Jobs are requests (sync and analyses) and
deliveries, the pair of a request and a channel. The ESPN connection is one row.

**JobLifecycle** is what docs/WORKER_DEPLOYMENT.md:53-64 describes. JobQueue
instantiates it `WITH` a mapping of its state: the status is the life of a job, its
attempts are the claims, its results the outcomes. `SerialSpec`, under which no two
handlers hold copies of one job, implements it; `Spec` does not, which is what the
run overlap is about.

**Recommendations.** A batch is the outcome of one job: `Complete` retires, in one
transaction, the open rows of its league (or of none) and of the kinds it speaks
for, and inserts its own. A review is `ReviewReads`, `ReviewSaves`, `ReviewAudits`.
`order` numbers the commits, as history for the properties.
`SerialReviewSpec` is the same without anything between a review's check and save.

**ConnectionSync.** A connection's row carries the number of the save its settings
come from, so that "these settings were tried" can be said. A PUT handler reads,
saves and then enqueues under the key of the hour, finding an older job of that key
or not. A job reads the row at its claim and writes its verdict at its end.

**Lineup, Trades.** Functions over small rosters; the run has one step per set of
inputs, and the properties compare with a search over all assignments (a lineup's
value is that of the best legal assignment, whatever order the code fills slots
in). Points are in twentieths, so that the code's factors stay integral. A sort is
`Ranking!Sorted`, not an operator of the community modules: those take the order as
an operator argument, about which nothing can be proved here.

**LeagueScope.** A load asks its requests at once and shows the answers together if
`generation` has not moved. Rows are versions: a read returns the version of the
moment. `rendered` is what callbacks and effects have captured, `waiting` the
leagues captured by callbacks that await a sync or review. The stream is
`connecting`, `open`, then `live` or, when the subscription failed, `deaf`.

**ConnectForm.** `request` is what a handler has closed over, `form` what the user
sees and can edit meanwhile. A link stands for what the parser finds in it: a league
and perhaps a team. `found` and `astray` are history: what ESPN has answered for,
and leagues saved when the list of teams and the link may have come apart.

**AuthGrants.** The authorization server is one asyncio process whose handlers await
only once between accesses to their state: while CloudPod checks the password. So
the consent form is `Submit` followed by one of `SignInFails`, `SignInBreaks` and
`SignInSucceeds`, and every other handler is one step. `pending` and `attempts`
are the dictionary in memory, which a restart empties; `code`, `grant` and
`refresh` are used_at, revoked_at and refresh_token_hash. Secrets are names: a code
is named after its submission, a grant after its code, a token after its grant and
number. `Answer` may be lost. A call the server refuses without a change is left
out, save `RefreshRefused`, which the history variable `reused` records.
`CallArrives` and `CallIsChecked` are the gateway's verification, before and after
its question to the server. Expiry (`Lapse`) comes in any order.

**SigningKeys, SignInThrottle, ClientMetadata** have a clock, since their subject is
how periods relate. A token is signed with a key read up to `MintDelay` earlier; a
document is stored up to `FetchTime` after it was asked for, perhaps over a newer
one. The throttle is asked before the sign-in is awaited and told after it.

**Local edition.** `LocalDecisions`, `LocalRuns`: a handler is split at its commits,
and a commit writes only the columns changed since the row was read. `LocalSession`
keeps a tab's remembered token and the shared cookies apart, since answers set
cookies in any order. In `Console` a handler is a script of requests, each of which
may fail, ended by loads of some panels; `Early` are the handlers whose button a
load of the connections enables again before they are done.

## Runs

| run | parts and bounds | shows |
|---|---|---|
| delivery | JobQueue: 1 finished request, 1 channel, 2 attempts, 1 worker, 1 restart | columns and leases agree, attempts under twice the limit, results back every success, channels stay off |
| retries | JobQueue: 1 request, 2 attempts, 3 claims, 1 restart, fair | it settles; dead letters are earned |
| work | MCWork: JobQueue (1 request and its delivery, 2 attempts, 1 restart, no overlapping copies), LocalSession, LocalRuns, LocalDecisions | refinement of JobLifecycle; sessions, connections and decisions of the local edition |
| overlap (violation) | JobQueue: 2 workers | a job finished twice |
| superseding | MCServers: Recommendations, ConnectionSync, Bootstrap, Sweep, Lineup, Trades | twelve properties, one to three per part |
| double_review (violation) | Recommendations: 2 reviews | a decision replaced |
| scope_steady | MCEditions: LeagueScope, Console, ConnectForm, fair | what pages show, that loads end and buttons come back, that only found teams are saved |
| scope_refresh (violation) | LeagueScope: 2 leagues, 2 clicks | another league's rows under the selected one |
| scope_polling (violation) | LeagueScope: 1 league, 1 change, fair | a deaf stream is never noticed |
| grants | MCAuthServer: AuthGrants, SigningKeys, SignInThrottle, ClientMetadata | single use, replay, revocation, keys, guesses, redirect URIs |
| reuse (violation) | AuthGrants: 1 request, 1 submission | a reused refresh token revokes nothing |
| following (violation) | AnalysisPolling: 1 click, 2 answers under way, fair | an analysis the page never sees end |

Why the bounds let the interesting cases happen:

* *JobQueue.* With two attempts a job is retried once, overtaken by the cron, fails
  late and runs again after its last attempt: three claims are reached, which
  `AttemptsBounded` says is the most, so `MaxClaims` (4, 3 in retries) cuts nothing.
  One worker suffices for overlap with the cron and with its own lost calls; the
  second is needed only where two hold a lease of one job. The failure limit of 5
  is 2, so that two failures reach it.
* *Recommendations* 3 sweeps of 2 leagues, 2 reviews, 1 restart. *ConnectionSync* 1
  connection, 2 saves within one hour, sync requests in 2 minutes, 2
  attempts. *Bootstrap* 3 calls of one user, 1 restart. *Sweep* 5 connections in pages of 2, so that
  one that leaves shifts a later page.
* *Lineup* 4 players of two positions, one eligible at both, in 3 forms each, 3 free
  agents, two slot lists, every current lineup. `EmptyCost` and `Sentinel` are the
  code's 1000 and 10000. *Trades* 5 and 6 players, 1728 vectors of values, two lists
  of starting slots.
* *LeagueScope* 2 clicks allow a sync and a switch; 1 change gives old and new rows.
  *Console* all 12 kinds of handler, each beside each, 2 changes by others. *ConnectForm*
  two leagues that share a team number, one private; one pair of credentials, which
  owns two teams of one league and one of the other; 3 requests: a wrong save, a
  failed one and one more.
* *AuthGrants* 2 submissions overlap on one request or use one each, so that a replay
  meets two codes of one owner; 2 answers make one rotated token; `MaxUses` = 2
  leaves room for a second grant of a code, which only a fault would make.
  Requests and submissions are symmetric there, and no liveness is checked in that
  run. *SigningKeys* 3 keys, periods of 2, delay 1, published for 4, until 9: two
  rotations with tokens of both. *SignInThrottle* 4 attempts of 2 accounts on 1
  network, limits 1 and 2, window 2, room for 1 entry. *ClientMetadata* 1 client of
  each kind, 2 URIs of which one must match exactly, 2 overlapping calls, a cache
  period of 2 and a fetch of 1.
* *LocalSession* 2 tabs, 3 calls each, 2 sessions: one tab's retry can meet the
  other's rotation and its sign-in. *LocalRuns* 1 sync, 1 full run, 2 saves, 1
  restart. *LocalDecisions* 2 lineup analyses, 1 of waivers, 2 decision calls, 1 restart.

Bounds are guards, named `Max...`, `Last...` or `Horizon`. No run checks for
deadlock: a queue whose jobs have all ended, a page nobody touches, and a server
whose requests have all ended have nothing left to do.

### Fairness

* *JobQueue, `FairSpec`:* weak fairness of `Machinery` as a whole: time, the worker,
  the calls in progress and the cron. It is the weakest assumption that makes sense
  (something that can go on does go on), and it is enough because all that can happen
  to a job is bounded. Crashes, users and the choice of an outcome are not fair: a
  job may fail for ever, which dead-letters it.
* *ConnectionSync:* likewise of the steps of all jobs, which the queue's own run
  justifies.
* *LeagueScope, Console:* likewise: requests are answered or fail (fetch has a timeout
  upstream), React renders, events are delivered, the stream is opened again with
  backoff. Nobody clicks, writes or drops.
* *AnalysisPolling:* the page polls and shows what it was answered; of the routes and
  the worker strong fairness is assumed, so that the violation is not for want of
  an answer.

### What the violations are

* **overlap.** `docs/WORKER_DEPLOYMENT.md:58-60` says a stale worker cannot
  overwrite a finished job. The lease is validated before the transaction opens,
  and two completions can both commit. The run work and `SerialFinishedOnce` say
  when the sentence is true: no two handlers hold copies of one job at once.
* **double_review.** The comment of the review route says a second submit returns
  400; two concurrent ones both pass the check.
* **scope_refresh.** Rule 2 of the hook guards against late answers of a superseded
  load, but a late *call* of an old `refresh` makes a load of the old league the
  newest one.
* **scope_polling.** The realtime proxy counts on a polling fallback that the
  client does not have.
* **reuse.** `docs/AUTH_SERVER.md:22` says that replay of a refresh token
  invalidates the grant; the rotated hash is overwritten, so nothing recognises it.
* **following.** The dashboard tells its user that the status will refresh
  automatically, and polls the bootstrap route for it, which lists no job. The page
  shows the analysis as queued, and its buttons disabled, until it is reloaded.

### Divergences seen and not made into runs

* `auth_server/keys.py:64-66` speaks of verifiers that pick up a new key in time;
  the gateway fetches the key set once in its life. `StaleOnlyForNewKeys` says what
  is true: only tokens of keys younger than the cached set are refused.
* `auth_server/settings.py:41-43` promises one extra period in which a retired key
  is published; it is two days, whatever the period.
* `web/app/api/leaguepilot/connections/espn/route.ts:22` says that saving enqueues a
  sync; within an hour of the last save it finds that job, perhaps ended.
  `SavedIsTried` says which saves are tried.
* The sync button of the local page is enabled by a load of the connections while
  the sync goes on.
* In the connect form the link can be edited while the teams of the old one are being
  found; a team chosen then is saved under the other league. A failed save of a
  preselected team brings back an old or an empty list. `SavedWasFound` excepts
  exactly these two (`astray`).
* The bootstrap route lists no league either, so that the dashboard's panel for a
  first connection is always shown.

## Proofs

Every invariant and every action property that a passing run checks is also a
theorem: for all values of the constants that satisfy the named assumptions
(`JobQueueAssumption` and its like), that is for any number of jobs, channels,
workers, claims, restarts, leagues, batches, reviews, requests, clicks, tabs, grants,
keys, clients, saves, runs, players and slots. The run is a small instance of the
theorem.

* `JobQueueProofs`: type correctness; `OnlyLatestLease`; `DeadLetterEarned`, whose
  inductive form says the same of verdicts that have been reached but not saved;
  `ChannelStaysOff` and `FailingChannelIsOff`, which rest on the saved row being a
  function of the copy and of a row that can only have been switched off since;
  `BackedByResults`, strengthened by what a call that has committed or validated
  its lease knows (its message was posted, its request had finished).
  `AttemptsBounded` is a count. A claim needs the job queued, and what queues it
  again is the save of a copy that was read while it was running with an attempt left:
  of one claim, at most once by its fail call and once by the cron. The invariant
  `ClaimsLeft` adds up the attempts made, the saves that may still come and
  the reads that may still lead to one, and stays below `2 * MaxAttempts`.
  Under `SerialSpec`, a valid lease at the check is still valid at the save, since
  whoever could end it would hold a copy too. From that, `FinishedOnce` and step
  simulation of JobLifecycle.
* `RecommendationsProofs`: three invariants of the run superseding and type
  correctness. The induction carries that ranks are those of commits already made,
  and that a superseded row's cause has a higher rank. Under `SerialReviewSpec` what a
  review has found open stays open until it saves, which gives `DecisionIsFinal`:
  what the run double_review refutes is true as long as nothing comes between.
* `ConnectionProofs`: `ConnectedIsProven` (a running job has read the newest save, or
  that save met a job at work), `AnsweredIsComplete` (which of the three rows a call
  at each step has seen), and `SavedWasFound`. The last one's invariant says of the
  list, of a discovery, of a save under way and of a saved row that their league, team and
  credentials belong together, each as long as its own history bit is down. And
  `SkippedForCause` of the sweep: as long as nobody before a connection has been
  unlinked, no fewer are linked before it than were, so that the offset cannot have
  passed it without a page that held it.
* `LeagueScopeProofs`: two invariants. `Fresh`: versions told, read and shown are no
  newer than the rows, and what the current load has read is no older than every
  event and than the page; it is inductive because every event begins a load.
  `Scoped`: the current load is for the selected league or for none; it needs
  `SteadySpec`, in which nobody switches leagues while a sync or review waits.
* `AuthGrantsProofs`: two invariants. `Derivation`: a submission that has not
  succeeded has no code, a code with a grant is used, a replayed code is used, and
  a call that was dead on arrival has a dead grant still. `Counting`: the counter in
  memory is the number of failed submissions and a request at the limit has left
  the store; a request enters it only once. `RevocationIsFinal` needs types alone.
* `AuthServerProofs`: a live token's key is published still, because it was retired
  no earlier than the delay of signing allows; the cached set holds every key that
  is no younger; guesses within a window are at most the limit and those that
  overlapped; an account is refused only for failures within the window. And
  `AcceptedWasListed`: every row and every fetch under way is backed by a document
  the client has had at a time its deadline bounds, and a row ends with its period.
* `LocalProofs`: `LineupsAreLatest` and `DecisionsStand` from what each stage of an
  analysis or decision knows of the rows; `LocalConnectedIsProven`, because runs at
  work have read the settings of now unless these met a run, and a save no run has
  met finds a status that it may leave alone only if it is pending. `RefusedForCause`:
  while nobody crosses a call, the browser stays in the session the call asked in, or
  in none, and the answer, then the token cookie, then the header of the second attempt
  are what that session's digest is of. `SettledIsCurrent`: what
  the page was told of a panel is shown, or asked for by a request that has yet to be
  answered or has been answered with it, or will be asked for at the end of a save. It
  needs of every handler's script that a stage which commits something is followed by
  one that loads what it touched, which is proved script by script.
* `AnalysesProofs`: what the algorithms compute, for any roster, forms and slots.
  `LineupIsBest`: for the slots from the i-th on and any set of used players, `solve`
  finds the best there is. The induction on i is made by hand (`Upwards`, from the least
  counterexample), since the library's takes an operator as a parameter; its step
  needs that a player spared behind costs no more than an empty slot, and that
  no total is below the sentinel. `AdviceLeadsToBest` by exchange: whoever starts now
  and not in the best lineup can be put into it, everybody who is in his way moving to the
  slot he has now, until one goes out who does not start now or an empty slot is filled
  (`Exchange`); and two lineups of the same players are worth the same
  (`TotalOfRecast`). `ClaimsNeverWeaken`: who is claimed takes the slot of who is dropped;
  the search for the new roster takes the slots in another order, which leaves totals
  alone (`TotalOfReordered`). `AlertsImprove` follows from the choice, and `GainIsExact`
  from what one more player does to the sum of the first k of a ranking.

Each step lemma has one step per action; parts a step cannot touch go by one
lemma on unchanged variables. Type invariants, `NoForeignRows`, `FailingChannelIsOff`,
`SerialFinishedOnce` and `UndisturbedDecisionIsFinal` are proved and not run.

The assumptions about the algorithms say what the code relies on and does not check.
`LineupAssumption`: all slots empty cost less than the sentinel of 10000, so there are
at most nine of them; no projection is as bad as an empty slot. `ConsoleAssumption`
names the handlers that have a script; the others give the constants their types.

Attempts at a proof have corrected the models. `AdviceLeadsToBest` compared the current
starters with the best by their values alone, which is false where the best lineup
leaves a slot empty that an inactive player holds; it now counts empty slots on both
sides. `GainIsExact` took a fit player worth less than nothing to fill a slot, whom the
finder counts as nothing. And when the last load of the handler that creates a report
fails, the page shows the error and is done; `Console` had sent it back a stage.

Only model-checked: everything under fairness (`EveryJobSettles`, `SavedIsTried`,
`LoadingEnds`, `ButtonsComeBack`), since neither fairness nor ENABLED is within the
prover's reach, and the violations, each of which is one behaviour.

## Not modelled, and why

* About 6300 of the implementation's lines are the vendored component library
  (`web/components/ui`) and presentation; text and layout (reports, narration, ESPN
  parsing), the command line and demo data keep no state. Next.js routes are
  stateless; those that decide something take part in the module of their caller.
* JobQueue: heartbeats (they write only worker_nodes), audit rows, the cron's batch
  of 100 jobs, and an error of decryption in claim, which rolls the claim back: it
  lasts until the deployment's key is restored, and the queue stands still meanwhile.
* Recommendations: the limits of 100 incoming and 500 retired rows.
* ConnectionSync: the two sweeps that enqueue one job per connection as the inactive
  sweep does; refusals of malformed requests.
* LeagueScope: unmounting (nothing is visible afterwards), the aborts (no request is
  given the signal), the deduplication of event ids (they are taken to be unique),
  the fallback to the newest snapshot of any league (a listed hazard).
* AuthGrants: scopes, PKCE and resource checks: a call they refuse changes nothing.
  The signature of a token is a name; its library is taken to be right.
* MCP gateway: static bearers and the read-only tools, which keep no state.
* Lineup: confidences, scores that only order proposals, wording.
* Local edition: expiry of sessions by time, service keys, what messages say.
* Availability signals: downloads behind a cache, used by one thread.

What would come next: the decryption error as a head of the queue that blocks it, the
snapshot fallback of the dashboard, and an atomic specification of what the sign-in
throttle and the local decisions promise, for them to implement.
