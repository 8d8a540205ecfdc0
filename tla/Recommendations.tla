--------------------------- MODULE Recommendations ---------------------------
(***************************************************************************)
(* The recommendations of one workspace (cloudpod/pb_hooks): a completed   *)
(* analysis supersedes the open recommendations of its own league and      *)
(* kinds and inserts its own, in the transaction of the complete route; a  *)
(* user reviews one.  The review route has no transaction: it reads the    *)
(* recommendation, checks it, saves it and writes an audit event, each a   *)
(* step of its own.                                                        *)
(*                                                                         *)
(* A batch is one completion: the analysis kind of its job, the league its *)
(* snapshot was taken from, and the recommendations it brings.  When a job *)
(* completes, and how often, is the subject of JobQueue.                   *)
(***************************************************************************)
EXTENDS Naturals, FiniteSets

CONSTANTS
    Leagues,     \* ESPN connections of the workspace
    Batches,     \* completions
    LeagueOf,    \* connection of each batch's job and snapshot
    JobKindOf,   \* kind of each batch's job
    Reviews,     \* review calls
    PerKind,     \* bound: recommendations of one kind in a batch
    MaxRestarts  \* bound: restarts of CloudPod

JobKinds == {"sync", "lineup", "waivers", "trades", "weekly-report", "inactive-sweep", "full"}
Kinds    == {"lineup", "waiver", "trade", "availability-alert"}
Recs     == Batches \X Kinds \X (1..PerKind)

ASSUME RecommendationsAssumption ==
    /\ LeagueOf \in [Batches -> Leagues]
    /\ JobKindOf \in [Batches -> JobKinds]
    /\ PerKind \in Nat \ {0}
    /\ MaxRestarts \in Nat

Decisions == {"approved", "dismissed"}
Status    == {"absent", "proposed", "superseded"} \cup Decisions
NoReview  == [stage |-> "none"]
ReviewState ==
    {NoReview} \cup [stage : {"read", "saved"}, rec : Recs, decision : Decisions]

VARIABLES
    status,    \* status column of each recommendation
    review,    \* each review call in progress
    audited,   \* audit events: pairs <<recommendation, decision>>
    order,     \* rank of each batch among the committed completions, 0 before
    commits,   \* how many have been committed
    restarts

vars == <<status, review, audited, order, commits, restarts>>

BatchOf(r)  == r[1]
KindOf(r)   == r[2]
LeagueOfRec(r) == LeagueOf[BatchOf(r)]

Init ==
    /\ status   = [r \in Recs |-> "absent"]
    /\ review   = [v \in Reviews |-> NoReview]
    /\ audited  = {}
    /\ order    = [b \in Batches |-> 0]
    /\ commits  = 0
    /\ restarts = 0

-----------------------------------------------------------------------------
\* What build_completion runs for each kind of job.  A lineup analysis always says
\* something; the others may find nothing.
Analyses(job) ==
    CASE job = "lineup"         -> {"lineup"}
      [] job = "waivers"        -> {"waiver"}
      [] job = "trades"         -> {"trade"}
      [] job = "full"           -> {"lineup", "waiver", "trade"}
      [] job = "inactive-sweep" -> {"availability-alert"}
      [] OTHER                  -> {}

Produces(job, count) ==
    /\ \A k \in Kinds : count[k] > 0 => k \in Analyses(job)
    /\ "lineup" \in Analyses(job) => count["lineup"] > 0

\* Mutant: a clean sweep leaves the alerts.
IncomingOnly(job, count) == {k \in Kinds : count[k] > 0}

\* The kinds whose open recommendations the completion replaces: those it brings
\* and, for a sweep, the alerts even if it brings none.
Incoming(job, count) ==
    {k \in Kinds : count[k] > 0}
    \cup IF job = "inactive-sweep" THEN {"availability-alert"} ELSE {}

\* Mutant: the alerts of every league are retired.
RetiredEverywhere(b, kinds) == {r \in Recs : status[r] = "proposed" /\ KindOf(r) \in kinds}

Retired(b, kinds) ==
    {r \in Recs : status[r] = "proposed" /\ KindOf(r) \in kinds /\ LeagueOfRec(r) = LeagueOf[b]}

\* The transaction of the complete route.
Complete(b, count) ==
    LET kinds == Incoming(JobKindOf[b], count)
        new   == {r \in Recs : BatchOf(r) = b /\ r[3] <= count[KindOf(r)]} IN
    /\ order[b] = 0
    /\ Produces(JobKindOf[b], count)
    /\ commits' = commits + 1
    /\ order' = [order EXCEPT ![b] = commits + 1]
    /\ status' = [r \in Recs |-> IF r \in new THEN "proposed"
                                 ELSE IF r \in Retired(b, kinds) THEN "superseded"
                                 ELSE status[r]]
    /\ UNCHANGED <<review, audited, restarts>>

-----------------------------------------------------------------------------
(* POST recommendations/{id}/review. *)

\* A recommendation that is no longer proposed is refused, which ends the call.
Reviewable(r) == status[r] = "proposed"

ReviewReads(v, r, decision) ==
    /\ review[v] = NoReview
    /\ Reviewable(r)
    /\ review' = [review EXCEPT ![v] = [stage |-> "read", rec |-> r, decision |-> decision]]
    /\ UNCHANGED <<status, audited, order, commits, restarts>>

\* Mutant: the save is forgotten.
ReviewSavesNothing(v) ==
    /\ review[v].stage = "read"
    /\ review' = [review EXCEPT ![v].stage = "saved"]
    /\ UNCHANGED <<status, audited, order, commits, restarts>>

ReviewSaves(v) ==
    /\ review[v].stage = "read"
    /\ status' = [status EXCEPT ![review[v].rec] = review[v].decision]
    /\ review' = [review EXCEPT ![v].stage = "saved"]
    /\ UNCHANGED <<audited, order, commits, restarts>>

ReviewAudits(v) ==
    /\ review[v].stage = "saved"
    /\ audited' = audited \cup {<<review[v].rec, review[v].decision>>}
    /\ review' = [review EXCEPT ![v] = NoReview]
    /\ UNCHANGED <<status, order, commits, restarts>>

\* CloudPod restarts: the review calls in progress are gone.
ServerRestarts ==
    /\ restarts < MaxRestarts
    /\ restarts' = restarts + 1
    /\ review' = [v \in Reviews |-> NoReview]
    /\ UNCHANGED <<status, audited, order, commits>>

Next ==
    \/ \E b \in Batches, count \in [Kinds -> 0..PerKind] : Complete(b, count)
    \/ \E v \in Reviews, r \in Recs, decision \in Decisions : ReviewReads(v, r, decision)
    \/ \E v \in Reviews : ReviewSaves(v)
    \/ \E v \in Reviews : ReviewAudits(v)
    \/ ServerRestarts

Spec == Init /\ [][Next]_vars

-----------------------------------------------------------------------------
TypeOK ==
    /\ status \in [Recs -> Status]
    /\ review \in [Reviews -> ReviewState]
    /\ audited \subseteq Recs \X Decisions
    /\ order \in [Batches -> Nat]
    /\ commits \in Nat
    /\ restarts \in 0..MaxRestarts

\* A batch speaks for a kind if it brought recommendations of it; a sweep speaks for
\* the alerts even when it found nothing.
SpeaksFor(b, k) ==
    \/ \E r \in Recs : BatchOf(r) = b /\ KindOf(r) = k /\ status[r] # "absent"
    \/ JobKindOf[b] = "inactive-sweep" /\ order[b] > 0 /\ k = "availability-alert"

\* What a league shows as open of one kind comes from the last analysis that spoke
\* for it: never a mix of two, and never an alert that a later sweep found clean
\* (docs/CLOUDPOD_BACKEND.md, lineup-lock sweeps), in spite of the copies reviews save.
ProposedAreLatest ==
    \A r \in Recs, b \in Batches :
        /\ status[r] = "proposed"
        /\ LeagueOf[b] = LeagueOfRec(r)
        /\ SpeaksFor(b, KindOf(r))
        => order[b] <= order[BatchOf(r)]

\* A recommendation is superseded only for a later analysis of its own league that
\* speaks for its own kind (CHANGELOG 0.4.0, "scoped recommendation superseding").
SupersededForCause ==
    \A r \in Recs : status[r] = "superseded" =>
        \E b \in Batches : /\ LeagueOf[b] = LeagueOfRec(r)
                           /\ SpeaksFor(b, KindOf(r))
                           /\ order[b] > order[BatchOf(r)]

\* Only a crash between the save and the audit event leaves a decision without one,
\* and every audit event is about a recommendation that has left the open state.
DecisionsAudited ==
    /\ restarts = 0 =>
         \A r \in Recs : status[r] \in Decisions =>
            \/ <<r, status[r]>> \in audited
            \/ \E v \in Reviews : review[v] = [stage |-> "saved", rec |-> r, decision |-> status[r]]
    /\ \A x \in audited : status[x[1]] \notin {"absent", "proposed"}

\* The backend rejects a review of anything that is not proposed, "so a double submit
\* returns 400 rather than silently re-reviewing" (the web app's review route).
DecisionIsFinal ==
    [][\A r \in Recs : status[r] \in Decisions \cup {"superseded"} => status'[r] = status[r]]_vars

\* The reviews that have found r open and have yet to save it.
Deciding(r) == {v \in Reviews : review[v].stage = "read" /\ review[v].rec = r}

\* Between the check of a review and its save no other review passes the check, and no
\* completion retires the recommendation.
ReviewsUndisturbed ==
    \A r \in Recs : /\ \A v, w \in Deciding(r)' : v = w
                    /\ Deciding(r) # {} => status'[r] # "superseded"

SerialReviewSpec == Init /\ [][Next /\ ReviewsUndisturbed]_vars
=============================================================================
