------------------------ MODULE RecommendationsProofs ------------------------
(***************************************************************************)
(* Theorems about Recommendations, for every number of leagues, batches    *)
(* and concurrent reviews.  The inductive invariant adds to the properties *)
(* that the ranks of committed batches are those already given out, that   *)
(* only a committed batch has rows, and that a review in progress holds a  *)
(* row that exists and, once it has saved, is no longer open.              *)
(***************************************************************************)
EXTENDS Recommendations, TLAPS

RanksGivenOut == \A b \in Batches : order[b] <= commits

RowsAreCommitted == \A r \in Recs : status[r] # "absent" => order[BatchOf(r)] > 0

ReviewsHoldRows ==
    \A v \in Reviews :
        /\ review[v].stage = "read" => status[review[v].rec] # "absent"
        /\ review[v].stage = "saved" => status[review[v].rec] \notin {"absent", "proposed"}

Base == TypeOK /\ RanksGivenOut /\ RowsAreCommitted /\ ReviewsHoldRows

LEMMA RecParts ==
    ASSUME NEW r \in Recs
    PROVE  BatchOf(r) \in Batches /\ KindOf(r) \in Kinds /\ LeagueOfRec(r) \in Leagues
BY RecommendationsAssumption DEF Recs, BatchOf, KindOf, LeagueOfRec, RecommendationsAssumption

LEMMA ReviewParts ==
    ASSUME TypeOK, NEW v \in Reviews, review[v].stage \in {"read", "saved"}
    PROVE  /\ review[v] \in [stage : {"read", "saved"}, rec : Recs, decision : Decisions]
           /\ review[v].rec \in Recs
           /\ review[v].decision \in Decisions
<1>1. review[v] \in ReviewState
    BY DEF TypeOK
<1>2. review[v] # NoReview
    BY DEF NoReview
<1> QED
    BY <1>1, <1>2 DEF ReviewState

LEMMA InitBase == Init => Base
BY RecommendationsAssumption
   DEF Init, Base, TypeOK, RanksGivenOut, RowsAreCommitted, ReviewsHoldRows, Status,
       ReviewState, NoReview, RecommendationsAssumption

\* What one completion does to the rows: those of its own batch appear, others of
\* its league and kinds may be superseded, and nothing else moves.
LEMMA CompleteEffect ==
    ASSUME Base, NEW b \in Batches, NEW count \in [Kinds -> 0..PerKind], Complete(b, count)
    PROVE  /\ order[b] = 0 /\ order'[b] = commits + 1 /\ commits' = commits + 1
           /\ \A c \in Batches : c # b => order'[c] = order[c]
           /\ \A r \in Recs : BatchOf(r) = b =>
                 status'[r] = IF r[3] <= count[KindOf(r)] THEN "proposed" ELSE "absent"
           /\ \A r \in Recs : BatchOf(r) # b =>
                 status'[r] = IF r \in Retired(b, Incoming(JobKindOf[b], count))
                              THEN "superseded" ELSE status[r]
<1>1. order[b] = 0 /\ commits \in Nat /\ order \in [Batches -> Nat] /\ status \in [Recs -> Status]
    BY DEF Complete, Base, TypeOK
<1>2. order' = [order EXCEPT ![b] = commits + 1] /\ commits' = commits + 1
    BY DEF Complete
<1>3. \A r \in Recs : BatchOf(r) = b => status[r] = "absent"
    BY <1>1 DEF Base, RowsAreCommitted
<1>4. \A r \in Recs : status'[r] =
          IF BatchOf(r) = b /\ r[3] <= count[KindOf(r)] THEN "proposed"
          ELSE IF r \in Retired(b, Incoming(JobKindOf[b], count)) THEN "superseded"
          ELSE status[r]
    BY DEF Complete
<1>5. \A r \in Recs : BatchOf(r) = b => r \notin Retired(b, Incoming(JobKindOf[b], count))
    BY <1>3 DEF Retired
<1> QED
    BY <1>1, <1>2, <1>3, <1>4, <1>5

LEMMA NextBase == Base /\ [Next]_vars => Base'
<1> SUFFICES ASSUME Base, [Next]_vars PROVE Base'
    OBVIOUS
<1> USE RecommendationsAssumption DEF RecommendationsAssumption
<1>1. ASSUME NEW b \in Batches, NEW count \in [Kinds -> 0..PerKind], Complete(b, count)
      PROVE  Base'
    <2>1. TypeOK'
        <3>1. status' \in [Recs -> Status]
            BY <1>1 DEF Complete, Base, TypeOK, Status
        <3>2. order' \in [Batches -> Nat] /\ commits' \in Nat
            BY <1>1 DEF Complete, Base, TypeOK
        <3> QED
            BY <1>1, <3>1, <3>2 DEF Complete, Base, TypeOK
    <2>2. RanksGivenOut'
        BY <1>1, CompleteEffect DEF Base, TypeOK, RanksGivenOut
    <2>3. RowsAreCommitted'
        <3> SUFFICES ASSUME NEW r \in Recs, status'[r] # "absent" PROVE order'[BatchOf(r)] > 0
            BY DEF RowsAreCommitted
        <3>1. CASE BatchOf(r) = b
            BY <1>1, <3>1, CompleteEffect DEF Base, TypeOK
        <3>2. CASE BatchOf(r) # b
            <4>1. status[r] # "absent"
                BY <1>1, <3>2, CompleteEffect DEF Retired
            <4> QED
                BY <1>1, <3>2, <4>1, CompleteEffect, RecParts DEF Base, RowsAreCommitted
        <3> QED
            BY <3>1, <3>2
    <2>4. ReviewsHoldRows'
        <3> SUFFICES ASSUME NEW v \in Reviews, review[v].stage \in {"read", "saved"}
                     PROVE  /\ status'[review[v].rec] # "absent"
                            /\ review[v].stage = "saved" => status'[review[v].rec] # "proposed"
            BY <1>1 DEF ReviewsHoldRows, Complete
        <3>1. /\ review[v].rec \in Recs
              /\ status[review[v].rec] # "absent"
              /\ review[v].stage = "saved" => status[review[v].rec] # "proposed"
            BY ReviewParts DEF Base, ReviewsHoldRows
        <3>2. BatchOf(review[v].rec) # b
            BY <1>1, <3>1, CompleteEffect DEF Base, RowsAreCommitted
        <3> QED
            BY <1>1, <3>1, <3>2, CompleteEffect DEF Retired
    <2> QED
        BY <2>1, <2>2, <2>3, <2>4 DEF Base
<1>2. ASSUME NEW v \in Reviews, NEW r \in Recs, NEW decision \in Decisions,
             ReviewReads(v, r, decision)
      PROVE  Base'
    <2>1. TypeOK'
        BY <1>2 DEF ReviewReads, Base, TypeOK, ReviewState
    <2> QED
        BY <1>2, <2>1
           DEF ReviewReads, Reviewable, Base, TypeOK, RanksGivenOut, RowsAreCommitted, ReviewsHoldRows
<1>3. ASSUME NEW v \in Reviews, ReviewSaves(v)
      PROVE  Base'
    <2>1. /\ review[v] \in [stage : {"read", "saved"}, rec : Recs, decision : Decisions]
          /\ review[v].rec \in Recs /\ review[v].decision \in Decisions
          /\ status[review[v].rec] # "absent"
        BY <1>3, ReviewParts DEF ReviewSaves, Base, ReviewsHoldRows
    <2>2. TypeOK'
        BY <1>3, <2>1 DEF ReviewSaves, Base, TypeOK, ReviewState, Status
    <2>3. \A r \in Recs : status'[r] = IF r = review[v].rec THEN review[v].decision ELSE status[r]
        BY <1>3 DEF ReviewSaves, Base, TypeOK
    <2>4. RowsAreCommitted' /\ RanksGivenOut'
        BY <1>3, <2>1, <2>3 DEF ReviewSaves, Base, RowsAreCommitted, RanksGivenOut
    <2>5. ReviewsHoldRows'
        <3> SUFFICES ASSUME NEW u \in Reviews, review'[u].stage \in {"read", "saved"}
                     PROVE  /\ status'[review'[u].rec] # "absent"
                            /\ review'[u].stage = "saved" => status'[review'[u].rec] # "proposed"
            BY DEF ReviewsHoldRows
        <3>1. CASE u = v
            <4>1. review'[v].rec = review[v].rec
                BY <1>3, <2>1 DEF ReviewSaves, Base, TypeOK
            <4> QED
                BY <2>1, <2>3, <3>1, <4>1 DEF Decisions
        <3>2. CASE u # v
            <4>1. review'[u] = review[u]
                BY <1>3, <3>2 DEF ReviewSaves, Base, TypeOK
            <4>2. review[u].rec \in Recs
                BY <4>1, ReviewParts DEF Base
            <4> QED
                BY <2>1, <2>3, <4>1, <4>2 DEF Base, ReviewsHoldRows, Decisions
        <3> QED
            BY <3>1, <3>2
    <2> QED
        BY <2>2, <2>4, <2>5 DEF Base
<1>4. ASSUME NEW v \in Reviews, ReviewAudits(v)
      PROVE  Base'
    <2>1. review[v].rec \in Recs /\ review[v].decision \in Decisions
        BY <1>4, ReviewParts DEF ReviewAudits, Base
    <2>2. TypeOK'
        BY <1>4, <2>1 DEF ReviewAudits, Base, TypeOK, ReviewState
    <2> QED
        BY <1>4, <2>2
           DEF ReviewAudits, Base, TypeOK, RanksGivenOut, RowsAreCommitted, ReviewsHoldRows, NoReview
<1>5. CASE ServerRestarts
    <2>1. TypeOK'
        BY <1>5 DEF ServerRestarts, Base, TypeOK, ReviewState
    <2> QED
        BY <1>5, <2>1 DEF ServerRestarts, Base, RanksGivenOut, RowsAreCommitted, ReviewsHoldRows, NoReview
<1>6. CASE UNCHANGED vars
    BY <1>6 DEF vars, Base, TypeOK, RanksGivenOut, RowsAreCommitted, ReviewsHoldRows
<1> QED
    BY <1>1, <1>2, <1>3, <1>4, <1>5, <1>6 DEF Next

\* Rows, reviews and ranks keep their types (whole module).
THEOREM TypeCorrect == Spec => []TypeOK
BY InitBase, NextBase, PTL DEF Spec, Base

-----------------------------------------------------------------------------
\* A step other than a completion neither opens nor supersedes a row, brings none
\* into being and leaves the ranks alone.
LEMMA OthersEffect ==
    ASSUME Base, [Next]_vars,
           ~ \E b \in Batches, count \in [Kinds -> 0..PerKind] : Complete(b, count)
    PROVE  /\ order' = order
           /\ \A r \in Recs :
                 \/ status'[r] = status[r]
                 \/ status[r] # "absent" /\ status'[r] \in Decisions
<1>1. ASSUME NEW v \in Reviews, ReviewSaves(v)
      PROVE  \A r \in Recs : \/ status'[r] = status[r]
                             \/ status[r] # "absent" /\ status'[r] \in Decisions
    <2>1. /\ review[v].rec \in Recs /\ review[v].decision \in Decisions
          /\ status[review[v].rec] # "absent"
        BY <1>1, ReviewParts DEF ReviewSaves, Base, ReviewsHoldRows
    <2> QED
        BY <1>1, <2>1 DEF ReviewSaves, Base, TypeOK
<1>2. ASSUME NEW v \in Reviews, ReviewSaves(v)
      PROVE  order' = order
    BY <1>2 DEF ReviewSaves
<1> QED
    BY <1>1, <1>2 DEF Next, vars, ReviewReads, ReviewAudits, ServerRestarts

\* A batch that speaks for a kind goes on doing so.
LEMMA SpeaksForStays ==
    ASSUME Base, [Next]_vars, NEW c \in Batches, NEW k \in Kinds, SpeaksFor(c, k)
    PROVE  SpeaksFor(c, k)' /\ order'[c] = order[c] /\ order[c] > 0
<1>1. order[c] > 0
    BY DEF SpeaksFor, Base, RowsAreCommitted
<1>2. ASSUME NEW b \in Batches, NEW count \in [Kinds -> 0..PerKind], Complete(b, count)
      PROVE  SpeaksFor(c, k)' /\ order'[c] = order[c]
    <2>1. c # b /\ order'[c] = order[c]
        BY <1>1, <1>2, CompleteEffect
    <2>2. \A r \in Recs : BatchOf(r) = c /\ status[r] # "absent" => status'[r] # "absent"
        BY <1>2, <2>1, CompleteEffect
    <2> QED
        BY <2>1, <2>2 DEF SpeaksFor
<1>3. CASE ~ \E b \in Batches, count \in [Kinds -> 0..PerKind] : Complete(b, count)
    <2>1. \A r \in Recs : status[r] # "absent" => status'[r] # "absent"
        BY <1>3, OthersEffect DEF Decisions
    <2> QED
        BY <1>1, <1>3, <2>1, OthersEffect DEF SpeaksFor
<1> QED
    BY <1>1, <1>2, <1>3

\* A batch that has just been committed speaks for what its completion replaced, and
\* one that speaks without having spoken before is that batch.
LEMMA CommittedSpeaks ==
    ASSUME Base, NEW b \in Batches, NEW count \in [Kinds -> 0..PerKind], Complete(b, count),
           NEW c \in Batches, NEW k \in Kinds
    PROVE  /\ SpeaksFor(b, k)' <=> k \in Incoming(JobKindOf[b], count)
           /\ c # b /\ SpeaksFor(c, k)' => SpeaksFor(c, k)
<1>1. order'[b] > 0
    BY CompleteEffect DEF Base, TypeOK
<1>2. ASSUME count[k] > 0 PROVE \E r \in Recs : BatchOf(r) = b /\ KindOf(r) = k /\ status'[r] # "absent"
    <2>1. <<b, k, 1>> \in Recs
        BY RecommendationsAssumption DEF Recs, RecommendationsAssumption
    <2>2. BatchOf(<<b, k, 1>>) = b /\ KindOf(<<b, k, 1>>) = k /\ 1 <= count[k]
        BY <1>2, RecommendationsAssumption DEF BatchOf, KindOf, RecommendationsAssumption
    <2>3. status'[<<b, k, 1>>] = "proposed"
        BY <2>1, <2>2, CompleteEffect
    <2> QED
        BY <2>1, <2>2, <2>3
<1>3. ASSUME NEW r \in Recs, BatchOf(r) = b, KindOf(r) = k, status'[r] # "absent"
      PROVE  count[k] > 0
    <2>1. r[3] \in 1..PerKind /\ count[k] \in 0..PerKind /\ r[3] <= count[k]
        BY <1>3, CompleteEffect DEF Recs
    <2> QED
        BY <2>1, RecommendationsAssumption DEF RecommendationsAssumption
<1>4. SpeaksFor(b, k)' <=> k \in Incoming(JobKindOf[b], count)
    BY <1>1, <1>2, <1>3 DEF SpeaksFor, Incoming
<1>5. ASSUME c # b, SpeaksFor(c, k)' PROVE SpeaksFor(c, k)
    <2>1. order'[c] = order[c]
        BY <1>5, CompleteEffect
    <2>2. \A r \in Recs : BatchOf(r) = c /\ status'[r] # "absent" => status[r] # "absent"
        BY <1>5, CompleteEffect DEF Retired
    <2> QED
        BY <1>5, <2>1, <2>2 DEF SpeaksFor
<1> QED
    BY <1>4, <1>5

LEMMA NextProposedAreLatest ==
    Base /\ ProposedAreLatest /\ [Next]_vars => ProposedAreLatest'
<1> SUFFICES ASSUME Base, ProposedAreLatest, [Next]_vars,
                    NEW r \in Recs, NEW c \in Batches,
                    status'[r] = "proposed", LeagueOf[c] = LeagueOfRec(r), SpeaksFor(c, KindOf(r))'
             PROVE  order'[c] <= order'[BatchOf(r)]
    BY DEF ProposedAreLatest
<1>1. ASSUME NEW b \in Batches, NEW count \in [Kinds -> 0..PerKind], Complete(b, count)
      PROVE  order'[c] <= order'[BatchOf(r)]
    <2>1. CASE BatchOf(r) = b
        BY <1>1, <2>1, CompleteEffect DEF Base, TypeOK, RanksGivenOut
    <2>2. CASE BatchOf(r) # b
        <3>1. status[r] = "proposed" /\ r \notin Retired(b, Incoming(JobKindOf[b], count))
            BY <1>1, <2>2, CompleteEffect
        <3>2. c # b
            BY <1>1, <3>1, CommittedSpeaks, RecParts DEF Retired
        <3>3. SpeaksFor(c, KindOf(r))
            BY <1>1, <3>2, CommittedSpeaks, RecParts
        <3> QED
            BY <1>1, <2>2, <3>1, <3>2, <3>3, CompleteEffect, RecParts DEF ProposedAreLatest
    <2> QED
        BY <2>1, <2>2
<1>2. CASE ~ \E b \in Batches, count \in [Kinds -> 0..PerKind] : Complete(b, count)
    <2>1. status[r] = "proposed" /\ order' = order
        BY <1>2, OthersEffect DEF Decisions
    <2>2. \A x \in Recs : status'[x] # "absent" => status[x] # "absent"
        BY <1>2, OthersEffect
    <2>3. SpeaksFor(c, KindOf(r))
        BY <2>1, <2>2 DEF SpeaksFor
    <2> QED
        BY <2>1, <2>3 DEF ProposedAreLatest
<1> QED
    BY <1>1, <1>2

\* What is open of one league and kind is always from the last analysis that spoke for
\* it (complete route, with reviews saving old copies).
THEOREM OpenAreLatest == Spec => []ProposedAreLatest
<1>1. Init => ProposedAreLatest
    BY DEF Init, ProposedAreLatest
<1> QED
    BY <1>1, InitBase, NextBase, NextProposedAreLatest, PTL DEF Spec

LEMMA NextSuperseded == Base /\ SupersededForCause /\ [Next]_vars => SupersededForCause'
<1> SUFFICES ASSUME Base, SupersededForCause, [Next]_vars, NEW r \in Recs, status'[r] = "superseded"
             PROVE  \E c \in Batches : /\ LeagueOf[c] = LeagueOfRec(r)
                                       /\ SpeaksFor(c, KindOf(r))'
                                       /\ order'[c] > order'[BatchOf(r)]
    BY DEF SupersededForCause
<1>1. ASSUME status[r] = "superseded"
      PROVE  \E c \in Batches : /\ LeagueOf[c] = LeagueOfRec(r)
                                /\ SpeaksFor(c, KindOf(r))'
                                /\ order'[c] > order'[BatchOf(r)]
    <2>1. PICK c \in Batches : /\ LeagueOf[c] = LeagueOfRec(r)
                               /\ SpeaksFor(c, KindOf(r))
                               /\ order[c] > order[BatchOf(r)]
        BY <1>1 DEF SupersededForCause
    <2>2. SpeaksFor(c, KindOf(r))' /\ order'[c] = order[c]
        BY <2>1, SpeaksForStays, RecParts
    <2>3. SpeaksFor(BatchOf(r), KindOf(r))
        BY <1>1 DEF SpeaksFor
    <2>4. order'[BatchOf(r)] = order[BatchOf(r)]
        BY <2>3, SpeaksForStays, RecParts
    <2> QED
        BY <2>1, <2>2, <2>4
<1>2. ASSUME NEW b \in Batches, NEW count \in [Kinds -> 0..PerKind], Complete(b, count),
             status[r] # "superseded"
      PROVE  \E c \in Batches : /\ LeagueOf[c] = LeagueOfRec(r)
                                /\ SpeaksFor(c, KindOf(r))'
                                /\ order'[c] > order'[BatchOf(r)]
    <2>1. BatchOf(r) # b /\ r \in Retired(b, Incoming(JobKindOf[b], count))
        BY <1>2, CompleteEffect
    <2>2. SpeaksFor(b, KindOf(r))' /\ LeagueOf[b] = LeagueOfRec(r)
        BY <1>2, <2>1, CommittedSpeaks, RecParts DEF Retired
    <2>3. order'[b] > order'[BatchOf(r)]
        BY <1>2, <2>1, CompleteEffect, RecParts DEF Base, TypeOK, RanksGivenOut
    <2> QED
        BY <2>2, <2>3
<1> QED
    BY <1>1, <1>2, OthersEffect DEF Decisions

\* No recommendation is superseded by another league's or another kind's analysis
\* (complete route).
THEOREM SupersededOnlyForCause == Spec => []SupersededForCause
<1>1. Init => SupersededForCause
    BY DEF Init, SupersededForCause
<1> QED
    BY <1>1, InitBase, NextBase, NextSuperseded, PTL DEF Spec

-----------------------------------------------------------------------------
\* A decision whose audit event is still to come, for recommendation r.
Announced(r) ==
    \E v \in Reviews : review[v] = [stage |-> "saved", rec |-> r, decision |-> status[r]]

LEMMA NextAudited == Base /\ DecisionsAudited /\ [Next]_vars => DecisionsAudited'
<1> SUFFICES ASSUME Base, DecisionsAudited, [Next]_vars PROVE DecisionsAudited'
    OBVIOUS
<1>1. ASSUME NEW b \in Batches, NEW count \in [Kinds -> 0..PerKind], Complete(b, count)
      PROVE  DecisionsAudited'
    <2>1. restarts' = restarts /\ review' = review /\ audited' = audited
        BY <1>1 DEF Complete
    <2>2. \A r \in Recs : status'[r] \in Decisions => status'[r] = status[r]
        BY <1>1, CompleteEffect DEF Decisions
    <2>3. ASSUME NEW x \in audited PROVE status'[x[1]] \notin {"absent", "proposed"}
        <3>1. x[1] \in Recs /\ status[x[1]] \notin {"absent", "proposed"}
            BY DEF Base, TypeOK, DecisionsAudited
        <3>2. BatchOf(x[1]) # b
            BY <1>1, <3>1, CompleteEffect DEF Base, RowsAreCommitted
        <3> QED
            BY <1>1, <3>1, <3>2, CompleteEffect
    <2> QED
        BY <2>1, <2>2, <2>3 DEF DecisionsAudited
<1>2. ASSUME NEW v \in Reviews, NEW r \in Recs, NEW decision \in Decisions,
             ReviewReads(v, r, decision)
      PROVE  DecisionsAudited'
    <2>1. ASSUME NEW s \in Recs, Announced(s) PROVE Announced(s)'
        <3>1. PICK u \in Reviews : review[u] = [stage |-> "saved", rec |-> s, decision |-> status[s]]
            BY <2>1 DEF Announced
        <3>2. u # v
            BY <1>2, <3>1 DEF ReviewReads, NoReview
        <3>3. review'[u] = review[u] /\ status' = status
            BY <1>2, <3>2 DEF ReviewReads, Base, TypeOK
        <3> QED
            BY <3>1, <3>3 DEF Announced
    <2>2. restarts' = restarts /\ status' = status /\ audited' = audited
        BY <1>2 DEF ReviewReads
    <2> QED
        BY <2>1, <2>2 DEF DecisionsAudited, Announced
<1>3. ASSUME NEW v \in Reviews, ReviewSaves(v)
      PROVE  DecisionsAudited'
    <2>1. /\ review[v] \in [stage : {"read", "saved"}, rec : Recs, decision : Decisions]
          /\ review[v].stage = "read"
        BY <1>3, ReviewParts DEF ReviewSaves, Base
    <2>2. \A s \in Recs : status'[s] = IF s = review[v].rec THEN review[v].decision ELSE status[s]
        BY <1>3 DEF ReviewSaves, Base, TypeOK
    <2>3. review'[v] = [stage |-> "saved", rec |-> review[v].rec, decision |-> review[v].decision]
        BY <1>3, <2>1 DEF ReviewSaves, Base, TypeOK
    <2>4. ASSUME NEW s \in Recs, status'[s] \in Decisions, s # review[v].rec, Announced(s)
          PROVE  Announced(s)'
        <3>1. PICK u \in Reviews : review[u] = [stage |-> "saved", rec |-> s, decision |-> status[s]]
            BY <2>4 DEF Announced
        <3>2. u # v
            BY <2>1, <3>1
        <3>3. review'[u] = review[u] /\ status'[s] = status[s]
            BY <1>3, <2>2, <2>4, <3>2 DEF ReviewSaves, Base, TypeOK
        <3> QED
            BY <3>1, <3>3 DEF Announced
    <2>5. ASSUME NEW s \in Recs, s = review[v].rec PROVE Announced(s)'
        BY <2>1, <2>2, <2>3, <2>5 DEF Announced
    <2>6. restarts' = restarts /\ audited' = audited
        BY <1>3 DEF ReviewSaves
    <2>7. ASSUME restarts' = 0, NEW s \in Recs, status'[s] \in Decisions
          PROVE  <<s, status'[s]>> \in audited' \/ Announced(s)'
        <3>1. CASE s = review[v].rec
            BY <2>5, <3>1
        <3>2. CASE s # review[v].rec
            BY <2>2, <2>4, <2>6, <2>7, <3>2 DEF DecisionsAudited, Announced
        <3> QED
            BY <3>1, <3>2
    <2>8. ASSUME NEW x \in audited' PROVE status'[x[1]] \notin {"absent", "proposed"}
        BY <2>1, <2>2, <2>6 DEF Base, TypeOK, DecisionsAudited, Decisions
    <2> QED
        BY <2>7, <2>8 DEF DecisionsAudited, Announced
<1>4. ASSUME NEW v \in Reviews, ReviewAudits(v)
      PROVE  DecisionsAudited'
    <2>1. /\ review[v].rec \in Recs /\ review[v].stage = "saved"
          /\ status[review[v].rec] \notin {"absent", "proposed"}
        BY <1>4, ReviewParts DEF ReviewAudits, Base, ReviewsHoldRows
    <2>2. /\ restarts' = restarts /\ status' = status
          /\ audited' = audited \cup {<<review[v].rec, review[v].decision>>}
        BY <1>4 DEF ReviewAudits
    <2>3. ASSUME NEW s \in Recs, Announced(s)
          PROVE  <<s, status[s]>> \in audited' \/ Announced(s)'
        <3>1. PICK u \in Reviews : review[u] = [stage |-> "saved", rec |-> s, decision |-> status[s]]
            BY <2>3 DEF Announced
        <3>2. CASE u = v
            BY <2>2, <3>1, <3>2
        <3>3. CASE u # v
            <4>1. review'[u] = review[u]
                BY <1>4, <3>3 DEF ReviewAudits, Base, TypeOK
            <4> QED
                BY <2>2, <3>1, <4>1 DEF Announced
        <3> QED
            BY <3>2, <3>3
    <2> QED
        BY <2>1, <2>2, <2>3 DEF DecisionsAudited, Announced
<1>5. CASE ServerRestarts
    <2>1. restarts' # 0 /\ status' = status /\ audited' = audited
        BY <1>5, RecommendationsAssumption DEF ServerRestarts, Base, TypeOK, RecommendationsAssumption
    <2> QED
        BY <2>1 DEF DecisionsAudited
<1>6. CASE UNCHANGED vars
    BY <1>6 DEF vars, DecisionsAudited
<1> QED
    BY <1>1, <1>2, <1>3, <1>4, <1>5, <1>6 DEF Next

\* Without a crash every decision is audited or about to be, and what an audit event
\* names is no longer open (review route).
THEOREM EveryDecisionAudited == Spec => []DecisionsAudited
<1>1. Init => DecisionsAudited
    BY DEF Init, DecisionsAudited, Decisions
<1> QED
    BY <1>1, InitBase, NextBase, NextAudited, PTL DEF Spec

-----------------------------------------------------------------------------
(* When a second submit is refused after all, as the comment of the review route has it.
   The invariant: what a review has found open is open until it saves. *)
HeldIsOpen == \A r \in Recs : Deciding(r) # {} => status[r] = "proposed"

HeldOnce == \A r \in Recs : \A v, w \in Deciding(r) : v = w

\* Only a completion, or a review that holds the row, changes a row.
LEMMA WhoChanges ==
    ASSUME Base, [Next]_vars, NEW r \in Recs, status'[r] # status[r]
    PROVE  \/ status[r] = "absent"
           \/ status[r] = "proposed" /\ status'[r] = "superseded"
           \/ \E v \in Deciding(r) : ReviewSaves(v)
<1>1. ASSUME NEW b \in Batches, NEW count \in [Kinds -> 0..PerKind], Complete(b, count)
      PROVE  status[r] = "absent" \/ (status[r] = "proposed" /\ status'[r] = "superseded")
    <2>1. CASE BatchOf(r) = b
        BY <1>1, <2>1, CompleteEffect DEF Base, RowsAreCommitted
    <2>2. CASE BatchOf(r) # b
        BY <1>1, <2>2, CompleteEffect DEF Retired
    <2> QED
        BY <2>1, <2>2
<1>2. ASSUME NEW v \in Reviews, ReviewSaves(v)
      PROVE  v \in Deciding(r)
    <2>1. review[v].rec = r
        BY <1>2 DEF ReviewSaves, Base, TypeOK
    <2> QED
        BY <1>2, <2>1 DEF ReviewSaves, Deciding
<1> QED
    BY <1>1, <1>2 DEF Next, vars, ReviewReads, ReviewAudits, ServerRestarts

\* A review comes to hold a row only by finding it open.
LEMMA WhoHolds ==
    ASSUME Base, [Next]_vars, NEW r \in Recs, NEW v \in Deciding(r)'
    PROVE  \/ v \in Deciding(r) /\ ~ReviewSaves(v)
           \/ status[r] = "proposed" /\ status' = status
<1>1. v \in Reviews /\ review'[v].stage = "read" /\ review'[v].rec = r
    BY DEF Deciding
<1>2. ASSUME review'[v] = review[v]
      PROVE  v \in Deciding(r) /\ ~ReviewSaves(v)
    <2>1. v \in Deciding(r) /\ review[v].stage = "read"
        BY <1>1, <1>2 DEF Deciding
    <2>2. ASSUME ReviewSaves(v) PROVE FALSE
        <3>1. review[v] \in [stage : {"read", "saved"}, rec : Recs, decision : Decisions]
            BY <1>1, <2>1, ReviewParts DEF Base
        <3>2. review'[v].stage = "saved"
            BY <1>1, <2>2, <3>1 DEF ReviewSaves, Base, TypeOK
        <3> QED
            BY <1>1, <3>2
    <2> QED
        BY <2>1, <2>2
<1>3. ASSUME NEW u \in Reviews, NEW s \in Recs, NEW decision \in Decisions,
             ReviewReads(u, s, decision), review'[v] # review[v]
      PROVE  status[r] = "proposed" /\ status' = status
    BY <1>1, <1>3 DEF ReviewReads, Reviewable, Base, TypeOK
<1>4. ASSUME NEW u \in Reviews, ReviewSaves(u), review'[v] # review[v]
      PROVE  FALSE
    <2>1. review[u] \in [stage : {"read", "saved"}, rec : Recs, decision : Decisions]
        BY <1>4, ReviewParts DEF ReviewSaves, Base
    <2> QED
        BY <1>1, <1>4, <2>1 DEF ReviewSaves, Base, TypeOK
<1>5. ASSUME NEW u \in Reviews, ReviewAudits(u), review'[v] # review[v]
      PROVE  FALSE
    BY <1>1, <1>5 DEF ReviewAudits, Base, TypeOK, NoReview
<1>6. ASSUME ServerRestarts
      PROVE  FALSE
    BY <1>1, <1>6 DEF ServerRestarts, NoReview
<1>7. ASSUME NEW b \in Batches, NEW count \in [Kinds -> 0..PerKind], Complete(b, count)
      PROVE  review' = review
    BY <1>7 DEF Complete
<1> QED
    BY <1>2, <1>3, <1>4, <1>5, <1>6, <1>7 DEF Next, vars

LEMMA NextHeld ==
    Base /\ HeldIsOpen /\ HeldOnce /\ [Next /\ ReviewsUndisturbed]_vars
        => HeldIsOpen' /\ HeldOnce'
<1> SUFFICES ASSUME Base, HeldIsOpen, HeldOnce, [Next /\ ReviewsUndisturbed]_vars
             PROVE  HeldIsOpen' /\ HeldOnce'
    OBVIOUS
<1>1. CASE Next /\ ReviewsUndisturbed
    <2>1. HeldOnce'
        BY <1>1 DEF ReviewsUndisturbed, HeldOnce
    <2>2. ASSUME NEW r \in Recs, NEW v \in Deciding(r)' PROVE status'[r] = "proposed"
        <3>1. CASE v \in Deciding(r) /\ ~ReviewSaves(v)
            <4>1. status[r] = "proposed" /\ status'[r] # "superseded"
                BY <1>1, <3>1 DEF HeldIsOpen, ReviewsUndisturbed
            <4>2. \A w \in Deciding(r) : ~ReviewSaves(w)
                BY <3>1 DEF HeldOnce
            <4> QED
                BY <1>1, <4>1, <4>2, WhoChanges
        <3>2. CASE status[r] = "proposed" /\ status' = status
            BY <3>2
        <3> QED
            BY <1>1, <2>2, <3>1, <3>2, WhoHolds
    <2> QED
        BY <2>1, <2>2 DEF HeldIsOpen
<1>2. CASE UNCHANGED vars
    BY <1>2 DEF vars, HeldIsOpen, HeldOnce, Deciding
<1> QED
    BY <1>1, <1>2

\* If nothing comes between the check of a review and its save, a second submit is refused
\* and no decision is ever replaced (review route), which overlapping reviews break.
THEOREM UndisturbedDecisionIsFinal == SerialReviewSpec => DecisionIsFinal
<1>1. Init => HeldIsOpen /\ HeldOnce
    BY DEF Init, HeldIsOpen, HeldOnce, Deciding, NoReview
<1>2. [Next /\ ReviewsUndisturbed]_vars => [Next]_vars
    OBVIOUS
<1>3. ASSUME Base, HeldIsOpen, [Next /\ ReviewsUndisturbed]_vars
      PROVE  [\A r \in Recs : status[r] \in Decisions \cup {"superseded"} => status'[r] = status[r]]_vars
    <2> SUFFICES ASSUME NEW r \in Recs, status[r] \in Decisions \cup {"superseded"}, status'[r] # status[r]
                 PROVE  FALSE
        OBVIOUS
    <2>1. \E v \in Deciding(r) : ReviewSaves(v)
        BY <1>2, <1>3, WhoChanges DEF Decisions
    <2>2. status[r] = "proposed"
        BY <1>3, <2>1 DEF HeldIsOpen
    <2> QED
        BY <2>2 DEF Decisions
<1> QED
    BY <1>1, <1>2, <1>3, InitBase, NextBase, NextHeld, PTL DEF SerialReviewSpec, DecisionIsFinal
=============================================================================
