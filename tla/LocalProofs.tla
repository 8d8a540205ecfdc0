---------------------------- MODULE LocalProofs ----------------------------
(* What LocalDecisions, LocalRuns, LocalSession and Console promise, for any number of calls,
   saves, runs, tabs and events. *)
EXTENDS LocalDecisions, LocalRuns, LocalSession, Console, FiniteSetTheorems, SequenceTheorems,
        TLAPS

LocalTypeOK ==
    /\ advice \in [AnalysisCalls -> LocalStatus]
    /\ analysis \in [AnalysisCalls -> {"new", "read", "over"}]
    /\ seen \in [AnalysisCalls -> SUBSET AnalysisCalls]
    /\ choice \in [DecisionCalls -> [of : SUBSET AnalysisCalls, decision : Decided \cup {"none"}]]
    /\ ledger \subseteq AnalysisCalls \X Decided
    /\ committed \subseteq AnalysisCalls
    /\ earlier \in [AnalysisCalls -> SUBSET AnalysisCalls]
    /\ contested \subseteq AnalysisCalls

\* The stage of an analysis tells what it has done: it has committed only when it is over,
\* knows only analyses that have committed, and its rows exist only once it has.
StagesAgree ==
    /\ \A a \in AnalysisCalls : analysis[a] = "read" => a \notin committed
    /\ \A a \in AnalysisCalls : analysis[a] = "new" => a \notin committed /\ seen[a] = {}
    /\ \A a \in AnalysisCalls : advice[a] # "absent" => a \in committed
    /\ \A a, b \in AnalysisCalls : a \in seen[b] => advice[a] # "absent"
    /\ \A a \in AnalysisCalls : earlier[a] \subseteq committed

\* The lineups that were earlier to an analysis and are still proposed are among those it is
\* about to supersede, and when it is over there are none.
KnownAreSeen ==
    \A a, b \in AnalysisCalls :
        /\ Asked[a] = "lineup" /\ Asked[b] = "lineup"
        /\ advice[a] = "proposed" /\ a \in earlier[b]
        => /\ a \in committed
           /\ b \notin committed
           /\ analysis[b] = "read" => a \in seen[b]

\* A decision call writes a decision, of a row that exists.
ChoicesDecide ==
    \A c \in DecisionCalls, a \in AnalysisCalls :
        a \in choice[c].of => choice[c].of = {a} /\ choice[c].decision \in Decided

ChosenExist ==
    \A c \in DecisionCalls, a \in AnalysisCalls : a \in choice[c].of => advice[a] # "absent"

\* Whoever holds a row that has been decided makes it contested.
HeldAreContested ==
    \A a \in AnalysisCalls :
        advice[a] \in Decided /\ Holders(a) # {} => a \in contested

LocalInv ==
    LocalTypeOK /\ StagesAgree /\ KnownAreSeen /\ ChoicesDecide /\ HeldAreContested
    /\ ChosenExist /\ DecisionsStand

LEMMA LineupsByName ==
    \A a \in AnalysisCalls : Asked[a] = "lineup" => WrittenKind(a) = "lineup"
  BY DEF WrittenKind

LEMMA LocalInvInit == LocalInit => LocalInv
<1> SUFFICES ASSUME LocalInit PROVE LocalInv
  OBVIOUS
<1>1. LocalTypeOK
  BY DEF LocalInit, LocalTypeOK, LocalStatus, NoChoice
<1>2. StagesAgree /\ KnownAreSeen
  BY DEF LocalInit, StagesAgree, KnownAreSeen
<1>3. ChoicesDecide /\ ChosenExist
  BY DEF LocalInit, ChoicesDecide, ChosenExist, NoChoice
<1>4. HeldAreContested
  BY DEF LocalInit, HeldAreContested, Decided
<1>5. DecisionsStand
  BY DEF LocalInit, DecisionsStand, Decided
<1> QED  BY <1>1, <1>2, <1>3, <1>4, <1>5 DEF LocalInv

\* Nobody reads a row that has been decided, so its holders only become fewer.
LEMMA LocalInvStep == LocalInv /\ [LocalNext]_localVars => LocalInv'
<1> SUFFICES ASSUME LocalInv, [LocalNext]_localVars PROVE LocalInv'
  OBVIOUS
<1>0. LocalTypeOK /\ StagesAgree /\ KnownAreSeen /\ ChoicesDecide /\ HeldAreContested
      /\ ChosenExist /\ DecisionsStand
  BY DEF LocalInv
<1>1. ASSUME NEW a \in AnalysisCalls, AnalysisReads(a) PROVE LocalInv'
  <2>1. ProposedOf(a) \subseteq AnalysisCalls
    BY DEF ProposedOf
  <2>2. LocalTypeOK'
    BY <1>0, <1>1, <2>1 DEF AnalysisReads, LocalTypeOK
  <2>3. StagesAgree'
    BY <1>0, <1>1, <2>1 DEF AnalysisReads, LocalTypeOK, StagesAgree, ProposedOf
  <2>4. KnownAreSeen'
    <3> SUFFICES ASSUME NEW b \in AnalysisCalls, NEW c \in AnalysisCalls,
                        Asked[b] = "lineup", Asked[c] = "lineup",
                        advice'[b] = "proposed", b \in earlier'[c]
                 PROVE  /\ b \in committed'
                        /\ c \notin committed'
                        /\ analysis'[c] = "read" => b \in seen'[c]
      BY DEF KnownAreSeen
    <3>1. CASE c = a
      <4>1. b \in committed /\ a \notin committed
        BY <1>0, <1>1, <3>1 DEF AnalysisReads, LocalTypeOK, StagesAgree
      <4>2. b \in ProposedOf(a)
        BY <1>1, <3>1, LineupsByName DEF AnalysisReads, ProposedOf
      <4> QED  BY <1>0, <1>1, <3>1, <4>1, <4>2 DEF AnalysisReads, LocalTypeOK
    <3>2. CASE c # a
      BY <1>0, <1>1, <3>2 DEF AnalysisReads, LocalTypeOK, KnownAreSeen
    <3> QED  BY <3>1, <3>2
  <2>5. ChoicesDecide' /\ ChosenExist'
    BY <1>0, <1>1 DEF AnalysisReads, ChoicesDecide, ChosenExist
  <2>6. HeldAreContested'
    <3> SUFFICES ASSUME NEW b \in AnalysisCalls, advice'[b] \in Decided, Holders(b)' # {}
                 PROVE  b \in contested'
      BY DEF HeldAreContested
    <3>1. b \notin ProposedOf(a)
      BY <1>1 DEF AnalysisReads, ProposedOf, Decided
    <3>2. Holders(b)' \subseteq Holders(b)
      BY <1>0, <1>1, <3>1 DEF AnalysisReads, Holders, LocalTypeOK
    <3> QED  BY <1>0, <1>1, <3>2 DEF AnalysisReads, HeldAreContested
  <2>7. DecisionsStand'
    BY <1>0, <1>1 DEF AnalysisReads, DecisionsStand
  <2> QED  BY <2>2, <2>3, <2>4, <2>5, <2>6, <2>7 DEF LocalInv
<1>2. ASSUME NEW a \in AnalysisCalls, NEW some \in BOOLEAN, AnalysisCommits(a, some)
      PROVE  LocalInv'
  <2>1. LocalTypeOK'
    BY <1>0, <1>2 DEF AnalysisCommits, LocalTypeOK, LocalStatus
  <2>2. advice[a] = "absent" /\ a \notin seen[a]
    BY <1>0, <1>2 DEF AnalysisCommits, StagesAgree
  <2>3. StagesAgree'
    BY <1>0, <1>2, <2>2 DEF AnalysisCommits, LocalTypeOK, StagesAgree
  <2>4. KnownAreSeen'
    <3> SUFFICES ASSUME NEW b \in AnalysisCalls, NEW c \in AnalysisCalls,
                        Asked[b] = "lineup", Asked[c] = "lineup",
                        advice'[b] = "proposed", b \in earlier'[c]
                 PROVE  /\ b \in committed'
                        /\ c \notin committed'
                        /\ analysis'[c] = "read" => b \in seen'[c]
      BY DEF KnownAreSeen
    <3>1. CASE b = a
      <4>1. a \notin earlier[c]
        BY <1>0, <1>2 DEF AnalysisCommits, StagesAgree
      <4> QED  BY <1>2, <3>1, <4>1 DEF AnalysisCommits
    <3>2. CASE b # a
      <4>1. advice[b] = "proposed" /\ b \notin seen[a]
        BY <1>0, <1>2, <3>2 DEF AnalysisCommits, LocalTypeOK
      <4>2. c # a
        BY <1>0, <1>2, <4>1 DEF AnalysisCommits, KnownAreSeen
      <4> QED  BY <1>0, <1>2, <4>1, <4>2 DEF AnalysisCommits, LocalTypeOK, KnownAreSeen
    <3> QED  BY <3>1, <3>2
  <2>5. ChoicesDecide' /\ ChosenExist'
    BY <1>0, <1>2, <2>2 DEF AnalysisCommits, ChoicesDecide, ChosenExist, LocalTypeOK
  <2>6. HeldAreContested'
    <3> SUFFICES ASSUME NEW b \in AnalysisCalls, advice'[b] \in Decided, Holders(b)' # {}
                 PROVE  b \in contested'
      BY DEF HeldAreContested
    <3>1. advice[b] = advice'[b]
      BY <1>0, <1>2 DEF AnalysisCommits, LocalTypeOK, Decided
    <3>2. Holders(b)' \subseteq Holders(b)
      BY <1>0, <1>2 DEF AnalysisCommits, Holders, LocalTypeOK
    <3> QED  BY <1>0, <1>2, <3>1, <3>2 DEF AnalysisCommits, HeldAreContested
  <2>7. DecisionsStand'
    <3>1. \A b \in AnalysisCalls : advice'[b] \in Decided => advice'[b] = advice[b]
      BY <1>0, <1>2 DEF AnalysisCommits, LocalTypeOK, Decided
    <3>2. ASSUME NEW e \in ledger PROVE advice'[e[1]] = e[2] \/ e[1] \in contested'
      <4>1. e[1] \in AnalysisCalls /\ e[2] \in Decided
        BY <1>0 DEF LocalTypeOK
      <4>2. CASE e[1] \in contested
        BY <1>2, <4>2 DEF AnalysisCommits
      <4>3. CASE e[1] \notin contested
        <5>1. advice[e[1]] = e[2]
          BY <1>0, <4>3 DEF DecisionsStand
        <5>2. Holders(e[1]) = {}
          BY <1>0, <4>1, <4>3, <5>1 DEF HeldAreContested
        <5>3. e[1] \notin seen[a] /\ e[1] # a
          BY <2>2, <4>1, <5>1, <5>2 DEF Holders, Decided
        <5> QED  BY <1>0, <1>2, <4>1, <5>1, <5>3 DEF AnalysisCommits, LocalTypeOK
      <4> QED  BY <4>2, <4>3
    <3> QED  BY <1>0, <1>2, <3>1, <3>2 DEF AnalysisCommits, DecisionsStand
  <2> QED  BY <2>1, <2>3, <2>4, <2>5, <2>6, <2>7 DEF LocalInv
<1>3. ASSUME NEW c \in DecisionCalls, NEW a \in AnalysisCalls, NEW decision \in Decided,
             ChoiceReads(c, a, decision)
      PROVE  LocalInv'
  <2>1. LocalTypeOK'
    BY <1>0, <1>3 DEF ChoiceReads, LocalTypeOK
  <2>2. StagesAgree' /\ KnownAreSeen' /\ DecisionsStand'
    BY <1>0, <1>3 DEF ChoiceReads, StagesAgree, KnownAreSeen, DecisionsStand
  <2>3. ChoicesDecide' /\ ChosenExist'
    BY <1>0, <1>3
    DEF ChoiceReads, Decidable, LocalTypeOK, ChoicesDecide, ChosenExist
  <2>4. HeldAreContested'
    <3> SUFFICES ASSUME NEW b \in AnalysisCalls, advice'[b] \in Decided, Holders(b)' # {}
                 PROVE  b \in contested'
      BY DEF HeldAreContested
    <3>1. b # a /\ advice[b] \in Decided
      BY <1>3 DEF ChoiceReads, Decidable, Decided
    <3>2. Holders(b)' \subseteq Holders(b)
      BY <1>0, <1>3, <3>1 DEF ChoiceReads, Holders, LocalTypeOK
    <3> QED  BY <1>0, <1>3, <3>1, <3>2 DEF ChoiceReads, HeldAreContested
  <2> QED  BY <2>1, <2>2, <2>3, <2>4 DEF LocalInv
<1>4. ASSUME NEW c \in DecisionCalls, ChoiceCommits(c) PROVE LocalInv'
  <2>1. PICK a \in choice[c].of :
          /\ advice' = [advice EXCEPT ![a] = choice[c].decision]
          /\ ledger' = ledger \cup {<<a, choice[c].decision>>}
          /\ choice' = [choice EXCEPT ![c] = NoChoice]
          /\ contested' = IF Holders(a) # {c} THEN contested \cup {a} ELSE contested
          /\ UNCHANGED <<analysis, seen, committed, earlier, stops>>
    BY <1>4 DEF ChoiceCommits
  <2>2. /\ a \in AnalysisCalls /\ choice[c].of = {a} /\ choice[c].decision \in Decided
        /\ c \in Holders(a)
    BY <1>0, <2>1 DEF LocalTypeOK, ChoicesDecide, Holders
  <2> DEFINE d == choice[c].decision
  <2>3. d \in Decided /\ d \notin {"absent", "proposed"}
    BY <2>2 DEF Decided
  <2> HIDE DEF d
  <2>4. LocalTypeOK'
    BY <1>0, <2>1, <2>2 DEF LocalTypeOK, LocalStatus, Decided, NoChoice
  <2>5. StagesAgree'
    <3>1. advice[a] # "absent"
      BY <1>0, <2>1, <2>2 DEF ChosenExist
    <3>2. \A b \in AnalysisCalls : advice'[b] # "absent" <=> advice[b] # "absent"
      BY <1>0, <2>1, <2>2, <2>3, <3>1 DEF LocalTypeOK, d
    <3> QED  BY <1>0, <2>1, <3>2 DEF StagesAgree
  <2>6. KnownAreSeen'
    BY <1>0, <2>1, <2>2, <2>3 DEF KnownAreSeen, LocalTypeOK, d
  <2>7. ChoicesDecide' /\ ChosenExist'
    BY <1>0, <2>1, <2>2, <2>3 DEF ChoicesDecide, ChosenExist, LocalTypeOK, NoChoice, d
  <2>8. HeldAreContested'
    <3> SUFFICES ASSUME NEW b \in AnalysisCalls, advice'[b] \in Decided, Holders(b)' # {}
                 PROVE  b \in contested'
      BY DEF HeldAreContested
    <3>1. Holders(b)' \subseteq Holders(b) \ {c}
      BY <1>0, <2>1, LocalAssumption DEF Holders, LocalTypeOK, NoChoice
    <3>2. CASE b = a
      <4>1. Holders(a) # {c}
        BY <3>1, <3>2
      <4> QED  BY <2>1, <3>2, <4>1
    <3>3. CASE b # a
      BY <1>0, <2>1, <3>1, <3>3 DEF HeldAreContested, LocalTypeOK
    <3> QED  BY <3>2, <3>3
  <2>9. DecisionsStand'
    <3>1. \A b \in AnalysisCalls : advice'[b] \in Decided => <<b, advice'[b]>> \in ledger'
      BY <1>0, <2>1, <2>2 DEF DecisionsStand, LocalTypeOK
    <3>2. ASSUME NEW e \in ledger, e[1] # a
          PROVE  advice'[e[1]] = e[2] \/ e[1] \in contested'
      BY <1>0, <2>1, <3>2 DEF DecisionsStand, LocalTypeOK
    <3>3. ASSUME NEW e \in ledger, e[1] = a PROVE a \in contested'
      <4>1. CASE a \in contested
        BY <2>1, <4>1
      <4>2. CASE a \notin contested
        <5>1. advice[a] = e[2] /\ e[2] \in Decided
          BY <1>0, <3>3, <4>2 DEF DecisionsStand, LocalTypeOK
        <5> QED  BY <1>0, <2>2, <4>2, <5>1 DEF HeldAreContested
      <4> QED  BY <4>1, <4>2
    <3>4. advice'[a] = choice[c].decision
      BY <1>0, <2>1, <2>2 DEF LocalTypeOK
    <3>5. \A e \in ledger' : advice'[e[1]] = e[2] \/ e[1] \in contested'
      BY <2>1, <3>2, <3>3, <3>4
    <3> QED  BY <3>1, <3>5 DEF DecisionsStand
  <2> QED  BY <2>4, <2>5, <2>6, <2>7, <2>8, <2>9 DEF LocalInv
<1>5. CASE LocalStops
  <2>1. LocalTypeOK' /\ StagesAgree' /\ ChoicesDecide' /\ ChosenExist'
    BY <1>0, <1>5
    DEF LocalStops, LocalTypeOK, StagesAgree, ChoicesDecide, ChosenExist, NoChoice
  <2>2. KnownAreSeen' /\ DecisionsStand'
    BY <1>0, <1>5 DEF LocalStops, LocalTypeOK, KnownAreSeen, DecisionsStand
  <2>3. HeldAreContested'
    BY <1>0, <1>5 DEF LocalStops, HeldAreContested, Holders, NoChoice
  <2> QED  BY <2>1, <2>2, <2>3 DEF LocalInv
<1>6. CASE UNCHANGED localVars
  BY <1>0, <1>6 DEF localVars, LocalInv, LocalTypeOK, StagesAgree, KnownAreSeen, ChoicesDecide,
                    ChosenExist, HeldAreContested, DecisionsStand, Holders
<1> QED  BY <1>1, <1>2, <1>3, <1>4, <1>5, <1>6 DEF LocalNext

\* Proposed lineups come from the last analysis but for those that overlapped.
THEOREM LocalLineupsAreLatest == LocalSpec => []LineupsAreLatest
<1>1. LocalInit => LocalInv
  BY LocalInvInit
<1>2. LocalInv /\ [LocalNext]_localVars => LocalInv'
  BY LocalInvStep
<1>3. LocalInv => LineupsAreLatest
  BY DEF LocalInv, LocalTypeOK, KnownAreSeen, LineupsAreLatest
<1> QED  BY <1>1, <1>2, <1>3, PTL DEF LocalSpec

\* Decisions and audit events agree, and only overlapping calls undo a decision.
THEOREM LocalDecisionsStand == LocalSpec => []DecisionsStand
<1>1. LocalInit => LocalInv
  BY LocalInvInit
<1>2. LocalInv /\ [LocalNext]_localVars => LocalInv'
  BY LocalInvStep
<1>3. LocalInv => DecisionsStand
  BY DEF LocalInv
<1> QED  BY <1>1, <1>2, <1>3, PTL DEF LocalSpec
-----------------------------------------------------------------------------
(* LocalRuns. *)

Statuses   == {"pending", "connected", "error"}
SettingsOf == Settings \cup {0}
RunStages  == {"new", "read", "fetched", "analysing", "notified", "raised", "ended"}

RunsTypeOK ==
    /\ espn \in [settings : SettingsOf, status : Statuses]
    /\ save \in [Settings -> [at : {"new", "read", "ended"}, loaded : Statuses]]
    /\ run \in [Runs -> [at : RunStages, settings : SettingsOf, loaded : Statuses, left : Int]]

\* Settings no run has overlapped were saved before the runs at work have begun.
RunsHaveRead ==
    \A r \in Runs :
        AtWork(r) /\ espn.settings \notin met => run[r].settings = espn.settings

\* A save that no run overlaps finds the status as it has read it, or pending.
SavesAlone ==
    \A s \in Settings : save[s].at = "read" /\ s \notin met =>
        /\ \A r \in Runs : ~AtWork(r)
        /\ save[s].loaded = "pending" => espn.status = "pending"

\* A run that goes on after its fetch has been answered, and has saved its snapshot last, or
\* after another of the same settings.
RunsHaveFetched ==
    \A r \in Runs :
        /\ run[r].at \in {"fetched", "analysing", "notified"} => run[r].settings \in fetched
        /\ run[r].at \in {"analysing", "notified"} /\ espn.settings \notin met =>
               newest = espn.settings

RunsInv ==
    RunsTypeOK /\ RunsHaveRead /\ SavesAlone /\ RunsHaveFetched /\ LocalConnectedIsProven

LEMMA RunsInvInit == RunsInit => RunsInv
<1> SUFFICES ASSUME RunsInit  PROVE RunsInv
  OBVIOUS
<1>1. espn.settings = 0 /\ espn.status \in {"pending", "error"}
      /\ espn \in [settings : SettingsOf, status : Statuses]
  BY DEF RunsInit, SettingsOf, Statuses
<1>2. RunsTypeOK
  BY <1>1 DEF RunsInit, RunsTypeOK, Statuses, SettingsOf, RunStages
<1>3. \A r \in Runs : run[r].at = "new"
  BY DEF RunsInit
<1>4. \A s \in Settings : save[s].at = "new"
  BY DEF RunsInit
<1> QED
  BY <1>1, <1>2, <1>3, <1>4
  DEF RunsInv, RunsHaveRead, SavesAlone, RunsHaveFetched, LocalConnectedIsProven, AtWork

\* One run moves and keeps the settings it has read.
LEMMA MoveStep ==
    ASSUME RunsInv, NEW r \in Runs, AtWork(r),
           NEW new \in [at : RunStages \ {"new"}, settings : {run[r].settings},
                        loaded : Statuses, left : Int],
           run' = [run EXCEPT ![r] = new],
           UNCHANGED <<save, met>>, espn'.settings = espn.settings,
           espn' \in [settings : SettingsOf, status : Statuses]
    PROVE  RunsTypeOK' /\ RunsHaveRead' /\ SavesAlone'
<1>1. new \in [at : RunStages, settings : SettingsOf, loaded : Statuses, left : Int]
  BY DEF RunsInv, RunsTypeOK
<1>2. RunsTypeOK'
  BY <1>1 DEF RunsInv, RunsTypeOK
<1>3. \A q \in Runs : run'[q].settings = run[q].settings /\ (AtWork(q)' => AtWork(q))
  BY DEF RunsInv, RunsTypeOK, AtWork
<1>4. RunsHaveRead'
  BY <1>3 DEF RunsInv, RunsHaveRead
<1>5. \A s \in Settings : save[s].at = "read" => s \in met
  BY DEF RunsInv, SavesAlone
<1> QED  BY <1>2, <1>4, <1>5 DEF SavesAlone

\* A commit of a run that ends, or goes on analysing.
LEMMA FlushStep ==
    ASSUME RunsInv, NEW r \in Runs, AtWork(r),
           NEW value \in {"connected", "error"}, NEW to \in {"analysing", "ended"},
           NEW left \in Int, Flushes(r, value, to, left),
           value = "connected" \/ to = "analysing" => run[r].at \in {"analysing", "notified"}
    PROVE  RunsInv'
<1>1. espn' \in [settings : SettingsOf, status : Statuses]
      /\ espn'.settings = espn.settings
      /\ (espn'.status = "connected" => value = "connected" \/ espn.status = "connected")
  BY DEF Flushes, Written, RunsInv, RunsTypeOK, Statuses
<1>2. PICK new \in [at : RunStages \ {"new"}, settings : {run[r].settings}, loaded : Statuses,
                    left : Int] :
          run' = [run EXCEPT ![r] = new] /\ new.at = to
  <2>1. run' = [run EXCEPT ![r] = [run[r] EXCEPT !.at = to, !.loaded = value, !.left = left]]
    BY DEF Flushes, RunsInv, RunsTypeOK
  <2>2. [run[r] EXCEPT !.at = to, !.loaded = value, !.left = left]
            \in [at : RunStages \ {"new"}, settings : {run[r].settings}, loaded : Statuses,
                 left : Int]
    BY DEF RunsInv, RunsTypeOK, RunStages, Statuses
  <2>3. [run[r] EXCEPT !.at = to, !.loaded = value, !.left = left].at = to
    BY DEF RunsInv, RunsTypeOK
  <2> QED  BY <2>1, <2>2, <2>3
<1>3. UNCHANGED <<newest, save, fetched, met>>
  BY DEF Flushes
<1>4. RunsTypeOK' /\ RunsHaveRead' /\ SavesAlone'
  BY <1>1, <1>2, <1>3, MoveStep
<1>5. \A q \in Runs : run'[q].at \in {"fetched", "analysing", "notified"} =>
          /\ run'[q].settings = run[q].settings
          /\ run[q].at = run'[q].at \/ (q = r /\ run[q].at \in {"analysing", "notified"})
  BY <1>2 DEF RunsInv, RunsTypeOK
<1>6. RunsHaveFetched'
  BY <1>1, <1>3, <1>5 DEF RunsInv, RunsHaveFetched
<1>7. value = "connected" /\ espn.settings \notin met =>
          espn.settings \in fetched /\ newest = espn.settings
  BY DEF RunsInv, RunsHaveRead, RunsHaveFetched
<1>8. LocalConnectedIsProven'
  BY <1>1, <1>3, <1>7 DEF RunsInv, LocalConnectedIsProven
<1> QED  BY <1>4, <1>6, <1>8 DEF RunsInv

LEMMA RunsInvStep == RunsInv /\ [RunsNext]_runVars => RunsInv'
<1> SUFFICES ASSUME RunsInv, [RunsNext]_runVars  PROVE RunsInv'
  OBVIOUS
<1>0. RunsTypeOK
  BY DEF RunsInv
<1>1. ASSUME NEW s \in Settings, SaveReads(s)  PROVE RunsInv'
  <2>1. UNCHANGED <<espn, newest, run, fetched>> /\ met \subseteq met'
    BY <1>1 DEF SaveReads
  <2>2. /\ \A q \in Settings \ {s} : save'[q] = save[q]
        /\ save'[s].loaded = espn.status
        /\ save' \in [Settings -> [at : {"new", "read", "ended"}, loaded : Statuses]]
    BY <1>0, <1>1 DEF SaveReads, RunsTypeOK
  <2>3. s \notin met' => \A r \in Runs : ~AtWork(r)
    BY <1>1 DEF SaveReads
  <2>4. SavesAlone'
    BY <2>1, <2>2, <2>3 DEF RunsInv, SavesAlone, AtWork
  <2>5. RunsTypeOK'
    BY <1>0, <2>1, <2>2 DEF RunsTypeOK
  <2> QED
    BY <2>1, <2>4, <2>5
    DEF RunsInv, RunsHaveRead, RunsHaveFetched, LocalConnectedIsProven, AtWork
<1>2. ASSUME NEW s \in Settings, SaveCommits(s)  PROVE RunsInv'
  <2>1. UNCHANGED <<newest, run, fetched>> /\ met \subseteq met'
        /\ save[s].at = "read" /\ espn'.settings = s
        /\ espn'.status = Written("pending", save[s].loaded)
        /\ espn' = [settings |-> s, status |-> Written("pending", save[s].loaded)]
    BY <1>2 DEF SaveCommits, NewStatus
  <2>2. espn'.status \in {"pending", espn.status}
    BY <2>1 DEF Written
  <2>3. /\ \A q \in Settings : save'[q].at = "read" => save'[q] = save[q]
        /\ save' \in [Settings -> [at : {"new", "read", "ended"}, loaded : Statuses]]
    BY <1>0, <1>2 DEF SaveCommits, RunsTypeOK
  <2>4. s \notin met' => \A r \in Runs : ~AtWork(r)
    BY <1>2 DEF SaveCommits
  <2>5. s \notin met' => espn'.status = "pending"
    BY <2>1, <2>2 DEF RunsInv, SavesAlone, Written
  <2>6. RunsTypeOK'
    BY <1>0, <2>1, <2>2, <2>3 DEF RunsTypeOK, SettingsOf, Statuses
  <2>7. SavesAlone'
    BY <2>1, <2>2, <2>3 DEF RunsInv, SavesAlone, AtWork
  <2>8. RunsHaveRead' /\ LocalConnectedIsProven'
    BY <2>1, <2>4, <2>5 DEF RunsHaveRead, LocalConnectedIsProven, AtWork
  <2>9. RunsHaveFetched'
    BY <2>1, <2>4 DEF RunsInv, RunsHaveFetched, AtWork
  <2> QED  BY <2>6, <2>7, <2>8, <2>9 DEF RunsInv
<1>3. ASSUME NEW r \in Runs, RunReads(r)  PROVE RunsInv'
  <2>1. UNCHANGED <<espn, newest, save, fetched>>
        /\ met' = met \cup {s \in Settings : save[s].at = "read"}
    BY <1>3 DEF RunReads
  <2>2. AnalysesOf(r) \in Int
    BY DEF AnalysesOf
  <2>3. run' \in [Runs -> [at : RunStages, settings : SettingsOf, loaded : Statuses, left : Int]]
    BY <1>0, <1>3, <2>2 DEF RunReads, RunsTypeOK, RunStages
  <2>4. run'[r].at = "read" /\ run'[r].settings = espn.settings
        /\ \A q \in Runs \ {r} : run'[q] = run[q]
    BY <1>0, <1>3 DEF RunReads, RunsTypeOK
  <2>5. RunsTypeOK'
    BY <1>0, <2>1, <2>3 DEF RunsTypeOK
  <2>6. RunsHaveRead' /\ RunsHaveFetched'
    BY <2>1, <2>4 DEF RunsInv, RunsHaveRead, RunsHaveFetched, AtWork
  <2>7. SavesAlone' /\ LocalConnectedIsProven'
    BY <2>1 DEF RunsInv, SavesAlone, LocalConnectedIsProven
  <2> QED  BY <2>5, <2>6, <2>7 DEF RunsInv
<1>4. ASSUME NEW r \in Runs, Fetches(r)  PROVE RunsInv'
  <2>1. PICK to \in {"fetched", "raised"} :
            /\ run[r].at = "read" /\ run' = [run EXCEPT ![r] = [@ EXCEPT !.at = to]]
            /\ fetched \subseteq fetched'
            /\ to = "fetched" => run[r].settings \in fetched'
    BY <1>4 DEF Fetches, Moves
  <2>2. UNCHANGED <<espn, newest, save, met>>
    BY <1>4 DEF Fetches
  <2>3. [run[r] EXCEPT !.at = to] \in [at : RunStages \ {"new"}, settings : {run[r].settings},
                                       loaded : Statuses, left : Int]
    BY <1>0 DEF RunsTypeOK, RunStages
  <2>4. RunsTypeOK' /\ RunsHaveRead' /\ SavesAlone'
    BY <1>0, <2>1, <2>2, <2>3, MoveStep DEF AtWork, RunsTypeOK
  <2>5. \A q \in Runs : /\ run'[q].settings = run[q].settings
                        /\ run'[q].at = run[q].at \/ (q = r /\ run'[q].at = to)
    BY <1>0, <2>1 DEF RunsTypeOK
  <2>6. RunsHaveFetched'
    BY <2>1, <2>2, <2>5 DEF RunsInv, RunsHaveFetched
  <2>7. LocalConnectedIsProven'
    BY <2>1, <2>2 DEF RunsInv, LocalConnectedIsProven
  <2> QED  BY <2>4, <2>6, <2>7 DEF RunsInv
<1>5. ASSUME NEW r \in Runs, SnapshotCommits(r)  PROVE RunsInv'
  <2>1. /\ run[r].at = "fetched" /\ run' = [run EXCEPT ![r] = [@ EXCEPT !.at = "analysing"]]
        /\ newest' = run[r].settings /\ UNCHANGED <<espn, save, fetched, met>>
    BY <1>5 DEF SnapshotCommits, Moves
  <2>2. [run[r] EXCEPT !.at = "analysing"]
            \in [at : RunStages \ {"new"}, settings : {run[r].settings}, loaded : Statuses,
                 left : Int]
    BY <1>0 DEF RunsTypeOK, RunStages
  <2>3. RunsTypeOK' /\ RunsHaveRead' /\ SavesAlone'
    BY <1>0, <2>1, <2>2, MoveStep DEF AtWork, RunsTypeOK
  <2>4. espn.settings \notin met => newest' = espn.settings
    BY <2>1 DEF RunsInv, RunsHaveRead, AtWork
  <2>5. \A q \in Runs : /\ run'[q].settings = run[q].settings
                        /\ run'[q].at = run[q].at \/ (q = r /\ run'[q].at = "analysing")
    BY <1>0, <2>1 DEF RunsTypeOK
  <2>6. RunsHaveFetched'
    BY <2>1, <2>4, <2>5 DEF RunsInv, RunsHaveFetched
  <2>7. LocalConnectedIsProven'
    BY <2>1, <2>4 DEF RunsInv, LocalConnectedIsProven
  <2> QED  BY <2>3, <2>6, <2>7 DEF RunsInv
<1>6. ASSUME NEW r \in Runs, AnalysisFlushes(r)  PROVE RunsInv'
  <2>1. run[r].left - 1 \in Int
    BY <1>0 DEF RunsTypeOK
  <2> QED  BY <1>6, <2>1, FlushStep DEF AnalysisFlushes, AtWork
<1>7. ASSUME NEW r \in Runs, Notifies(r)  PROVE RunsInv'
  <2>1. PICK to \in {"notified", "raised"} :
            run[r].at = "analysing" /\ run' = [run EXCEPT ![r] = [@ EXCEPT !.at = to]]
    BY <1>7 DEF Notifies, Moves
  <2>2. UNCHANGED <<espn, newest, save, fetched, met>>
    BY <1>7 DEF Notifies
  <2>3. [run[r] EXCEPT !.at = to] \in [at : RunStages \ {"new"}, settings : {run[r].settings},
                                       loaded : Statuses, left : Int]
    BY <1>0 DEF RunsTypeOK, RunStages
  <2>4. RunsTypeOK' /\ RunsHaveRead' /\ SavesAlone'
    BY <1>0, <2>1, <2>2, <2>3, MoveStep DEF AtWork, RunsTypeOK
  <2>5. \A q \in Runs : /\ run'[q].settings = run[q].settings
                        /\ run'[q].at = run[q].at \/ (q = r /\ run'[q].at = to)
    BY <1>0, <2>1 DEF RunsTypeOK
  <2>6. RunsHaveFetched'
    BY <2>1, <2>2, <2>5 DEF RunsInv, RunsHaveFetched
  <2>7. LocalConnectedIsProven'
    BY <2>2 DEF RunsInv, LocalConnectedIsProven
  <2> QED  BY <2>4, <2>6, <2>7 DEF RunsInv
<1>8. ASSUME NEW r \in Runs, RunEnds(r)  PROVE RunsInv'
  BY <1>8, FlushStep DEF RunEnds, AtWork
<1>9. ASSUME NEW r \in Runs, RunFails(r)  PROVE RunsInv'
  BY <1>9, FlushStep DEF RunFails, AtWork
<1>10. CASE ServerHalts
  <2>1. UNCHANGED <<espn, newest, fetched, met>>
    BY <1>10 DEF ServerHalts
  <2>2. \A r \in Runs : run'[r].at \in {"new", "ended"}
    BY <1>10 DEF ServerHalts, AtWork
  <2>3. \A s \in Settings : save'[s].at # "read"
    BY <1>0, <1>10 DEF ServerHalts, RunsTypeOK
  <2>4. run' \in [Runs -> [at : RunStages, settings : SettingsOf, loaded : Statuses, left : Int]]
    BY <1>0, <1>10 DEF ServerHalts, RunsTypeOK, RunStages
  <2>5. save' \in [Settings -> [at : {"new", "read", "ended"}, loaded : Statuses]]
    BY <1>0, <1>10 DEF ServerHalts, RunsTypeOK
  <2>6. RunsTypeOK'
    BY <1>0, <2>1, <2>4, <2>5 DEF RunsTypeOK
  <2>7. RunsHaveRead' /\ SavesAlone' /\ RunsHaveFetched' /\ LocalConnectedIsProven'
    BY <2>1, <2>2, <2>3
    DEF RunsInv, RunsHaveRead, SavesAlone, RunsHaveFetched, LocalConnectedIsProven, AtWork
  <2> QED  BY <2>6, <2>7 DEF RunsInv
<1>11. CASE UNCHANGED runVars
  BY <1>11
  DEF runVars, RunsInv, RunsTypeOK, RunsHaveRead, SavesAlone, RunsHaveFetched,
      LocalConnectedIsProven, AtWork
<1> QED
  BY <1>1, <1>2, <1>3, <1>4, <1>5, <1>6, <1>7, <1>8, <1>9, <1>10, <1>11 DEF RunsNext

\* However saves, syncs and scheduled runs interleave: settings no run has overlapped are shown
\* as connected only when ESPN has answered for them, and with their own snapshot.
THEOREM LocalConnectionsAreProven == RunsSpec => []LocalConnectedIsProven
<1>1. RunsInv => LocalConnectedIsProven
  BY DEF RunsInv
<1> QED  BY <1>1, RunsInvInit, RunsInvStep, PTL DEF RunsSpec
-----------------------------------------------------------------------------
Stages == {"ended", "sent", "renewing", "rotated", "renewed", "refused", "signed out", "signed in"}

SomeAsk(numbers) ==
    [kind : {"none", "post", "sign-out", "sign-in", "restore"}, at : Stages,
     cookie : {None} \cup numbers, header : Nat, answer : Nat, retried : BOOLEAN, crossed : BOOLEAN]

\* Sessions are numbered in the order they are created in, and a cookie names one of them.
SessionTypeOK ==
    /\ \E n \in Nat : sessions \in [1..n -> [digest : Nat \ {None}, revoked : BOOLEAN]]
    /\ tokens \in Nat
    /\ cookies \in [session : {None} \cup DOMAIN sessions, csrf : Nat]
    /\ remembered \in [Tabs -> Nat]
    /\ calls \in [Tabs -> SomeAsk(DOMAIN sessions)]
    /\ \A t \in Tabs : calls[t].at = "signed in" => calls[t].answer \in DOMAIN sessions

\* What holds of a tab that nobody has crossed.  While it asks for a token the browser stays in
\* the session that is asked, or in none; the answer is that session's token until it arrives;
\* then the cookie is, and the call that is made once more is sent with it.
SameSession(t) ==
    calls[t].at \in {"renewing", "rotated", "renewed"} => cookies.session \in {None, calls[t].cookie}

AnswerIsDigest(t) ==
    calls[t].at = "rotated" =>
        /\ calls[t].cookie # None
        /\ calls[t].answer = sessions[calls[t].cookie].digest

CookieIsDigest(t) ==
    calls[t].at = "renewed" /\ cookies.session # None =>
        cookies.csrf = sessions[cookies.session].digest

HeaderIsDigest(t) ==
    calls[t].at = "sent" /\ calls[t].retried /\ Live(calls[t].cookie) =>
        calls[t].header = sessions[calls[t].cookie].digest

RefusedIsOver(t) == calls[t].at = "refused" => ~Live(calls[t].cookie)

OnCourse(t) ==
    \/ calls[t].crossed
    \/ SameSession(t) /\ AnswerIsDigest(t) /\ CookieIsDigest(t) /\ HeaderIsDigest(t) /\ RefusedIsOver(t)

SessionInv == SessionTypeOK /\ \A t \in Tabs : OnCourse(t)

LEMMA SessionInvInit == SessionInit => SessionInv
<1> SUFFICES ASSUME SessionInit PROVE SessionInv
  OBVIOUS
<1>1. sessions \in [1..1 -> [digest : Nat \ {None}, revoked : BOOLEAN]] /\ DOMAIN sessions = 1..1
  BY DEF SessionInit, None
<1>2. SessionTypeOK
  <2>1. cookies \in [session : {None} \cup DOMAIN sessions, csrf : Nat]
    BY <1>1 DEF SessionInit, None
  <2>2. NoAsk \in SomeAsk(DOMAIN sessions) /\ NoAsk.at = "ended"
    BY DEF NoAsk, SomeAsk, Stages, None
  <2>3. calls \in [Tabs -> SomeAsk(DOMAIN sessions)] /\ \A t \in Tabs : calls[t].at = "ended"
    BY <2>2 DEF SessionInit
  <2>4. remembered \in [Tabs -> Nat] /\ tokens \in Nat
    BY <2>1 DEF SessionInit
  <2> QED  BY <1>1, <2>1, <2>3, <2>4 DEF SessionTypeOK
<1>3. \A t \in Tabs : OnCourse(t)
  BY DEF SessionInit, NoAsk, OnCourse, SameSession, AnswerIsDigest, CookieIsDigest, HeaderIsDigest,
         RefusedIsOver
<1> QED  BY <1>2, <1>3 DEF SessionInv

\* A call that is sent carries the browser's cookie, and its token or what the tab remembers.
LEMMA SendsEffect ==
  ASSUME SessionTypeOK, NEW t \in Tabs, NEW kind \in {"post", "sign-out", "sign-in", "restore", "none"},
         NEW retried \in BOOLEAN, Sends(t, kind, retried)
  PROVE  /\ remembered' \in [Tabs -> Nat]
         /\ calls' \in [Tabs -> SomeAsk(DOMAIN sessions)]
         /\ \A u \in Tabs \ {t} : calls'[u] = calls[u]
         /\ calls'[t].at = "sent" /\ calls'[t].cookie = cookies.session
         /\ calls'[t].retried = retried
         /\ calls'[t].crossed = (retried /\ calls[t].crossed)
         /\ cookies.csrf # None => calls'[t].header = cookies.csrf
<1> DEFINE token == CurrentToken(t)
           crossed == retried /\ calls[t].crossed
           sent == Sent(t, kind, retried)
<1>1. token \in Nat /\ crossed \in BOOLEAN /\ calls[t] \in SomeAsk(DOMAIN sessions)
  BY DEF SessionTypeOK, SomeAsk, CurrentToken
<1>2. cookies.session \in {None} \cup DOMAIN sessions
  BY DEF SessionTypeOK
<1>3. remembered' = [remembered EXCEPT ![t] = token] /\ calls' = [calls EXCEPT ![t] = sent]
  BY DEF Sends
<1>4. sent = [calls[t] EXCEPT !.kind = kind, !.at = "sent", !.cookie = cookies.session,
                      !.header = token, !.retried = retried, !.crossed = crossed]
  BY <1>1 DEF SomeAsk, Sent
<1>5. sent \in SomeAsk(DOMAIN sessions)
  <2> HIDE DEF token, crossed, sent
  <2> QED  BY <1>1, <1>2, <1>4 DEF SomeAsk, Stages
<1>6. remembered \in [Tabs -> Nat] /\ calls \in [Tabs -> SomeAsk(DOMAIN sessions)]
  BY DEF SessionTypeOK
<1>7. /\ sent.at = "sent" /\ sent.cookie = cookies.session /\ sent.retried = retried
      /\ sent.crossed = crossed /\ sent.header = token
  <2> HIDE DEF token, crossed, sent
  <2> QED  BY <1>1, <1>4 DEF SomeAsk
<1>8. calls'[t] = sent /\ \A u \in Tabs \ {t} : calls'[u] = calls[u]
  <2> HIDE DEF sent
  <2> QED  BY <1>3, <1>6
<1>9. calls' \in [Tabs -> SomeAsk(DOMAIN sessions)]
  <2> HIDE DEF sent
  <2> QED  BY <1>3, <1>5, <1>6
<1>10. remembered' \in [Tabs -> Nat]
  <2> HIDE DEF token
  <2> QED  BY <1>1, <1>3, <1>6
<1> QED  BY <1>7, <1>8, <1>9, <1>10 DEF CurrentToken

\* Whoever is crossed keeps the rest of his call.
LEMMA CrossedEffect ==
  ASSUME SessionTypeOK, NEW others \in SUBSET Tabs
  PROVE  /\ Crossed(others) \in [Tabs -> SomeAsk(DOMAIN sessions)]
         /\ \A u \in Tabs :
              LET c == Crossed(others)[u] IN
              /\ c.kind = calls[u].kind /\ c.at = calls[u].at /\ c.cookie = calls[u].cookie
              /\ c.header = calls[u].header /\ c.answer = calls[u].answer
              /\ c.retried = calls[u].retried
              /\ c.crossed = (calls[u].crossed \/ u \in others)
<1>1. ASSUME NEW u \in Tabs
      PROVE  LET c == [calls[u] EXCEPT !.crossed = @ \/ u \in others] IN
              /\ c \in SomeAsk(DOMAIN sessions)
              /\ c.kind = calls[u].kind /\ c.at = calls[u].at /\ c.cookie = calls[u].cookie
              /\ c.header = calls[u].header /\ c.answer = calls[u].answer
              /\ c.retried = calls[u].retried
              /\ c.crossed = (calls[u].crossed \/ u \in others)
  <2> DEFINE crossed == calls[u].crossed \/ u \in others
  <2>1. calls[u] \in SomeAsk(DOMAIN sessions) /\ crossed \in BOOLEAN
    BY DEF SessionTypeOK, SomeAsk
  <2> HIDE DEF crossed
  <2>2. LET c == [calls[u] EXCEPT !.crossed = crossed] IN
              /\ c \in SomeAsk(DOMAIN sessions)
              /\ c.kind = calls[u].kind /\ c.at = calls[u].at /\ c.cookie = calls[u].cookie
              /\ c.header = calls[u].header /\ c.answer = calls[u].answer
              /\ c.retried = calls[u].retried
              /\ c.crossed = crossed
    BY <2>1 DEF SomeAsk
  <2> QED  BY <2>2 DEF crossed
<1> QED  BY <1>1, Zenon DEF Crossed

\* A tab stays on its course when others leave its call alone, a session that ended stays ended,
\* and whoever changes a token or a cookie it counts on crosses it.
LEMMA BystanderKeeps ==
  ASSUME SessionTypeOK, NEW u \in Tabs, OnCourse(u),
         calls'[u].at = calls[u].at, calls'[u].cookie = calls[u].cookie,
         calls'[u].header = calls[u].header, calls'[u].answer = calls[u].answer,
         calls'[u].retried = calls[u].retried,
         calls[u].crossed => calls'[u].crossed,
         \A n \in DOMAIN sessions : sessions[n].revoked => sessions'[n].revoked,
         calls'[u].crossed \/ (Retrying(u) =>
             \A n \in DOMAIN sessions : sessions'[n].digest = sessions[n].digest),
         calls'[u].crossed \/ (calls[u].at \in {"renewing", "rotated", "renewed"} =>
             cookies'.session \in {None, cookies.session}),
         calls'[u].crossed \/ (calls[u].at = "renewed" =>
             cookies'.session = None \/ cookies' = cookies)
  PROVE  OnCourse(u)'
<1> SUFFICES ASSUME ~calls'[u].crossed
             PROVE  /\ SameSession(u)' /\ AnswerIsDigest(u)' /\ CookieIsDigest(u)'
                    /\ HeaderIsDigest(u)' /\ RefusedIsOver(u)'
  BY DEF OnCourse
<1>1. /\ SameSession(u) /\ AnswerIsDigest(u) /\ CookieIsDigest(u)
      /\ HeaderIsDigest(u) /\ RefusedIsOver(u)
  BY DEF OnCourse
<1>2. calls[u].cookie \in {None} \cup DOMAIN sessions /\ cookies.session \in {None} \cup DOMAIN sessions
  BY DEF SessionTypeOK, SomeAsk
<1>3. SameSession(u)'
  BY <1>1 DEF SameSession
<1>4. AnswerIsDigest(u)'
  BY <1>1, <1>2 DEF AnswerIsDigest, Retrying
<1>5. CookieIsDigest(u)'
  BY <1>1, <1>2 DEF CookieIsDigest, Retrying
<1>6. HeaderIsDigest(u)'
  BY <1>1, <1>2 DEF HeaderIsDigest, Retrying, Live
<1>7. RefusedIsOver(u)'
  BY <1>1, <1>2 DEF RefusedIsOver, Live
<1> QED  BY <1>3, <1>4, <1>5, <1>6, <1>7

\* A step that changes one call and nothing it shares with other tabs.
LEMMA OwnCallStep ==
  ASSUME SessionInv, NEW t \in Tabs, UNCHANGED <<sessions, tokens, cookies>>,
         remembered' \in [Tabs -> Nat],
         calls' \in [Tabs -> SomeAsk(DOMAIN sessions)],
         \A u \in Tabs \ {t} : calls'[u] = calls[u],
         calls'[t].at # "signed in", OnCourse(t)'
  PROVE  SessionInv'
<1>1. SessionTypeOK'
  BY DEF SessionInv, SessionTypeOK
<1>2. ASSUME NEW u \in Tabs \ {t} PROVE OnCourse(u)'
  <2>1. OnCourse(u)
    BY DEF SessionInv
  <2>2. calls'[u] = calls[u]
    OBVIOUS
  <2>3. (OnCourse(u)') = OnCourse(u)
    BY ZenonT(40), <2>2 DEF OnCourse, SameSession, AnswerIsDigest, CookieIsDigest, HeaderIsDigest, RefusedIsOver, Live
  <2> QED  BY <2>1, <2>3
<1> QED  BY <1>1, <1>2 DEF SessionInv

\* A call that goes on to another stage is otherwise what it was.
LEMMA StageEffect ==
  ASSUME NEW numbers, NEW c \in SomeAsk(numbers), NEW at \in Stages
  PROVE  /\ [c EXCEPT !.at = at] \in SomeAsk(numbers)
         /\ [c EXCEPT !.at = at].at = at
         /\ [c EXCEPT !.at = at].cookie = c.cookie /\ [c EXCEPT !.at = at].header = c.header
         /\ [c EXCEPT !.at = at].answer = c.answer /\ [c EXCEPT !.at = at].retried = c.retried
         /\ [c EXCEPT !.at = at].crossed = c.crossed
  BY DEF SomeAsk

\* The steps that end a call, or refuse it.
LEMMA EndedStep ==
  ASSUME SessionInv, NEW t \in Tabs, NEW at \in {"ended", "refused"},
         calls' = [calls EXCEPT ![t] = [@ EXCEPT !.at = at]],
         UNCHANGED <<sessions, tokens, cookies>>, remembered' \in [Tabs -> Nat],
         at = "refused" => calls[t].crossed \/ ~Live(calls[t].cookie)
  PROVE  SessionInv'
<1> DEFINE c == [calls[t] EXCEPT !.at = at]
<1>1. calls \in [Tabs -> SomeAsk(DOMAIN sessions)] /\ calls[t] \in SomeAsk(DOMAIN sessions)
  BY DEF SessionInv, SessionTypeOK
<1>2. /\ c \in SomeAsk(DOMAIN sessions) /\ c.at = at /\ c.cookie = calls[t].cookie
      /\ c.crossed = calls[t].crossed
  <2>1. at \in Stages
    BY DEF Stages
  <2> QED  BY <1>1, <2>1, StageEffect
<1>3. /\ calls' \in [Tabs -> SomeAsk(DOMAIN sessions)]
      /\ calls'[t] = c /\ \A u \in Tabs \ {t} : calls'[u] = calls[u]
  <2>1. calls' = [calls EXCEPT ![t] = c]
    OBVIOUS
  <2> HIDE DEF c
  <2> QED  BY <1>1, <1>2, <2>1
<1> HIDE DEF c
<1>4. OnCourse(t)'
  BY <1>2, <1>3
  DEF OnCourse, SameSession, AnswerIsDigest, CookieIsDigest, HeaderIsDigest, RefusedIsOver, Live
<1> QED  BY <1>2, <1>3, <1>4, OwnCallStep

LEMMA SessionRows ==
  ASSUME SessionTypeOK
  PROVE  /\ \A n \in DOMAIN sessions :
              sessions[n] \in [digest : Nat \ {None}, revoked : BOOLEAN]
         /\ cookies.session \in {None} \cup DOMAIN sessions /\ cookies.csrf \in Nat
         /\ \A t \in Tabs :
              /\ calls[t] \in SomeAsk(DOMAIN sessions)
              /\ calls[t].cookie \in {None} \cup DOMAIN sessions
              /\ calls[t].kind \in {"none", "post", "sign-out", "sign-in", "restore"}
              /\ calls[t].answer \in Nat /\ calls[t].header \in Nat
         /\ remembered \in [Tabs -> Nat]
         /\ calls \in [Tabs -> SomeAsk(DOMAIN sessions)]
<1>1. \A n \in DOMAIN sessions : sessions[n] \in [digest : Nat \ {None}, revoked : BOOLEAN]
  BY DEF SessionTypeOK
<1>2. cookies.session \in {None} \cup DOMAIN sessions /\ cookies.csrf \in Nat
  BY DEF SessionTypeOK
<1>3. \A t \in Tabs : calls[t] \in SomeAsk(DOMAIN sessions)
  BY DEF SessionTypeOK
<1>4. \A t \in Tabs :
        /\ calls[t].cookie \in {None} \cup DOMAIN sessions
        /\ calls[t].kind \in {"none", "post", "sign-out", "sign-in", "restore"}
        /\ calls[t].answer \in Nat /\ calls[t].header \in Nat
  BY <1>3 DEF SomeAsk
<1> QED  BY <1>1, <1>2, <1>3, <1>4 DEF SessionTypeOK

LEMMA CallSteps ==
  ASSUME SessionInv, NEW t \in Tabs,
         \/ \E kind \in {"post", "sign-out", "sign-in"} : Asks(t, kind)
         \/ Restores(t) \/ ServerRuns(t) \/ Refused(t) \/ RenewalRefused(t) \/ CallsAgain(t)
         \/ GivesUp(t) \/ SignInRefused(t)
  PROVE  SessionInv'
<1>1. SessionTypeOK /\ OnCourse(t)
  BY DEF SessionInv
<1>2. ASSUME NEW kind \in {"post", "sign-out", "sign-in"}, Asks(t, kind) PROVE SessionInv'
  <2>1. Sends(t, kind, FALSE) /\ UNCHANGED <<sessions, tokens, cookies>>
    BY <1>2 DEF Asks
  <2>2. /\ remembered' \in [Tabs -> Nat] /\ calls' \in [Tabs -> SomeAsk(DOMAIN sessions)]
        /\ \A u \in Tabs \ {t} : calls'[u] = calls[u]
        /\ calls'[t].at = "sent" /\ calls'[t].retried = FALSE
    BY <1>1, <2>1, SendsEffect
  <2>3. OnCourse(t)'
    BY <2>2
    DEF OnCourse, SameSession, AnswerIsDigest, CookieIsDigest, HeaderIsDigest, RefusedIsOver
  <2> QED  BY <2>1, <2>2, <2>3, OwnCallStep
<1>3. CASE Restores(t)
  <2> DEFINE c == [NoAsk EXCEPT !.kind = "restore", !.at = "renewing", !.cookie = cookies.session]
  <2>1. c \in SomeAsk(DOMAIN sessions) /\ c.at = "renewing" /\ c.cookie = cookies.session
    BY <1>1, SessionRows DEF SomeAsk, NoAsk, None, Stages
  <2>2. calls' = [calls EXCEPT ![t] = c] /\ UNCHANGED <<sessions, tokens, cookies, remembered>>
    BY <1>3 DEF Restores
  <2> HIDE DEF c
  <2>3. /\ calls' \in [Tabs -> SomeAsk(DOMAIN sessions)] /\ calls'[t] = c
        /\ \A u \in Tabs \ {t} : calls'[u] = calls[u]
    BY <1>1, <2>1, <2>2, SessionRows
  <2>4. OnCourse(t)'
    BY <2>1, <2>2, <2>3
    DEF OnCourse, SameSession, AnswerIsDigest, CookieIsDigest, HeaderIsDigest, RefusedIsOver
  <2>5. remembered' \in [Tabs -> Nat]
    BY <1>1, <2>2, SessionRows
  <2> QED  BY <2>1, <2>2, <2>3, <2>4, <2>5, OwnCallStep
<1>4. CASE ServerRuns(t) \/ SignInRefused(t) \/ GivesUp(t)
  <2>1. /\ calls' = [calls EXCEPT ![t] = [@ EXCEPT !.at = "ended"]]
        /\ UNCHANGED <<sessions, tokens, cookies, remembered>>
    BY <1>4 DEF ServerRuns, SignInRefused, GivesUp
  <2>2. remembered' \in [Tabs -> Nat]
    BY <1>1, <2>1, SessionRows
  <2> QED  BY <2>1, <2>2, EndedStep
<1>5. CASE RenewalRefused(t)
  <2>1. /\ calls' = [calls EXCEPT ![t] = [@ EXCEPT !.at = "refused"]] /\ ~Live(calls[t].cookie)
        /\ UNCHANGED <<sessions, tokens, cookies, remembered>>
    BY <1>5 DEF RenewalRefused
  <2>2. remembered' \in [Tabs -> Nat]
    BY <1>1, <2>1, SessionRows
  <2> QED  BY <2>1, <2>2, EndedStep
<1>6. CASE Refused(t) /\ calls[t].retried
  <2>1. /\ calls' = [calls EXCEPT ![t] = [@ EXCEPT !.at = "refused"]] /\ ~Authentic(t)
        /\ UNCHANGED <<sessions, tokens, cookies, remembered>> /\ calls[t].at = "sent"
    BY <1>6 DEF Refused
  <2>2. remembered' \in [Tabs -> Nat]
    BY <1>1, <2>1, SessionRows
  <2>3. ASSUME ~calls[t].crossed, Live(calls[t].cookie) PROVE FALSE
    <3>1. calls[t].header = sessions[calls[t].cookie].digest
      BY <1>1, <1>6, <2>1, <2>3 DEF OnCourse, HeaderIsDigest
    <3>2. calls[t].cookie \in DOMAIN sessions
      BY <1>1, <2>3, SessionRows DEF Live
    <3>3. calls[t].header # None
      BY <1>1, <3>1, <3>2, SessionRows
    <3> QED  BY <2>1, <2>3, <3>1, <3>3 DEF Authentic
  <2> QED  BY <2>1, <2>2, <2>3, EndedStep
<1>7. CASE Refused(t) /\ ~calls[t].retried
  <2> DEFINE c == [calls[t] EXCEPT !.at = "renewing", !.cookie = cookies.session]
  <2>1. c \in SomeAsk(DOMAIN sessions) /\ c.at = "renewing" /\ c.cookie = cookies.session
    <3>1. calls[t] \in SomeAsk(DOMAIN sessions) /\ cookies.session \in {None} \cup DOMAIN sessions
      BY <1>1, SessionRows
    <3> QED  BY <3>1 DEF SomeAsk, Stages
  <2>2. calls' = [calls EXCEPT ![t] = c] /\ UNCHANGED <<sessions, tokens, cookies, remembered>>
    BY <1>7 DEF Refused
  <2> HIDE DEF c
  <2>3. /\ calls' \in [Tabs -> SomeAsk(DOMAIN sessions)] /\ calls'[t] = c
        /\ \A u \in Tabs \ {t} : calls'[u] = calls[u]
    BY <1>1, <2>1, <2>2, SessionRows
  <2>4. OnCourse(t)'
    BY <2>1, <2>2, <2>3
    DEF OnCourse, SameSession, AnswerIsDigest, CookieIsDigest, HeaderIsDigest, RefusedIsOver
  <2>5. remembered' \in [Tabs -> Nat]
    BY <1>1, <2>2, SessionRows
  <2> QED  BY <2>1, <2>2, <2>3, <2>4, <2>5, OwnCallStep
<1>8. CASE CallsAgain(t)
  <2>1. /\ Sends(t, calls[t].kind, TRUE) /\ UNCHANGED <<sessions, tokens, cookies>>
        /\ calls[t].at = "renewed"
    BY <1>8 DEF CallsAgain
  <2>2. calls[t].kind \in {"post", "sign-out", "sign-in", "restore", "none"}
    BY <1>1, SessionRows
  <2>3. /\ remembered' \in [Tabs -> Nat] /\ calls' \in [Tabs -> SomeAsk(DOMAIN sessions)]
        /\ \A u \in Tabs \ {t} : calls'[u] = calls[u]
        /\ calls'[t].at = "sent" /\ calls'[t].retried /\ calls'[t].cookie = cookies.session
        /\ calls'[t].crossed = calls[t].crossed
        /\ cookies.csrf # None => calls'[t].header = cookies.csrf
    <3>1. /\ remembered' \in [Tabs -> Nat] /\ calls' \in [Tabs -> SomeAsk(DOMAIN sessions)]
          /\ \A u \in Tabs \ {t} : calls'[u] = calls[u]
          /\ calls'[t].at = "sent" /\ calls'[t].cookie = cookies.session
          /\ calls'[t].retried = TRUE
          /\ calls'[t].crossed = (TRUE /\ calls[t].crossed)
          /\ cookies.csrf # None => calls'[t].header = cookies.csrf
      BY <1>1, <2>1, <2>2, SendsEffect
    <3>2. calls[t].crossed \in BOOLEAN
      BY <1>1, SessionRows DEF SomeAsk
    <3> QED  BY <3>1, <3>2
  <2>4. ASSUME ~calls[t].crossed, Live(cookies.session)
        PROVE  calls'[t].header = sessions[cookies.session].digest
    <3>1. cookies.csrf = sessions[cookies.session].digest
      BY <1>1, <2>1, <2>4 DEF OnCourse, CookieIsDigest, Live
    <3>2. cookies.session \in DOMAIN sessions
      BY <1>1, <2>4, SessionRows DEF Live
    <3>3. cookies.csrf # None
      BY <1>1, <3>1, <3>2, SessionRows
    <3> QED  BY <2>3, <3>1, <3>3
  <2>5. OnCourse(t)'
    BY <2>1, <2>3, <2>4
    DEF OnCourse, SameSession, AnswerIsDigest, CookieIsDigest, HeaderIsDigest, RefusedIsOver, Live
  <2> QED  BY <2>1, <2>3, <2>5, OwnCallStep
<1> QED  BY <1>2, <1>3, <1>4, <1>5, <1>6, <1>7, <1>8

LEMMA SignOutSteps ==
  ASSUME SessionInv, NEW t \in Tabs, ServerSignsOut(t) \/ SignedOut(t)
  PROVE  SessionInv'
<1>1. SessionTypeOK /\ \A u \in Tabs : OnCourse(u)
  BY DEF SessionInv
<1>2. CASE ServerSignsOut(t)
  <2> DEFINE n == calls[t].cookie
             c == [calls[t] EXCEPT !.at = "signed out"]
  <2>1. /\ sessions' = [sessions EXCEPT ![n] = [@ EXCEPT !.revoked = TRUE]]
        /\ calls' = [calls EXCEPT ![t] = c]
        /\ UNCHANGED <<tokens, cookies, remembered>>
    BY <1>2 DEF ServerSignsOut
  <2>2. n \in DOMAIN sessions
    BY <1>1, <1>2, SessionRows DEF ServerSignsOut, Authentic, Live
  <2>3. /\ c \in SomeAsk(DOMAIN sessions) /\ c.at = "signed out"
        /\ calls \in [Tabs -> SomeAsk(DOMAIN sessions)]
    <3>1. calls[t] \in SomeAsk(DOMAIN sessions) /\ "signed out" \in Stages
      BY <1>1, SessionRows DEF Stages
    <3>2. calls \in [Tabs -> SomeAsk(DOMAIN sessions)]
      BY <1>1, SessionRows
    <3>3. c \in SomeAsk(DOMAIN sessions) /\ c.at = "signed out"
      BY ZenonT(40), <3>1, StageEffect
    <3> QED  BY <3>2, <3>3
  <2> HIDE DEF c, n
  <2>4. PICK m \in Nat : sessions \in [1..m -> [digest : Nat \ {None}, revoked : BOOLEAN]]
    BY <1>1 DEF SessionTypeOK
  <2>5. sessions[n] \in [digest : Nat \ {None}, revoked : BOOLEAN]
    BY <2>2, <2>4
  <2>6. /\ [sessions[n] EXCEPT !.revoked = TRUE] \in [digest : Nat \ {None}, revoked : BOOLEAN]
        /\ [sessions[n] EXCEPT !.revoked = TRUE].digest = sessions[n].digest
        /\ [sessions[n] EXCEPT !.revoked = TRUE].revoked
    BY <2>5
  <2>7. /\ sessions' \in [1..m -> [digest : Nat \ {None}, revoked : BOOLEAN]]
        /\ DOMAIN sessions' = DOMAIN sessions
        /\ \A k \in DOMAIN sessions : /\ sessions'[k].digest = sessions[k].digest
                                      /\ sessions[k].revoked => sessions'[k].revoked
    BY <2>1, <2>2, <2>4, <2>6
  <2>8. /\ calls' \in [Tabs -> SomeAsk(DOMAIN sessions')] /\ calls'[t] = c
        /\ \A u \in Tabs \ {t} : calls'[u] = calls[u]
    BY <2>1, <2>3, <2>7
  <2>9. SessionTypeOK'
    <3>1. tokens' \in Nat /\ remembered' \in [Tabs -> Nat]
          /\ cookies' \in [session : {None} \cup DOMAIN sessions', csrf : Nat]
      BY <1>1, <2>1, <2>7 DEF SessionTypeOK
    <3>2. ASSUME NEW u \in Tabs, calls'[u].at = "signed in" PROVE calls'[u].answer \in DOMAIN sessions'
      BY <1>1, <2>3, <2>7, <2>8, <3>2 DEF SessionTypeOK
    <3> QED  BY <2>4, <2>7, <2>8, <3>1, <3>2 DEF SessionTypeOK
  <2>10. OnCourse(t)'
    BY <2>3, <2>8
    DEF OnCourse, SameSession, AnswerIsDigest, CookieIsDigest, HeaderIsDigest, RefusedIsOver
  <2>11. ASSUME NEW u \in Tabs \ {t} PROVE OnCourse(u)'
    <3>1. OnCourse(u) /\ calls'[u] = calls[u] /\ cookies' = cookies
      BY <1>1, <2>1, <2>8
    <3> QED  BY <1>1, <2>7, <3>1, BystanderKeeps
  <2> QED  BY <2>9, <2>10, <2>11 DEF SessionInv
<1>3. CASE SignedOut(t)
  <2> DEFINE c == [calls[t] EXCEPT !.at = "ended"]
  <2>1. /\ cookies' = [session |-> None, csrf |-> None] \/ cookies' = cookies
        /\ remembered' = [remembered EXCEPT ![t] = cookies'.csrf]
        /\ calls' = [calls EXCEPT ![t] = c]
        /\ UNCHANGED <<sessions, tokens>>
    BY <1>3 DEF SignedOut
  <2>2. /\ c \in SomeAsk(DOMAIN sessions) /\ c.at = "ended"
        /\ calls \in [Tabs -> SomeAsk(DOMAIN sessions)]
    <3>1. calls[t] \in SomeAsk(DOMAIN sessions) /\ "ended" \in Stages
      BY <1>1, SessionRows DEF Stages
    <3> QED  BY <1>1, <3>1, StageEffect, SessionRows
  <2> HIDE DEF c
  <2>3. /\ calls' \in [Tabs -> SomeAsk(DOMAIN sessions)] /\ calls'[t] = c
        /\ \A u \in Tabs \ {t} : calls'[u] = calls[u]
    BY <2>1, <2>2
  <2>4. /\ cookies' \in [session : {None} \cup DOMAIN sessions, csrf : Nat]
        /\ cookies'.csrf \in Nat
        /\ cookies'.session = None \/ cookies' = cookies
    <3>1. cookies \in [session : {None} \cup DOMAIN sessions, csrf : Nat]
      BY <1>1 DEF SessionTypeOK
    <3>2. CASE cookies' = cookies
      BY <3>1, <3>2
    <3>3. CASE cookies' = [session |-> None, csrf |-> None]
      BY <3>3 DEF None
    <3> QED  BY <2>1, <3>2, <3>3
  <2>5. remembered' \in [Tabs -> Nat]
    BY <1>1, <2>1, <2>4, SessionRows
  <2>6. SessionTypeOK'
    <3>1. DOMAIN sessions' = DOMAIN sessions /\ tokens' \in Nat
          /\ \E n \in Nat : sessions' \in [1..n -> [digest : Nat \ {None}, revoked : BOOLEAN]]
      BY <1>1, <2>1 DEF SessionTypeOK
    <3>2. \A u \in Tabs : calls'[u].at = "signed in" => calls'[u].answer \in DOMAIN sessions
      BY <1>1, <2>2, <2>3 DEF SessionTypeOK
    <3>3. SomeAsk(DOMAIN sessions') = SomeAsk(DOMAIN sessions)
      BY <3>1
    <3> QED  BY <2>3, <2>4, <2>5, <3>1, <3>2, <3>3 DEF SessionTypeOK
  <2>7. OnCourse(t)'
    BY <2>2, <2>3
    DEF OnCourse, SameSession, AnswerIsDigest, CookieIsDigest, HeaderIsDigest, RefusedIsOver
  <2>8. ASSUME NEW u \in Tabs \ {t} PROVE OnCourse(u)'
    <3>1. /\ OnCourse(u) /\ calls'[u] = calls[u] /\ sessions' = sessions
          /\ cookies'.session \in {None, cookies.session}
      BY <1>1, <2>1, <2>3, <2>4
    <3> QED  BY <1>1, <2>4, <3>1, BystanderKeeps
  <2> QED  BY <2>6, <2>7, <2>8 DEF SessionInv
<1> QED  BY <1>2, <1>3

LEMMA TokenSteps ==
  ASSUME SessionInv, NEW t \in Tabs, ServerRotates(t) \/ TokenArrives(t)
  PROVE  SessionInv'
<1>1. SessionTypeOK /\ \A u \in Tabs : OnCourse(u)
  BY DEF SessionInv
<1>2. CASE ServerRotates(t)
  <2> DEFINE n == calls[t].cookie
             others == {u \in Tabs \ {t} : Retrying(u)}
             c == [calls[t] EXCEPT !.at = "rotated", !.answer = tokens + 1]
  <2>1. /\ sessions' = [sessions EXCEPT ![n] = [@ EXCEPT !.digest = tokens + 1]]
        /\ calls' = [Crossed(others) EXCEPT ![t] = c]
        /\ tokens' = tokens + 1
        /\ UNCHANGED <<cookies, remembered>>
        /\ calls[t].at = "renewing"
    BY <1>2, Zenon DEF ServerRotates
  <2>2. n \in DOMAIN sessions /\ n # None
    BY <1>1, <1>2, SessionRows DEF ServerRotates, Live
  <2>3. tokens \in Nat /\ tokens + 1 \in Nat \ {None}
    <3>1. tokens \in Nat
      BY <1>1 DEF SessionTypeOK
    <3> QED  BY <3>1 DEF None
  <2>4. /\ c \in SomeAsk(DOMAIN sessions) /\ c.at = "rotated" /\ c.answer = tokens + 1
        /\ c.cookie = n /\ c.crossed = calls[t].crossed
    <3>1. calls[t] \in SomeAsk(DOMAIN sessions)
      BY <1>1, SessionRows
    <3> QED  BY <2>3, <3>1 DEF SomeAsk, Stages
  <2>5. /\ Crossed(others) \in [Tabs -> SomeAsk(DOMAIN sessions)]
        /\ \A u \in Tabs :
              LET d == Crossed(others)[u] IN
              /\ d.at = calls[u].at /\ d.cookie = calls[u].cookie
              /\ d.header = calls[u].header /\ d.answer = calls[u].answer
              /\ d.retried = calls[u].retried
              /\ d.crossed = (calls[u].crossed \/ u \in others)
    BY <1>1, CrossedEffect
  <2> HIDE DEF c, n
  <2>6. PICK m \in Nat : sessions \in [1..m -> [digest : Nat \ {None}, revoked : BOOLEAN]]
    BY <1>1 DEF SessionTypeOK
  <2>7. /\ [sessions[n] EXCEPT !.digest = tokens + 1] \in [digest : Nat \ {None}, revoked : BOOLEAN]
        /\ [sessions[n] EXCEPT !.digest = tokens + 1].digest = tokens + 1
        /\ [sessions[n] EXCEPT !.digest = tokens + 1].revoked = sessions[n].revoked
    <3>1. sessions[n] \in [digest : Nat \ {None}, revoked : BOOLEAN]
      BY <2>2, <2>6
    <3> QED  BY <2>3, <3>1
  <2>8. /\ sessions' \in [1..m -> [digest : Nat \ {None}, revoked : BOOLEAN]]
        /\ DOMAIN sessions' = DOMAIN sessions
        /\ sessions'[n].digest = tokens + 1
        /\ \A k \in DOMAIN sessions : sessions[k].revoked => sessions'[k].revoked
    BY <2>1, <2>2, <2>6, <2>7
  <2> HIDE DEF others
  <2>9. /\ calls' \in [Tabs -> SomeAsk(DOMAIN sessions)] /\ calls'[t] = c
        /\ \A u \in Tabs \ {t} : calls'[u] = Crossed(others)[u]
    BY <2>1, <2>4, <2>5
  <2>10. SessionTypeOK'
    <3>1. tokens' \in Nat /\ remembered' \in [Tabs -> Nat]
          /\ cookies' \in [session : {None} \cup DOMAIN sessions', csrf : Nat]
      BY <1>1, <2>1, <2>3, <2>8 DEF SessionTypeOK
    <3>2. ASSUME NEW u \in Tabs, calls'[u].at = "signed in" PROVE calls'[u].answer \in DOMAIN sessions'
      <4>1. u # t
        BY <2>4, <2>9, <3>2
      <4>2. calls'[u].at = calls[u].at /\ calls'[u].answer = calls[u].answer
        BY <2>5, <2>9, <4>1
      <4> QED  BY <1>1, <2>8, <3>2, <4>2 DEF SessionTypeOK
    <3>3. SomeAsk(DOMAIN sessions') = SomeAsk(DOMAIN sessions)
      BY <2>8
    <3> QED  BY <2>6, <2>8, <2>9, <3>1, <3>2, <3>3 DEF SessionTypeOK
  <2>11. OnCourse(t)'
    <3>1. calls[t].crossed \/ SameSession(t)
      BY <1>1 DEF OnCourse
    <3> QED
      BY <2>1, <2>2, <2>4, <2>8, <2>9, <3>1
      DEF OnCourse, SameSession, AnswerIsDigest, CookieIsDigest, HeaderIsDigest, RefusedIsOver, n
  <2>12. ASSUME NEW u \in Tabs \ {t} PROVE OnCourse(u)'
    <3>1. OnCourse(u) /\ calls'[u] = Crossed(others)[u] /\ cookies' = cookies
      BY <1>1, <2>1, <2>9
    <3>2. Retrying(u) => u \in others
      BY DEF others
    <3>3. cookies'.session \in {None, cookies.session}
      BY <3>1
    <3> QED  BY <1>1, <2>5, <2>8, <3>1, <3>2, <3>3, BystanderKeeps
  <2> QED  BY <2>10, <2>11, <2>12 DEF SessionInv
<1>3. CASE TokenArrives(t)
  <2> DEFINE others == {u \in Tabs \ {t} : calls[u].at = "renewed"}
             at == AfterToken(t)
             c == [Crossed(others)[t] EXCEPT !.at = at]
  <2>1. /\ cookies' = [cookies EXCEPT !.csrf = calls[t].answer]
        /\ remembered' = [remembered EXCEPT ![t] = calls[t].answer]
        /\ calls' = [Crossed(others) EXCEPT ![t] = c]
        /\ UNCHANGED <<sessions, tokens>>
        /\ calls[t].at = "rotated"
    BY <1>3 DEF TokenArrives
  <2>2. /\ Crossed(others) \in [Tabs -> SomeAsk(DOMAIN sessions)]
        /\ \A u \in Tabs :
              LET d == Crossed(others)[u] IN
              /\ d.at = calls[u].at /\ d.cookie = calls[u].cookie
              /\ d.header = calls[u].header /\ d.answer = calls[u].answer
              /\ d.retried = calls[u].retried
              /\ d.crossed = (calls[u].crossed \/ u \in others)
    BY <1>1, CrossedEffect
  <2>3. at \in {"ended", "renewed"} /\ at \in Stages
    BY DEF AfterToken, Stages
  <2> HIDE DEF others, at
  <2>4. /\ c \in SomeAsk(DOMAIN sessions) /\ c.at = at
        /\ c.cookie = calls[t].cookie /\ c.crossed = (calls[t].crossed \/ t \in others)
    <3>1. Crossed(others)[t] \in SomeAsk(DOMAIN sessions)
      BY <2>2
    <3>2. /\ c \in SomeAsk(DOMAIN sessions) /\ c.at = at
          /\ c.cookie = Crossed(others)[t].cookie /\ c.crossed = Crossed(others)[t].crossed
      BY <2>3, <3>1, StageEffect
    <3> QED  BY <2>2, <3>2
  <2> HIDE DEF c
  <2>5. /\ calls' \in [Tabs -> SomeAsk(DOMAIN sessions)] /\ calls'[t] = c
        /\ \A u \in Tabs \ {t} : calls'[u] = Crossed(others)[u]
    BY <2>1, <2>2, <2>4
  <2>6. /\ cookies' \in [session : {None} \cup DOMAIN sessions, csrf : Nat]
        /\ cookies'.session = cookies.session /\ cookies'.csrf = calls[t].answer
    <3>1. cookies \in [session : {None} \cup DOMAIN sessions, csrf : Nat]
      BY <1>1 DEF SessionTypeOK
    <3>2. calls[t].answer \in Nat
      BY <1>1, SessionRows
    <3> QED  BY <2>1, <3>1, <3>2
  <2>7. SessionTypeOK'
    <3>1. DOMAIN sessions' = DOMAIN sessions /\ tokens' \in Nat
          /\ \E n \in Nat : sessions' \in [1..n -> [digest : Nat \ {None}, revoked : BOOLEAN]]
      BY <1>1, <2>1 DEF SessionTypeOK
    <3>2. ASSUME NEW u \in Tabs, calls'[u].at = "signed in" PROVE calls'[u].answer \in DOMAIN sessions
      <4>1. u # t
        BY <2>3, <2>4, <2>5, <3>2
      <4>2. calls'[u].at = calls[u].at /\ calls'[u].answer = calls[u].answer
        BY <2>2, <2>5, <4>1
      <4> QED  BY <1>1, <3>2, <4>2 DEF SessionTypeOK
    <3>3. SomeAsk(DOMAIN sessions') = SomeAsk(DOMAIN sessions)
      BY <3>1
    <3>4. calls[t].answer \in Nat /\ remembered \in [Tabs -> Nat]
      BY <1>1, SessionRows
    <3>5. remembered' \in [Tabs -> Nat]
      BY <2>1, <3>4
    <3> QED  BY <2>5, <2>6, <3>1, <3>2, <3>3, <3>5 DEF SessionTypeOK
  <2>8. OnCourse(t)'
    <3>1. calls[t].crossed \/ (SameSession(t) /\ AnswerIsDigest(t))
      BY <1>1 DEF OnCourse
    <3> QED
      BY <2>1, <2>3, <2>4, <2>5, <2>6, <3>1
      DEF OnCourse, SameSession, AnswerIsDigest, CookieIsDigest, HeaderIsDigest, RefusedIsOver
  <2>9. ASSUME NEW u \in Tabs \ {t} PROVE OnCourse(u)'
    <3>1. /\ OnCourse(u) /\ calls'[u] = Crossed(others)[u] /\ sessions' = sessions
          /\ cookies'.session \in {None, cookies.session}
      BY <1>1, <2>1, <2>5, <2>6
    <3>2. calls[u].at = "renewed" => u \in others
      BY DEF others
    <3> QED  BY <1>1, <2>2, <3>1, <3>2, BystanderKeeps
  <2> QED  BY <2>7, <2>8, <2>9 DEF SessionInv
<1> QED  BY <1>2, <1>3

LEMMA SignInSteps ==
  ASSUME SessionInv, NEW t \in Tabs, ServerSignsIn(t) \/ SignInArrives(t)
  PROVE  SessionInv'
<1>1. SessionTypeOK /\ \A u \in Tabs : OnCourse(u)
  BY DEF SessionInv
<1>2. PICK m \in Nat : sessions \in [1..m -> [digest : Nat \ {None}, revoked : BOOLEAN]]
  BY <1>1 DEF SessionTypeOK
<1>3. tokens \in Nat
  BY <1>1 DEF SessionTypeOK
<1>4. CASE ServerSignsIn(t)
  <2>1. Cardinality(DOMAIN sessions) = m
    BY <1>2, FS_Interval
  <2> DEFINE n == m + 1
             c == [calls[t] EXCEPT !.at = "signed in", !.answer = n, !.header = tokens + 1]
  <2>2. /\ sessions' = [k \in 1..n |-> IF k = n THEN [digest |-> tokens + 1, revoked |-> FALSE]
                                      ELSE sessions[k]]
        /\ calls' = [calls EXCEPT ![t] = c]
        /\ tokens' = tokens + 1
        /\ UNCHANGED <<cookies, remembered>>
    BY <1>4, <2>1, Zenon DEF ServerSignsIn
  <2>3. n \in Nat /\ tokens + 1 \in Nat \ {None} /\ DOMAIN sessions = 1..m
    BY <1>2, <1>3 DEF None
  <2>4. /\ DOMAIN sessions' = 1..n /\ DOMAIN sessions \subseteq DOMAIN sessions'
        /\ n \in DOMAIN sessions'
        /\ \A k \in DOMAIN sessions : sessions'[k] = sessions[k]
    BY <2>2, <2>3
  <2>5. sessions' \in [1..n -> [digest : Nat \ {None}, revoked : BOOLEAN]]
    BY <1>2, <2>2, <2>3
  <2>6. /\ c \in SomeAsk(DOMAIN sessions') /\ c.at = "signed in" /\ c.answer = n
        /\ SomeAsk(DOMAIN sessions) \subseteq SomeAsk(DOMAIN sessions')
    <3>1. calls[t] \in SomeAsk(DOMAIN sessions)
      BY <1>1, SessionRows
    <3>2. SomeAsk(DOMAIN sessions) \subseteq SomeAsk(DOMAIN sessions')
      BY <2>4 DEF SomeAsk
    <3>3. calls[t] \in SomeAsk(DOMAIN sessions')
      BY <3>1, <3>2
    <3> QED  BY <2>3, <3>2, <3>3 DEF SomeAsk, Stages
  <2> HIDE DEF c
  <2>7. /\ calls' \in [Tabs -> SomeAsk(DOMAIN sessions')] /\ calls'[t] = c
        /\ \A u \in Tabs \ {t} : calls'[u] = calls[u]
    <3>1. calls \in [Tabs -> SomeAsk(DOMAIN sessions)]
      BY <1>1, SessionRows
    <3> QED  BY <2>2, <2>6, <3>1
  <2>8. SessionTypeOK'
    <3>1. cookies' \in [session : {None} \cup DOMAIN sessions', csrf : Nat]
      BY <1>1, <2>2, <2>4 DEF SessionTypeOK
    <3>2. remembered' \in [Tabs -> Nat] /\ tokens' \in Nat
      BY <1>1, <2>2, <2>3, SessionRows
    <3>3. \A u \in Tabs : calls'[u].at = "signed in" => calls'[u].answer \in DOMAIN sessions'
      BY <1>1, <2>4, <2>6, <2>7 DEF SessionTypeOK
    <3> QED  BY <2>3, <2>5, <2>7, <3>1, <3>2, <3>3 DEF SessionTypeOK
  <2>9. OnCourse(t)'
    BY <2>6, <2>7
    DEF OnCourse, SameSession, AnswerIsDigest, CookieIsDigest, HeaderIsDigest, RefusedIsOver
  <2>10. ASSUME NEW u \in Tabs \ {t} PROVE OnCourse(u)'
    <3>1. /\ OnCourse(u) /\ calls'[u] = calls[u] /\ cookies' = cookies
          /\ cookies'.session \in {None, cookies.session}
      BY <1>1, <2>2, <2>7
    <3> QED  BY <1>1, <2>4, <3>1, BystanderKeeps
  <2> QED  BY <2>8, <2>9, <2>10 DEF SessionInv
<1>5. CASE SignInArrives(t)
  <2> DEFINE others == {u \in Tabs \ {t} : calls[u].at \in {"renewing", "rotated", "renewed"}}
             c == [Crossed(others)[t] EXCEPT !.at = "ended"]
  <2>1. /\ cookies' = [session |-> calls[t].answer, csrf |-> calls[t].header]
        /\ remembered' = [remembered EXCEPT ![t] = calls[t].header]
        /\ calls' = [Crossed(others) EXCEPT ![t] = c]
        /\ UNCHANGED <<sessions, tokens>>
        /\ calls[t].at = "signed in"
    BY <1>5, Zenon DEF SignInArrives
  <2>2. /\ Crossed(others) \in [Tabs -> SomeAsk(DOMAIN sessions)]
        /\ \A u \in Tabs :
              LET d == Crossed(others)[u] IN
              /\ d.at = calls[u].at /\ d.cookie = calls[u].cookie
              /\ d.header = calls[u].header /\ d.answer = calls[u].answer
              /\ d.retried = calls[u].retried
              /\ d.crossed = (calls[u].crossed \/ u \in others)
    BY <1>1, CrossedEffect
  <2> HIDE DEF others
  <2>3. c \in SomeAsk(DOMAIN sessions) /\ c.at = "ended"
    <3>1. Crossed(others)[t] \in SomeAsk(DOMAIN sessions) /\ "ended" \in Stages
      BY <2>2 DEF Stages
    <3> QED  BY <3>1, StageEffect
  <2> HIDE DEF c
  <2>4. /\ calls' \in [Tabs -> SomeAsk(DOMAIN sessions)] /\ calls'[t] = c
        /\ \A u \in Tabs \ {t} : calls'[u] = Crossed(others)[u]
    BY <2>1, <2>2, <2>3
  <2>5. calls[t].answer \in DOMAIN sessions /\ calls[t].header \in Nat
    BY <1>1, <2>1, SessionRows DEF SessionTypeOK
  <2>6. SessionTypeOK'
    <3>1. DOMAIN sessions' = DOMAIN sessions /\ tokens' \in Nat
          /\ SomeAsk(DOMAIN sessions') = SomeAsk(DOMAIN sessions)
          /\ sessions' \in [1..m -> [digest : Nat \ {None}, revoked : BOOLEAN]]
      BY <1>2, <1>3, <2>1
    <3>2. ASSUME NEW u \in Tabs, calls'[u].at = "signed in" PROVE calls'[u].answer \in DOMAIN sessions
      <4>1. u # t
        BY <2>3, <2>4, <3>2
      <4>2. calls'[u].at = calls[u].at /\ calls'[u].answer = calls[u].answer
        BY <2>2, <2>4, <4>1
      <4> QED  BY <1>1, <3>2, <4>2 DEF SessionTypeOK
    <3>3. cookies' \in [session : {None} \cup DOMAIN sessions, csrf : Nat]
      BY <2>1, <2>5
    <3>4. remembered \in [Tabs -> Nat]
      BY <1>1, SessionRows
    <3>5. remembered' \in [Tabs -> Nat]
      BY <2>1, <2>5, <3>4
    <3> QED  BY <2>4, <3>1, <3>2, <3>3, <3>5 DEF SessionTypeOK
  <2>7. OnCourse(t)'
    BY <2>3, <2>4
    DEF OnCourse, SameSession, AnswerIsDigest, CookieIsDigest, HeaderIsDigest, RefusedIsOver
  <2>8. ASSUME NEW u \in Tabs \ {t} PROVE OnCourse(u)'
    <3>1. OnCourse(u) /\ calls'[u] = Crossed(others)[u] /\ sessions' = sessions
      BY <1>1, <2>1, <2>4
    <3>2. calls[u].at \in {"renewing", "rotated", "renewed"} => u \in others
      BY DEF others
    <3> QED  BY <1>1, <2>2, <3>1, <3>2, BystanderKeeps
  <2> QED  BY <2>6, <2>7, <2>8 DEF SessionInv
<1> QED  BY <1>4, <1>5

LEMMA SessionInvStep == SessionInv /\ [SessionNext]_sessionVars => SessionInv'
<1> SUFFICES ASSUME SessionInv, [SessionNext]_sessionVars PROVE SessionInv'
  OBVIOUS
<1>1. ASSUME NEW t \in Tabs,
             \/ \E kind \in {"post", "sign-out", "sign-in"} : Asks(t, kind)
             \/ Restores(t) \/ ServerRuns(t) \/ Refused(t) \/ RenewalRefused(t) \/ CallsAgain(t)
             \/ GivesUp(t) \/ SignInRefused(t)
      PROVE  SessionInv'
  BY <1>1, CallSteps
<1>2. ASSUME NEW t \in Tabs, ServerSignsOut(t) \/ SignedOut(t) PROVE SessionInv'
  BY <1>2, SignOutSteps
<1>3. ASSUME NEW t \in Tabs, ServerRotates(t) \/ TokenArrives(t) PROVE SessionInv'
  BY <1>3, TokenSteps
<1>4. ASSUME NEW t \in Tabs, ServerSignsIn(t) \/ SignInArrives(t) PROVE SessionInv'
  BY <1>4, SignInSteps
<1>5. CASE UNCHANGED sessionVars
  BY <1>5
  DEF sessionVars, SessionInv, SessionTypeOK, OnCourse, SameSession, AnswerIsDigest,
      CookieIsDigest, HeaderIsDigest, RefusedIsOver, Live
<1> QED  BY <1>1, <1>2, <1>3, <1>4, <1>5 DEF SessionNext

\* However the tabs of a browser sign in and out, ask for new tokens and receive them: a call
\* whose second attempt is refused in a live session was crossed by another tab.
THEOREM RefusedOnlyForCause == SessionSpec => []RefusedForCause
<1>1. SessionInv => RefusedForCause
  BY DEF SessionInv, OnCourse, RefusedIsOver, RefusedForCause
<1> QED  BY <1>1, SessionInvInit, SessionInvStep, PTL DEF SessionSpec

-----------------------------------------------------------------------------
(* Console. *)

Names == {"lineup", "waivers", "trades", "full", "decide", "sync", "save", "report",
          "add", "test", "disable", "refresh", "pulse", "automation", "enter"}

\* A stage that commits something is followed by one that loads what it has touched, whatever the
\* page shows by then; only the panels a saved connection touches are loaded after another stage.
CommitStage(script, at, later) ==
    \E ask :
        /\ script[at].asks = {ask} /\ ask \notin Panels /\ ~script[at].settled
        /\ at < Len(script) /\ ~script[at + 1].league
        /\ Route(ask).touches \subseteq script[at + 1].asks \cup later

Nothing == {}

\* Scripts go forward only.
Forward(script, at, later) ==
    /\ script[at].settled \/ script[at].onError \in (at + 1)..(Len(script) + 1)
    /\ script[at].asks \subseteq Panels \/ CommitStage(script, at, later)

\* Most handlers commit something and load what it touched.
LEMMA PairScript ==
  ASSUME NEW first, NEW second, NEW ask, ask \notin Panels,
         first.asks = {ask}, ~first.settled, first.onError \in {2, 3},
         second.asks \subseteq Panels, ~second.league, second.settled \/ second.onError = 3,
         Route(ask).touches \subseteq second.asks
  PROVE  /\ Len(<<first, second>>) = 2
         /\ \A at \in 1..2 : Forward(<<first, second>>, at, Nothing)
<1> DEFINE s == <<first, second>>
<1>1. Len(s) = 2 /\ s[1] = first /\ s[2] = second
  OBVIOUS
<1> HIDE DEF s
<1>2. Forward(s, 1, Nothing)
  <2>1. CommitStage(s, 1, Nothing)
    BY <1>1 DEF CommitStage
  <2> QED  BY <1>1, <2>1 DEF Forward
<1>3. Forward(s, 2, Nothing)
  BY <1>1 DEF Forward
<1> QED  BY <1>1, <1>2, <1>3 DEF s

LEMMA PairScripts ==
  ASSUME NEW h \in {"lineup", "waivers", "trades", "decide", "sync", "add", "test", "disable"}
  PROVE  Len(Script(h)) = 2 /\ \A at \in 1..2 : Forward(Script(h), at, Nothing)
<1>1. CASE h \in {"lineup", "waivers", "trades"}
  <2>1. Script(h) = <<Post(h, 3), All({"dashboard", "activity"}, 3)>>
    BY <1>1 DEF Script, ShowView, RunAnalysis
  <2>2. Route(h).touches = {"dashboard", "activity"} /\ h \notin Panels
    BY <1>1 DEF Route, AnalysisRoute, Panels
  <2> QED  BY <2>1, <2>2, PairScript DEF Post, All, Panels
<1>2. CASE h = "decide"
  <2>1. Script(h) = <<All({"decide"}, 3), All({"dashboard", "activity"}, 3)>>
    BY <1>2 DEF Script, ShowView, DecideRecommendation
  <2>2. Route("decide").touches = {"dashboard", "activity"} /\ "decide" \notin Panels
    BY DEF Route, DecisionRoute, Panels
  <2> QED  BY <2>1, <2>2, PairScript DEF All, Panels
<1>3. CASE h = "sync"
  <2>1. Script(h) = <<All({"sync"}, 2), SyncLoads>>
    BY <1>3 DEF Script, ShowView, SyncEspn
  <2>2. Route("sync").touches = {"connections", "dashboard", "activity"} /\ "sync" \notin Panels
    BY DEF Route, SyncRoute, Panels
  <2> QED  BY <2>1, <2>2, PairScript DEF All, Settled, SyncLoads, Panels
<1>4. CASE h = "add"
  <2>1. Script(h) = <<All({"add"}, 3), All({"channels", "activity"}, 3)>>
    BY <1>4 DEF Script, ShowView, SaveChannel
  <2>2. Route("add").touches = {"channels", "activity"} /\ "add" \notin Panels
    BY DEF Route, AddRoute, Panels
  <2> QED  BY <2>1, <2>2, PairScript DEF All, Panels
<1>5. CASE h = "test"
  <2>1. Script(h) = <<All({"test"}, 3), All({"activity"}, 3)>>
    BY <1>5 DEF Script, ShowView, TestChannel
  <2>2. Route("test").touches = {"activity"} /\ "test" \notin Panels
    BY DEF Route, TestRoute, Panels
  <2> QED  BY <2>1, <2>2, PairScript DEF All, Panels
<1>6. CASE h = "disable"
  <2>1. Script(h) = <<All({"disable"}, 3), All({"channels", "activity"}, 3)>>
    BY <1>6 DEF Script, ShowView, DisableChannel
  <2>2. Route("disable").touches = {"channels", "activity"} /\ "disable" \notin Panels
    BY DEF Route, DisableRoute, Panels
  <2> QED  BY <2>1, <2>2, PairScript DEF All, Panels
<1> QED  BY <1>1, <1>2, <1>3, <1>4, <1>5, <1>6

\* Some only load.
LEMMA LoadScripts ==
  ASSUME NEW h \in {"enter", "refresh", "pulse", "automation"}
  PROVE  Len(Script(h)) \in {1, 2} /\ \A at \in 1..Len(Script(h)) : Forward(Script(h), at, Nothing)
<1>1. CASE h = "enter"
  <2>1. Script(h) = <<All({"dashboard"}, 3), Settled({"connections", "reports", "channels", "activity"})>>
    BY <1>1 DEF Script, ShowView, EnterApp
  <2> DEFINE s == Script(h)
  <2>2. /\ Len(s) = 2 /\ s[1].asks = {"dashboard"} /\ s[1].onError = 3 /\ s[2].settled
        /\ s[2].asks = {"connections", "reports", "channels", "activity"}
    BY <2>1 DEF All, Settled
  <2> HIDE DEF s
  <2>3. \A at \in 1..2 : Forward(s, at, Nothing)
    BY <2>2 DEF Forward, Panels
  <2> QED  BY <2>2, <2>3 DEF s
<1>2. CASE h = "refresh"
  <2>1. Script(h) = <<All({"dashboard"}, 2)>>
    BY <1>2 DEF Script, ShowView
  <2> DEFINE s == Script(h)
  <2>2. Len(s) = 1 /\ s[1].asks = {"dashboard"} /\ s[1].onError = 2
    BY <2>1 DEF All
  <2> HIDE DEF s
  <2>3. \A at \in 1..1 : Forward(s, at, Nothing)
    BY <2>2 DEF Forward, Panels
  <2> QED  BY <2>2, <2>3 DEF s
<1>3. CASE h = "pulse"
  <2>1. Script(h) = <<All({"reports"}, 2)>>
    BY <1>3 DEF Script, ShowView
  <2> DEFINE s == Script(h)
  <2>2. Len(s) = 1 /\ s[1].asks = {"reports"} /\ s[1].onError = 2
    BY <2>1 DEF All
  <2> HIDE DEF s
  <2>3. \A at \in 1..1 : Forward(s, at, Nothing)
    BY <2>2 DEF Forward, Panels
  <2> QED  BY <2>2, <2>3 DEF s
<1>4. CASE h = "automation"
  <2>1. Script(h) = <<Settled({"channels", "activity"})>>
    BY <1>4 DEF Script, ShowView
  <2> DEFINE s == Script(h)
  <2>2. Len(s) = 1 /\ s[1].asks = {"channels", "activity"} /\ s[1].settled
    BY <2>1 DEF Settled
  <2> HIDE DEF s
  <2>3. \A at \in 1..1 : Forward(s, at, Nothing)
    BY <2>2 DEF Forward, Panels
  <2> QED  BY <2>2, <2>3 DEF s
<1> QED  BY <1>1, <1>2, <1>3, <1>4

LEMMA ReportScript ==
  ASSUME NEW h, h = "report"
  PROVE  Len(Script(h)) = 3 /\ \A at \in 1..3 : Forward(Script(h), at, Nothing)
<1>1. Script(h) = <<Post("report", 4), All({"reports", "activity"}, 4), All({"reports"}, 4)>>
  BY DEF Script, ShowView, CreateReport
<1> DEFINE s == Script(h)
<1>2. /\ Len(s) = 3
      /\ s[1].asks = {"report"} /\ s[1].onError = 4 /\ ~s[1].settled
      /\ s[2].asks = {"reports", "activity"} /\ s[2].onError = 4 /\ ~s[2].league
      /\ s[3].asks = {"reports"} /\ s[3].onError = 4
  BY <1>1 DEF Post, All
<1>3. Route("report").touches = {"reports", "activity"} /\ "report" \notin Panels
  BY DEF Route, ReportRoute, Panels
<1> HIDE DEF s
<1>4. Forward(s, 1, Nothing)
  <2>1. CommitStage(s, 1, Nothing)
    BY <1>2, <1>3 DEF CommitStage
  <2> QED  BY <1>2, <2>1 DEF Forward
<1>5. Forward(s, 2, Nothing) /\ Forward(s, 3, Nothing)
  BY <1>2 DEF Forward, Panels
<1>6. \A at \in 1..3 : at = 1 \/ at = 2 \/ at = 3
  OBVIOUS
<1> QED  BY <1>2, <1>4, <1>5, <1>6 DEF s

LEMMA FullScript ==
  ASSUME NEW h, h = "full"
  PROVE  Len(Script(h)) = 6 /\ \A at \in 1..6 : Forward(Script(h), at, Nothing)
<1> DEFINE s == RunFullAnalysis
           stage(k) == IF k % 2 = 1 THEN Post(Kinds[(k + 1) \div 2], k + 2)
                       ELSE All({"dashboard", "activity"}, k + 1)
<1>1. Script(h) = s
  BY DEF Script, ShowView
<1>2. s = [k \in 1..6 |-> stage(k)]
  BY DEF RunFullAnalysis
<1>3. Len(s) = 6
  <2> HIDE DEF stage
  <2>1. [k \in 1..6 |-> stage(k)] \in Seq({stage(k) : k \in 1..6})
    OBVIOUS
  <2> QED  BY <1>2, <2>1, LenProperties
<1>4. /\ s[1] = Post("lineup", 3) /\ s[2] = All({"dashboard", "activity"}, 3)
      /\ s[3] = Post("waivers", 5) /\ s[4] = All({"dashboard", "activity"}, 5)
      /\ s[5] = Post("trades", 7) /\ s[6] = All({"dashboard", "activity"}, 7)
  BY <1>2 DEF Kinds
<1>5. /\ s[1].asks = {"lineup"} /\ s[1].onError = 3 /\ ~s[1].settled
      /\ s[3].asks = {"waivers"} /\ s[3].onError = 5 /\ ~s[3].settled
      /\ s[5].asks = {"trades"} /\ s[5].onError = 7 /\ ~s[5].settled
  BY <1>4 DEF Post, All
<1>6. /\ s[2].asks = {"dashboard", "activity"} /\ s[2].onError = 3 /\ ~s[2].league
      /\ s[4].asks = {"dashboard", "activity"} /\ s[4].onError = 5 /\ ~s[4].league
      /\ s[6].asks = {"dashboard", "activity"} /\ s[6].onError = 7 /\ ~s[6].league
  BY <1>4 DEF All
<1>7. \A k \in {"lineup", "waivers", "trades"} :
        Route(k).touches = {"dashboard", "activity"} /\ k \notin Panels
  BY DEF Route, AnalysisRoute, Panels
<1> HIDE DEF s
<1>8. CommitStage(s, 1, Nothing) /\ CommitStage(s, 3, Nothing) /\ CommitStage(s, 5, Nothing)
  <2>1. CommitStage(s, 1, Nothing)
    BY <1>3, <1>5, <1>6, <1>7 DEF CommitStage
  <2>2. CommitStage(s, 3, Nothing)
    BY <1>3, <1>5, <1>6, <1>7 DEF CommitStage
  <2>3. CommitStage(s, 5, Nothing)
    BY <1>3, <1>5, <1>6, <1>7 DEF CommitStage
  <2> QED  BY <2>1, <2>2, <2>3
<1>9. Forward(s, 1, Nothing) /\ Forward(s, 3, Nothing) /\ Forward(s, 5, Nothing)
  BY <1>3, <1>5, <1>8 DEF Forward
<1>10. Forward(s, 2, Nothing) /\ Forward(s, 4, Nothing) /\ Forward(s, 6, Nothing)
  BY <1>3, <1>6 DEF Forward, Panels
<1>11. \A at \in 1..6 : at = 1 \/ at = 2 \/ at = 3 \/ at = 4 \/ at = 5 \/ at = 6
  OBVIOUS
<1> QED  BY <1>1, <1>3, <1>9, <1>10, <1>11

\* A connection that is saved has its panels loaded after the sync, whatever became of it.
LEMMA SaveScript ==
  ASSUME NEW h, h = "save"
  PROVE
    /\ Len(Script(h)) = 4
    /\ Forward(Script(h), 1, SyncLoads.asks)
    /\ \A at \in 2..4 : Forward(Script(h), at, Nothing)
    /\ Script(h)[2].asks = {"connections"} /\ ~Script(h)[3].league
    /\ Script(h)[3].asks = {"sync"} /\ Script(h)[3].onError = 4
    /\ Script(h)[4] = SyncLoads /\ ~SyncLoads.league
<1> DEFINE s == Script(h)
<1>1. s = <<All({"put"}, 5), All({"connections"}, 5), All({"sync"}, 4), SyncLoads>>
  BY DEF Script, ShowView, SaveConnection
<1>2. /\ Len(s) = 4 /\ s[1] = All({"put"}, 5) /\ s[2] = All({"connections"}, 5)
      /\ s[3] = All({"sync"}, 4) /\ s[4] = SyncLoads
  BY <1>1
<1>3. /\ s[1].asks = {"put"} /\ s[1].onError = 5 /\ ~s[1].settled
      /\ s[2].asks = {"connections"} /\ s[2].onError = 5 /\ ~s[2].league
      /\ s[3].asks = {"sync"} /\ s[3].onError = 4 /\ ~s[3].settled /\ ~s[3].league
      /\ s[4].asks = {"connections", "dashboard", "activity"} /\ s[4].settled /\ ~s[4].league
  BY <1>2 DEF All, SyncLoads, Settled
<1>4. /\ Route("put").touches = {"connections", "dashboard", "activity"} /\ "put" \notin Panels
      /\ Route("sync").touches = {"connections", "dashboard", "activity"} /\ "sync" \notin Panels
      /\ SyncLoads.asks = {"connections", "dashboard", "activity"}
  BY DEF Route, PutRoute, SyncRoute, Panels, SyncLoads, Settled
<1> HIDE DEF s
<1>5. CommitStage(s, 1, SyncLoads.asks)
  BY <1>2, <1>3, <1>4 DEF CommitStage
<1>6. CommitStage(s, 3, Nothing)
  BY <1>2, <1>3, <1>4 DEF CommitStage
<1>7. Forward(s, 1, SyncLoads.asks) /\ Forward(s, 3, Nothing)
  BY <1>2, <1>3, <1>5, <1>6 DEF Forward
<1>8. Forward(s, 2, Nothing) /\ Forward(s, 4, Nothing)
  BY <1>2, <1>3 DEF Forward, Panels
<1>9. \A at \in 2..4 : at = 2 \/ at = 3 \/ at = 4
  OBVIOUS
<1> QED  BY <1>2, <1>3, <1>7, <1>8, <1>9 DEF s

Later(h, at) == IF h = "save" /\ at = 1 THEN SyncLoads.asks ELSE Nothing

LEMMA Scripts ==
  ASSUME NEW h \in Names
  PROVE  /\ Len(Script(h)) \in Nat
         /\ \A at \in 1..Len(Script(h)) : Forward(Script(h), at, Later(h, at))
<1>0. /\ h # "save" => \A at : Later(h, at) = Nothing
      /\ h = "save" => Later(h, 1) = SyncLoads.asks /\ \A at \in 2..4 : Later(h, at) = Nothing
  BY DEF Later
<1>1. CASE h \in {"lineup", "waivers", "trades", "decide", "sync", "add", "test", "disable"}
  <2>1. Len(Script(h)) = 2 /\ \A at \in 1..2 : Forward(Script(h), at, Nothing)
    BY <1>1, PairScripts
  <2> QED  BY <1>0, <1>1, <2>1
<1>2. CASE h \in {"enter", "refresh", "pulse", "automation"}
  <2>1. /\ Len(Script(h)) \in {1, 2}
        /\ \A at \in 1..Len(Script(h)) : Forward(Script(h), at, Nothing)
    BY <1>2, LoadScripts
  <2> QED  BY <1>0, <1>2, <2>1
<1>3. CASE h \in {"report", "full"}
  <2>1. CASE h = "report"
    <3>1. Len(Script(h)) = 3 /\ \A at \in 1..3 : Forward(Script(h), at, Nothing)
      BY <2>1, ReportScript
    <3> QED  BY SMTT(30), <1>0, <2>1, <3>1
  <2>2. CASE h = "full"
    <3>1. Len(Script(h)) = 6 /\ \A at \in 1..6 : Forward(Script(h), at, Nothing)
      BY <2>2, FullScript
    <3>2. h # "save"
      BY <2>2
    <3>3. ASSUME NEW at \in 1..6 PROVE Forward(Script(h), at, Later(h, at))
      <4>1. Later(h, at) = Nothing
        BY <1>0, <3>2
      <4> QED  BY <3>1, <4>1
    <3> QED  BY <3>1, <3>3
  <2> QED  BY <1>3, <2>1, <2>2
<1>4. CASE h = "save"
  <2>1. \A at \in 1..4 : at = 1 \/ at \in 2..4
    OBVIOUS
  <2>2. Len(Script(h)) = 4 /\ Forward(Script(h), 1, SyncLoads.asks)
        /\ \A at \in 2..4 : Forward(Script(h), at, Nothing)
    BY <1>4, SaveScript
  <2>3. ASSUME NEW at \in 1..4 PROVE Forward(Script(h), at, Later(h, at))
    <3>1. CASE at = 1
      BY <1>0, <1>4, <2>2, <3>1
    <3>2. CASE at \in 2..4
      <4>1. Later(h, at) = Nothing
        BY <1>0, <1>4, <3>2
      <4> QED  BY <2>2, <3>2, <4>1
    <3> QED  BY <2>1, <3>1, <3>2
  <2> QED  BY <2>2, <2>3
<1> QED  BY <1>1, <1>2, <1>3, <1>4 DEF Names

-----------------------------------------------------------------------------
PanelRow == [last : Nat, some : BOOLEAN]
AllAsks  == UNION {Script(h)[at].asks : h \in Names, at \in Nat}
Callers  == [h : Names \cup {"none"}, at : Nat, waits : SUBSET AllAsks]
Messages == [by : 0..MaxEvents, at : Nat, ask : AllAsks, got : {"none", "rows", "done"}, rows : PanelRow]

CallsTypeOK == handler \in [0..MaxEvents -> Callers] /\ requests \subseteq Messages

\* A handler is at a stage of its script, or over, and waits for what the stage asks.
HandlersFit ==
    \A n \in 0..MaxEvents :
        LET c == handler[n] IN
        /\ c.at \in 1..Over(c.h)
        /\ c.at # Over(c.h) => c.waits \subseteq Script(c.h)[c.at].asks

\* A request is of a stage its handler is at, or has left behind; a commit is never left behind,
\* and it is all that its handler waits for.
RequestsFit ==
    \A r \in requests :
        LET c == handler[r.by] IN
        /\ r.at \in 1..c.at /\ r.at <= Len(Script(c.h))
        /\ r.ask \in Script(c.h)[r.at].asks
        /\ r.got = "rows" => r.ask \in Panels
        /\ r.got = "done" => r.ask \notin Panels
        /\ r.ask \notin Panels => r.at = c.at /\ c.waits = {r.ask}

\* No request is made twice.
RequestsDiffer == \A r, q \in requests : r.by = q.by /\ r.at = q.at /\ r.ask = q.ask => r = q

Fitting == CallsTypeOK /\ HandlersFit /\ RequestsFit /\ RequestsDiffer

LEMMA NoScript == Len(Script("none")) = 0 /\ Over("none") = 1
<1>1. Script("none") = <<>>
  BY DEF Script, ShowView
<1> QED  BY <1>1 DEF Over

LEMMA CallerParts ==
  ASSUME Fitting, NEW n \in 0..MaxEvents
  PROVE  /\ handler[n] \in Callers
         /\ handler[n].h \in Names \cup {"none"} /\ handler[n].at \in Nat
         /\ handler[n].waits \subseteq AllAsks
         /\ Len(Script(handler[n].h)) \in Nat
         /\ Over(handler[n].h) = Len(Script(handler[n].h)) + 1
         /\ handler[n].at \in 1..Over(handler[n].h)
<1>1. handler[n] \in Callers
  BY DEF Fitting, CallsTypeOK
<1>2. handler[n].h \in Names \cup {"none"} /\ handler[n].at \in Nat /\ handler[n].waits \subseteq AllAsks
  BY <1>1 DEF Callers
<1>3. Len(Script(handler[n].h)) \in Nat
  BY <1>2, Scripts, NoScript
<1> QED  BY <1>1, <1>2, <1>3 DEF Over, Fitting, HandlersFit

LEMMA RequestParts ==
  ASSUME Fitting, NEW r \in requests
  PROVE  /\ r \in Messages /\ r.by \in 0..MaxEvents /\ r.at \in Nat /\ r.rows \in PanelRow
         /\ handler[r.by].h \in Names
         /\ r.at \in 1..Len(Script(handler[r.by].h)) /\ r.at <= handler[r.by].at
         /\ r.ask \in Script(handler[r.by].h)[r.at].asks
<1>1. r \in Messages /\ r.by \in 0..MaxEvents /\ r.at \in Nat /\ r.rows \in PanelRow
  BY DEF Fitting, CallsTypeOK, Messages
<1>2. /\ r.at \in 1..handler[r.by].at /\ r.at <= Len(Script(handler[r.by].h))
      /\ r.ask \in Script(handler[r.by].h)[r.at].asks
  BY DEF Fitting, RequestsFit
<1>3. handler[r.by].h \in Names \cup {"none"} /\ handler[r.by].at \in Nat
      /\ Len(Script(handler[r.by].h)) \in Nat
  BY <1>1, CallerParts
<1>4. handler[r.by].h # "none"
  BY <1>1, <1>2, NoScript
<1> QED  BY <1>1, <1>2, <1>3, <1>4

\* Beside a request of the stage its handler is at there is no other that commits.
LEMMA NoCommitBeside ==
  ASSUME Fitting, NEW r \in requests, r.at = handler[r.by].at,
         NEW q \in requests, q.by = r.by, q # r
  PROVE  q.ask \in Panels
<1> SUFFICES ASSUME q.ask \notin Panels PROVE FALSE
  OBVIOUS
<1>1. q.at = r.at
  BY DEF Fitting, RequestsFit
<1> DEFINE s == Script(handler[r.by].h)
<1>2. q.ask \in s[r.at].asks /\ r.ask \in s[r.at].asks
  BY <1>1, RequestParts
<1>3. Forward(s, r.at, Later(handler[r.by].h, r.at))
  BY RequestParts, Scripts
<1>4. PICK ask : s[r.at].asks = {ask}
  BY <1>2, <1>3 DEF Forward, CommitStage
<1>5. r.ask = q.ask
  BY <1>2, <1>4
<1> QED  BY <1>1, <1>5 DEF Fitting, RequestsDiffer

\* What has become of the page then.
GoneOn(n, h, at, others) ==
    /\ Fitting'
    /\ \A m \in (0..MaxEvents) \ {n} : handler'[m] = handler[m]
    /\ handler'[n].h = h
    /\ others \subseteq requests'
    /\ \A q \in requests' \ others : q.got = "none"
    /\ at < Over(h) /\ ~Script(h)[at].league =>
          /\ handler'[n].at = at
          /\ \A p \in Script(h)[at].asks : \E q \in requests' : q.ask = p /\ q.got = "none"

\* A handler that goes on to another stage leaves no commit behind and makes no request twice.
LEMMA GoesOnFits ==
  ASSUME Fitting, NEW n \in 0..MaxEvents, NEW h \in Names, NEW at \in 1..Over(h),
         NEW others \in SUBSET requests, NEW buttons,
         handler[n].h \in {h, "none"},
         \A q \in others : q.by = n => q.at < at /\ q.ask \in Panels,
         GoesOn(n, h, at, others, buttons)
  PROVE  GoneOn(n, h, at, others)
<1> DEFINE gives == at < Over(h) /\ Script(h)[at].league /\ ~panels'["dashboard"].some
           to == IF gives THEN Over(h) ELSE at
           asks == IF to = Over(h) THEN {} ELSE Script(h)[to].asks
           caller == [h |-> h, at |-> to, waits |-> asks]
           made == {Request(n, to, q) : q \in asks}
<1>1. handler' = [handler EXCEPT ![n] = caller] /\ requests' = others \cup made
  BY DEF GoesOn
<1>2. Over(h) \in Nat /\ Over(h) = Len(Script(h)) + 1 /\ Len(Script(h)) \in Nat
  BY Scripts DEF Over
<1>3. to \in at..Over(h) /\ to \in Nat /\ at \in Nat /\ to \in 1..Over(h) /\ to >= at
  BY <1>2
<1>4. ~Script(h)[at].league => to = at
  OBVIOUS
<1>5. at < Over(h) /\ ~Script(h)[at].league => to = at /\ asks = Script(h)[at].asks
  BY <1>2
<1>6. (to = Over(h) => asks = {}) /\ (to # Over(h) => asks = Script(h)[to].asks)
  OBVIOUS
<1> HIDE DEF to
<1>7. asks \subseteq AllAsks
  BY <1>3 DEF AllAsks
<1>8. caller \in Callers /\ caller.h = h /\ caller.at = to /\ caller.waits = asks
  <2> HIDE DEF asks
  <2> QED  BY <1>3, <1>7 DEF Callers
<1> HIDE DEF asks, caller
<1>9. ASSUME NEW q \in asks
      PROVE  LET r == Request(n, to, q) IN
             /\ r \in Messages /\ r.by = n /\ r.at = to /\ r.ask = q /\ r.got = "none"
  BY <1>3, <1>7 DEF Request, Messages, NoPanel, PanelRow
<1>10. /\ handler' \in [0..MaxEvents -> Callers] /\ handler'[n] = caller
       /\ \A m \in (0..MaxEvents) \ {n} : handler'[m] = handler[m]
  <2>1. handler \in [0..MaxEvents -> Callers]
    BY DEF Fitting, CallsTypeOK
  <2> QED  BY <1>1, <1>8, <2>1
<1>11. ASSUME NEW r \in made
       PROVE  /\ r \in Messages /\ r.by = n /\ r.at = to /\ r.ask \in asks /\ r.got = "none"
              /\ r = Request(n, to, r.ask)
  BY <1>9
<1>12. others \subseteq requests' /\ made \subseteq requests' /\ requests' \subseteq others \cup made
  BY <1>1
<1> HIDE DEF made
<1>13. CallsTypeOK'
  BY <1>10, <1>11, <1>12 DEF CallsTypeOK, Fitting
<1>14. HandlersFit'
  <2> SUFFICES ASSUME NEW m \in 0..MaxEvents
               PROVE  /\ handler'[m].at \in 1..Over(handler'[m].h)
                      /\ handler'[m].at # Over(handler'[m].h) =>
                            handler'[m].waits \subseteq Script(handler'[m].h)[handler'[m].at].asks
    BY DEF HandlersFit
  <2>1. CASE m = n
    BY <1>3, <1>6, <1>8, <1>10, <2>1
  <2>2. CASE m # n
    BY <1>10, <2>2 DEF Fitting, HandlersFit
  <2> QED  BY <2>1, <2>2
<1>15. ASSUME NEW r \in requests'
       PROVE  /\ r.at \in 1..handler'[r.by].at /\ r.at <= Len(Script(handler'[r.by].h))
              /\ r.ask \in Script(handler'[r.by].h)[r.at].asks
              /\ r.got = "rows" => r.ask \in Panels
              /\ r.got = "done" => r.ask \notin Panels
              /\ r.ask \notin Panels => r.at = handler'[r.by].at /\ handler'[r.by].waits = {r.ask}
  <2>1. CASE r \in others /\ r.by = n
    <3>1. handler[n].h = h
      BY <2>1, RequestParts DEF Names
    <3>2. r.at < at /\ r.ask \in Panels
      BY <2>1
    <3>3. /\ r.at \in 1..Len(Script(h)) /\ r.ask \in Script(h)[r.at].asks
          /\ r.got = "done" => r.ask \notin Panels
      BY <2>1, <3>1, RequestParts DEF Fitting, RequestsFit
    <3> QED  BY <1>2, <1>3, <1>8, <1>10, <2>1, <3>2, <3>3
  <2>2. CASE r \in others /\ r.by # n
    <3>1. handler'[r.by] = handler[r.by]
      BY <1>10, <2>2, RequestParts
    <3> QED  BY <2>2, <3>1 DEF Fitting, RequestsFit
  <2>3. CASE r \in made
    <3>1. r.by = n /\ r.at = to /\ r.ask \in asks /\ r.got = "none"
      BY <1>11, <2>3
    <3>2. to # Over(h) /\ asks = Script(h)[to].asks
      BY <1>6, <3>1
    <3>3. to \in 1..Len(Script(h))
      BY <1>2, <1>3, <3>2
    <3>4. r.ask \notin Panels => asks = {r.ask}
      <4>1. Forward(Script(h), to, Later(h, to))
        BY <3>3, Scripts
      <4> QED  BY <3>1, <3>2, <4>1 DEF Forward, CommitStage
    <3> QED  BY <1>8, <1>10, <3>1, <3>2, <3>3, <3>4
  <2> QED  BY <1>12, <2>1, <2>2, <2>3
<1>16. RequestsFit'
  BY <1>15 DEF RequestsFit
<1>17. RequestsDiffer'
  <2> SUFFICES ASSUME NEW r \in requests', NEW q \in requests', r.by = q.by, r.at = q.at, r.ask = q.ask
               PROVE  r = q
    BY DEF RequestsDiffer
  <2>1. CASE r \in others /\ q \in others
    BY <2>1 DEF Fitting, RequestsDiffer
  <2>2. CASE r \in made /\ q \in made
    <3>1. r = Request(n, to, r.ask) /\ q = Request(n, to, q.ask)
      BY <1>11, <2>2
    <3> QED  BY <3>1
  <2>3. CASE (r \in others /\ q \in made) \/ (r \in made /\ q \in others)
    <3>1. PICK old \in others, new \in made : old.by = new.by /\ old.at = new.at
      BY <2>3
    <3>2. new.by = n /\ new.at = to
      BY <1>11
    <3>3. old.at < at /\ old.at \in Nat
      BY <3>1, <3>2, RequestParts
    <3> QED  BY <1>3, <3>1, <3>2, <3>3
  <2> QED  BY <1>12, <2>1, <2>2, <2>3
<1>18. Fitting'
  BY <1>13, <1>14, <1>16, <1>17 DEF Fitting
<1>19. ASSUME at < Over(h), ~Script(h)[at].league
       PROVE  \A p \in Script(h)[at].asks : \E q \in requests' : q.ask = p /\ q.got = "none"
  <2> SUFFICES ASSUME NEW p \in asks PROVE \E q \in requests' : q.ask = p /\ q.got = "none"
    BY <1>5, <1>19
  <2>1. Request(n, to, p) \in made
    BY DEF made
  <2> QED  BY <1>9, <1>12, <2>1
<1>20. \A q \in requests' \ others : q.got = "none"
  BY <1>11, <1>12
<1>21. handler'[n].h = h /\ (at < Over(h) /\ ~Script(h)[at].league => handler'[n].at = at)
  BY <1>5, <1>8, <1>10
<1> QED  BY <1>10, <1>12, <1>18, <1>19, <1>20, <1>21 DEF GoneOn

UnderWay(p) == \E q \in requests : q.ask = p /\ q.got = "none"

\* Whoever is answered after a commit loads what it touched, or is saving a connection; and
\* whoever saves one comes to the loads at its end, unless a load fails him.
LEMMA ResumeFits ==
  ASSUME Fitting, NEW r \in requests, NEW refused \in BOOLEAN, NEW buttons,
         HandlerResumes(r, refused, buttons)
  PROVE  /\ Fitting'
         /\ \A m \in 0..MaxEvents : m # r.by => handler'[m] = handler[m]
         /\ handler'[r.by].h = handler[r.by].h
         /\ \A q \in requests : q # r => q \in requests'
         /\ \A q \in requests' : (q \in requests /\ q # r) \/ q.got = "none"
         /\ ~refused /\ r.ask \notin Panels =>
               \A p \in Route(r.ask).touches :
                  \/ UnderWay(p)'
                  \/ handler[r.by].h = "save" /\ handler'[r.by].at = 2 /\ p \in SyncLoads.asks
         /\ (/\ handler[r.by].h = "save" /\ handler[r.by].at \in {2, 3}
             /\ refused => r.ask \notin Panels) =>
               handler'[r.by].at \in {2, 3} \/ \A p \in SyncLoads.asks : UnderWay(p)'
<1> DEFINE n == r.by
           h == handler[n].h
           at == handler[n].at
           others == requests \ {r}
           stage == Script(h)[r.at]
           left == handler[n].waits \ {r.ask}
<1>1. /\ n \in 0..MaxEvents /\ h \in Names /\ at \in Nat /\ r.at \in Nat
      /\ r.at \in 1..Len(Script(h)) /\ r.at <= at /\ r.ask \in stage.asks
      /\ Len(Script(h)) \in Nat /\ Over(h) = Len(Script(h)) + 1 /\ at \in 1..Over(h)
  BY RequestParts, CallerParts
<1>2. Forward(Script(h), r.at, Later(h, r.at))
  BY <1>1, Scripts
<1>3. ASSUME at = r.at
      PROVE  \A q \in others : q.by = n => q.at < at + 1 /\ q.at <= at /\ q.ask \in Panels
  BY <1>1, <1>3, RequestParts, NoCommitBeside
<1>4. r.ask \notin Panels => r.at = at /\ left = {}
  BY DEF Fitting, RequestsFit
<1>5. h = "save" =>
        /\ Len(Script(h)) = 4
        /\ Script(h)[2].asks = {"connections"} /\ ~Script(h)[3].league
        /\ Script(h)[3].asks = {"sync"} /\ Script(h)[3].onError = 4
        /\ Script(h)[4] = SyncLoads /\ ~SyncLoads.league
  <2> HIDE DEF h
  <2> QED  BY SaveScript
<1>6. CASE at # r.at
  <2>1. requests' = others /\ UNCHANGED handler
    BY <1>6 DEF HandlerResumes
  <2>2. r.ask \in Panels
    BY <1>4, <1>6
  <2>3. Fitting'
    BY <2>1 DEF Fitting, CallsTypeOK, HandlersFit, RequestsFit, RequestsDiffer
  <2> QED  BY <2>1, <2>2, <2>3
<1>7. CASE at = r.at /\ refused /\ ~stage.settled
  <2> DEFINE next == stage.onError
  <2>1. GoesOn(n, h, next, others, buttons)
    BY <1>7 DEF HandlerResumes, Caught
  <2>2. next \in (at + 1)..(Len(Script(h)) + 1) /\ next \in Nat /\ next > at
    <3>1. next \in (r.at + 1)..(Len(Script(h)) + 1)
      BY <1>2, <1>7 DEF Forward
    <3> HIDE DEF next, h, at
    <3> QED  BY <1>1, <1>7, <3>1
  <2>3. next \in 1..Over(h)
    BY <1>1, <2>2
  <2>4. \A q \in others : q.by = n => q.at < next /\ q.ask \in Panels
    <3>1. \A q \in others : q.at \in Nat
      BY RequestParts
    <3>2. \A q \in others : q.by = n => q.at <= at /\ q.ask \in Panels
      BY <1>3, <1>7
    <3> HIDE DEF next, others, at
    <3> QED  BY <1>1, <2>2, <3>1, <3>2
  <2>5. h = "save" /\ at \in {2, 3} /\ r.ask \notin Panels => next = 4
    BY <1>1, <1>2, <1>5, <1>7 DEF Forward, CommitStage, Panels
  <2> HIDE DEF next
  <2> HIDE DEF n, h, others
  <2>6. GoneOn(n, h, next, others)
    <3>1. others \in SUBSET requests /\ handler[n].h \in {h, "none"}
      BY DEF others, h
    <3>2. n \in 0..MaxEvents /\ h \in Names
      BY <1>1
    <3>3. GoesOn(n, h, next, others, buttons)
      BY <2>1
    <3> QED  BY <2>3, <2>4, <3>1, <3>2, <3>3, GoesOnFits
  <2>7. h = "save" /\ at \in {2, 3} /\ r.ask \notin Panels => \A p \in SyncLoads.asks : UnderWay(p)'
    BY <1>1, <1>5, <2>5, <2>6 DEF GoneOn, UnderWay
  <2> QED  BY <1>7, <2>6, <2>7 DEF n, h, others, GoneOn
<1>8. CASE at = r.at /\ ~(refused /\ ~stage.settled) /\ left = {}
  <2>1. GoesOn(n, h, at + 1, others, buttons)
    BY <1>8 DEF HandlerResumes
  <2>2. at + 1 \in 1..Over(h)
    BY <1>1, <1>8
  <2> HIDE DEF n, h, others
  <2>3. GoneOn(n, h, at + 1, others)
    <3>1. others \in SUBSET requests /\ handler[n].h \in {h, "none"}
      BY DEF others, h
    <3>2. \A q \in others : q.by = n => q.at < at + 1 /\ q.ask \in Panels
      BY <1>3, <1>8
    <3> QED  BY <1>1, <2>1, <2>2, <3>1, <3>2, GoesOnFits
  <2>4. ASSUME r.ask \notin Panels, NEW p \in Route(r.ask).touches
        PROVE  UnderWay(p)' \/ (h = "save" /\ handler'[n].at = 2 /\ p \in SyncLoads.asks)
    <3>1. CommitStage(Script(h), at, Later(h, at))
      BY <1>1, <1>2, <1>8, <2>4 DEF Forward
    <3>2. /\ at + 1 < Over(h) /\ ~Script(h)[at + 1].league
          /\ p \in Script(h)[at + 1].asks \cup Later(h, at)
      <4>1. PICK ask : /\ Script(h)[at].asks = {ask} /\ at < Len(Script(h))
                       /\ ~Script(h)[at + 1].league
                       /\ Route(ask).touches \subseteq Script(h)[at + 1].asks \cup Later(h, at)
        BY <3>1 DEF CommitStage
      <4>2. ask = r.ask
        BY <1>1, <1>8, <4>1
      <4> QED  BY <1>1, <2>4, <4>1, <4>2
    <3>3. p \in Later(h, at) => h = "save" /\ at = 1 /\ p \in SyncLoads.asks
      BY DEF Later, Nothing
    <3> QED  BY <2>3, <3>2, <3>3 DEF GoneOn, UnderWay
  <2>5. ASSUME h = "save", at \in {2, 3}
        PROVE  handler'[n].at \in {2, 3} \/ \A p \in SyncLoads.asks : UnderWay(p)'
    BY <1>1, <1>5, <2>3, <2>5 DEF GoneOn, UnderWay
  <2> QED  BY <1>8, <2>3, <2>4, <2>5 DEF n, h, others, GoneOn
<1>9. CASE at = r.at /\ ~(refused /\ ~stage.settled) /\ left # {}
  <2> DEFINE caller == [handler[n] EXCEPT !.waits = left]
  <2>1. handler' = [handler EXCEPT ![n] = caller] /\ requests' = others
    BY <1>9 DEF HandlerResumes
  <2>2. r.ask \in Panels
    BY <1>4, <1>9
  <2>3. /\ caller \in Callers /\ caller.h = h /\ caller.at = at /\ caller.waits = left
    BY <1>1, CallerParts DEF Callers
  <2>4. /\ handler' \in [0..MaxEvents -> Callers] /\ handler'[n] = caller
        /\ \A m \in 0..MaxEvents : m # n => handler'[m] = handler[m]
    <3>1. handler \in [0..MaxEvents -> Callers]
      BY DEF Fitting, CallsTypeOK
    <3> HIDE DEF caller, n
    <3> QED  BY <1>1, <2>1, <2>3, <3>1
  <2> HIDE DEF caller
  <2>5. HandlersFit'
    <3> SUFFICES ASSUME NEW m \in 0..MaxEvents
                 PROVE  /\ handler'[m].at \in 1..Over(handler'[m].h)
                        /\ handler'[m].at # Over(handler'[m].h) =>
                            handler'[m].waits \subseteq Script(handler'[m].h)[handler'[m].at].asks
      BY DEF HandlersFit
    <3>1. /\ handler[m].at \in 1..Over(handler[m].h)
          /\ handler[m].at # Over(handler[m].h) =>
                handler[m].waits \subseteq Script(handler[m].h)[handler[m].at].asks
      BY DEF Fitting, HandlersFit
    <3> QED  BY <2>3, <2>4, <3>1
  <2>6. ASSUME NEW q \in requests'
        PROVE  /\ q \in requests /\ handler'[q.by].h = handler[q.by].h
               /\ handler'[q.by].at = handler[q.by].at
               /\ q.ask \notin Panels => handler'[q.by].waits = handler[q.by].waits
    <3>1. q \in others
      BY <2>1
    <3>2. q.by = n => q.ask \in Panels
      BY <1>3, <1>9, <3>1
    <3>3. q.by \in 0..MaxEvents
      BY <3>1, RequestParts
    <3> QED  BY <2>3, <2>4, <3>1, <3>2, <3>3
  <2>7. RequestsFit'
    <3> SUFFICES ASSUME NEW q \in requests'
                 PROVE  /\ q.at \in 1..handler'[q.by].at /\ q.at <= Len(Script(handler'[q.by].h))
                        /\ q.ask \in Script(handler'[q.by].h)[q.at].asks
                        /\ q.got = "rows" => q.ask \in Panels
                        /\ q.got = "done" => q.ask \notin Panels
                        /\ q.ask \notin Panels =>
                              q.at = handler'[q.by].at /\ handler'[q.by].waits = {q.ask}
      BY DEF RequestsFit
    <3> QED  BY <2>6 DEF Fitting, RequestsFit
  <2>8. CallsTypeOK' /\ RequestsDiffer'
    BY <2>1, <2>4, <2>6 DEF CallsTypeOK, RequestsDiffer, Fitting
  <2> QED  BY <2>1, <2>2, <2>3, <2>4, <2>5, <2>7, <2>8 DEF Fitting
<1> QED  BY <1>6, <1>7, <1>8, <1>9

LEMMA RouteTouches == \A ask : Route(ask).touches \subseteq Panels
BY DEF Route, DecisionRoute, PutRoute, SyncRoute, ReportRoute, AddRoute, TestRoute, DisableRoute,
       AnalysisRoute, Panels

PanelsTypeOK ==
    /\ server \in [Panels -> PanelRow] /\ panels \in [Panels -> PanelRow]
    /\ commits \in Nat
    /\ written \in [Panels -> Nat]
    /\ excused \subseteq Panels

\* The page is told of nothing that the server has not committed.
Known ==
    /\ \A p \in Panels : server[p].last <= commits /\ written[p] <= server[p].last
    /\ \A r \in requests :
          r.got = "done" => \A p \in Route(r.ask).touches : r.rows.last <= server[p].last

\* A load that will be answered with what was written, or has been.
Loading(p) == \E r \in requests : r.ask = p /\ (r.got = "none" \/ r.rows.last >= written[p])

\* A connection is being saved: its handler loads the panel at its end.
Saving(p) ==
    /\ p \in SyncLoads.asks
    /\ \E n \in 0..MaxEvents : handler[n].h = "save" /\ handler[n].at \in {2, 3}

\* What a panel does not show yet, somebody brings.
Promised == \A p \in Panels \ excused : panels[p].last >= written[p] \/ Loading(p) \/ Saving(p)

ConsoleInv == Fitting /\ PanelsTypeOK /\ Known /\ Promised

LEMMA ConsoleInvInit == PageInit => ConsoleInv
<1> SUFFICES ASSUME PageInit PROVE ConsoleInv
  OBVIOUS
<1> DEFINE first == [h |-> "enter", at |-> 1, waits |-> {"dashboard"}]
           none == [h |-> "none", at |-> 1, waits |-> {}]
           load == Request(0, 1, "dashboard")
<1>1. /\ Len(Script("enter")) = 2 /\ Over("enter") = 3
      /\ Script("enter")[1].asks = {"dashboard"}
  <2>1. Script("enter") = EnterApp
    BY DEF Script, ShowView
  <2>2. Len(EnterApp) = 2 /\ EnterApp[1].asks = {"dashboard"}
    BY DEF EnterApp, All, Settled
  <2>3. ASSUME NEW h, Script(h) = EnterApp
        PROVE  Len(Script(h)) = 2 /\ Over(h) = 3 /\ Script(h)[1].asks = {"dashboard"}
    <3>1. Len(Script(h)) = 2 /\ Script(h)[1].asks = {"dashboard"}
      BY <2>2, <2>3
    <3>2. \A k : k = 2 => k + 1 = 3
      OBVIOUS
    <3> QED  BY <3>1, <3>2, Zenon DEF Over
  <2> QED  BY <2>1, <2>3
<1>2. "dashboard" \in Panels /\ "enter" \in Names /\ MaxEvents \in Nat
  BY ConsoleAssumption DEF Panels, Names
<1>3. "dashboard" \in AllAsks
  BY <1>1, <1>2 DEF AllAsks
<1>4. first \in Callers /\ none \in Callers
  BY <1>2, <1>3 DEF Callers
<1>5. handler \in [0..MaxEvents -> Callers] /\ handler[0] = first
      /\ \A n \in 0..MaxEvents : n # 0 => handler[n] = none
  <2>1. handler = [n \in 0..MaxEvents |-> IF n = 0 THEN first ELSE none]
    BY DEF PageInit
  <2>2. 0 \in 0..MaxEvents
    BY <1>2
  <2> HIDE DEF first, none
  <2> QED  BY <1>4, <2>1, <2>2
<1>6. load \in Messages /\ load.by = 0 /\ load.at = 1 /\ load.ask = "dashboard" /\ load.got = "none"
  BY <1>2, <1>3 DEF Request, Messages, NoPanel, PanelRow
<1>7. requests = {load}
  BY DEF PageInit
<1>8. HandlersFit
  <2> SUFFICES ASSUME NEW n \in 0..MaxEvents
               PROVE  /\ handler[n].at \in 1..Over(handler[n].h)
                      /\ handler[n].at # Over(handler[n].h) =>
                            handler[n].waits \subseteq Script(handler[n].h)[handler[n].at].asks
    BY DEF HandlersFit
  <2>1. CASE n = 0
    BY <1>1, <1>5, <2>1, NoScript
  <2>2. CASE n # 0
    BY <1>1, <1>5, <2>2, NoScript
  <2> QED  BY <2>1, <2>2
<1> HIDE DEF load
<1>9. RequestsFit
  BY <1>1, <1>2, <1>5, <1>6, <1>7 DEF RequestsFit
<1>10. Fitting
  BY <1>5, <1>6, <1>7, <1>8, <1>9 DEF Fitting, CallsTypeOK, RequestsDiffer
<1>11. PanelsTypeOK
  BY DEF PageInit, PanelsTypeOK, PanelRow, NoPanel
<1>12. Known
  BY <1>6, <1>7 DEF PageInit, Known
<1>13. Promised
  BY DEF PageInit, Promised
<1> QED  BY <1>10, <1>11, <1>12, <1>13 DEF ConsoleInv

\* What a panel would show only grows.
Grown ==
    /\ server' \in [Panels -> PanelRow] /\ commits' \in Nat
    /\ \A p \in Panels : server[p].last <= server'[p].last /\ server'[p].last <= commits'

LEMMA CommitEffect ==
  ASSUME PanelsTypeOK, Known, NEW route, Commit(route)
  PROVE  Grown /\ \A p \in Panels : p \in route.touches => server'[p].last = commits + 1
<1> DEFINE row(p) == [last |-> commits + 1,
                      some |-> p \in route.makes \/ (server[p].some /\ p \notin route.takes)]
<1>1. commits \in Nat /\ commits' = commits + 1 /\ server \in [Panels -> PanelRow]
  BY DEF Commit, PanelsTypeOK
<1>2. \A p \in Panels : row(p) \in PanelRow /\ row(p).last = commits + 1
  BY <1>1 DEF PanelRow
<1>3. server' = [p \in Panels |-> IF p \notin route.touches THEN server[p] ELSE row(p)]
  BY DEF Commit
<1>4. \A p \in Panels : server[p] \in PanelRow /\ server[p].last \in Nat /\ server[p].last <= commits
  BY <1>1 DEF Known, PanelRow
<1> HIDE DEF row
<1> QED  BY <1>1, <1>2, <1>3, <1>4 DEF Grown

\* A request that gets its answer stays what it is.
LEMMA AnsweredFits ==
  ASSUME Fitting, NEW r \in requests, NEW got \in {"rows", "done"}, NEW rows \in PanelRow,
         got = "rows" <=> r.ask \in Panels, handler' = handler, Answered(r, got, rows)
  PROVE  /\ Fitting'
         /\ \A q \in requests : q # r => q \in requests'
         /\ \E a \in requests' :
               /\ a.ask = r.ask /\ a.got = got /\ a.rows = rows
               /\ \A q \in requests' : q = a \/ q \in requests
<1> DEFINE a == [r EXCEPT !.got = got, !.rows = rows]
<1>1. requests' = (requests \ {r}) \cup {a}
  BY DEF Answered
<1>2. r \in Messages
  BY RequestParts
<1>3. a \in Messages /\ a.by = r.by /\ a.at = r.at /\ a.ask = r.ask /\ a.got = got /\ a.rows = rows
  BY <1>2 DEF Messages
<1> HIDE DEF a
<1>4. CallsTypeOK'
  BY <1>1, <1>3 DEF Fitting, CallsTypeOK
<1>5. HandlersFit'
  BY DEF Fitting, HandlersFit
<1>6. RequestsFit'
  <2> SUFFICES ASSUME NEW q \in requests'
               PROVE  /\ q.at \in 1..handler[q.by].at /\ q.at <= Len(Script(handler[q.by].h))
                      /\ q.ask \in Script(handler[q.by].h)[q.at].asks
                      /\ q.got = "rows" => q.ask \in Panels
                      /\ q.got = "done" => q.ask \notin Panels
                      /\ q.ask \notin Panels =>
                            q.at = handler[q.by].at /\ handler[q.by].waits = {q.ask}
    BY DEF RequestsFit
  <2> QED  BY <1>1, <1>3 DEF Fitting, RequestsFit
<1>7. RequestsDiffer'
  BY <1>1, <1>3 DEF Fitting, RequestsDiffer
<1> QED  BY <1>1, <1>3, <1>4, <1>5, <1>6, <1>7 DEF Fitting

\* A connection that is being saved comes to its loads, unless one of its own loads has failed.
LEMMA SavingGoesOn ==
  ASSUME Fitting, NEW r \in requests, NEW refused \in BOOLEAN, NEW buttons,
         HandlerResumes(r, refused, buttons), refused => r.ask \notin Panels,
         NEW p \in Panels, Saving(p)
  PROVE  Saving(p)' \/ UnderWay(p)'
<1>1. PICK n \in 0..MaxEvents : handler[n].h = "save" /\ handler[n].at \in {2, 3}
  BY DEF Saving
<1>2. p \in SyncLoads.asks
  BY DEF Saving
<1>3. CASE n = r.by
  <2>1. handler'[n].h = "save" /\ (handler'[n].at \in {2, 3} \/ \A q \in SyncLoads.asks : UnderWay(q)')
    BY <1>1, <1>3, ResumeFits
  <2> QED  BY <1>2, <2>1 DEF Saving
<1>4. CASE n # r.by
  <2>1. handler'[n] = handler[n]
    BY <1>4, ResumeFits
  <2> QED  BY <1>1, <1>2, <2>1 DEF Saving
<1> QED  BY <1>3, <1>4

\* What is on its way when a request has its answer, and what was asked for since.
LEMMA KnownStays ==
  ASSUME Fitting, Known, PanelsTypeOK, Grown, UNCHANGED written,
         \A q \in requests' : q \in requests \/ q.got = "none"
  PROVE  Known'
<1>1. \A p \in Panels : written[p] \in Nat /\ server[p].last \in Nat /\ server'[p].last \in Nat
  BY DEF PanelsTypeOK, Grown, PanelRow
<1>2. ASSUME NEW q \in requests', q.got = "done", NEW p \in Route(q.ask).touches
      PROVE  q.rows.last <= server'[p].last
  <2>1. q \in requests /\ p \in Panels
    BY <1>2, RouteTouches
  <2>2. q.rows.last <= server[p].last /\ server[p].last <= server'[p].last
    BY <1>2, <2>1 DEF Known, Grown
  <2>3. q.rows.last \in Nat
    BY <2>1, RequestParts DEF PanelRow
  <2> QED  BY <1>1, <2>1, <2>2, <2>3
<1> QED  BY <1>1, <1>2 DEF Known, Grown

LEMMA ConsoleInvStep == ConsoleInv /\ [PageNext]_consoleVars => ConsoleInv'
<1> SUFFICES ASSUME ConsoleInv, [PageNext]_consoleVars PROVE ConsoleInv'
  OBVIOUS
<1> USE DEF ConsoleInv
<1>1. ASSUME NEW r \in requests, ServerLoads(r) PROVE ConsoleInv'
  <2>1. r.ask \in Panels /\ server[r.ask] \in PanelRow /\ server[r.ask].last \in Nat
        /\ written[r.ask] <= server[r.ask].last
    BY <1>1 DEF ServerLoads, PanelsTypeOK, PanelRow, Known
  <2>2. Answered(r, "rows", server[r.ask]) /\ handler' = handler
        /\ UNCHANGED <<server, commits, panels, written, excused>>
    BY <1>1 DEF ServerLoads
  <2>3. /\ Fitting'
        /\ \A q \in requests : q # r => q \in requests'
        /\ \E a \in requests' :
              /\ a.ask = r.ask /\ a.got = "rows" /\ a.rows = server[r.ask]
              /\ \A q \in requests' : q = a \/ q \in requests
    BY <2>1, <2>2, AnsweredFits
  <2>4. PanelsTypeOK' /\ Known'
    BY <2>2, <2>3 DEF PanelsTypeOK, Known
  <2>5. ASSUME NEW p \in Panels \ excused
        PROVE  panels'[p].last >= written'[p] \/ Loading(p)' \/ Saving(p)'
    <3>1. CASE Loading(p)
      BY <2>1, <2>2, <2>3, <3>1 DEF Loading
    <3>2. CASE Saving(p)
      BY <2>2, <3>2 DEF Saving
    <3> QED  BY <2>2, <3>1, <3>2 DEF Promised
  <2> QED  BY <2>2, <2>3, <2>4, <2>5 DEF Promised
<1>2. ASSUME NEW r \in requests, ServerCommits(r) PROVE ConsoleInv'
  <2> DEFINE rows == [NoPanel EXCEPT !.last = commits + 1]
  <2>1. rows \in PanelRow /\ rows.last = commits + 1 /\ r.ask \notin Panels
    <3>1. r.ask \notin Panels /\ commits + 1 \in Nat
      <4>1. r.ask \notin Panels
        BY <1>2 DEF ServerCommits
      <4>2. commits \in Nat
        BY DEF PanelsTypeOK
      <4> QED  BY <4>1, <4>2
    <3>2. \A row \in PanelRow, k \in Nat :
             [row EXCEPT !.last = k] \in PanelRow /\ [row EXCEPT !.last = k].last = k
      BY DEF PanelRow
    <3>3. NoPanel \in PanelRow
      BY DEF NoPanel, PanelRow
    <3> QED  BY <3>1, <3>2, <3>3
  <2>2. Answered(r, "done", rows) /\ Commit(Route(r.ask)) /\ handler' = handler
        /\ UNCHANGED <<panels, written, excused>>
    BY <1>2 DEF ServerCommits
  <2> HIDE DEF rows
  <2>3. /\ Fitting'
        /\ \A q \in requests : q # r => q \in requests'
        /\ \E a \in requests' :
              /\ a.ask = r.ask /\ a.got = "done" /\ a.rows = rows
              /\ \A q \in requests' : q = a \/ q \in requests
    BY <2>1, <2>2, AnsweredFits
  <2>4. Grown /\ \A p \in Panels : p \in Route(r.ask).touches => server'[p].last = commits + 1
    BY <2>2, CommitEffect
  <2>5. PanelsTypeOK'
    BY <2>2, <2>4 DEF PanelsTypeOK, Grown
  <2>6. \A p \in Panels : /\ written[p] \in Nat /\ server[p].last \in Nat /\ server'[p].last \in Nat
                          /\ written[p] <= server[p].last /\ server[p].last <= server'[p].last
                          /\ server'[p].last <= commits'
    BY <2>4 DEF PanelsTypeOK, Known, Grown, PanelRow
  <2>7. ASSUME NEW q \in requests', q.got = "done", NEW p \in Route(q.ask).touches
        PROVE  q.rows.last <= server'[p].last
    <3>1. p \in Panels
      BY RouteTouches
    <3>2. CASE q \in requests
      <4>1. q.rows.last <= server[p].last /\ q.rows.last \in Nat
        BY <2>7, <3>2, RequestParts DEF Known, PanelRow
      <4> QED  BY <2>6, <3>1, <4>1
    <3>3. CASE q.ask = r.ask /\ q.rows = rows
      BY <2>1, <2>4, <2>6, <2>7, <3>1, <3>3
    <3> QED  BY <2>3, <3>2, <3>3
  <2>8. Known'
    BY <2>2, <2>6, <2>7 DEF Known
  <2>9. ASSUME NEW p \in Panels \ excused
        PROVE  panels'[p].last >= written'[p] \/ Loading(p)' \/ Saving(p)'
    <3>1. CASE Loading(p)
      BY <2>1, <2>2, <2>3, <3>1 DEF Loading
    <3>2. CASE Saving(p)
      BY <2>2, <3>2 DEF Saving
    <3> QED  BY <2>2, <3>1, <3>2 DEF Promised
  <2> QED  BY <2>2, <2>3, <2>5, <2>8, <2>9 DEF Promised
<1>3. ASSUME NEW r \in requests, LoadReturns(r) PROVE ConsoleInv'
  <2>1. r.got = "rows" /\ r.ask \in Panels /\ r.rows \in PanelRow /\ r.rows.last \in Nat
    BY <1>3, RequestParts DEF LoadReturns, Fitting, RequestsFit, PanelRow
  <2>2. HandlerResumes(r, FALSE, Rendered(r, disabled)) /\ UNCHANGED <<server, commits, written>>
    BY <1>3 DEF LoadReturns
  <2>3. Fitting' /\ \A q \in requests : q # r => q \in requests'
    BY <2>2, ResumeFits
  <2>4. \A q \in requests' : q \in requests \/ q.got = "none"
    BY <2>2, ResumeFits
  <2>5. /\ panels' \in [Panels -> PanelRow] /\ panels'[r.ask] = r.rows
        /\ \A p \in Panels : p # r.ask => panels'[p] = panels[p]
    <3>1. panels' = [panels EXCEPT ![r.ask] = r.rows]
      BY <1>3 DEF LoadReturns
    <3> QED  BY <2>1, <3>1 DEF PanelsTypeOK
  <2>6. /\ r.rows.last < panels[r.ask].last => excused' = excused \cup {r.ask}
        /\ ~(r.rows.last < panels[r.ask].last) =>
              \/ r.rows.last >= written[r.ask] /\ excused' = excused \ {r.ask}
              \/ ~(r.rows.last >= written[r.ask]) /\ excused' = excused
    BY <1>3 DEF LoadReturns
  <2>7. PanelsTypeOK'
    BY <2>1, <2>2, <2>5, <2>6 DEF PanelsTypeOK
  <2>8. Known'
    <3>1. Grown
      BY <2>2 DEF PanelsTypeOK, Known, Grown, PanelRow
    <3> QED  BY <2>2, <2>4, <3>1, KnownStays
  <2>9. ASSUME NEW p \in Panels, p \notin excused'
        PROVE  panels'[p].last >= written'[p] \/ Loading(p)' \/ Saving(p)'
    <3>1. CASE Saving(p)
      <4>1. Saving(p)' \/ UnderWay(p)'
        BY <2>2, <3>1, SavingGoesOn
      <4> QED  BY <4>1 DEF UnderWay, Loading
    <3>2. CASE p # r.ask /\ Loading(p)
      BY <2>2, <2>3, <3>2 DEF Loading
    <3>3. CASE p # r.ask /\ panels[p].last >= written[p]
      BY <2>2, <2>5, <3>3
    <3>4. CASE p = r.ask /\ r.rows.last >= written[p]
      BY <2>2, <2>5, <3>4
    <3>5. CASE p = r.ask /\ ~(r.rows.last >= written[p])
      <4>1. p \notin excused /\ ~(r.rows.last < panels[p].last)
        BY <2>6, <2>9, <3>5
      <4>2. ~(panels[p].last >= written[p])
        BY <2>1, <3>5, <4>1 DEF PanelsTypeOK, PanelRow
      <4>3. CASE Loading(p)
        BY <2>1, <2>2, <2>3, <3>5, <4>3 DEF Loading
      <4> QED  BY <3>1, <4>1, <4>2, <4>3 DEF Promised
    <3>6. p # r.ask => p \notin excused
      BY <2>6, <2>9
    <3> QED  BY <3>1, <3>2, <3>3, <3>4, <3>5, <3>6 DEF Promised
  <2> QED  BY <2>3, <2>7, <2>8, <2>9 DEF Promised
<1>4. ASSUME NEW r \in requests, PostReturns(r) PROVE ConsoleInv'
  <2>1. r.got = "done" /\ r.ask \notin Panels /\ r.rows.last \in Nat
    BY <1>4, RequestParts DEF PostReturns, Fitting, RequestsFit, PanelRow
  <2>2. HandlerResumes(r, FALSE, disabled) /\ UNCHANGED <<server, commits, panels, excused>>
    BY <1>4 DEF PostReturns
  <2>3. Fitting' /\ \A q \in requests : q # r => q \in requests'
    BY <2>2, ResumeFits
  <2>4. \A q \in requests' : q \in requests \/ q.got = "none"
    BY <2>2, ResumeFits
  <2>5. ASSUME NEW p \in Panels
        PROVE  /\ written'[p] \in Nat /\ written'[p] <= server[p].last
               /\ p \notin Route(r.ask).touches => written'[p] = written[p]
    <3>1. written'[p] = IF p \in Route(r.ask).touches /\ r.rows.last > written[p]
                        THEN r.rows.last ELSE written[p]
      BY <1>4 DEF PostReturns
    <3>2. p \in Route(r.ask).touches => r.rows.last <= server[p].last
      BY <2>1 DEF Known
    <3>3. written[p] \in Nat /\ written[p] <= server[p].last
      BY DEF PanelsTypeOK, Known
    <3> QED  BY <2>1, <3>1, <3>2, <3>3
  <2>6. written' \in [Panels -> Nat]
    <3>1. DOMAIN written' = Panels
          /\ written' = [p \in DOMAIN written' |-> written'[p]]
      BY <1>4 DEF PostReturns
    <3> QED  BY <2>5, <3>1
  <2>7. PanelsTypeOK'
    BY <2>2, <2>6 DEF PanelsTypeOK
  <2>8. Known'
    <3>1. \A p \in Panels : server[p].last <= commits
      BY DEF Known
    <3>2. ASSUME NEW q \in requests', q.got = "done", NEW p \in Route(q.ask).touches
          PROVE  q.rows.last <= server[p].last
      BY <2>4, <3>2 DEF Known
    <3> QED  BY <2>2, <2>5, <3>1, <3>2 DEF Known
  <2>9. ASSUME NEW p \in Panels \ excused
        PROVE  panels'[p].last >= written'[p] \/ Loading(p)' \/ Saving(p)'
    <3>1. CASE Saving(p)
      <4>1. Saving(p)' \/ UnderWay(p)'
        BY <2>2, <3>1, SavingGoesOn
      <4> QED  BY <4>1 DEF UnderWay, Loading
    <3>2. CASE p \in Route(r.ask).touches
      <4>1. \/ UnderWay(p)'
            \/ handler[r.by].h = "save" /\ handler'[r.by].at = 2 /\ p \in SyncLoads.asks
        BY <2>1, <2>2, <3>2, ResumeFits
      <4>2. handler'[r.by].h = handler[r.by].h /\ r.by \in 0..MaxEvents
        BY <2>2, ResumeFits, RequestParts
      <4> QED  BY <4>1, <4>2 DEF UnderWay, Loading, Saving
    <3>3. CASE p \notin Route(r.ask).touches /\ Loading(p)
      BY <2>1, <2>2, <2>3, <2>5, <3>3 DEF Loading
    <3>4. CASE p \notin Route(r.ask).touches /\ panels[p].last >= written[p]
      BY <2>2, <2>5, <3>4
    <3> QED  BY <3>1, <3>2, <3>3, <3>4 DEF Promised
  <2> QED  BY <2>2, <2>3, <2>7, <2>8, <2>9 DEF Promised
<1>5. ASSUME NEW r \in requests, RequestFails(r) PROVE ConsoleInv'
  <2>1. HandlerResumes(r, TRUE, disabled) /\ UNCHANGED <<panels, written>> /\ r.got = "none"
    BY <1>5 DEF RequestFails
  <2>2. Fitting' /\ \A q \in requests : q # r => q \in requests'
    BY <2>1, ResumeFits
  <2>3. \A q \in requests' : q \in requests \/ q.got = "none"
    BY <2>1, ResumeFits
  <2>4. Grown
    <3>1. UNCHANGED <<server, commits>> \/ Commit(Route(r.ask)) \/ Commit(FailedSync)
      BY <1>5 DEF RequestFails
    <3>2. CASE UNCHANGED <<server, commits>>
      BY <3>2 DEF PanelsTypeOK, Known, Grown, PanelRow
    <3> QED  BY <3>1, <3>2, CommitEffect
  <2>5. (r.ask \in Panels => excused' = Panels) /\ (r.ask \notin Panels => excused' = excused)
    BY <1>5 DEF RequestFails
  <2>6. PanelsTypeOK' /\ Known'
    BY <2>1, <2>3, <2>4, <2>5, KnownStays DEF PanelsTypeOK, Grown
  <2>7. ASSUME NEW p \in Panels, p \notin excused'
        PROVE  panels'[p].last >= written'[p] \/ Loading(p)' \/ Saving(p)'
    <3>1. r.ask \notin Panels /\ p \notin excused
      BY <2>5, <2>7
    <3>2. CASE Saving(p)
      <4>1. Saving(p)' \/ UnderWay(p)'
        BY <2>1, <3>1, <3>2, SavingGoesOn
      <4> QED  BY <4>1 DEF UnderWay, Loading
    <3>3. CASE Loading(p)
      BY <2>1, <2>2, <3>1, <3>3 DEF Loading
    <3> QED  BY <2>1, <3>1, <3>2, <3>3 DEF Promised
  <2> QED  BY <2>2, <2>6, <2>7 DEF Promised
<1>6. ASSUME NEW h \in Handlers, Press(h) PROVE ConsoleInv'
  <2>1. h \in Names
    BY ConsoleAssumption DEF Names
  <2>2. PICK n \in 1..MaxEvents :
            /\ handler[n].h = "none" /\ UNCHANGED <<server, commits, panels, written, excused>>
            /\ GoesOn(n, h, 1, requests, disabled)
    BY <1>6 DEF Press
  <2>3. n \in 0..MaxEvents /\ 1 \in 1..Over(h)
    BY <2>1, Scripts, ConsoleAssumption DEF Over
  <2>4. \A q \in requests : q.by # n
    BY <2>2, RequestParts DEF Names
  <2>5. GoneOn(n, h, 1, requests)
    <3>1. requests \in SUBSET requests /\ handler[n].h \in {h, "none"}
      BY <2>2
    <3>2. \A q \in requests : q.by = n => q.at < 1 /\ q.ask \in Panels
      BY <2>4
    <3> QED  BY <2>1, <2>2, <2>3, <3>1, <3>2, GoesOnFits
  <2>6. PanelsTypeOK' /\ Known'
    <3>1. Grown
      BY <2>2 DEF PanelsTypeOK, Known, Grown, PanelRow
    <3>2. \A q \in requests' : q \in requests \/ q.got = "none"
      BY <2>5 DEF GoneOn
    <3> QED  BY <2>2, <3>1, <3>2, KnownStays DEF PanelsTypeOK
  <2>7. ASSUME NEW p \in Panels \ excused
        PROVE  panels'[p].last >= written'[p] \/ Loading(p)' \/ Saving(p)'
    <3>1. CASE Saving(p)
      BY <2>2, <2>5, <3>1 DEF Saving, GoneOn
    <3>2. CASE Loading(p)
      BY <2>2, <2>5, <3>2 DEF Loading, GoneOn
    <3> QED  BY <2>2, <3>1, <3>2 DEF Promised
  <2> QED  BY <2>2, <2>5, <2>6, <2>7 DEF Promised, GoneOn
<1>7. CASE UNCHANGED consoleVars
  BY <1>7 DEF consoleVars, Fitting, CallsTypeOK, HandlersFit, RequestsFit, RequestsDiffer,
              PanelsTypeOK, Known, Promised, Loading, Saving
<1> QED  BY <1>1, <1>2, <1>3, <1>4, <1>5, <1>6, <1>7 DEF PageNext, RequestStep

\* When nothing is under way any more, the page shows all it was told that it has changed: for
\* any handlers, calls, failures and orders of the answers.
THEOREM SettledPagesAreCurrent == PageSpec => []SettledIsCurrent
<1>1. ConsoleInv => SettledIsCurrent
  <2> SUFFICES ASSUME ConsoleInv, requests = {}, \A n \in 0..MaxEvents : Idle(n),
                      NEW p \in Panels \ excused
               PROVE  panels[p].last >= written[p]
    BY DEF SettledIsCurrent
  <2>1. ~Loading(p)
    BY DEF Loading
  <2>2. ~Saving(p)
    <3> SUFFICES ASSUME NEW n \in 0..MaxEvents, handler[n].h = "save", handler[n].at \in {2, 3}
                 PROVE  FALSE
      BY DEF Saving
    <3>1. Len(Script(handler[n].h)) = 4
      BY SaveScript
    <3>2. handler[n].at = Len(Script(handler[n].h)) + 1
      BY DEF Idle, Over
    <3>3. handler[n].at = 5
      BY <3>1, <3>2
    <3> QED  BY <3>3
  <2> QED  BY <2>1, <2>2 DEF ConsoleInv, Promised
<1> QED  BY <1>1, ConsoleInvInit, ConsoleInvStep, PTL DEF PageSpec
=============================================================================
