--------------------------- MODULE LocalDecisions ---------------------------
(***************************************************************************)
(* The recommendations of the local server (app/routers/intelligence.py,   *)
(* app/routers/jobs.py, app/services/store.py): an analysis, asked for by  *)
(* the user or by the scheduled job, supersedes the proposed ones and adds *)
(* its own; a user approves or dismisses one.  Each handler has a session  *)
(* of its own: what it reads it keeps, and its commit writes the columns   *)
(* it has changed, by primary key, whatever has happened to the rows.      *)
(*                                                                         *)
(* An analysis is asked for as "lineup", "waivers" or "trades", looks for  *)
(* the proposed rows of a kind with that name, and writes rows of kind     *)
(* "lineup", "waiver" or "trade".                                          *)
(***************************************************************************)
EXTENDS Naturals, FiniteSets

CONSTANTS
    AnalysisCalls,  \* calls of replace_recommendations
    Asked,          \* the kind each is asked for
    DecisionCalls,  \* calls that approve or dismiss
    MaxStops        \* bound: restarts of the server

AskedKinds == {"lineup", "waivers", "trades"}

ASSUME LocalAssumption ==
    /\ Asked \in [AnalysisCalls -> AskedKinds]
    /\ AnalysisCalls \cap DecisionCalls = {}
    /\ MaxStops \in Nat

LocalStatus == {"absent", "proposed", "superseded", "approved", "dismissed"}
Decided     == {"approved", "dismissed"}
NoChoice    == [of |-> {}, decision |-> "none"]

VARIABLES
    advice,    \* status of one of the rows each analysis writes; it stands for them all, as
               \* each is superseded and decided on for itself
    analysis,  \* stage of each analysis: "new", "read", "over"
    seen,      \* the analyses whose rows it has read as proposed
    choice,    \* each decision call: the row it has read and what it will write
    ledger,    \* audit events of decisions
    committed, \* history: the analyses that have committed
    earlier,   \* history: those that had when each analysis read
    contested, \* history: rows that were changed while another call held them
    stops      \* restarts

localVars ==
    <<advice, analysis, seen, choice, ledger, committed, earlier, contested, stops>>

-----------------------------------------------------------------------------
\* The kind of the rows an analysis writes.
WrittenKind(a) ==
    CASE Asked[a] = "lineup"  -> "lineup"
      [] Asked[a] = "waivers" -> "waiver"
      [] Asked[a] = "trades"  -> "trade"

\* The calls that hold a row.
Holders(a) == {b \in AnalysisCalls : a \in seen[b]}
              \cup {c \in DecisionCalls : choice[c].of = {a}}

LocalInit ==
    /\ advice = [a \in AnalysisCalls |-> "absent"]
    /\ analysis = [a \in AnalysisCalls |-> "new"]
    /\ seen = [a \in AnalysisCalls |-> {}]
    /\ choice = [c \in DecisionCalls |-> NoChoice]
    /\ ledger = {}
    /\ committed = {}
    /\ earlier = [a \in AnalysisCalls |-> {}]
    /\ contested = {}
    /\ stops = 0

\* Mutant: only decided rows are found.
ProposedOfNone(a) == {b \in AnalysisCalls : WrittenKind(b) = Asked[a] /\ advice[b] \in Decided}

\* The query of replace_recommendations.
ProposedOf(a) == {b \in AnalysisCalls : WrittenKind(b) = Asked[a] /\ advice[b] = "proposed"}

AnalysisReads(a) ==
    /\ analysis[a] = "new"
    /\ analysis' = [analysis EXCEPT ![a] = "read"]
    /\ seen' = [seen EXCEPT ![a] = ProposedOf(a)]
    /\ earlier' = [earlier EXCEPT ![a] = committed]
    /\ UNCHANGED <<advice, choice, ledger, committed, contested, stops>>

\* The rows that were read are superseded and the new ones inserted, in one commit; only
\* the lineup analysis always has some.
AnalysisCommits(a, some) ==
    /\ analysis[a] = "read"
    /\ Asked[a] = "lineup" => some
    /\ analysis' = [analysis EXCEPT ![a] = "over"]
    /\ advice' = [b \in AnalysisCalls |-> IF b = a THEN IF some THEN "proposed" ELSE "absent"
                                     ELSE IF b \in seen[a] THEN "superseded" ELSE advice[b]]
    /\ committed' = committed \cup {a}
    /\ contested' = contested \cup {b \in seen[a] : Holders(b) # {a}}
    /\ seen' = [seen EXCEPT ![a] = {}]
    /\ UNCHANGED <<choice, ledger, earlier, stops>>

-----------------------------------------------------------------------------
\* Mutant: the status is not looked at.
DecidableAny(a) == advice[a] # "absent"

Decidable(a) == advice[a] = "proposed"

ChoiceReads(c, a, decision) ==
    /\ choice[c] = NoChoice
    /\ Decidable(a)
    /\ choice' = [choice EXCEPT ![c] = [of |-> {a}, decision |-> decision]]
    /\ UNCHANGED <<advice, analysis, seen, ledger, committed, earlier, contested, stops>>

\* The status and the audit event are committed together.
ChoiceCommits(c) ==
    \E a \in choice[c].of :
        /\ advice' = [advice EXCEPT ![a] = choice[c].decision]
        /\ ledger' = ledger \cup {<<a, choice[c].decision>>}
        /\ choice' = [choice EXCEPT ![c] = NoChoice]
        /\ contested' = IF Holders(a) # {c} THEN contested \cup {a} ELSE contested
        /\ UNCHANGED <<analysis, seen, committed, earlier, stops>>

\* The server stops: the calls under way are gone.
LocalStops ==
    /\ stops < MaxStops
    /\ stops' = stops + 1
    /\ analysis' = [a \in AnalysisCalls |-> IF analysis[a] = "read" THEN "over" ELSE analysis[a]]
    /\ seen' = [a \in AnalysisCalls |-> {}]
    /\ choice' = [c \in DecisionCalls |-> NoChoice]
    /\ UNCHANGED <<advice, ledger, committed, earlier, contested>>

LocalNext ==
    \/ \E a \in AnalysisCalls : AnalysisReads(a)
    \/ \E a \in AnalysisCalls, some \in BOOLEAN : AnalysisCommits(a, some)
    \/ \E c \in DecisionCalls, a \in AnalysisCalls, decision \in Decided : ChoiceReads(c, a, decision)
    \/ \E c \in DecisionCalls : ChoiceCommits(c)
    \/ LocalStops

LocalSpec == LocalInit /\ [][LocalNext]_localVars

-----------------------------------------------------------------------------
\* A lineup that is still proposed is of the last analysis: of those that have committed,
\* none had begun after it was written.  Of waivers and trades nothing of the kind holds,
\* as no analysis finds their rows.
LineupsAreLatest ==
    \A a \in AnalysisCalls, b \in committed :
        Asked[a] = "lineup" /\ Asked[b] = "lineup" /\ advice[a] = "proposed" => a \notin earlier[b]

\* A decision and its audit event stand and fall together, crashes included, and what was
\* decided stands, unless another call held the row while it was decided.
DecisionsStand ==
    /\ \A a \in AnalysisCalls : advice[a] \in Decided => <<a, advice[a]>> \in ledger
    /\ \A e \in ledger : advice[e[1]] = e[2] \/ e[1] \in contested
=============================================================================
