------------------------------- MODULE Lineup -------------------------------
(***************************************************************************)
(* The lineup and waiver analyses (app/services/analysis.py): the          *)
(* exhaustive search for the best starters of a roster, the swaps that are *)
(* recommended from the difference to the starters of the snapshot, and    *)
(* the free agents recommended in place of somebody on the roster.         *)
(* Players are numbered in the order of the snapshot, the roster first.    *)
(* Points are in twentieths, so that the discounts of player_value stay    *)
(* whole.                                                                  *)
(***************************************************************************)
EXTENDS Ranking, SequencesExt

CONSTANTS
    Position,   \* position of each player, a sequence
    EspnSlots,  \* eligible_slots of each player
    FreeAgents, \* the players that are on no roster
    FreeForm,   \* their form
    Form,       \* <<points, game status, ESPN's injury status>> a player of the roster may
                \* have: an availability signal may say otherwise than ESPN
    SlotLists,  \* starting slots a league may have
    IRSpots,    \* spots on injured reserve
    EmptyCost,  \* 1000: the score an empty slot costs, and an inactive player
    ClaimLimit, \* most claims that are recommended
    Sentinel    \* 10000: minus the score that stands for "nobody found"

\* The code does not check that the sentinel is below every score, which a league with ten
\* empty slots breaks, nor that no projection is as bad as an empty slot.
ASSUME LineupAssumption ==
    /\ EmptyCost \in Nat \ {0} /\ Sentinel \in Nat /\ ClaimLimit \in Nat
    /\ \A list \in SlotLists : list \in Seq(STRING) /\ Len(list) * EmptyCost < Sentinel
    /\ Position \in Seq(STRING) /\ FreeAgents \subseteq DOMAIN Position
    /\ \A row \in Form : row[1] \in Int /\ row[1] > -EmptyCost
    /\ \A p \in FreeAgents : FreeForm[p][1] \in Int /\ FreeForm[p][1] > -EmptyCost

Players == DOMAIN Position \ FreeAgents
Nobody  == 0
Bench   == 0
IR      == -1

VARIABLES
    form,     \* points and game status of each player
    slots,    \* the league's starting slots
    current,  \* current_slot of each player: a slot's number, Bench or IR
    lineup,   \* optimal_lineup: the player of each slot, in the order of the search
    swaps,    \* the recommended swaps <<start, sit>>; none: "already active"
    advised,  \* the lineup analysis has been made
    claims,   \* the recommended claims <<add, drop>>, the best first
    waived,   \* the waiver analysis has been made
    alerts,   \* the alerts <<out, replacement>>, Nobody where none was found
    alerted   \* the availability sweep has been made

lineupVars == <<form, slots, current, lineup, swaps, advised, claims, waived, alerts, alerted>>

-----------------------------------------------------------------------------
FlexPositions(slot) ==
    CASE slot = "FLEX" -> {"RB", "WR", "TE"}
      [] slot = "OP"   -> {"QB", "RB", "WR", "TE"}
      [] OTHER         -> {}

Eligible(p, slot) ==
    \/ slot \in EspnSlots[p]
    \/ slot = Position[p]
    \/ Position[p] \in FlexPositions(slot)

Inactive == {"OUT", "IR", "INJURY_RESERVE", "SUSPENSION"}

FormOf(p) == IF p \in FreeAgents THEN FreeForm[p] ELSE form[p]

\* player_value.
PlayerValue(p) ==
    LET points == FormOf(p)[1]
        status == FormOf(p)[2] IN
    CASE status \in Inactive       -> -EmptyCost
      [] status = "DOUBTFUL"       -> (points * 13) \div 20
      [] status = "QUESTIONABLE"   -> (points * 18) \div 20
      [] OTHER                     -> points

\* The slots with the fewest eligible players first.
SlotOrder(roster) ==
    LET takers(i) == {p \in roster : Eligible(p, slots[i])}
    IN  Sorted(DOMAIN slots, [i \in DOMAIN slots |-> -Cardinality(takers(i))])

OrderedSlots(roster) ==
    LET order == SlotOrder(roster) IN [k \in DOMAIN slots |-> slots[order[k]]]

\* Mutant: the slots that follow are left out of account.
WorthAlone(p, rest) == PlayerValue(p)

Worth(p, rest) == PlayerValue(p) + rest

\* The first player's of the options of the highest score; a slot stays empty only if no score
\* beats the sentinel.  rest: the slots that follow, after each player who may start in this one.
Choice(rest, empty) ==
    LET option(p) ==
          LET next == rest[p]
          IN  [score |-> Worth(p, next.score), picks |-> <<p>> \o next.picks]
        found == {o \in {option(p) : p \in DOMAIN rest} : o.score > -Sentinel}
    IN  IF found = {}
        THEN [score |-> empty.score - EmptyCost, picks |-> <<Nobody>> \o empty.picks]
        ELSE CHOOSE o \in found :
               \A q \in found \ {o} :
                 q.score < o.score \/ (q.score = o.score /\ o.picks[1] < q.picks[1])

\* solve(slot_index, used_mask), for every mask at once.
Solved(roster, slot, next) ==
    [used \in SUBSET roster |->
        Choice([p \in {p \in roster \ used : Eligible(p, slot)} |-> next[used \cup {p}]], next[used])]

Search(roster, ordered) ==
    LET solve[i \in 1..(Len(ordered) + 1)] ==
          IF i > Len(ordered) THEN [used \in SUBSET roster |-> [score |-> 0, picks |-> <<>>]]
          ELSE Solved(roster, ordered[i], solve[i + 1])
    IN  solve

OptimalLineup(roster) == Search(roster, OrderedSlots(roster))[1][{}].picks

\* Mutant: whoever is not on the bench starts, injured reserve included.
StartersOffBench == {p \in Players : current[p] # Bench}

CurrentStarters == {p \in Players : current[p] \notin {Bench, IR}}

\* analyze_lineup: who comes in, the best first, over who goes out, the worst first.
Swaps(starters) ==
    LET value    == [p \in Players |-> PlayerValue(p)]
        badness  == [p \in Players |-> -PlayerValue(p)]
        incoming == Sorted(starters \ CurrentStarters, value)
        outgoing == Sorted(CurrentStarters \ starters, badness)
        both     == DOMAIN incoming \cap DOMAIN outgoing
    IN  [k \in both |-> <<incoming[k], outgoing[k]>>]

-----------------------------------------------------------------------------
\* analyze_waivers: who may be dropped for f.  The bench without the inactive comes first;
\* failing that, whoever is not on injured reserve.
Comparable(f) ==
    LET same  == {p \in Players : Position[p] = Position[f]}
        bench == {p \in same : current[p] = Bench /\ form[p][3] \notin Inactive} IN
    IF bench # {} THEN bench ELSE {p \in same : current[p] # IR}

\* The first of the least worth.
Drop(f) ==
    CHOOSE p \in Comparable(f) : \A q \in Comparable(f) \ {p} :
        PlayerValue(p) < PlayerValue(q) \/ (PlayerValue(p) = PlayerValue(q) /\ p < q)

\* Mutant: what the dropped player is worth is left out of account.
GainAlone(f) == PlayerValue(f)

Gain(f) == PlayerValue(f) - Max({0, PlayerValue(Drop(f))})

\* Gains of more than a quarter of a point, the best first, as many as the limit allows.
Claims ==
    LET worthy == {f \in FreeAgents : Comparable(f) # {} /\ Gain(f) > 5}
        ranked == Sorted(worthy, [f \in worthy |-> Gain(f)])
    IN  [k \in 1..Min({ClaimLimit, Len(ranked)}) |-> <<ranked[k], Drop(ranked[k])>>]

-----------------------------------------------------------------------------
\* Whose signal says that he is out; whom ESPN itself lists as out has no signal here.
IndependentlyOut(p) == form[p][2] = "OUT" /\ form[p][3] # "OUT"

\* Mutant: ESPN's word is taken for the replacements.
FitByEspn == {p \in Players : current[p] = Bench /\ form[p][3] \notin Inactive}

\* The bench as far as it is fit to play.
FitBench == {p \in Players : current[p] = Bench /\ form[p][2] \notin Inactive}

\* The first of the most valued who may start in p's slot.
Replacement(p) ==
    LET able == {q \in FitBench : Eligible(q, slots[current[p]])} IN
    IF able = {} THEN Nobody
    ELSE CHOOSE q \in able : \A r \in able \ {q} :
           PlayerValue(r) < PlayerValue(q) \/ (PlayerValue(r) = PlayerValue(q) /\ q < r)

AvailabilityAlerts ==
    {<<p, Replacement(p)>> : p \in {p \in CurrentStarters : IndependentlyOut(p)}}

-----------------------------------------------------------------------------
\* Any roster, and any lineup ESPN may have accepted of it; a player who has recovered may
\* still be on injured reserve.
LineupInit ==
    /\ form \in [Players -> Form]
    /\ slots \in SlotLists
    /\ current \in [Players -> {Bench, IR} \cup DOMAIN slots]
    /\ \A p \in Players : current[p] \in DOMAIN slots =>
          /\ Eligible(p, slots[current[p]])
          /\ \A q \in Players \ {p} : current[q] # current[p]
    /\ Cardinality({p \in Players : current[p] = IR}) <= IRSpots
    /\ lineup = <<>> /\ swaps = <<>> /\ advised = FALSE
    /\ claims = <<>> /\ waived = FALSE
    /\ alerts = {} /\ alerted = FALSE

\* Nothing is kept from one analysis to the next.
Fresh == ~advised /\ ~waived /\ ~alerted

AnalyzeLineup ==
    /\ Fresh
    /\ advised' = TRUE
    /\ lineup' = OptimalLineup(Players)
    /\ swaps' = Swaps({lineup'[k] : k \in DOMAIN lineup'} \ {Nobody})
    /\ UNCHANGED <<form, slots, current, claims, waived, alerts, alerted>>

AnalyzeWaivers ==
    /\ Fresh
    /\ waived' = TRUE
    /\ claims' = Claims
    /\ UNCHANGED <<form, slots, current, lineup, swaps, advised, alerts, alerted>>

AnalyzeAvailability ==
    /\ Fresh
    /\ alerted' = TRUE
    /\ alerts' = AvailabilityAlerts
    /\ UNCHANGED <<form, slots, current, lineup, swaps, advised, claims, waived>>

LineupNext == AnalyzeLineup \/ AnalyzeWaivers \/ AnalyzeAvailability

LineupSpec == LineupInit /\ [][LineupNext]_lineupVars

-----------------------------------------------------------------------------
\* What a choice of players for the slots is worth, Nobody costing an empty slot.
WorthOf(p) == IF p = Nobody THEN -EmptyCost ELSE PlayerValue(p)

Sums(picks) ==
    LET sum[k \in 0..Len(picks)] == IF k = 0 THEN 0 ELSE sum[k - 1] + WorthOf(picks[k])
    IN  sum

Total(picks) == Sums(picks)[Len(picks)]

\* Every way to fill the slots with different eligible players of the roster, or not at all.
Assignments(ordered) ==
    {picks \in [1..Len(ordered) -> Players \cup {Nobody}] :
        /\ \A k \in DOMAIN picks : picks[k] # Nobody => Eligible(picks[k], ordered[k])
        /\ \A k, n \in DOMAIN picks : k # n /\ picks[k] = picks[n] => picks[k] = Nobody}

\* The search fills a slot whenever it can, and prunes by a sentinel; its answer is still
\* the best of all assignments, those that leave slots empty on purpose included.
LineupIsBest ==
    advised =>
        LET possible == Assignments(OrderedSlots(Players))
            total    == Total(lineup) IN
        /\ lineup \in possible
        /\ \A picks \in possible : Total(picks) <= total

\* The current starters in the slots they are in.
Fielded ==
    [k \in DOMAIN slots |->
        IF \E p \in Players : current[p] = k THEN CHOOSE p \in Players : current[p] = k ELSE Nobody]

\* What the recommended swaps are worth.  The first never loses points; if as many players
\* come in as go out, all together lead from the current starters to the best ones; and
\* "already active" is said only of starters worth the best, or where a slot is empty
\* that could be filled, which the pairing of players cannot express.
AdviceLeadsToBest ==
    advised =>
        LET best  == {lineup[k] : k \in DOMAIN lineup} \ {Nobody}
            start == {swaps[k][1] : k \in DOMAIN swaps}
            sit   == {swaps[k][2] : k \in DOMAIN swaps}
            even  == Cardinality(best) = Cardinality(CurrentStarters) IN
        /\ swaps # <<>> => PlayerValue(swaps[1][1]) >= PlayerValue(swaps[1][2])
        /\ even => (CurrentStarters \ sit) \cup start = best
        /\ swaps = <<>> => \/ Total(Fielded) = Total(lineup)
                           \/ Cardinality(CurrentStarters) < Cardinality(best)

\* Whoever follows any one of the recommended claims can field a lineup worth as much as
\* before, although the analysis compares two players and never looks at a lineup: unless
\* ESPN lets the dropped player start in a slot where the new one may not.
ClaimsNeverWeaken ==
    waived =>
        LET best(roster) == Total(OptimalLineup(roster)) IN
        \A k \in DOMAIN claims :
            LET add  == claims[k][1]
                drop == claims[k][2] IN
            EspnSlots[drop] \subseteq EspnSlots[add] =>
                best((Players \ {drop}) \cup {add}) >= best(Players)

\* Whoever follows one alert starts a legal lineup that is worth more, and nobody on the bench
\* would make it worth more still; and an alert names nobody only where the bench has nobody
\* to put in, whoever else is out according to ESPN or to a signal.
AlertsImprove ==
    \A alert \in alerts :
        LET out == alert[1]
            in  == alert[2] IN
        IF in = Nobody
        THEN \A q \in Players : current[q] = Bench /\ Eligible(q, slots[current[out]]) =>
                 PlayerValue(q) = -EmptyCost
        ELSE /\ current[in] = Bench /\ Eligible(in, slots[current[out]])
             /\ PlayerValue(in) > PlayerValue(out)
             /\ \A q \in Players : current[q] = Bench /\ Eligible(q, slots[current[out]]) =>
                    PlayerValue(q) <= PlayerValue(in)
=============================================================================
