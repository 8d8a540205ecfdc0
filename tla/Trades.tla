------------------------------- MODULE Trades -------------------------------
(***************************************************************************)
(* The trade finder (app/services/analysis.py): for each of the two        *)
(* positions a team needs most, the pair of players of the two teams whose *)
(* values are closest, with what each team's lineup is said to gain.       *)
(* Players are numbered in the order of the snapshot; values are what      *)
(* player_value makes of their points, in twentieths.  Scores that only    *)
(* order the proposals are left out.                                       *)
(***************************************************************************)
EXTENDS Ranking, Sequences, FiniteSetsExt

CONSTANTS
    TradePosition,  \* position of each player
    Mine,           \* the players of my team; the others are the partner's
    Worths,         \* values the players may have, a set of functions
    StarterLists    \* starting slots a league may have

ASSUME TradeAssumption ==
    /\ TradePosition \in Seq(STRING) /\ Mine \subseteq DOMAIN TradePosition
    /\ \A values \in Worths : values \in [DOMAIN TradePosition -> Int]
    /\ \A list \in StarterLists : list \in Seq(STRING)

Everybody == DOMAIN TradePosition
Theirs    == Everybody \ Mine
Sought    == <<"QB", "RB", "WR", "TE">>

VARIABLES
    worth,     \* player_value of each player
    starters,  \* the league's starting slots
    trades,    \* the proposals <<offer, target, my gain, partner's gain>>
    searched   \* the trade finder has been run

tradeVars == <<worth, starters, trades, searched>>

-----------------------------------------------------------------------------
Floor(p) == Max({0, worth[p]})

\* The best first.
BestFirst(players) == Sorted(players, worth)

AtPosition(team, position) == {p \in team : TradePosition[p] = position}

\* The mean of the two best, doubled.
PositionStrength(team, position) ==
    LET best == BestFirst(AtPosition(team, position)) IN
    CASE Len(best) = 0 -> 0
      [] Len(best) = 1 -> 2 * Floor(best[1])
      [] OTHER -> Floor(best[1]) + Floor(best[2])

\* The two weakest positions.
Needs(team) ==
    {Sought[i] : i \in {i \in DOMAIN Sought :
        Cardinality({k \in DOMAIN Sought \ {i} :
            \/ PositionStrength(team, Sought[k]) < PositionStrength(team, Sought[i])
            \/ PositionStrength(team, Sought[k]) = PositionStrength(team, Sought[i]) /\ k < i}) < 2}}

Distance(pair) == Max({worth[pair[1]] - worth[pair[2]], worth[pair[2]] - worth[pair[1]]})

\* The first of the closest pairs, offers before targets; none if they differ by more than
\* two fifths of the greater value.
ClosestValuePair(offers, targets) ==
    LET rank(p, team) == Cardinality({q \in team : worth[q] > worth[p] \/ (worth[q] = worth[p] /\ q < p)})
        earlier(a, b) == \/ rank(a[1], offers) < rank(b[1], offers)
                         \/ rank(a[1], offers) = rank(b[1], offers) /\ rank(a[2], targets) < rank(b[2], targets)
        pairs == {pair \in offers \X targets : worth[pair[1]] > 0 /\ worth[pair[2]] > 0}
    IN  {a \in pairs :
            /\ \A b \in pairs \ {a} : Distance(a) < Distance(b) \/ (Distance(a) = Distance(b) /\ earlier(a, b))
            /\ 5 * Distance(a) <= 2 * Max({worth[a[1]], worth[a[2]]})}

StarterCount(position) == Max({1, Cardinality({k \in DOMAIN starters : starters[k] = position})})

\* Mutant: the count is taken for an index of its own.
GainPastThreshold(team, incoming, excluded) ==
    LET current == BestFirst(AtPosition(team, TradePosition[incoming]) \ {excluded})
        count == StarterCount(TradePosition[incoming])
    IN  worth[incoming] - (IF Len(current) > count THEN Floor(current[count + 1]) ELSE 0)

LineupGain(team, incoming, excluded) ==
    LET current == BestFirst(AtPosition(team, TradePosition[incoming]) \ {excluded})
        count == StarterCount(TradePosition[incoming])
    IN  worth[incoming] - (IF Len(current) >= count THEN Floor(current[count]) ELSE 0)

\* What a pair becomes: two positions, and neither team said to lose more than two points.
Proposals(pairs) ==
    {<<pair[1], pair[2], LineupGain(Mine, pair[2], pair[1]), LineupGain(Theirs, pair[1], pair[2])>> :
        pair \in {pair \in pairs :
            /\ TradePosition[pair[1]] # TradePosition[pair[2]]
            /\ LineupGain(Mine, pair[2], pair[1]) >= -40
            /\ LineupGain(Theirs, pair[1], pair[2]) >= -40}}

AnalyzeTrades ==
    /\ ~searched
    /\ searched' = TRUE
    /\ trades' = UNION {Proposals(ClosestValuePair({p \in Mine : TradePosition[p] \in Needs(Theirs)},
                                                   AtPosition(Theirs, wanted))) : wanted \in Needs(Mine)}
    /\ UNCHANGED <<worth, starters>>

\* Any values of two rosters.
TradeInit ==
    /\ worth \in Worths
    /\ starters \in StarterLists
    /\ trades = {} /\ searched = FALSE

TradeNext == AnalyzeTrades

TradeSpec == TradeInit /\ [][TradeNext]_tradeVars

-----------------------------------------------------------------------------
\* What the best players of a team in the slots of a position are worth, when every slot has
\* one who is worth anything.
SlotsOf(position)         == Cardinality({k \in DOMAIN starters : starters[k] = position})
Filled(team, position)    == Cardinality({p \in AtPosition(team, position) : worth[p] >= 0}) >= SlotsOf(position)
BestValue(team, position) ==
    LET best == BestFirst(AtPosition(team, position))
        sum[k \in 0..SlotsOf(position)] == IF k = 0 THEN 0 ELSE sum[k - 1] + worth[best[k]]
    IN  sum[SlotsOf(position)]

\* In a league without flexible slots the gain a proposal states for either team is what its
\* best lineup gains from the player that comes in, though the finder compares him with one
\* player only; so that a trade never yields more than it states, the player that goes being
\* a loss at another position.
GainIsExact ==
    \A trade \in trades :
        LET exact(team, incoming, gain) ==
              LET position == TradePosition[incoming] IN
              (SlotsOf(position) > 0 /\ Filled(team, position)) =>
                  Max({0, gain}) = BestValue(team \cup {incoming}, position) - BestValue(team, position)
        IN  /\ exact(Mine, trade[2], trade[3])
            /\ exact(Theirs, trade[1], trade[4])
=============================================================================
