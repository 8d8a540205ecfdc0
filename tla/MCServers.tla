----------------------------- MODULE MCServers -----------------------------
(* What the servers' handlers do to their rows, on small instances: Recommendations,
   ConnectionSync, Bootstrap and Sweep of the control plane, and the analyses of all editions,
   Lineup and Trades.  They share no state: a run explores one after the other, the part being
   chosen at the start. *)
EXTENDS MCRecommendations, ConnectionSync, Bootstrap, Sweep, Lineup, Trades

CONSTANTS
    k1,              \* a connection
    p1, p2, p3       \* bootstrap calls

VARIABLE part

SameHour(m) == 0

\* Two quarterbacks and two tight ends, one of whom may also be started as a quarterback,
\* and one of either position, and one such, among the free agents.
Roster     == <<"QB", "QB", "TE", "TE", "TE", "QB", "TE">>
RosterEspn == <<{"QB"}, {"QB"}, {"QB", "TE"}, {"TE"}, {"TE"}, {"QB"}, {"QB", "TE"}>>
Forms      == {<<60, "DOUBTFUL", "DOUBTFUL">>, <<80, "ACTIVE", "OUT">>, <<80, "OUT", "ACTIVE">>}
FreeForms  == (5 :> <<60, "ACTIVE", "ACTIVE">>) @@ (6 :> <<60, "QUESTIONABLE", "QUESTIONABLE">>)
              @@ (7 :> <<44, "ACTIVE", "ACTIVE">>)
Lists      == {<<"QB", "TE">>, <<"OP", "TE", "QB">>}

\* Five players of mine and six of the partner's.
TwoRosters == <<"QB", "RB", "RB", "WR", "TE", "QB", "RB", "RB", "WR", "WR", "TE">>
Inactives  == -20000
Values     == {260} \X {Inactives, 200, 300} \X {220, 280} \X {Inactives, 180} \X {200} \X {240}
              \X {160, 260, 340} \X {240, 300} \X {220, 260, 300} \X {Inactives, 240} \X {200, 300}
Starting   == {<<"QB", "RB", "RB", "WR", "TE">>, <<"RB", "RB", "WR">>}

MCVars == <<part, vars, syncVars, bootVars, sweepVars, lineupVars, tradeVars>>

\* The parts with several initial states are in one of them unless they are the part that runs.
SweepParked   == linked = {} /\ SweepInit
LineupParked  == /\ form = [p \in Players |-> <<80, "ACTIVE", "OUT">>]
                 /\ slots = <<"QB", "TE">>
                 /\ current = [p \in Players |-> Bench]
                 /\ LineupInit
TradesParked  == /\ worth = <<260, 200, 220, 180, 200, 240, 160, 240, 220, 240, 200>>
                 /\ starters = <<"RB", "RB", "WR">>
                 /\ TradeInit

MCInit ==
    /\ part \in {"decisions", "sync", "bootstrap", "sweep", "lineup", "trades"}
    /\ Init /\ SyncInit /\ BootInit
    /\ IF part = "sweep" THEN SweepInit ELSE SweepParked
    /\ IF part = "lineup" THEN LineupInit ELSE LineupParked
    /\ IF part = "trades" THEN TradeInit ELSE TradesParked

MCNext ==
    \/ /\ part = "decisions" /\ Next
       /\ UNCHANGED <<part, syncVars, bootVars, sweepVars, lineupVars, tradeVars>>
    \/ /\ part = "sync" /\ SyncNext
       /\ UNCHANGED <<part, vars, bootVars, sweepVars, lineupVars, tradeVars>>
    \/ /\ part = "bootstrap" /\ BootNext
       /\ UNCHANGED <<part, vars, syncVars, sweepVars, lineupVars, tradeVars>>
    \/ /\ part = "sweep" /\ SweepNext
       /\ UNCHANGED <<part, vars, syncVars, bootVars, lineupVars, tradeVars>>
    \/ /\ part = "lineup" /\ LineupNext
       /\ UNCHANGED <<part, vars, syncVars, bootVars, sweepVars, tradeVars>>
    \/ /\ part = "trades" /\ TradeNext
       /\ UNCHANGED <<part, vars, syncVars, bootVars, sweepVars, lineupVars>>

\* Where another part runs there is no job, and the fairness of the jobs asks for nothing.
MCSpec == MCInit /\ [][MCNext]_MCVars /\ SyncFairness
=============================================================================
