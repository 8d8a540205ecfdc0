----------------------------- MODULE MCEditions -----------------------------
(* The pages of the web edition, LeagueScope, the form there that connects a league, ConnectForm,
   and the page of the local edition, Console, on small instances.  They share no state: a run
   explores one after the other, the part being chosen at the start. *)
EXTENDS MCLeagueScope, Console, ConnectForm, TLC

CONSTANTS fa, fb, w1   \* leagues of ESPN, the first of them private; the credentials of a user

\* Both leagues have a team 1, w1 owns two teams of fa and one of fb.
FormTeams   == (fa :> {1, 2}) @@ (fb :> {1, 3})
FormOwners  == (fa :> ((1 :> {w1}) @@ (2 :> {w1}))) @@ (fb :> ((1 :> {}) @@ (3 :> {w1})))
FormReaders == (fa :> {w1}) @@ (fb :> {w1, NoCredentials})

VARIABLE part

MCVars == <<part, vars, consoleVars, formVars>>

\* Where another part runs, the page of the web edition has failed to load its leagues and waits
\* for nothing, and that of the local edition is being opened.
ScopeParked   == /\ list = "failed" /\ status = "error" /\ link = "stopped"
                 /\ rows = [l \in Leagues |-> 0] /\ announced = [l \in Leagues |-> 0]
                 /\ writes = 0 /\ drops = 0 /\ clicks = 0 /\ generation = 0
                 /\ selected = NoLeague /\ rendered = NoLeague /\ shown = NoRows
                 /\ events = {} /\ loads = {} /\ waiting = {}
ConsoleParked == server = [p \in Panels |-> [last |-> 0, some |-> FALSE]] /\ PageInit

MCInit ==
    /\ part \in {"scope", "console", "form"}
    /\ IF part = "scope" THEN Init ELSE ScopeParked
    /\ IF part = "console" THEN PageInit ELSE ConsoleParked
    /\ FormInit

MCNext ==
    \/ /\ part = "scope" /\ SteadyNext
       /\ UNCHANGED <<part, consoleVars, formVars>>
    \/ /\ part = "console" /\ PageNext
       /\ UNCHANGED <<part, vars, formVars>>
    \/ /\ part = "form" /\ FormNext
       /\ UNCHANGED <<part, vars, consoleVars>>

\* LeagueScope's fairness asks for nothing where it is parked.
MCSpec == MCInit /\ [][MCNext]_MCVars /\ Fairness /\ WF_consoleVars(part = "console" /\ RequestStep)
=============================================================================
