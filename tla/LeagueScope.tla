----------------------------- MODULE LeagueScope -----------------------------
(***************************************************************************)
(* The league the dashboard shows (web/lib/use-league-scope.ts) and the    *)
(* event stream that tells it to load again (web/lib/leaguepilot-realtime  *)
(* and the proxy web/app/api/leaguepilot/realtime/route.ts).               *)
(*                                                                         *)
(* A load asks four requests at once and shows their answers together,     *)
(* unless a later load has begun meanwhile.  Each answer is a copy of the  *)
(* rows as they are when the server reads them; here it is their version.  *)
(* React renders between events: what a callback of the page captures is   *)
(* the selection of the last render, and the effect that subscribes to the *)
(* stream is run again when a render changes the selection.  A click is    *)
(* rendered, effects included, before the next event; an answer is not.    *)
(***************************************************************************)
EXTENDS Naturals

CONSTANTS
    Leagues,    \* ESPN connections of the workspace
    Requests,   \* the requests of one load
    MaxWrites,  \* bound: changes of the rows on the server
    MaxClicks,  \* bound: clicks of the user
    MaxDrops    \* bound: losses of the event stream

NoLeague == "none"
Targets  == Leagues \cup {NoLeague}

ASSUME LeagueScopeAssumption ==
    /\ NoLeague \notin Leagues
    /\ Requests # {}
    /\ MaxWrites \in Nat
    /\ MaxClicks \in Nat
    /\ MaxDrops \in Nat

ScopeStatus == {"loading", "ready", "error", "no-connection"}
LinkState   == {"connecting", "open", "live", "deaf", "checking", "stopped"}
Versions    == [Requests -> Nat]
Nothing     == [q \in Requests |-> 0]
Load        == [gen : Nat, target : Targets, unread : SUBSET Requests, got : Versions]
Rows        == [of : Targets, versions : Versions]
NoRows      == [of |-> NoLeague, versions |-> Nothing]

VARIABLES
    \* the server
    rows,        \* version of each league's rows
    writes,      \* changes so far
    \* the event stream
    link,        \* state of the stream; "deaf" when its subscription has failed
    events,      \* events on their way: pairs <<league, version>>
    drops,       \* losses so far
    \* the hook
    list,        \* the request for the leagues: "asked", "known" or "failed"
    selected,    \* connectionId
    rendered,    \* connectionId of the last render and of its effects
    generation,  \* generation.current
    loads,       \* loads in flight
    status,      \* what the hook reports
    shown,       \* the rows it reports and the league they were loaded for
    \* the page
    waiting,     \* leagues that callbacks waiting for their own answer have captured
    clicks,      \* clicks so far
    announced    \* history: newest version of each league an event has told of

serverVars == <<rows, writes>>
linkVars   == <<link, events, drops>>
scopeVars  == <<list, selected, rendered, generation, loads, status, shown>>
pageVars   == <<waiting, clicks>>
vars       == <<serverVars, linkVars, scopeVars, pageVars, announced>>

Init ==
    /\ rows       = [l \in Leagues |-> 0]
    /\ writes     = 0
    /\ link       = "connecting"
    /\ events     = {}
    /\ drops      = 0
    /\ list       = "asked"
    /\ selected   = NoLeague
    /\ rendered   = NoLeague
    /\ generation = 0
    /\ loads      = {}
    /\ status     = "loading"
    /\ shown      = NoRows
    /\ waiting    = {}
    /\ clicks     = 0
    /\ announced  = [l \in Leagues |-> 0]

-----------------------------------------------------------------------------
(* The server. *)

\* A job of league l commits; whoever is subscribed is told.
ServerWrites(l) ==
    /\ writes < MaxWrites
    /\ writes' = writes + 1
    /\ rows' = [rows EXCEPT ![l] = @ + 1]
    /\ events' = IF link = "live" THEN events \cup {<<l, rows'[l]>>} ELSE events
    /\ UNCHANGED <<link, drops, scopeVars, pageVars, announced>>

-----------------------------------------------------------------------------
(* Loading. *)

\* load(t): it aborts its predecessor's controller, which no request listens to.
StartLoad(t) ==
    /\ generation' = generation + 1
    /\ loads' = loads \cup {[gen |-> generation + 1, target |-> t,
                             unread |-> Requests, got |-> Nothing]}
    /\ status' = "loading"

\* The server answers request q of load d.
LoadReads(d, q) ==
    /\ q \in d.unread
    /\ d.target \in Leagues
    /\ loads' = (loads \ {d}) \cup {[d EXCEPT !.unread = @ \ {q},
                                              !.got = [@ EXCEPT ![q] = rows[d.target]]]}
    /\ UNCHANGED <<serverVars, linkVars, list, selected, rendered, generation, status, shown,
                   pageVars, announced>>

\* Without a league the whole workspace is read, of which no version is kept.
LoadReadsWorkspace(d, q) ==
    /\ q \in d.unread
    /\ d.target = NoLeague
    /\ loads' = (loads \ {d}) \cup {[d EXCEPT !.unread = @ \ {q}]}
    /\ UNCHANGED <<serverVars, linkVars, list, selected, rendered, generation, status, shown,
                   pageVars, announced>>

\* Mutant: the generation is not compared.
AnyLoad(d) == d \in loads

Current(d) == d.gen = generation

\* All answers are there; a superseded load is dropped.
LoadEnds(d) ==
    /\ d.unread = {}
    /\ loads' = loads \ {d}
    /\ IF Current(d)
       THEN /\ shown' = [of |-> d.target, versions |-> d.got]
            /\ status' = IF d.target = NoLeague THEN "no-connection" ELSE "ready"
       ELSE UNCHANGED <<shown, status>>
    /\ UNCHANGED <<serverVars, linkVars, list, selected, rendered, generation, pageVars, announced>>

\* Mutant: the failure is not reported.
LoadFailsSilently(d) ==
    /\ d.unread # {}
    /\ loads' = loads \ {d}
    /\ UNCHANGED <<serverVars, linkVars, list, selected, rendered, generation, status, shown, pageVars, announced>>

\* One request fails, which ends the load.
LoadFails(d) ==
    /\ d.unread # {}
    /\ loads' = loads \ {d}
    /\ status' = IF Current(d) THEN "error" ELSE status
    /\ UNCHANGED <<serverVars, linkVars, list, selected, rendered, generation, shown, pageVars, announced>>

-----------------------------------------------------------------------------
(* The selection. *)

\* The leagues arrive: the remembered one, or the first, is selected and loaded.
ListArrives(l) ==
    /\ list = "asked"
    /\ list' = "known"
    /\ selected' = l
    /\ StartLoad(l)
    /\ UNCHANGED <<serverVars, linkVars, rendered, shown, pageVars, announced>>

ListFails ==
    /\ list = "asked"
    /\ list' = "failed"
    /\ status' = "error"
    /\ UNCHANGED <<serverVars, linkVars, selected, rendered, generation, loads, shown, pageVars, announced>>

\* A new selection closes the stream of the old one and opens another.
Resubscribe == link' = "connecting" /\ events' = {} /\ UNCHANGED drops

\* React renders the selection that ListArrives has set.
Renders ==
    /\ rendered # selected
    /\ rendered' = selected
    /\ Resubscribe
    /\ UNCHANGED <<serverVars, list, selected, generation, loads, status, shown, pageVars, announced>>

Click == clicks < MaxClicks /\ clicks' = clicks + 1

\* selectConnection: the rows are cleared before the load begins.
Select(l) ==
    /\ Click
    /\ list = "known"
    /\ rendered = selected
    /\ l # selected
    /\ shown' = NoRows
    /\ selected' = l
    /\ rendered' = l
    /\ StartLoad(l)
    /\ Resubscribe
    /\ UNCHANGED <<serverVars, list, waiting, announced>>

\* "Try again", which is offered after an error.
Refresh ==
    /\ Click
    /\ status = "error"
    /\ StartLoad(rendered)
    /\ UNCHANGED <<serverVars, linkVars, list, selected, rendered, shown, waiting, announced>>

\* The user starts a sync or reviews a recommendation; when that is answered the page
\* refreshes, unless it failed, with the refresh of the render the click was made in.
Ask ==
    /\ Click
    /\ rendered # NoLeague
    /\ waiting' = waiting \cup {rendered}
    /\ UNCHANGED <<serverVars, linkVars, scopeVars, announced>>

AskReturns(l) ==
    /\ l \in waiting
    /\ waiting' = waiting \ {l}
    /\ StartLoad(l) \/ UNCHANGED <<generation, loads, status>>
    /\ UNCHANGED <<serverVars, linkVars, list, selected, rendered, shown, clicks, announced>>

-----------------------------------------------------------------------------
(* The event stream. *)

\* Mutant: while a load is under way no other is begun.
EventJoinsLoad(e) ==
    /\ e \in events
    /\ events' = events \ {e}
    /\ announced' = [announced EXCEPT ![e[1]] = IF e[2] > @ THEN e[2] ELSE @]
    /\ IF status = "loading" THEN UNCHANGED <<generation, loads, status>> ELSE StartLoad(rendered)
    /\ UNCHANGED <<serverVars, link, drops, list, selected, rendered, shown, pageVars>>

EventArrives(e) ==
    /\ e \in events
    /\ events' = events \ {e}
    /\ announced' = [announced EXCEPT ![e[1]] = IF e[2] > @ THEN e[2] ELSE @]
    /\ StartLoad(rendered)
    /\ UNCHANGED <<serverVars, link, drops, list, selected, rendered, shown, pageVars>>

LinkMoves(from, to) ==
    /\ link = from
    /\ link' = to
    /\ UNCHANGED <<serverVars, events, drops, scopeVars, pageVars, announced>>

\* The proxy reads the client id and subscribes; nobody looks whether that fails.
LinkOpens      == LinkMoves("connecting", "open")
LinkSubscribes == LinkMoves("open", "live") \/ LinkMoves("open", "deaf")

\* The stream breaks: the session is asked for before it is opened again.
LinkDrops ==
    /\ link \in {"connecting", "open", "live", "deaf"}
    /\ drops < MaxDrops
    /\ drops' = drops + 1
    /\ link' = "checking"
    /\ events' = {}
    /\ UNCHANGED <<serverVars, scopeVars, pageVars, announced>>

SessionChecked == LinkMoves("checking", "connecting") \/ LinkMoves("checking", "stopped")

-----------------------------------------------------------------------------
LoadStep(d) ==
    \/ \E q \in Requests : LoadReads(d, q) \/ LoadReadsWorkspace(d, q)
    \/ LoadEnds(d)
    \/ LoadFails(d)

LinkStep == LinkOpens \/ LinkSubscribes \/ SessionChecked

Next ==
    \/ \E l \in Leagues : ServerWrites(l) \/ ListArrives(l) \/ Select(l) \/ AskReturns(l)
    \/ \E d \in loads : LoadStep(d)
    \/ \E e \in events : EventArrives(e)
    \/ ListFails \/ Renders \/ Refresh \/ Ask
    \/ LinkStep \/ LinkDrops

Spec == Init /\ [][Next]_vars

\* Requests are answered or fail, React renders, events are delivered and the stream
\* is opened again.  Nobody has to click, write or lose the stream.
Machinery ==
    \/ \E l \in Leagues : ListArrives(l) \/ AskReturns(l)
    \/ \E d \in loads : LoadStep(d)
    \/ \E e \in events : EventArrives(e)
    \/ Renders \/ LinkStep

\* One of these goes on as long as any can: each has so much to do and no more.
Fairness == WF_vars(Machinery)

FairSpec == Spec /\ Fairness

\* Nobody switches leagues while a sync or a review is waiting for its answer.
SteadyNext == Next /\ (waiting # {} => selected' = selected)

SteadySpec == Init /\ [][SteadyNext]_vars /\ Fairness

-----------------------------------------------------------------------------
TypeOK ==
    /\ rows \in [Leagues -> Nat]
    /\ writes \in 0..MaxWrites
    /\ link \in LinkState
    /\ events \subseteq Leagues \X Nat
    /\ drops \in 0..MaxDrops
    /\ list \in {"asked", "known", "failed"}
    /\ selected \in Targets
    /\ rendered \in Targets
    /\ generation \in Nat
    /\ \A d \in loads : d \in Load
    /\ status \in ScopeStatus
    /\ shown \in Rows
    /\ waiting \subseteq Leagues
    /\ clicks \in 0..MaxClicks
    /\ announced \in [Leagues -> Nat]

\* "A response from a superseded generation is discarded, so a slow response for league
\* A cannot overwrite league B" (rule 2 of the hook): a page that is ready shows rows of
\* the selected league, whatever order answers, events and renders come in.
ShownIsSelected == status = "ready" => shown.of = selected

\* "The previous league's rows are never briefly visible" (rule 1 of the hook): the rows
\* on the page are those of the selected league or of the whole workspace, even while
\* another load is under way or has failed.
NoForeignRows == shown.of \in {selected, NoLeague}

\* A page that is ready has taken in every event that reached it: a load that was under
\* way when the event came, and may have read before it, is not what it shows.
ReadyIsFresh ==
    status = "ready" => \A q \in Requests : shown.versions[q] >= announced[shown.of]

\* While one league stays on the page, no answer that comes late takes it back to an
\* older version of any of its rows.
NeverOlder ==
    [][shown.of # NoLeague /\ shown'.of = shown.of =>
           \A q \in Requests : shown'.versions[q] >= shown.versions[q]]_vars

\* The page does not stay in its loading state, whichever requests fail.
LoadingEnds == status = "loading" ~> status # "loading"

\* When the subscription fails, "the client falls back to polling rather than hanging"
\* (the realtime proxy): a page that is ready does not keep old rows behind a stream
\* that has been opened and is deaf.
FallsBackToPolling ==
    link = "deaf" /\ status = "ready" ~>
        \/ link # "deaf" \/ status # "ready"
        \/ \A q \in Requests : shown.versions[q] = rows[shown.of]

=============================================================================
