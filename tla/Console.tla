------------------------------ MODULE Console ------------------------------
(***************************************************************************)
(* The page of the local edition (app/static/app.js) and the routes it     *)
(* calls.  A handler is a script of requests: it waits for those of one    *)
(* stage and goes on to the next; an error takes it where the code catches *)
(* it.  Several handlers run at once, nothing numbers their loads, and     *)
(* buttons are disabled and enabled again by whoever comes to it.          *)
(***************************************************************************)
EXTENDS Integers, Sequences, FiniteSets

CONSTANTS
    Handlers,    \* the handlers that are called
    Early,       \* those that are called while the page is still loading
    MaxEvents    \* how often one is called, or a request fails without need, together

ASSUME ConsoleAssumption ==
    /\ Handlers \subseteq {"lineup", "waivers", "trades", "full", "decide", "sync", "save", "report",
                           "add", "test", "disable", "refresh", "pulse", "automation"}
    /\ MaxEvents \in Nat

Panels == {"connections", "dashboard", "reports", "channels", "activity"}
Kinds  == <<"lineup", "waivers", "trades">>

VARIABLES
    server,    \* what a load of each panel answers: the last commit that touched it, and
               \* whether there is anything: a connection, a snapshot, a report, a channel
    commits,   \* how many commits there were
    panels,    \* what each panel of the page shows
    handler,   \* each call of a handler: its stage and the answers it waits for
    requests,  \* requests under way, and answers on their way back
    disabled,  \* buttons that are disabled
    happened,  \* how many calls and failures there were
    written,   \* the last commit of each panel that the page was told of
    excused    \* panels that miss a load, or whose newer answer an older one has overtaken

consoleVars == <<server, commits, panels, handler, requests, disabled, happened, written, excused>>

-----------------------------------------------------------------------------
\* The requests of a stage, where an error leads, whether it is Promise.all or allSettled,
\* and whether the handler gives up before it while the page shows no league.
All(asks, onError) == [asks |-> asks, onError |-> onError, settled |-> FALSE, league |-> FALSE]
Settled(asks)      == [asks |-> asks, onError |-> 0, settled |-> TRUE, league |-> FALSE]
Post(ask, onError) == [All({ask}, onError) EXCEPT !.league = TRUE]

EnterApp == <<All({"dashboard"}, 3),
              Settled({"connections", "reports", "channels", "activity"})>>

RunAnalysis(kind) == <<Post(kind, 3), All({"dashboard", "activity"}, 3)>>

\* Each kind is analysed whatever became of the one before.
RunFullAnalysis ==
    [k \in 1..6 |-> IF k % 2 = 1 THEN Post(Kinds[(k + 1) \div 2], k + 2)
                    ELSE All({"dashboard", "activity"}, k + 1)]

\* Mutant: the page is not loaded again.
DecideAlone == <<All({"decide"}, 2)>>

DecideRecommendation == <<All({"decide"}, 3), All({"dashboard", "activity"}, 3)>>

SyncLoads == Settled({"connections", "dashboard", "activity"})
SyncEspn  == <<All({"sync"}, 2), SyncLoads>>

SaveConnection == <<All({"put"}, 5), All({"connections"}, 5), All({"sync"}, 4), SyncLoads>>

\* showView: two views load their panels when they are shown.
ShowView == [pulse      |-> <<All({"reports"}, 2)>>,
             automation |-> <<Settled({"channels", "activity"})>>]

\* The new report is shown in its view, for which nobody waits.
CreateReport   == <<Post("report", 4), All({"reports", "activity"}, 4), All({"reports"}, 4)>>
SaveChannel    == <<All({"add"}, 3), All({"channels", "activity"}, 3)>>
TestChannel    == <<All({"test"}, 3), All({"activity"}, 3)>>
DisableChannel == <<All({"disable"}, 3), All({"channels", "activity"}, 3)>>

Script(h) ==
    CASE h = "enter" -> EnterApp
      [] h = "full" -> RunFullAnalysis
      [] h = "decide" -> DecideRecommendation
      [] h = "sync" -> SyncEspn
      [] h = "save" -> SaveConnection
      [] h = "report" -> CreateReport
      [] h = "add" -> SaveChannel
      [] h = "test" -> TestChannel
      [] h = "disable" -> DisableChannel
      [] h = "refresh" -> <<All({"dashboard"}, 2)>>
      [] h \in DOMAIN ShowView -> ShowView[h]
      [] h = "none" -> <<>>
      [] OTHER -> RunAnalysis(h)

Over(h)  == Len(Script(h)) + 1
Idle(n)  == handler[n].at = Over(handler[n].h)

\* The buttons a handler keeps disabled in each stage.
Held(h, at) ==
    CASE at = Over(h) \/ h \in {"none", "enter", "decide", "disable", "refresh", "pulse", "automation"} -> {}
      [] h = "report" -> IF at <= 2 THEN {"report"} ELSE {}
      [] h = "full" -> {"full", Kinds[(at + 1) \div 2]}
      [] h = "save" -> IF at >= 3 THEN {"save", "sync"} ELSE {"save"}
      [] OTHER -> {h}

-----------------------------------------------------------------------------
\* What the routes commit: the panels they touch, and those that have something, or no
\* longer anything, from then on.
AnalysisRoute  == [touches |-> {"dashboard", "activity"}, makes |-> {}, takes |-> {}]
DecisionRoute  == [touches |-> {"dashboard", "activity"}, makes |-> {}, takes |-> {}]
PutRoute       == [touches |-> {"connections", "dashboard", "activity"},
                   makes |-> {"connections"}, takes |-> {}]
SyncRoute      == [touches |-> {"connections", "dashboard", "activity"},
                   makes |-> {"dashboard"}, takes |-> {}]
ReportRoute    == [touches |-> {"reports", "activity"}, makes |-> {"reports"}, takes |-> {}]
AddRoute       == [touches |-> {"channels", "activity"}, makes |-> {"channels"}, takes |-> {}]
TestRoute      == [touches |-> {"activity"}, makes |-> {}, takes |-> {}]
DisableRoute   == [touches |-> {"channels", "activity"}, makes |-> {}, takes |-> {"channels"}]

\* ESPN refuses a sync: the error is saved with the connection.
FailedSync     == [touches |-> {"connections", "dashboard"}, makes |-> {}, takes |-> {}]

Route(ask) ==
    CASE ask = "decide" -> DecisionRoute
      [] ask = "put" -> PutRoute
      [] ask = "sync" -> SyncRoute
      [] ask = "report" -> ReportRoute
      [] ask = "add" -> AddRoute
      [] ask = "test" -> TestRoute
      [] ask = "disable" -> DisableRoute
      [] OTHER -> AnalysisRoute

\* 404 or 409: there is no connection, no snapshot or no active channel.
Answerable(ask) ==
    CASE ask = "sync" -> server["connections"].some
      [] ask \in {"lineup", "waivers", "trades", "report", "decide"} -> server["dashboard"].some
      [] ask = "test" -> server["channels"].some
      [] OTHER -> TRUE

Commit(route) ==
    /\ commits' = commits + 1
    /\ server' = [p \in Panels |->
          IF p \notin route.touches THEN server[p]
          ELSE [last |-> commits + 1,
                some |-> p \in route.makes \/ (server[p].some /\ p \notin route.takes)]]

NoPanel == [last |-> 0, some |-> FALSE]

Request(n, at, ask) == [by |-> n, at |-> at, ask |-> ask, got |-> "none", rows |-> NoPanel]

Answered(r, got, rows) ==
    requests' = (requests \ {r}) \cup {[r EXCEPT !.got = got, !.rows = rows]}

\* The server reads or commits, and sends its answer.
ServerLoads(r) ==
    /\ r.got = "none" /\ r.ask \in Panels
    /\ Answered(r, "rows", server[r.ask])
    /\ UNCHANGED <<server, commits, panels, handler, disabled, happened, written, excused>>

ServerCommits(r) ==
    /\ r.got = "none" /\ r.ask \notin Panels
    /\ Answerable(r.ask)
    /\ Commit(Route(r.ask))
    /\ Answered(r, "done", [NoPanel EXCEPT !.last = commits + 1])
    /\ UNCHANGED <<panels, handler, disabled, happened, written, excused>>

-----------------------------------------------------------------------------
\* Loading the connections decides on the sync button; loading the channels makes new
\* buttons for them.
Rendered(r, was) ==
    CASE r.ask = "connections" -> IF r.rows.some THEN was \ {"sync"} ELSE was \cup {"sync"}
      [] r.ask = "channels" -> was \ {"test"}
      [] OTHER -> was

\* Handler n goes on to a stage, with the other requests still under way.
GoesOn(n, h, at, others, buttons) ==
    LET gives == at < Over(h) /\ Script(h)[at].league /\ ~panels'["dashboard"].some
        to    == IF gives THEN Over(h) ELSE at
        asks  == IF to = Over(h) THEN {} ELSE Script(h)[to].asks
    IN  /\ handler' = [handler EXCEPT ![n] = [h |-> h, at |-> to, waits |-> asks]]
        /\ requests' = others \cup {Request(n, to, q) : q \in asks}
        /\ disabled' = (buttons \ Held(handler[n].h, handler[n].at)) \cup Held(h, to)

\* Mutant: nothing catches an error, so that nothing after it is done.
Uncaught(n, stage, others, buttons) ==
    requests' = others /\ disabled' = buttons /\ UNCHANGED handler

\* catch and finally.
Caught(n, stage, others, buttons) == GoesOn(n, handler[n].h, stage.onError, others, buttons)

\* The first error ends a Promise.all, whose other requests go on by themselves.
HandlerResumes(r, refused, buttons) ==
    LET n == r.by
        others == requests \ {r}
        stage == Script(handler[n].h)[r.at]
        left == handler[n].waits \ {r.ask} IN
    IF handler[n].at # r.at THEN
         requests' = others /\ disabled' = buttons /\ UNCHANGED handler
    ELSE IF refused /\ ~stage.settled THEN
         Caught(n, stage, others, buttons)
    ELSE IF left = {} THEN
         GoesOn(n, handler[n].h, r.at + 1, others, buttons)
    ELSE /\ handler' = [handler EXCEPT ![n].waits = left]
         /\ requests' = others
         /\ disabled' = buttons

\* A panel shows what it is answered, however old that is.
LoadReturns(r) ==
    /\ r.got = "rows"
    /\ panels' = [panels EXCEPT ![r.ask] = r.rows]
    /\ excused' = IF r.rows.last < panels[r.ask].last THEN excused \cup {r.ask}
                  ELSE IF r.rows.last >= written[r.ask] THEN excused \ {r.ask}
                  ELSE excused
    /\ HandlerResumes(r, FALSE, Rendered(r, disabled))
    /\ UNCHANGED <<server, commits, happened, written>>

PostReturns(r) ==
    /\ r.got = "done"
    /\ written' = [p \in Panels |-> IF p \in Route(r.ask).touches /\ r.rows.last > written[p]
                                    THEN r.rows.last ELSE written[p]]
    /\ UNCHANGED <<server, commits, panels, happened, excused>>
    /\ HandlerResumes(r, FALSE, disabled)

\* A request fails: the server refuses what it cannot answer, or the request is lost, or its
\* answer is.
RequestFails(r) ==
    /\ r.got = "none"
    /\ IF r.ask \notin Panels /\ ~Answerable(r.ask)
       THEN UNCHANGED <<happened, server, commits>>
       ELSE /\ happened < MaxEvents
            /\ happened' = happened + 1
            /\ \/ UNCHANGED <<server, commits>>
               \/ r.ask \notin Panels /\ Commit(Route(r.ask))
               \/ r.ask = "sync" /\ Commit(FailedSync)
    /\ excused' = IF r.ask \in Panels THEN Panels ELSE excused
    /\ UNCHANGED <<panels, written>>
    /\ HandlerResumes(r, TRUE, disabled)

\* A button is pressed that is there and enabled.
Press(h) ==
    \E n \in 1..MaxEvents :
        /\ handler[n].h = "none" /\ \A k \in 1..(n - 1) : handler[k].h # "none"
        /\ happened < MaxEvents /\ happened' = happened + 1
        /\ h \in Early \/ Idle(0)
        /\ h \notin disabled
        /\ h = "sync" => panels["connections"].some
        /\ h = "decide" => panels["dashboard"].some
        /\ h \in {"test", "disable"} => panels["channels"].some
        /\ Script(h)[1].league => panels["dashboard"].some
        /\ UNCHANGED <<server, commits, panels, written, excused>>
        /\ GoesOn(n, h, 1, requests, disabled)

-----------------------------------------------------------------------------
\* The page is opened by somebody new, or with a league, a report and a channel.
PageInit ==
    /\ \E some \in BOOLEAN : server = [p \in Panels |-> [last |-> 0, some |-> some]]
    /\ commits = 0
    /\ panels = [p \in Panels |-> NoPanel]
    /\ handler = [n \in 0..MaxEvents |->
                IF n = 0 THEN [h |-> "enter", at |-> 1, waits |-> {"dashboard"}]
                ELSE [h |-> "none", at |-> 1, waits |-> {}]]
    /\ requests = {Request(0, 1, "dashboard")}
    /\ disabled = {} /\ happened = 0
    /\ written = [p \in Panels |-> 0] /\ excused = Panels

RequestStep ==
    \E r \in requests :
        ServerLoads(r) \/ ServerCommits(r) \/ LoadReturns(r) \/ PostReturns(r) \/ RequestFails(r)

PageNext == RequestStep \/ \E h \in Handlers : Press(h)

PageSpec == PageInit /\ [][PageNext]_consoleVars

-----------------------------------------------------------------------------
\* When nothing is under way any more, the page shows all it was told that it has changed,
\* although each handler loads again only the panels it thinks of and loads overlap: except
\* where a load has failed, or an older answer came after a newer one.
SettledIsCurrent ==
    (requests = {} /\ \A n \in 0..MaxEvents : Idle(n)) =>
        \A p \in Panels \ excused : panels[p].last >= written[p]

\* Handlers are called finitely often: every button they have disabled is enabled again in the
\* end, whatever fails.  Only the sync button stays disabled, and only while the page knows of
\* no connection.
ButtonsComeBack ==
    []<>(disabled = {} \/ (disabled = {"sync"} /\ ~panels["connections"].some))
=============================================================================
