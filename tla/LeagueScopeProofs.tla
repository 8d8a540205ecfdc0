------------------------- MODULE LeagueScopeProofs --------------------------
(***************************************************************************)
(* Theorems about LeagueScope, for every number of leagues, requests,      *)
(* clicks, changes and losses of the stream.                               *)
(*                                                                         *)
(* The first invariant, Fresh, follows the versions: what has been told,   *)
(* read and shown is no newer than the rows, and what the current load has *)
(* read is as new as every event and as what is on the page.  It holds     *)
(* because every event begins a load.  The second, Scoped, follows the     *)
(* selection: the current load is for the selected league or for none.     *)
(* It needs SteadySpec.                                                    *)
(***************************************************************************)
EXTENDS LeagueScope, TLAPS

LEMMA TypeInit == Init => TypeOK
BY LeagueScopeAssumption
   DEF Init, TypeOK, LeagueScopeAssumption, Targets, LinkState, ScopeStatus, Rows, NoRows,
       Versions, Nothing

\* A new load is a load, and the page is loading.
LEMMA StartType ==
    ASSUME TypeOK, NEW t \in Targets, StartLoad(t)
    PROVE  /\ generation' \in Nat
           /\ \A d \in loads' : d \in Load
           /\ status' = "loading"
<1>1. Nothing \in Versions /\ generation + 1 \in Nat
    BY DEF Nothing, Versions, TypeOK
<1>2. [gen |-> generation + 1, target |-> t, unread |-> Requests, got |-> Nothing] \in Load
    BY <1>1 DEF Load
<1> QED
    BY <1>1, <1>2 DEF StartLoad, TypeOK

LEMMA TypeStep == TypeOK /\ [Next]_vars => TypeOK'
<1> SUFFICES ASSUME TypeOK, [Next]_vars
             PROVE  TypeOK'
    OBVIOUS
<1> USE DEF serverVars, linkVars, scopeVars, pageVars
<1>t. Leagues \subseteq Targets /\ NoLeague \in Targets
    BY DEF Targets
<1>n. NoRows \in Rows
    BY <1>t DEF NoRows, Rows, Nothing, Versions
<1>1. ASSUME NEW l \in Leagues, ServerWrites(l)
      PROVE  TypeOK'
    <2>1. rows[l] + 1 \in Nat /\ rows' = [rows EXCEPT ![l] = rows[l] + 1]
        BY <1>1 DEF ServerWrites, TypeOK
    <2>2. rows' \in [Leagues -> Nat]
        BY <2>1 DEF TypeOK
    <2>3. writes' \in 0..MaxWrites
        BY <1>1, LeagueScopeAssumption DEF ServerWrites, TypeOK, LeagueScopeAssumption
    <2>4. events' \subseteq Leagues \X Nat
        BY <1>1, <2>2 DEF ServerWrites, TypeOK
    <2> QED
        BY <1>1, <2>2, <2>3, <2>4 DEF ServerWrites, TypeOK
<1>2. ASSUME NEW d \in loads, NEW q \in Requests, LoadReads(d, q)
      PROVE  TypeOK'
    <2>1. d \in Load /\ d.target \in Leagues /\ rows[d.target] \in Nat
        BY <1>2 DEF LoadReads, TypeOK
    <2>2. [d.got EXCEPT ![q] = rows[d.target]] \in Versions
        BY <2>1 DEF Load, Versions
    <2>3. [d EXCEPT !.unread = @ \ {q}, !.got = [@ EXCEPT ![q] = rows[d.target]]] \in Load
        BY <2>1, <2>2 DEF Load
    <2>4. \A e \in loads' : e \in Load
        BY <1>2, <2>3 DEF LoadReads, TypeOK
    <2> QED
        BY <1>2, <2>4 DEF LoadReads, TypeOK
<1>3. ASSUME NEW d \in loads, NEW q \in Requests, LoadReadsWorkspace(d, q)
      PROVE  TypeOK'
    <2>1. [d EXCEPT !.unread = @ \ {q}] \in Load
        BY DEF TypeOK, Load
    <2>2. \A e \in loads' : e \in Load
        BY <1>3, <2>1 DEF LoadReadsWorkspace, TypeOK
    <2> QED
        BY <1>3, <2>2 DEF LoadReadsWorkspace, TypeOK
<1>4. ASSUME NEW d \in loads, LoadEnds(d)
      PROVE  TypeOK'
    <2>1. [of |-> d.target, versions |-> d.got] \in Rows
        BY DEF TypeOK, Load, Rows
    <2>2. shown' \in Rows /\ status' \in ScopeStatus
        BY <1>4, <2>1 DEF LoadEnds, TypeOK, ScopeStatus
    <2>3. \A e \in loads' : e \in Load
        BY <1>4 DEF LoadEnds, TypeOK
    <2> QED
        BY <1>4, <2>2, <2>3 DEF LoadEnds, TypeOK
<1>5. ASSUME NEW d \in loads, LoadFails(d)
      PROVE  TypeOK'
    BY <1>5 DEF LoadFails, TypeOK, ScopeStatus
<1>6. ASSUME NEW l \in Leagues, ListArrives(l)
      PROVE  TypeOK'
    <2>1. StartLoad(l)
        BY <1>6 DEF ListArrives
    <2> QED
        BY <1>6, <1>t, <2>1, StartType DEF ListArrives, TypeOK, ScopeStatus
<1>7. CASE ListFails
    BY <1>7 DEF ListFails, TypeOK, ScopeStatus
<1>8. CASE Renders
    BY <1>8 DEF Renders, Resubscribe, TypeOK, LinkState
<1>9. ASSUME NEW l \in Leagues, Select(l)
      PROVE  TypeOK'
    <2>1. StartLoad(l) /\ clicks' \in 0..MaxClicks
        BY <1>9, LeagueScopeAssumption DEF Select, Click, TypeOK, LeagueScopeAssumption
    <2>2. /\ generation' \in Nat
          /\ \A d \in loads' : d \in Load
          /\ status' \in ScopeStatus
        BY <2>1, <1>t, StartType DEF ScopeStatus
    <2> QED
        BY <1>9, <1>t, <1>n, <2>1, <2>2 DEF Select, Resubscribe, TypeOK, LinkState
<1>10. CASE Refresh
    <2>1. StartLoad(rendered) /\ rendered \in Targets /\ clicks' \in 0..MaxClicks
        BY <1>10, LeagueScopeAssumption DEF Refresh, Click, TypeOK, LeagueScopeAssumption
    <2> QED
        BY <1>10, <2>1, StartType DEF Refresh, TypeOK, ScopeStatus
<1>11. CASE Ask
    <2>1. rendered \in Leagues /\ clicks' \in 0..MaxClicks
        BY <1>11, LeagueScopeAssumption DEF Ask, Click, TypeOK, Targets, LeagueScopeAssumption
    <2> QED
        BY <1>11, <2>1 DEF Ask, TypeOK
<1>12. ASSUME NEW l \in Leagues, AskReturns(l)
       PROVE  TypeOK'
    <2>1. /\ generation' \in Nat
          /\ \A d \in loads' : d \in Load
          /\ status' \in ScopeStatus
        BY <1>12, <1>t, StartType DEF AskReturns, ScopeStatus, TypeOK
    <2> QED
        BY <1>12, <2>1 DEF AskReturns, TypeOK
<1>13. ASSUME NEW e \in events, EventArrives(e)
       PROVE  TypeOK'
    <2>1. StartLoad(rendered) /\ rendered \in Targets /\ e[1] \in Leagues /\ e[2] \in Nat
        BY <1>13 DEF EventArrives, TypeOK
    <2>2. announced' \in [Leagues -> Nat]
        BY <1>13, <2>1 DEF EventArrives, TypeOK
    <2> QED
        BY <1>13, <2>1, <2>2, StartType DEF EventArrives, TypeOK, ScopeStatus
<1>14. CASE LinkStep
    BY <1>14 DEF LinkStep, LinkOpens, LinkSubscribes, SessionChecked, LinkMoves, TypeOK, LinkState
<1>15. CASE LinkDrops
    BY <1>15, LeagueScopeAssumption DEF LinkDrops, TypeOK, LinkState, LeagueScopeAssumption
<1>16. CASE UNCHANGED vars
    BY <1>16 DEF vars, TypeOK
<1> QED
    BY <1>1, <1>2, <1>3, <1>4, <1>5, <1>6, <1>7, <1>8, <1>9, <1>10, <1>11, <1>12, <1>13,
       <1>14, <1>15, <1>16
       DEF Next, LoadStep

\* The hook, the page and the stream keep their types in every interleaving of answers,
\* events, renders and clicks.
THEOREM TypeCorrect == Spec => []TypeOK
BY TypeInit, TypeStep, PTL DEF Spec

-----------------------------------------------------------------------------
(* Versions. *)

EventsAreWritten == \A e \in events : e[2] <= rows[e[1]]

AnnouncedIsWritten == \A l \in Leagues : announced[l] <= rows[l]

OneLoadPerGeneration ==
    /\ \A d \in loads : d.gen <= generation
    /\ \A d, e \in loads : d.gen = e.gen => d = e

ReadIsWritten ==
    \A d \in loads, q \in Requests : d.target \in Leagues => d.got[q] <= rows[d.target]

\* What the current load has read is as new as every event and as the page.
CurrentIsFresh ==
    \A d \in loads, q \in Requests :
        Current(d) /\ d.target \in Leagues /\ q \notin d.unread =>
            /\ announced[d.target] <= d.got[q]
            /\ d.target = shown.of => shown.versions[q] <= d.got[q]

ShownIsWritten ==
    shown.of \in Leagues => \A q \in Requests : shown.versions[q] <= rows[shown.of]

ReadyHasLeague == status = "ready" => shown.of \in Leagues

Fresh ==
    /\ TypeOK
    /\ EventsAreWritten
    /\ AnnouncedIsWritten
    /\ OneLoadPerGeneration
    /\ ReadIsWritten
    /\ CurrentIsFresh
    /\ ShownIsWritten
    /\ ReadyHasLeague
    /\ ReadyIsFresh

LEMMA FreshInit == Init => Fresh
<1> SUFFICES ASSUME Init PROVE Fresh
    OBVIOUS
<1>1. TypeOK
    BY TypeInit
<1>2. shown.of = NoLeague /\ NoLeague \notin Leagues
    BY LeagueScopeAssumption DEF Init, NoRows, LeagueScopeAssumption
<1> QED
    BY <1>1, <1>2
       DEF Init, Fresh, EventsAreWritten, AnnouncedIsWritten, OneLoadPerGeneration,
           ReadIsWritten, CurrentIsFresh, ShownIsWritten, ReadyHasLeague, ReadyIsFresh

\* A new load is the only current one and has read nothing yet.
LEMMA StartFresh ==
    ASSUME Fresh, NEW t \in Targets, StartLoad(t), rows' = rows
    PROVE  OneLoadPerGeneration' /\ ReadIsWritten' /\ CurrentIsFresh' /\ status' = "loading"
<1> DEFINE new == [gen |-> generation + 1, target |-> t, unread |-> Requests, got |-> Nothing]
<1>1. generation \in Nat /\ generation' = generation + 1 /\ loads' = loads \cup {new}
    BY DEF StartLoad, Fresh, TypeOK
<1>2. \A d \in loads : d.gen \in Nat /\ d.gen <= generation
    BY DEF Fresh, TypeOK, Load, OneLoadPerGeneration
<1>3. new.gen = generation + 1 /\ new.target = t /\ new.unread = Requests /\ new.got = Nothing
    OBVIOUS
<1> HIDE DEF new
<1>4. OneLoadPerGeneration'
    BY <1>1, <1>2, <1>3 DEF Fresh, OneLoadPerGeneration
<1>5. ReadIsWritten'
    <2>1. \A q \in Requests : t \in Leagues => new.got[q] <= rows[t]
        BY <1>3 DEF Nothing, Fresh, TypeOK
    <2> QED
        BY <1>1, <1>3, <2>1 DEF Fresh, ReadIsWritten
<1>6. CurrentIsFresh'
    BY <1>1, <1>2, <1>3 DEF CurrentIsFresh, Current
<1> QED
    BY <1>4, <1>5, <1>6 DEF StartLoad

LEMMA FreshStep == Fresh /\ [Next]_vars => Fresh'
<1> SUFFICES ASSUME Fresh, [Next]_vars
             PROVE  Fresh'
    OBVIOUS
<1> USE DEF serverVars, linkVars, scopeVars, pageVars
<1>0. TypeOK /\ TypeOK'
    BY TypeStep DEF Fresh
<1>t. Leagues \subseteq Targets /\ NoLeague \in Targets /\ NoLeague \notin Leagues
    BY LeagueScopeAssumption DEF Targets, LeagueScopeAssumption
<1>1. ASSUME NEW l \in Leagues, ServerWrites(l)
      PROVE  Fresh'
    <2>1. /\ rows' \in [Leagues -> Nat] /\ rows \in [Leagues -> Nat]
          /\ \A m \in Leagues : rows[m] <= rows'[m]
        BY <1>0, <1>1 DEF ServerWrites, TypeOK
    <2>2. EventsAreWritten'
        <3>1. \A e \in events : e[1] \in Leagues /\ e[2] \in Nat /\ e[2] <= rows[e[1]]
            BY <1>0 DEF TypeOK, Fresh, EventsAreWritten
        <3>2. events' \subseteq events \cup {<<l, rows'[l]>>}
            BY <1>1 DEF ServerWrites
        <3> QED
            BY <2>1, <3>1, <3>2 DEF EventsAreWritten
    <2>3. AnnouncedIsWritten'
        BY <1>0, <1>1, <2>1 DEF ServerWrites, Fresh, AnnouncedIsWritten, TypeOK
    <2>4. ReadIsWritten'
        BY <1>0, <1>1, <2>1 DEF ServerWrites, Fresh, ReadIsWritten, TypeOK, Load, Versions
    <2>5. ShownIsWritten'
        BY <1>0, <1>1, <2>1 DEF ServerWrites, Fresh, ShownIsWritten, TypeOK, Rows, Versions
    <2> QED
        BY <1>0, <1>1, <2>2, <2>3, <2>4, <2>5
           DEF ServerWrites, Fresh, OneLoadPerGeneration, CurrentIsFresh, Current,
               ReadyHasLeague, ReadyIsFresh
<1>2. ASSUME NEW d \in loads, NEW q \in Requests, LoadReads(d, q)
      PROVE  Fresh'
    <2> DEFINE new == [d EXCEPT !.unread = @ \ {q}, !.got = [@ EXCEPT ![q] = rows[d.target]]]
    <2>1. loads' = (loads \ {d}) \cup {new} /\ d.target \in Leagues
        BY <1>2 DEF LoadReads
    <2>2. d \in Load /\ rows \in [Leagues -> Nat]
        BY <1>0 DEF TypeOK
    <2>3. /\ new.gen = d.gen /\ new.target = d.target /\ new.unread = d.unread \ {q}
          /\ \A p \in Requests : new.got[p] = IF p = q THEN rows[d.target] ELSE d.got[p]
        BY <2>2 DEF Load, Versions
    <2> HIDE DEF new
    <2>4. OneLoadPerGeneration'
        BY <1>2, <2>1, <2>3 DEF LoadReads, Fresh, OneLoadPerGeneration
    <2>5. ReadIsWritten'
        <3>1. \A p \in Requests : new.got[p] <= rows[new.target]
            BY <2>1, <2>2, <2>3 DEF Fresh, ReadIsWritten
        <3> QED
            BY <1>2, <2>1, <3>1 DEF LoadReads, Fresh, ReadIsWritten
    <2>6. CurrentIsFresh'
        <3>1. announced[d.target] <= rows[d.target]
            BY <2>1 DEF Fresh, AnnouncedIsWritten
        <3>2. d.target = shown.of => \A p \in Requests : shown.versions[p] <= rows[d.target]
            BY <2>1 DEF Fresh, ShownIsWritten
        <3>3. Current(d) => \A p \in Requests \ new.unread :
                 /\ announced[d.target] <= new.got[p]
                 /\ d.target = shown.of => shown.versions[p] <= new.got[p]
            BY <2>1, <2>3, <3>1, <3>2 DEF Fresh, CurrentIsFresh
        <3> QED
            BY <1>2, <2>1, <2>3, <3>3 DEF LoadReads, Fresh, CurrentIsFresh, Current
    <2> QED
        BY <1>0, <1>2, <2>4, <2>5, <2>6
           DEF LoadReads, Fresh, EventsAreWritten, AnnouncedIsWritten, ShownIsWritten,
               ReadyHasLeague, ReadyIsFresh
<1>3. ASSUME NEW d \in loads, NEW q \in Requests, LoadReadsWorkspace(d, q)
      PROVE  Fresh'
    <2> DEFINE new == [d EXCEPT !.unread = @ \ {q}]
    <2>1. loads' = (loads \ {d}) \cup {new} /\ d.target \notin Leagues
        BY <1>3, <1>t DEF LoadReadsWorkspace
    <2>2. new.gen = d.gen /\ new.target = d.target
        BY <1>0 DEF TypeOK, Load
    <2> HIDE DEF new
    <2>3. OneLoadPerGeneration' /\ ReadIsWritten' /\ CurrentIsFresh'
        BY <1>3, <2>1, <2>2
           DEF LoadReadsWorkspace, Fresh, OneLoadPerGeneration, ReadIsWritten, CurrentIsFresh, Current
    <2> QED
        BY <1>0, <1>3, <2>3
           DEF LoadReadsWorkspace, Fresh, EventsAreWritten, AnnouncedIsWritten, ShownIsWritten,
               ReadyHasLeague, ReadyIsFresh
<1>4. ASSUME NEW d \in loads, LoadEnds(d)
      PROVE  Fresh'
    <2>1. loads' = loads \ {d} /\ UNCHANGED <<rows, events, announced, generation>> /\ d.unread = {}
        BY <1>4 DEF LoadEnds
    <2>2. /\ EventsAreWritten' /\ AnnouncedIsWritten' /\ OneLoadPerGeneration' /\ ReadIsWritten'
        BY <2>1 DEF Fresh, EventsAreWritten, AnnouncedIsWritten, OneLoadPerGeneration, ReadIsWritten
    <2>3. CASE Current(d)
        <3>1. /\ shown'.of = d.target /\ shown'.versions = d.got
              /\ status' = IF d.target = NoLeague THEN "no-connection" ELSE "ready"
            BY <1>4, <2>3 DEF LoadEnds
        <3>2. d.target \in Targets
            BY <1>0 DEF TypeOK, Load
        <3>3. ShownIsWritten'
            BY <2>1, <3>1 DEF Fresh, ReadIsWritten, ShownIsWritten
        <3>4. CurrentIsFresh'
            BY <2>1, <2>3 DEF Fresh, OneLoadPerGeneration, CurrentIsFresh, Current
        <3>5. ReadyHasLeague' /\ ReadyIsFresh'
            BY <1>t, <2>1, <2>3, <3>1, <3>2
               DEF Targets, Fresh, CurrentIsFresh, ReadyHasLeague, ReadyIsFresh
        <3> QED
            BY <1>0, <2>2, <3>3, <3>4, <3>5 DEF Fresh
    <2>4. CASE ~Current(d)
        BY <1>0, <1>4, <2>1, <2>2, <2>4
           DEF LoadEnds, Fresh, CurrentIsFresh, Current, ShownIsWritten, ReadyHasLeague, ReadyIsFresh
    <2> QED
        BY <2>3, <2>4
<1>5. ASSUME NEW d \in loads, LoadFails(d)
      PROVE  Fresh'
    BY <1>0, <1>5
       DEF LoadFails, Fresh, EventsAreWritten, AnnouncedIsWritten, OneLoadPerGeneration,
           ReadIsWritten, CurrentIsFresh, Current, ShownIsWritten, ReadyHasLeague, ReadyIsFresh
<1>s. ASSUME NEW t \in Targets, StartLoad(t), UNCHANGED <<rows, announced>>, events' \subseteq events,
             shown' \in {shown, NoRows}
      PROVE  Fresh'
    <2>1. OneLoadPerGeneration' /\ ReadIsWritten' /\ CurrentIsFresh' /\ status' = "loading"
        BY <1>s, StartFresh
    <2>2. EventsAreWritten' /\ AnnouncedIsWritten'
        BY <1>s DEF Fresh, EventsAreWritten, AnnouncedIsWritten
    <2>3. ShownIsWritten'
        BY <1>s, <1>t DEF Fresh, ShownIsWritten, NoRows
    <2> QED
        BY <1>0, <2>1, <2>2, <2>3 DEF Fresh, ReadyHasLeague, ReadyIsFresh
<1>6. ASSUME NEW l \in Leagues, ListArrives(l)
      PROVE  Fresh'
    BY <1>6, <1>s, <1>t DEF ListArrives
<1>9. ASSUME NEW l \in Leagues, Select(l)
      PROVE  Fresh'
    BY <1>9, <1>s, <1>t DEF Select, Resubscribe
<1>10. CASE Refresh
    BY <1>0, <1>10, <1>s DEF Refresh, TypeOK
<1>13. ASSUME NEW e \in events, EventArrives(e)
       PROVE  Fresh'
    <2>1. /\ StartLoad(rendered) /\ rendered \in Targets
          /\ UNCHANGED <<rows, shown>> /\ events' \subseteq events
        BY <1>0, <1>13 DEF EventArrives, TypeOK
    <2>2. OneLoadPerGeneration' /\ ReadIsWritten' /\ CurrentIsFresh' /\ status' = "loading"
        BY <2>1, StartFresh
    <2>3. EventsAreWritten' /\ ShownIsWritten'
        BY <2>1 DEF Fresh, EventsAreWritten, ShownIsWritten
    <2>4. AnnouncedIsWritten'
        <3>1. /\ announced' = [announced EXCEPT ![e[1]] = IF e[2] > @ THEN e[2] ELSE @]
              /\ e[2] <= rows[e[1]]
            BY <1>13 DEF EventArrives, Fresh, EventsAreWritten
        <3> QED
            BY <1>0, <2>1, <3>1 DEF TypeOK, Fresh, AnnouncedIsWritten
    <2> QED
        BY <1>0, <2>2, <2>3, <2>4 DEF Fresh, ReadyHasLeague, ReadyIsFresh
\* The other steps move nothing the versions depend on.
<1>u. ASSUME UNCHANGED <<rows, announced, generation, loads, shown>>, events' \subseteq events,
             status' \in {status, "error"}
      PROVE  Fresh'
    BY <1>0, <1>u
       DEF Fresh, EventsAreWritten, AnnouncedIsWritten, OneLoadPerGeneration, ReadIsWritten,
           CurrentIsFresh, Current, ShownIsWritten, ReadyHasLeague, ReadyIsFresh
<1>12. ASSUME NEW l \in Leagues, AskReturns(l)
       PROVE  Fresh'
    <2>1. CASE StartLoad(l)
        BY <1>12, <2>1, <1>s, <1>t DEF AskReturns
    <2>2. CASE UNCHANGED <<generation, loads, status>>
        BY <1>12, <2>2, <1>u DEF AskReturns
    <2> QED
        BY <1>12, <2>1, <2>2 DEF AskReturns
<1>7. CASE ListFails
    BY <1>7, <1>u DEF ListFails
<1>8. CASE Renders
    BY <1>8, <1>u DEF Renders, Resubscribe
<1>11. CASE Ask
    BY <1>11, <1>u DEF Ask
<1>14. CASE LinkStep
    BY <1>14, <1>u DEF LinkStep, LinkOpens, LinkSubscribes, SessionChecked, LinkMoves
<1>15. CASE LinkDrops
    BY <1>15, <1>u DEF LinkDrops
<1>16. CASE UNCHANGED vars
    BY <1>16, <1>u DEF vars
<1> QED
    BY <1>1, <1>2, <1>3, <1>4, <1>5, <1>6, <1>7, <1>8, <1>9, <1>10, <1>11, <1>12, <1>13,
       <1>14, <1>15, <1>16
       DEF Next, LoadStep

LEMMA FreshAlways == Spec => []Fresh
BY FreshInit, FreshStep, PTL DEF Spec

\* A page that is ready has taken in every event that reached it.
THEOREM ReadyPagesAreFresh == Spec => []ReadyIsFresh
<1>1. Fresh => ReadyIsFresh
    BY DEF Fresh
<1> QED
    BY FreshAlways, <1>1, PTL

\* No answer that comes late takes a page back to an older version of its rows.
THEOREM PagesNeverAge == Spec => NeverOlder
<1> DEFINE Newer ==
      shown.of # NoLeague /\ shown'.of = shown.of =>
          \A q \in Requests : shown'.versions[q] >= shown.versions[q]
<1>1. Fresh /\ [Next]_vars => [Newer]_vars
    <2> SUFFICES ASSUME Fresh, Next, shown.of # NoLeague, shown'.of = shown.of, NEW q \in Requests
                 PROVE  shown'.versions[q] >= shown.versions[q]
        BY DEF Newer
    <2>0. /\ shown.of \in Leagues /\ shown.versions[q] \in Nat
          /\ \A d \in loads : d.got[q] \in Nat
        BY DEF Fresh, TypeOK, Rows, Targets, Versions, Load
    <2>1. CASE shown' = shown
        BY <2>0, <2>1
    <2>2. ASSUME NEW d \in loads, LoadEnds(d)
          PROVE  shown'.versions[q] >= shown.versions[q]
        <3>1. CASE Current(d)
            BY <2>0, <2>2, <3>1 DEF LoadEnds, Fresh, CurrentIsFresh
        <3>2. CASE ~Current(d)
            BY <2>0, <2>1, <2>2, <3>2 DEF LoadEnds
        <3> QED
            BY <3>1, <3>2
    <2>3. ASSUME NEW l \in Leagues, Select(l)
          PROVE  FALSE
        BY <2>3 DEF Select, NoRows
    <2>4. shown' = shown \/ (\E d \in loads : LoadEnds(d)) \/ (\E l \in Leagues : Select(l))
        BY DEF Next, LoadStep, ServerWrites, ListArrives, AskReturns, LoadReads, LoadReadsWorkspace,
               LoadFails, EventArrives, ListFails, Renders, Refresh, Ask, LinkStep, LinkOpens,
               LinkSubscribes, SessionChecked, LinkMoves, LinkDrops, scopeVars
    <2> QED
        BY <2>1, <2>2, <2>3, <2>4
<1> QED
    BY FreshAlways, <1>1, PTL DEF Spec, NeverOlder, Newer

-----------------------------------------------------------------------------
(* The selection, as long as nobody switches while an answer is awaited. *)

SelectionIsKnown ==
    /\ list = "asked" => selected = NoLeague
    /\ rendered \in {selected, NoLeague}

WaitingForSelected == waiting \subseteq {selected}

CurrentIsForSelected ==
    /\ \A d \in loads : d.gen <= generation
    /\ \A d \in loads : Current(d) => d.target \in {selected, NoLeague}

Scoped ==
    /\ TypeOK
    /\ SelectionIsKnown
    /\ WaitingForSelected
    /\ CurrentIsForSelected
    /\ ShownIsSelected
    /\ NoForeignRows

LEMMA ScopedInit == Init => Scoped
BY TypeInit
   DEF Init, Scoped, SelectionIsKnown, WaitingForSelected, CurrentIsForSelected, ShownIsSelected,
       NoForeignRows, NoRows

LEMMA StartScoped ==
    ASSUME TypeOK, CurrentIsForSelected, NEW t \in {selected', NoLeague}, StartLoad(t)
    PROVE  CurrentIsForSelected' /\ status' = "loading"
<1> DEFINE new == [gen |-> generation + 1, target |-> t, unread |-> Requests, got |-> Nothing]
<1>1. generation \in Nat /\ generation' = generation + 1 /\ loads' = loads \cup {new}
    BY DEF StartLoad, TypeOK
<1>2. new.gen = generation + 1 /\ new.target = t
    OBVIOUS
<1> HIDE DEF new
<1>3. \A d \in loads : d.gen \in Nat
    BY DEF TypeOK, Load
<1> QED
    BY <1>1, <1>2, <1>3 DEF StartLoad, CurrentIsForSelected, Current

LEMMA ScopedStep == Scoped /\ [SteadyNext]_vars => Scoped'
<1> SUFFICES ASSUME Scoped, [SteadyNext]_vars
             PROVE  Scoped'
    OBVIOUS
<1> USE DEF serverVars, linkVars, scopeVars, pageVars
<1>0. TypeOK /\ TypeOK'
    BY TypeStep DEF Scoped, SteadyNext
<1>t. NoLeague \notin Leagues /\ (waiting # {} => selected' = selected)
    BY LeagueScopeAssumption DEF SteadyNext, LeagueScopeAssumption, vars
\* A load for the selected league begins and the selection stays.
<1>s. ASSUME NEW t \in {selected, NoLeague}, StartLoad(t),
             UNCHANGED <<list, selected, rendered, shown>>, waiting' \subseteq waiting
      PROVE  Scoped'
    <2>1. CurrentIsForSelected' /\ status' = "loading"
        BY <1>0, <1>s, StartScoped DEF Scoped
    <2> QED
        BY <1>0, <1>s, <2>1
           DEF Scoped, SelectionIsKnown, WaitingForSelected, ShownIsSelected, NoForeignRows
\* Nothing the selection depends on moves.
<1>u. ASSUME UNCHANGED <<list, selected, rendered, generation, loads, status, shown>>,
             waiting' \subseteq waiting
      PROVE  Scoped'
    BY <1>0, <1>u
       DEF Scoped, SelectionIsKnown, WaitingForSelected, CurrentIsForSelected, Current,
           ShownIsSelected, NoForeignRows
\* A load takes in an answer.
<1>r. ASSUME NEW d \in loads, NEW new, loads' = (loads \ {d}) \cup {new},
             new.gen = d.gen, new.target = d.target,
             UNCHANGED <<list, selected, rendered, generation, status, shown, waiting>>
      PROVE  Scoped'
    BY <1>0, <1>r
       DEF Scoped, SelectionIsKnown, WaitingForSelected, CurrentIsForSelected, Current,
           ShownIsSelected, NoForeignRows
<1>1. ASSUME NEW l \in Leagues, ServerWrites(l)
      PROVE  Scoped'
    BY <1>1, <1>u DEF ServerWrites
<1>2. ASSUME NEW d \in loads, NEW q \in Requests, LoadReads(d, q)
      PROVE  Scoped'
    <2> DEFINE new == [d EXCEPT !.unread = @ \ {q}, !.got = [@ EXCEPT ![q] = rows[d.target]]]
    <2>1. new.gen = d.gen /\ new.target = d.target
        BY <1>0 DEF TypeOK, Load
    <2>2. loads' = (loads \ {d}) \cup {new}
        BY <1>2 DEF LoadReads
    <2> HIDE DEF new
    <2> QED
        BY <1>2, <1>r, <2>1, <2>2 DEF LoadReads
<1>3. ASSUME NEW d \in loads, NEW q \in Requests, LoadReadsWorkspace(d, q)
      PROVE  Scoped'
    <2> DEFINE new == [d EXCEPT !.unread = @ \ {q}]
    <2>1. new.gen = d.gen /\ new.target = d.target
        BY <1>0 DEF TypeOK, Load
    <2>2. loads' = (loads \ {d}) \cup {new}
        BY <1>3 DEF LoadReadsWorkspace
    <2> HIDE DEF new
    <2> QED
        BY <1>3, <1>r, <2>1, <2>2 DEF LoadReadsWorkspace
<1>4. ASSUME NEW d \in loads, LoadEnds(d)
      PROVE  Scoped'
    <2>1. CASE Current(d)
        <3>1. d.target \in {selected, NoLeague}
            BY <2>1 DEF Scoped, CurrentIsForSelected
        <3>2. ShownIsSelected' /\ NoForeignRows'
            BY <1>4, <2>1, <3>1 DEF LoadEnds, ShownIsSelected, NoForeignRows
        <3> QED
            BY <1>0, <1>4, <3>2
               DEF LoadEnds, Scoped, SelectionIsKnown, WaitingForSelected, CurrentIsForSelected, Current
    <2>2. CASE ~Current(d)
        BY <1>0, <1>4, <2>2
           DEF LoadEnds, Scoped, SelectionIsKnown, WaitingForSelected, CurrentIsForSelected, Current,
               ShownIsSelected, NoForeignRows
    <2> QED
        BY <2>1, <2>2
<1>5. ASSUME NEW d \in loads, LoadFails(d)
      PROVE  Scoped'
    BY <1>0, <1>5
       DEF LoadFails, Scoped, SelectionIsKnown, WaitingForSelected, CurrentIsForSelected, Current,
           ShownIsSelected, NoForeignRows
<1>6. ASSUME NEW l \in Leagues, ListArrives(l)
      PROVE  Scoped'
    <2>1. selected = NoLeague /\ selected' = l /\ rendered = NoLeague
        BY <1>6 DEF ListArrives, Scoped, SelectionIsKnown
    <2>2. StartLoad(l)
        BY <1>6 DEF ListArrives
    <2>3. CurrentIsForSelected' /\ status' = "loading"
        BY <1>0, <2>1, <2>2, StartScoped DEF Scoped
    <2>4. waiting = {}
        BY <1>t, <2>1
    <2> QED
        BY <1>0, <1>6, <2>1, <2>3, <2>4
           DEF ListArrives, Scoped, SelectionIsKnown, WaitingForSelected, ShownIsSelected,
               NoForeignRows
<1>7. CASE ListFails
    BY <1>0, <1>7
       DEF ListFails, Scoped, SelectionIsKnown, WaitingForSelected, CurrentIsForSelected, Current,
           ShownIsSelected, NoForeignRows
<1>8. CASE Renders
    BY <1>0, <1>8
       DEF Renders, Resubscribe, Scoped, SelectionIsKnown, WaitingForSelected, CurrentIsForSelected,
           Current, ShownIsSelected, NoForeignRows
<1>9. ASSUME NEW l \in Leagues, Select(l)
      PROVE  Scoped'
    <2>1. selected' = l /\ l # selected /\ StartLoad(l) /\ list = "known"
        BY <1>9 DEF Select
    <2>2. CurrentIsForSelected' /\ status' = "loading"
        BY <1>0, <2>1, StartScoped DEF Scoped
    <2>3. waiting = {}
        BY <1>t, <2>1
    <2> QED
        BY <1>0, <1>9, <2>1, <2>2, <2>3
           DEF Select, NoRows, Scoped, SelectionIsKnown, WaitingForSelected, ShownIsSelected,
               NoForeignRows
<1>10. CASE Refresh
    <2>1. StartLoad(rendered) /\ rendered \in {selected, NoLeague}
        BY <1>10 DEF Refresh, Scoped, SelectionIsKnown
    <2> QED
        BY <1>10, <1>s, <2>1 DEF Refresh
<1>11. CASE Ask
    <2>1. rendered = selected
        BY <1>11 DEF Ask, Scoped, SelectionIsKnown
    <2> QED
        BY <1>0, <1>11, <2>1
           DEF Ask, Scoped, SelectionIsKnown, WaitingForSelected, CurrentIsForSelected, Current,
               ShownIsSelected, NoForeignRows
<1>12. ASSUME NEW l \in Leagues, AskReturns(l)
       PROVE  Scoped'
    <2>1. l = selected
        BY <1>12 DEF AskReturns, Scoped, WaitingForSelected
    <2>2. CASE StartLoad(l)
        BY <1>12, <1>s, <2>1, <2>2 DEF AskReturns
    <2>3. CASE UNCHANGED <<generation, loads, status>>
        BY <1>12, <1>u, <2>3 DEF AskReturns
    <2> QED
        BY <1>12, <2>2, <2>3 DEF AskReturns
<1>13. ASSUME NEW e \in events, EventArrives(e)
       PROVE  Scoped'
    <2>1. StartLoad(rendered) /\ rendered \in {selected, NoLeague}
        BY <1>13 DEF EventArrives, Scoped, SelectionIsKnown
    <2> QED
        BY <1>13, <1>s, <2>1 DEF EventArrives
<1>14. CASE LinkStep
    BY <1>14, <1>u DEF LinkStep, LinkOpens, LinkSubscribes, SessionChecked, LinkMoves
<1>15. CASE LinkDrops
    BY <1>15, <1>u DEF LinkDrops
<1>16. CASE UNCHANGED vars
    BY <1>16, <1>u DEF vars
<1> QED
    BY <1>1, <1>2, <1>3, <1>4, <1>5, <1>6, <1>7, <1>8, <1>9, <1>10, <1>11, <1>12, <1>13,
       <1>14, <1>15, <1>16
       DEF SteadyNext, Next, LoadStep

LEMMA ScopedAlways == SteadySpec => []Scoped
BY ScopedInit, ScopedStep, PTL DEF SteadySpec

\* A ready page shows the selected league, whatever order answers and events come in.
THEOREM ReadyPagesShowSelected == SteadySpec => []ShownIsSelected
<1>1. Scoped => ShownIsSelected
    BY DEF Scoped
<1> QED
    BY ScopedAlways, <1>1, PTL

\* Rows of another league than the selected one are on the page at no moment.
THEOREM NoPageShowsForeignRows == SteadySpec => []NoForeignRows
<1>1. Scoped => NoForeignRows
    BY DEF Scoped
<1> QED
    BY ScopedAlways, <1>1, PTL
=============================================================================
