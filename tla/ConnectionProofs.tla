-------------------------- MODULE ConnectionProofs --------------------------
(* What ConnectionSync, Bootstrap, ConnectForm and Sweep promise, for any number of connections,
   calls, jobs, minutes, leagues and requests, and pages of any size. *)
EXTENDS ConnectionSync, Bootstrap, ConnectForm, Sweep, FiniteSetTheorems, TLAPS

-----------------------------------------------------------------------------
(* ConnectionSync. *)

\* A key names a connection; the keys the routes make are keys.
LEMMA KeyTypes ==
    /\ \A k \in Keys : KeyRow(k) \in Connections
    /\ \A p \in Calls : p[1] \in Connections
    /\ \A p \in Calls, m \in Instants : <<p[1], <<"save", HourOf(m)>>>> \in Keys
    /\ \A c \in Connections, r \in Routes, m \in Instants : <<c, <<r, m>>>> \in Keys
  BY DEF Keys, KeyRow, Calls, Hours

\* Enqueuing leaves a job that exists alone and starts nothing.
LEMMA EnqueueType ==
    ASSUME SyncTypeOK, NEW k \in Keys, EnqueueKey(k)
    PROVE  /\ job' \in [Keys -> JobRows]
           /\ \A i \in Keys : job'[i].status = "running" =>
                 job[i].status = "running" /\ job'[i].read = job[i].read
  BY DEF SyncTypeOK, EnqueueKey, JobRows

LEMMA SyncTypeInit == SyncInit => SyncTypeOK
  BY ConnectionSyncAssumption
  DEF SyncInit, SyncTypeOK, NoRow, NoJob, NoPut, Rows, JobRows, PutState

LEMMA SyncTypeStep == SyncTypeOK /\ [SyncNext]_syncVars => SyncTypeOK'
<1> SUFFICES ASSUME SyncTypeOK, [SyncNext]_syncVars PROVE SyncTypeOK'
  OBVIOUS
<1> USE KeyTypes
<1>1. CASE MinutePasses
  BY <1>1 DEF MinutePasses, SyncTypeOK
<1>2. ASSUME NEW p \in Calls, PutReads(p) PROVE SyncTypeOK'
  BY ZenonT(40), <1>2 DEF PutReads, SyncTypeOK, PutState, Rows
<1>3. ASSUME NEW p \in Calls, PutSaves(p) PROVE SyncTypeOK'
  <2>1. SavedStatus(p) \in {"absent", "pending", "connected", "error", "expired"}
    BY DEF SavedStatus, SyncTypeOK, Rows
  <2>2. row[p[1]].version + 1 \in Nat
    BY DEF SyncTypeOK, Rows
  <2>3. row' \in [Connections -> Rows]
    BY <1>3, <2>1, <2>2 DEF PutSaves, SyncTypeOK, Rows
  <2>4. put' \in [Calls -> PutState]
    BY ZenonT(40), <1>3, <2>2 DEF PutSaves, SyncTypeOK, PutState
  <2>5. overtaken' \subseteq Connections
    BY <1>3 DEF PutSaves, SyncTypeOK
  <2> QED  BY <1>3, <2>3, <2>4, <2>5 DEF PutSaves, SyncTypeOK
<1>4. ASSUME NEW p \in Calls, PutEnqueues(p) PROVE SyncTypeOK'
  <2> DEFINE k == <<p[1], <<"save", HourOf(clock)>>>>
  <2>1. k \in Keys /\ HourOf(clock) \in Hours
    BY DEF SyncTypeOK, Hours
  <2>2. job' \in [Keys -> JobRows]
    BY <1>4, <2>1, EnqueueType DEF PutEnqueues
  <2>3. job[k].status \in {"absent", "queued", "running", "succeeded", "dead-letter"}
    BY <2>1 DEF SyncTypeOK, JobRows
  <2> HIDE DEF k
  <2>4. put' = [put EXCEPT ![p] = [@ EXCEPT !.stage = "answered", !.found = job[k].status,
                                            !.hour = HourOf(clock)]]
    BY <1>4 DEF PutEnqueues, k
  <2>5. [put[p] EXCEPT !.stage = "answered", !.found = job[k].status, !.hour = HourOf(clock)]
          \in PutState
    BY <2>1, <2>3 DEF SyncTypeOK, PutState
  <2>6. put' \in [Calls -> PutState]
    BY <2>4, <2>5 DEF SyncTypeOK
  <2> QED  BY <1>4, <2>2, <2>6 DEF PutEnqueues, SyncTypeOK
<1>5. ASSUME NEW p \in Calls, PutEnds(p) PROVE SyncTypeOK'
  BY <1>5 DEF PutEnds, SyncTypeOK, PutState
<1>6. ASSUME NEW c \in Connections, NEW r \in Routes, RequestSync(c, r) PROVE SyncTypeOK'
  <2>1. <<c, <<r, clock>>>> \in Keys
    BY DEF SyncTypeOK
  <2> QED  BY <1>6, <2>1, EnqueueType DEF RequestSync, SyncTypeOK
<1>7. ASSUME NEW k \in Keys, SyncClaimed(k) PROVE SyncTypeOK'
  <2>1. ReadAtClaim(k) \in Nat
    BY DEF ReadAtClaim, SyncTypeOK, Rows
  <2> QED  BY <1>7, <2>1 DEF SyncClaimed, SyncTypeOK, JobRows
<1>8. ASSUME NEW k \in Keys, SyncCompletes(k) PROVE SyncTypeOK'
  BY SMTT(30), <1>8 DEF SyncCompletes, SyncTypeOK, JobRows, Rows
<1>9. ASSUME NEW k \in Keys, NEW retryable \in BOOLEAN, SyncFails(k, retryable)
      PROVE  SyncTypeOK'
  BY SMTT(30), <1>9 DEF SyncFails, SyncTypeOK, JobRows, Rows
<1>10. CASE UNCHANGED syncVars
  BY <1>10 DEF syncVars, SyncTypeOK
<1> QED
  BY <1>1, <1>2, <1>3, <1>4, <1>5, <1>6, <1>7, <1>8, <1>9, <1>10
  DEF SyncNext, PutStep, JobStep

\* Rows, jobs, PUT handlers and the history keep their types.
THEOREM SyncTypeCorrect == SyncSpec => []SyncTypeOK
<1>1. SyncInit => SyncTypeOK
  BY SyncTypeInit
<1>2. SyncTypeOK /\ [SyncNext]_syncVars => SyncTypeOK'
  BY SyncTypeStep
<1> QED  BY <1>1, <1>2, PTL DEF SyncSpec

\* What makes ConnectedIsProven inductive: unless a save has met a job at work, every job
\* at work on a connection has read its present settings.
JobsReadLatest ==
    \A k \in Keys :
        job[k].status = "running" /\ KeyRow(k) \notin overtaken
            => job[k].read = row[KeyRow(k)].version

SyncInv == SyncTypeOK /\ JobsReadLatest /\ ConnectedIsProven

LEMMA SyncInvInit == SyncInit => SyncInv
  BY SyncTypeInit, KeyTypes
  DEF SyncInit, SyncInv, JobsReadLatest, ConnectedIsProven, NoRow, NoJob

LEMMA SyncInvStep == SyncInv /\ [SyncNext]_syncVars => SyncInv'
<1> SUFFICES ASSUME SyncInv, [SyncNext]_syncVars PROVE (JobsReadLatest /\ ConnectedIsProven)'
  BY SyncTypeStep DEF SyncInv
<1>0. SyncTypeOK /\ JobsReadLatest /\ ConnectedIsProven /\ SyncTypeOK'
  BY SyncTypeStep DEF SyncInv
<1> USE KeyTypes
<1>1. CASE UNCHANGED <<row, job, proven, overtaken>>
  BY <1>0, <1>1 DEF JobsReadLatest, ConnectedIsProven
<1>2. ASSUME NEW p \in Calls, PutSaves(p) PROVE (JobsReadLatest /\ ConnectedIsProven)'
  <2> DEFINE c == p[1]
  <2>1. /\ c \in Connections
        /\ \A d \in Connections \ {c} : row'[d] = row[d] /\ (d \in overtaken' <=> d \in overtaken)
        /\ UNCHANGED <<job, proven>>
    BY <1>0, <1>2 DEF PutSaves, SyncTypeOK
  <2>2. row'[c].status = SavedStatus(p)
    BY <1>0, <1>2 DEF PutSaves, SyncTypeOK, Rows
  <2>3. c \notin overtaken' => Running(c) = {} /\ SavedStatus(p) = "pending"
    BY <1>0, <1>2 DEF PutSaves, SyncTypeOK, SavedStatus
  <2>4. JobsReadLatest'
    <3> SUFFICES ASSUME NEW k \in Keys, job'[k].status = "running", KeyRow(k) \notin overtaken'
                 PROVE  job'[k].read = row'[KeyRow(k)].version
      BY DEF JobsReadLatest
    <3>1. KeyRow(k) # c
      BY <2>1, <2>3 DEF Running
    <3> QED  BY <1>0, <2>1, <3>1 DEF JobsReadLatest
  <2>5. ConnectedIsProven'
    BY <1>0, <2>1, <2>2, <2>3 DEF ConnectedIsProven
  <2> QED  BY <2>4, <2>5
<1>3. ASSUME NEW k \in Keys, EnqueueKey(k), UNCHANGED <<row, proven, overtaken>>
      PROVE  (JobsReadLatest /\ ConnectedIsProven)'
  BY <1>0, <1>3, EnqueueType DEF JobsReadLatest, ConnectedIsProven
<1>4. ASSUME NEW k \in Keys, SyncClaimed(k) PROVE (JobsReadLatest /\ ConnectedIsProven)'
  BY <1>0, <1>4 DEF SyncClaimed, ReadAtClaim, JobsReadLatest, ConnectedIsProven, SyncTypeOK
<1>5. ASSUME NEW k \in Keys, SyncCompletes(k) PROVE (JobsReadLatest /\ ConnectedIsProven)'
  <2>1. /\ \A i \in Keys : job'[i].read = job[i].read
        /\ \A i \in Keys : job'[i].status = "running" => job[i].status = "running"
        /\ \A d \in Connections : row'[d].version = row[d].version
        /\ \A d \in Connections \ {KeyRow(k)} : row'[d].status = row[d].status
                                                /\ proven'[d] = proven[d]
        /\ proven'[KeyRow(k)] = job[k].read
        /\ job[k].status = "running"
        /\ UNCHANGED overtaken
    BY <1>0, <1>5 DEF SyncCompletes, SyncTypeOK, JobRows, Rows
  <2> QED  BY <1>0, <2>1 DEF JobsReadLatest, ConnectedIsProven
<1>6. ASSUME NEW k \in Keys, NEW retryable \in BOOLEAN, SyncFails(k, retryable)
      PROVE  (JobsReadLatest /\ ConnectedIsProven)'
  <2>1. /\ \A i \in Keys : job'[i].read = job[i].read
        /\ \A i \in Keys : job'[i].status = "running" => job[i].status = "running"
        /\ \A d \in Connections : row'[d].version = row[d].version
        /\ \A d \in Connections \ {KeyRow(k)} : row'[d].status = row[d].status
        /\ row'[KeyRow(k)].status # "connected"
        /\ UNCHANGED <<proven, overtaken>>
    BY <1>0, <1>6 DEF SyncFails, SyncTypeOK, JobRows, Rows
  <2> QED  BY <1>0, <2>1 DEF JobsReadLatest, ConnectedIsProven
<1>7. ASSUME NEW p \in Calls, PutEnqueues(p) PROVE (JobsReadLatest /\ ConnectedIsProven)'
  BY <1>0, <1>3, <1>7 DEF PutEnqueues, SyncTypeOK
<1>8. ASSUME NEW c \in Connections, NEW r \in Routes, RequestSync(c, r)
      PROVE  (JobsReadLatest /\ ConnectedIsProven)'
  BY <1>0, <1>3, <1>8 DEF RequestSync, SyncTypeOK
<1> QED
  BY <1>1, <1>2, <1>4, <1>5, <1>6, <1>7, <1>8
  DEF SyncNext, PutStep, JobStep, MinutePasses, PutReads, PutEnds, syncVars

\* A connection is shown as connected with settings no job has tried only after a save
\* that met a job at work.
THEOREM ConnectedWasTried == SyncSpec => []ConnectedIsProven
<1>1. SyncInit => SyncInv
  BY SyncInvInit
<1>2. SyncInv /\ [SyncNext]_syncVars => SyncInv'
  BY SyncInvStep
<1>3. SyncInv => ConnectedIsProven
  BY DEF SyncInv
<1> QED  BY <1>1, <1>2, <1>3, PTL DEF SyncSpec

-----------------------------------------------------------------------------
(* Bootstrap. *)

\* A call that is past a save has left its row behind, and a workspace without a membership
\* has a call about to save it, or one that was cut short.
BootInv ==
    /\ bootCall \in [BootCalls -> BootCall]
    /\ profile \in BOOLEAN /\ workspace \in BOOLEAN
    /\ workspace => profile
    /\ \A b \in BootCalls :
         /\ bootCall[b].stage \in {"workspace", "membership", "answered"} => profile
         /\ bootCall[b].stage \in {"membership", "answered"} => workspace
         /\ bootCall[b].stage # "new" /\ bootCall[b].sawWorkspace => workspace
    /\ workspace => \/ membership \/ cutShort
                    \/ \E b \in BootCalls : bootCall[b].stage = "membership"

LEMMA BootInvInit == BootInit => BootInv
<1> SUFFICES ASSUME BootInit PROVE BootInv
  OBVIOUS
<1>1. bootCall \in [BootCalls -> BootCall] /\ \A b \in BootCalls : bootCall[b].stage = "new"
  BY DEF BootInit, BootCall, BootStage
<1>2. profile \in BOOLEAN /\ workspace \in BOOLEAN /\ ~workspace
  BY Zenon DEF BootInit
<1> QED  BY <1>1, <1>2 DEF BootInv

LEMMA BootInvStep == BootInv /\ [BootNext]_bootVars => BootInv'
<1> SUFFICES ASSUME BootInv, [BootNext]_bootVars PROVE BootInv'
  OBVIOUS
<1> USE DEF BootInv
<1>1. ASSUME NEW b \in BootCalls, BootReads(b) PROVE BootInv'
  BY <1>1 DEF BootReads, BootCall, BootStage
<1>2. ASSUME NEW b \in BootCalls, BootProfile(b) PROVE BootInv'
  <2>1. CASE ~bootCall[b].sawProfile /\ profile
    <3>1. bootCall' = [bootCall EXCEPT ![b].stage = "failed"]
      BY <1>2, <2>1 DEF BootProfile, GoTo
    <3> QED  BY <1>2, <2>1, <3>1 DEF BootProfile, BootCall, BootStage
  <2>2. CASE bootCall[b].sawProfile \/ ~profile
    <3>1. bootCall' = [bootCall EXCEPT ![b].stage = "workspace"]
      BY <1>2, <2>2 DEF BootProfile, GoTo
    <3> QED  BY <1>2, <2>2, <3>1 DEF BootProfile, BootCall, BootStage
  <2> QED  BY <2>1, <2>2
<1>3. ASSUME NEW b \in BootCalls, BootWorkspace(b) PROVE BootInv'
  <2>1. CASE bootCall[b].sawWorkspace
    <3>1. bootCall' = [bootCall EXCEPT ![b].stage = "answered"]
      BY <1>3, <2>1 DEF BootWorkspace, GoTo
    <3> QED  BY <1>3, <2>1, <3>1 DEF BootWorkspace, BootCall, BootStage
  <2>2. CASE ~bootCall[b].sawWorkspace /\ workspace
    <3>1. bootCall' = [bootCall EXCEPT ![b].stage = "failed"]
      BY <1>3, <2>2 DEF BootWorkspace, GoTo
    <3> QED  BY <1>3, <2>2, <3>1 DEF BootWorkspace, BootCall, BootStage
  <2>3. CASE ~bootCall[b].sawWorkspace /\ ~workspace
    <3>1. bootCall' = [bootCall EXCEPT ![b].stage = "membership"]
      BY <1>3, <2>3 DEF BootWorkspace, GoTo
    <3> QED  BY <1>3, <2>3, <3>1 DEF BootWorkspace, BootCall, BootStage
  <2> QED  BY <2>1, <2>2, <2>3
<1>4. ASSUME NEW b \in BootCalls, BootMembership(b) PROVE BootInv'
  BY <1>4 DEF BootMembership, GoTo, BootCall, BootStage
<1>5. CASE BootCrash
  BY <1>5 DEF BootCrash, BootCall, BootStage
<1>6. CASE UNCHANGED bootVars
  BY <1>6 DEF bootVars
<1> QED  BY <1>1, <1>2, <1>3, <1>4, <1>5, <1>6 DEF BootNext

\* Once a call was answered, profile and workspace exist, and the membership too unless a
\* call is about to save it or was cut short.
THEOREM AnswersAreComplete == BootSpec => []AnsweredIsComplete
<1>1. BootInit => BootInv
  BY BootInvInit
<1>2. BootInv /\ [BootNext]_bootVars => BootInv'
  BY BootInvStep
<1>3. BootInv => AnsweredIsComplete
  BY DEF BootInv, AnsweredIsComplete
<1> QED  BY <1>1, <1>2, <1>3, PTL DEF BootSpec

-----------------------------------------------------------------------------
(* ConnectForm. *)

Pairs  == Credentials \cup {NoCredentials}
Fields == [link : Links, typed : Pairs, public : BOOLEAN, step : {"details", "choose-team"},
           offered : Known \cup {NowhereYet}, held : Pairs, crossed : BOOLEAN]
Sought == [at : {"discovering"}, link : Links, public : BOOLEAN, credentials : Pairs]
Saving == [at : {"saving", "saved"}, league : Known \cup {NowhereYet},
           team : UNION {TeamsOf[l] : l \in Known}, public : BOOLEAN, credentials : Pairs,
           direct : BOOLEAN, crossed : BOOLEAN]

FormTypeOK ==
    /\ form \in Fields
    /\ request \in {NoRequest} \cup Sought \cup Saving
    /\ DOMAIN saved = Known
    /\ \A l \in Known : saved[l].credentials \in Pairs
    /\ asked \in Nat

\* ESPN has answered for these credentials, or there are none and it has for some.
Backed(l, c) ==
    /\ \E d \in Pairs : <<l, d>> \in found
    /\ c # NoCredentials => <<l, c>> \in found

\* The teams to choose from are those of the league in the link.
ListFits ==
    form.step = "choose-team" /\ ~form.crossed =>
        form.offered \in Known /\ form.link.league = form.offered /\ Backed(form.offered, form.held)

\* A discovery asks for the league in the link, unless that was edited since.
SoughtFits ==
    request.at = "discovering" =>
        /\ form.step = "details" /\ request.link.league \in Known
        /\ ~form.crossed => form.link = request.link

\* What is being saved was found together.
SavingFits ==
    request.at \in {"saving", "saved"} =>
        /\ ~request.direct => form.step = "choose-team"
        /\ ~request.crossed => /\ request.league \in Known
                               /\ request.team \in TeamsOf[request.league]
                               /\ Backed(request.league, request.credentials)

SavedFits ==
    \A l \in Known :
        /\ saved[l].team = NoTeam => saved[l].credentials = NoCredentials
        /\ l \notin astray /\ saved[l].team # NoTeam =>
              saved[l].team \in TeamsOf[l] /\ Backed(l, saved[l].credentials)

FormInv == FormTypeOK /\ ListFits /\ SoughtFits /\ SavingFits /\ SavedFits

LEMMA FormInvInit == FormInit => FormInv
BY ConnectFormAssumption
DEF FormInit, FormInv, FormTypeOK, Fields, Links, Pairs, NoRequest, ListFits, SoughtFits,
    SavingFits, SavedFits

LEMMA AtWorkIsBusy == request.at \in {"discovering", "saving", "saved"} => Busy
BY DEF Busy, NoRequest

\* The fields are edited, nothing else.
LEMMA EditStep ==
    ASSUME FormInv, UNCHANGED <<request, saved, found, astray, asked>>,
           form' \in Fields, form'.step = "details",
           form.step = "details" \/ ~Busy,
           form'.link # form.link \/ form'.crossed # form.crossed => form'.crossed \/ ~Busy
    PROVE  FormInv'
<1>1. request.at = "discovering" => (~form'.crossed => form'.link = request.link)
  BY AtWorkIsBusy, Zenon DEF FormInv, SoughtFits
<1>2. SoughtFits'
  BY <1>1 DEF FormInv, SoughtFits
<1>3. ~(request.at \in {"saving", "saved"} /\ ~request.direct)
  BY AtWorkIsBusy DEF FormInv, SavingFits
<1>4. SavingFits' /\ ListFits' /\ SavedFits'
  BY <1>3 DEF FormInv, SavingFits, ListFits, SavedFits, Backed
<1> QED
  BY <1>2, <1>4 DEF FormInv, FormTypeOK

LEMMA FormInvStep == FormInv /\ [FormNext]_formVars => FormInv'
<1> SUFFICES ASSUME FormInv, [FormNext]_formVars  PROVE FormInv'
  OBVIOUS
<1>0. form \in Fields
  BY DEF FormInv, FormTypeOK
<1>1. ASSUME NEW link \in Links, EditLink(link)  PROVE FormInv'
  <2>1. form' \in Fields
    BY <1>0, <1>1 DEF EditLink, Fields, Busy
  <2>2. form'.step = form.step /\ (form'.crossed <=> form.crossed \/ Busy)
    BY <1>0, <1>1 DEF EditLink, Fields
  <2> QED  BY <1>1, <2>1, <2>2, EditStep DEF EditLink
<1>2. ASSUME NEW c \in Credentials, TypeCredentials(c)  PROVE FormInv'
  <2>1. form' \in Fields /\ form'.step = form.step /\ form'.link = form.link
        /\ form'.crossed = form.crossed
    BY <1>0, <1>2 DEF TypeCredentials, Fields, Pairs
  <2> QED  BY <1>2, <2>1, EditStep DEF TypeCredentials
<1>3. CASE TogglePublic
  <2>1. form' \in Fields /\ form'.step = form.step /\ form'.link = form.link
        /\ form'.crossed = form.crossed
    BY <1>0, <1>3 DEF TogglePublic, Fields, Pairs
  <2> QED  BY <1>3, <2>1, EditStep DEF TogglePublic
<1>4. CASE Back
  <2>1. form' \in Fields /\ form'.step = "details" /\ form'.link = form.link
        /\ form'.crossed = form.crossed
    BY <1>0, <1>4 DEF Back, Fields, Pairs
  <2> QED  BY <1>4, <2>1, EditStep DEF Back
<1>5. CASE Discover
  <2>1. /\ form.step = "details" /\ form.link.league \in Known
        /\ request' = [at |-> "discovering", link |-> form.link, public |-> form.public,
                       credentials |-> form.typed]
        /\ form' = [form EXCEPT !.crossed = FALSE]
        /\ asked' = asked + 1 /\ UNCHANGED <<saved, found, astray>>
    BY <1>5 DEF Discover
  <2>2. form' \in Fields /\ form'.step = "details" /\ form'.link = form.link
    BY <1>0, <2>1 DEF Fields
  <2>3. request' \in Sought
    BY <1>0, <2>1 DEF Fields, Sought
  <2>4. FormTypeOK'
    BY <2>1, <2>2, <2>3 DEF FormInv, FormTypeOK
  <2>5. ListFits' /\ SoughtFits' /\ SavingFits' /\ SavedFits'
    BY <2>1, <2>2 DEF FormInv, ListFits, SoughtFits, SavingFits, SavedFits, Backed
  <2> QED  BY <2>4, <2>5 DEF FormInv
<1>6. CASE Discovered
  <2> DEFINE link == request.link
             c    == request.credentials
             team == Preselected(link, c)
  <2>1. /\ request.at = "discovering" /\ found' = found \cup {<<link.league, c>>}
        /\ UNCHANGED <<saved, astray, asked>>
    BY <1>6 DEF Discovered
  <2>2. request \in Sought
    BY <2>1 DEF FormInv, FormTypeOK, NoRequest, Saving
  <2>3. link.league \in Known /\ c \in Pairs /\ form.step = "details"
        /\ (~form.crossed => form.link = link)
    BY <2>1, <2>2 DEF FormInv, SoughtFits, Sought
  <2>4. \A l, d : Backed(l, d) => Backed(l, d)'
    BY <2>1 DEF Backed
  <2>5. /\ \E d \in Pairs : <<link.league, d>> \in found'
        /\ <<link.league, c>> \in found'
    BY <2>1, <2>3
  <2>6. SavedFits'
    BY <2>1, <2>4 DEF FormInv, SavedFits
  <2>7. CASE team # NoTeam
    <3>1. /\ form' = [form EXCEPT !.held = c]
          /\ request' = SaveRequest(link.league, team, request.public, c, TRUE, FALSE)
      BY <1>6, <2>7 DEF Discovered, Kept
    <3>2. team \in TeamsOf[link.league]
      BY <2>7 DEF Preselected, MatchedTeam
    <3>3. form' \in Fields /\ form'.step = "details"
      BY <1>0, <2>3, <3>1 DEF Fields
    <3>4. request' \in Saving
      BY <2>2, <2>3, <3>1, <3>2 DEF SaveRequest, Saving, Sought
    <3>5. FormTypeOK'
      BY <2>1, <3>3, <3>4 DEF FormInv, FormTypeOK
    <3>6. request'.at = "saving" /\ request'.league = link.league /\ request'.team = team
          /\ request'.credentials = c /\ request'.direct
      BY <3>1 DEF SaveRequest
    <3>7. ListFits' /\ SoughtFits'
      BY <3>3, <3>6 DEF ListFits, SoughtFits
    <3>8. SavingFits'
      <4> HIDE DEF link, c, team
      <4> QED  BY <2>3, <2>5, <3>2, <3>6 DEF SavingFits, Backed
    <3> QED  BY <2>6, <3>5, <3>7, <3>8 DEF FormInv
  <2>8. CASE team = NoTeam
    <3>1. /\ form' = [form EXCEPT !.held = c, !.offered = link.league,
                                  !.step = "choose-team", !.typed = NoCredentials]
          /\ request' = NoRequest
      BY <1>6, <2>8 DEF Discovered, Kept
    <3>2. form' \in Fields /\ form'.held = c /\ form'.offered = link.league
          /\ form'.link = form.link /\ form'.crossed = form.crossed
      BY <1>0, <2>3, <3>1 DEF Fields, Pairs
    <3>3. FormTypeOK'
      BY <2>1, <3>1, <3>2 DEF FormInv, FormTypeOK
    <3>4. ListFits'
      <4> HIDE DEF link, c
      <4> QED  BY <2>3, <2>5, <3>2 DEF ListFits, Backed
    <3>5. SoughtFits' /\ SavingFits'
      BY <3>1 DEF SoughtFits, SavingFits, NoRequest
    <3> QED  BY <2>6, <3>3, <3>4, <3>5 DEF FormInv
  <2> QED  BY <2>7, <2>8
<1>7. CASE DiscoveryFails \/ Connected
  <2>1. request' = NoRequest /\ form' = Cleared(form) /\ UNCHANGED <<saved, found, astray, asked>>
    BY <1>7 DEF DiscoveryFails, Connected
  <2>2. form' \in Fields /\ form'.step = form.step /\ form'.link = form.link
        /\ form'.crossed = form.crossed /\ form'.offered = form.offered
        /\ form'.held = NoCredentials
    BY <1>0, <2>1 DEF Cleared, Fields, Pairs
  <2>3. FormTypeOK'
    BY <2>1, <2>2 DEF FormInv, FormTypeOK
  <2>4. ListFits' /\ SoughtFits' /\ SavingFits' /\ SavedFits'
    BY <2>1, <2>2
    DEF FormInv, ListFits, SoughtFits, SavingFits, SavedFits, Backed, NoRequest
  <2> QED  BY <2>3, <2>4 DEF FormInv
<1>8. ASSUME NEW l \in Known, NEW team \in TeamsOf[l], PickTeam(team)  PROVE FormInv'
  <2>1. /\ form.step = "choose-team" /\ team \in TeamsOf[form.offered] /\ form.offered \in Known
        /\ request' = SaveRequest(form.link.league, team, form.public, form.held, FALSE,
                                  form.crossed)
        /\ asked' = asked + 1 /\ UNCHANGED <<form, saved, found, astray>>
    BY <1>8 DEF PickTeam
  <2>2. form.link.league \in Known \cup {NowhereYet}
    BY <1>0 DEF Fields, Links
  <2>3. request' \in Saving
    BY <1>0, <2>1, <2>2 DEF SaveRequest, Saving, Fields
  <2>4. FormTypeOK'
    <3>1. asked' \in Nat /\ UNCHANGED <<form, saved>>
      BY <2>1 DEF FormInv, FormTypeOK
    <3> QED  BY <2>3, <3>1 DEF FormInv, FormTypeOK
  <2>5. SavingFits'
    BY <2>1 DEF SavingFits, SaveRequest, FormInv, ListFits, Backed
  <2>6. ListFits' /\ SoughtFits' /\ SavedFits'
    BY <2>1 DEF FormInv, ListFits, SoughtFits, SavedFits, Backed, SaveRequest
  <2> QED  BY <2>4, <2>5, <2>6 DEF FormInv
<1>9. CASE ServerSaves
  <2> DEFINE league == request.league
             kept   == IF request.credentials = NoCredentials THEN saved[league].credentials
                       ELSE request.credentials
             new    == [team |-> request.team,
                        credentials |-> IF request.public THEN NoCredentials ELSE kept]
  <2>1. /\ request.at = "saving" /\ league \in Known
        /\ saved' = [saved EXCEPT ![league] = new]
        /\ astray' = IF request.crossed THEN astray \cup {league}
                     ELSE IF request.public \/ request.credentials # NoCredentials
                          THEN astray \ {league} ELSE astray
        /\ request' = [request EXCEPT !.at = "saved"]
        /\ UNCHANGED <<form, found, asked>>
    BY <1>9 DEF ServerSaves
  <2>2. request \in Saving
    BY <2>1 DEF FormInv, FormTypeOK, NoRequest, Sought
  <2>3. request' \in Saving /\ request'.at = "saved" /\ request'.league = league
        /\ request'.team = request.team /\ request'.credentials = request.credentials
        /\ request'.direct = request.direct /\ request'.crossed = request.crossed
    BY <2>1, <2>2 DEF Saving
  <2>4. kept \in Pairs /\ new.credentials \in Pairs
    BY <2>1, <2>2 DEF FormInv, FormTypeOK, Saving, Pairs
  <2>5. DOMAIN saved' = Known /\ saved'[league] = new
        /\ \A l \in Known \ {league} : saved'[l] = saved[l]
    BY <2>1 DEF FormInv, FormTypeOK
  <2>6. FormTypeOK'
    BY <2>1, <2>3, <2>4, <2>5 DEF FormInv, FormTypeOK
  <2>7. ListFits' /\ SoughtFits' /\ SavingFits'
    <3>1. /\ request.at = "saving" /\ request'.at = "saved" /\ UNCHANGED <<form, found>>
          /\ request'.league = request.league /\ request'.team = request.team
          /\ request'.credentials = request.credentials
          /\ request'.direct = request.direct /\ request'.crossed = request.crossed
      BY <2>1, <2>3
    <3>2. ListFits' /\ SoughtFits'
      BY <3>1 DEF FormInv, ListFits, SoughtFits, Backed
    <3> HIDE DEF league, new
    <3>3. SavingFits'
      BY <3>1 DEF FormInv, SavingFits, Backed
    <3> QED  BY <3>2, <3>3
  <2>8. new.team # NoTeam
    BY <2>2, ConnectFormAssumption DEF Saving
  <2>9. league \notin astray' => new.team \in TeamsOf[league] /\ Backed(league, new.credentials)
    <3>1. SUFFICES ASSUME league \notin astray'
                   PROVE  new.team \in TeamsOf[league] /\ Backed(league, new.credentials)
      OBVIOUS
    <3>2. ~request.crossed
      BY <2>1, <3>1
    <3>3. new.team \in TeamsOf[league] /\ Backed(league, request.credentials)
      BY <2>1, <3>2 DEF FormInv, SavingFits
    <3>4. CASE request.public \/ request.credentials # NoCredentials
      BY <3>3, <3>4 DEF Backed
    <3>5. CASE ~request.public /\ request.credentials = NoCredentials
      <4>1. league \notin astray
        BY <2>1, <3>1, <3>2, <3>5
      <4>2. saved[league].credentials # NoCredentials => Backed(league, saved[league].credentials)
        BY <2>1, <4>1 DEF FormInv, SavedFits
      <4> QED  BY <3>3, <3>5, <4>2 DEF Backed
    <3> QED  BY <3>4, <3>5
  <2>10. \A l \in Known \ {league} : l \in astray' <=> l \in astray
    BY <2>1
  <2>11. \A l, d : Backed(l, d)' <=> Backed(l, d)
    BY <2>1 DEF Backed
  <2>12. SavedFits'
    <3> HIDE DEF new, league
    <3> QED  BY <2>5, <2>8, <2>9, <2>10, <2>11 DEF FormInv, SavedFits
  <2> QED  BY <2>6, <2>7, <2>12 DEF FormInv
<1>10. CASE SaveFails
  <2>1. /\ request.at \in {"saving", "saved"} /\ request' = NoRequest
        /\ form' = [Cleared(form) EXCEPT !.step = "choose-team", !.crossed = @ \/ request.direct]
        /\ UNCHANGED <<saved, found, astray, asked>>
    BY <1>10 DEF SaveFails
  <2>2. form' \in Fields /\ form'.link = form.link /\ form'.offered = form.offered
        /\ form'.held = NoCredentials
    BY <1>0, <2>1 DEF Cleared, Fields, Pairs
  <2>3. form'.crossed <=> form.crossed \/ request.direct
    BY <1>0, <2>1 DEF Cleared, Fields
  <2>4. FormTypeOK'
    BY <2>1, <2>2 DEF FormInv, FormTypeOK
  <2>5. ListFits'
    BY SMTT(30), <2>1, <2>2, <2>3 DEF FormInv, ListFits, SavingFits, Backed
  <2>6. SoughtFits' /\ SavingFits' /\ SavedFits'
    BY <2>1 DEF FormInv, SoughtFits, SavingFits, SavedFits, Backed, NoRequest
  <2> QED  BY <2>4, <2>5, <2>6 DEF FormInv
<1>11. CASE UNCHANGED formVars
  BY <1>11 DEF formVars, FormInv, FormTypeOK, ListFits, SoughtFits, SavingFits, SavedFits, Backed
<1> QED
  BY <1>1, <1>2, <1>3, <1>4, <1>5, <1>6, <1>7, <1>8, <1>9, <1>10, <1>11 DEF FormNext

\* Whatever is edited, refused or lost: a league is saved with a team and credentials that were
\* found together, unless its link was edited during a discovery or a failed save brought back
\* an older list.
THEOREM SavedIsFound == FormSpec => []SavedWasFound
<1>1. FormInv => SavedWasFound
  BY DEF FormInv, SavedFits, Backed, Pairs, SavedWasFound
<1> QED  BY <1>1, FormInvInit, FormInvStep, PTL DEF FormSpec

-----------------------------------------------------------------------------
(* Sweep.  Before numbers the linked connections from 0 on, without a gap: an offset stands for
   the connections it has passed. *)

\* The number of a connection does not exceed those of the connections after it, whatever set
\* they are counted in.
LEMMA CountsOfSubsets ==
  ASSUME NEW S, IsFiniteSet(S), S \subseteq Nat, NEW c \in Nat
  PROVE  /\ IsFiniteSet({d \in S : d < c})
         /\ Cardinality({d \in S : d < c}) \in Nat
         /\ \A T \in SUBSET S :
               Cardinality({d \in T : d < c}) <= Cardinality({d \in S : d < c})
         /\ \A b \in S : b < c =>
               Cardinality({d \in S : d < b}) < Cardinality({d \in S : d < c})
<1>1. IsFiniteSet({d \in S : d < c})
  BY FS_Subset
<1>2. Cardinality({d \in S : d < c}) \in Nat
  BY <1>1, FS_CardinalityType
<1>3. ASSUME NEW T \in SUBSET S
      PROVE  Cardinality({d \in T : d < c}) <= Cardinality({d \in S : d < c})
  <2>1. {d \in T : d < c} \in SUBSET {d \in S : d < c}
    OBVIOUS
  <2> QED  BY <1>1, <2>1, FS_Subset
<1>4. ASSUME NEW b \in S, b < c
      PROVE  Cardinality({d \in S : d < b}) < Cardinality({d \in S : d < c})
  <2> DEFINE before == {d \in S : d < b}
             upto == {d \in S : d < c}
  <2>1. before \in SUBSET upto /\ b \in upto /\ b \notin before
    <3>1. \A d \in S : d < b => d < c
      BY <1>4
    <3>2. ~(b < b)
      BY <1>4
    <3> QED  BY <1>4, <3>1, <3>2
  <2>2. Cardinality(before) <= Cardinality(upto) /\ (Cardinality(upto) = Cardinality(before) => upto = before)
    <3>1. IsFiniteSet(upto)
      BY <1>1
    <3> HIDE DEF before, upto
    <3> QED  BY <2>1, <3>1, FS_Subset
  <2>3. IsFiniteSet(before) /\ Cardinality(before) \in Nat
    <3>1. IsFiniteSet(before)
      BY FS_Subset
    <3> HIDE DEF before
    <3> QED  BY <3>1, FS_CardinalityType
  <2>4. Cardinality(upto) # Cardinality(before)
    BY <2>1, <2>2
  <2> QED  BY <1>2, <2>2, <2>3, <2>4
<1> QED  BY <1>1, <1>2, <1>3, <1>4

\* No two of them have the same number, and below the number of each all numbers are taken.
LEMMA NumbersAreTaken ==
  ASSUME IsFiniteSet(linked), linked \subseteq Nat
  PROVE  /\ \A c \in linked : Before(c) \in Nat
         /\ \A c, d \in linked : Before(c) = Before(d) => c = d
         /\ \A c \in linked : \A k \in Nat : k < Before(c) => \E d \in linked : Before(d) = k
<1>1. \A c \in linked : Before(c) \in Nat
  BY CountsOfSubsets DEF Before
<1>2. \A c, d \in linked : d < c => Before(d) < Before(c)
  BY CountsOfSubsets DEF Before
<1>3. \A c, d \in linked : Before(c) = Before(d) => c = d
  BY <1>1, <1>2
<1>4. ASSUME NEW c \in linked, NEW k \in Nat, k < Before(c)
      PROVE  \E d \in linked : Before(d) = k
  <2> DEFINE below == {d \in linked : d < c}
             number == [d \in below |-> Before(d)]
             numbers == 0..(Before(c) - 1)
  <2>1. IsFiniteSet(below) /\ Cardinality(below) = Before(c)
    BY FS_Subset DEF Before
  <2>2. Before(c) \in Nat
    BY <1>1
  <2>3. IsFiniteSet(numbers) /\ Cardinality(numbers) = Before(c)
    <3> DEFINE last == Before(c) - 1
    <3>1. last \in Int /\ ~(0 > last) /\ last - 0 + 1 = Before(c)
      BY <1>4, <2>2
    <3> HIDE DEF last
    <3>2. IsFiniteSet(0..last) /\ Cardinality(0..last) = last - 0 + 1
      BY <3>1, FS_Interval
    <3> QED  BY <3>1, <3>2 DEF last
  <2>4. number \in [below -> numbers]
    <3>1. \A d \in below : Before(d) \in numbers
      BY <1>1, <1>2, <2>2
    <3> HIDE DEF below, numbers
    <3> QED  BY <3>1
  <2>5. \A d, e \in below : number[d] = number[e] => d = e
    <3>1. \A d, e \in below : Before(d) = Before(e) => d = e
      BY <1>3
    <3> HIDE DEF below
    <3> QED  BY <3>1
  <2>6. number \in Injection(below, numbers)
    <3> HIDE DEF number, below, numbers
    <3> QED  BY <2>4, <2>5 DEF Injection, IsInjective
  <2>7. number \in Surjection(below, numbers)
    <3> HIDE DEF number, below, numbers
    <3> QED  BY <2>1, <2>3, <2>6, FS_Injection
  <2>8. k \in numbers
    BY <1>4, <2>2
  <2>9. PICK d \in below : number[d] = k
    <3> HIDE DEF number, below, numbers
    <3> QED  BY <2>7, <2>8 DEF Surjection
  <2> QED  BY <2>9
<1> QED  BY <1>1, <1>3, <1>4

\* A page holds no more than its size; and one that is not full is the last: it leaves nobody
\* behind whose number is not below the next offset.
LEMMA PageCounts ==
  ASSUME IsFiniteSet(linked), linked \subseteq Nat, offset \in Nat, PageSize \in Nat
  PROVE  /\ IsFiniteSet(Page) /\ Cardinality(Page) \in Nat /\ Cardinality(Page) <= PageSize
         /\ Cardinality(Page) < PageSize =>
               \A c \in linked : Before(c) < offset + Cardinality(Page)
<1>1. IsFiniteSet(Page) /\ Cardinality(Page) \in Nat
  <2>1. IsFiniteSet(Page)
    BY FS_Subset DEF Page
  <2> QED  BY <2>1, FS_CardinalityType
<1> DEFINE number == [c \in Page |-> Before(c)]
           numbers == offset..(offset + PageSize - 1)
<1>2. IsFiniteSet(numbers) /\ Cardinality(numbers) = PageSize
  BY FS_Interval
<1>3. number \in Injection(Page, numbers)
  <2>1. \A c \in Page : Before(c) \in numbers
    BY NumbersAreTaken DEF Page
  <2>2. \A c, d \in Page : Before(c) = Before(d) => c = d
    BY NumbersAreTaken DEF Page
  <2> HIDE DEF numbers
  <2> QED  BY <2>1, <2>2 DEF Injection, IsInjective
<1>4. Cardinality(Page) <= PageSize
  <2> HIDE DEF number, numbers
  <2> QED  BY <1>2, <1>3, FS_Injection
<1>5. ASSUME Cardinality(Page) < PageSize, NEW c \in linked, ~(Before(c) < offset + Cardinality(Page))
      PROVE  FALSE
  <2> DEFINE passed == offset..(offset + Cardinality(Page))
             turned == {d \in Page : Before(d) \in passed}
             shown == [d \in turned |-> Before(d)]
  <2>1. Before(c) \in Nat
    BY NumbersAreTaken
  <2>2. ASSUME NEW k \in passed PROVE \E d \in turned : Before(d) = k
    <3>1. k \in Nat /\ k >= offset /\ k < offset + PageSize /\ k <= Before(c)
      BY <1>1, <1>5, <2>1
    <3>2. \E d \in linked : Before(d) = k
      BY <2>1, <3>1, NumbersAreTaken
    <3> QED  BY <3>1, <3>2 DEF Page
  <2>3. shown \in Surjection(turned, passed)
    <3>1. \A d \in turned : Before(d) \in passed
      OBVIOUS
    <3> HIDE DEF turned, passed
    <3> QED  BY <2>2, <3>1 DEF Surjection
  <2>4. IsFiniteSet(turned) /\ Cardinality(turned) <= Cardinality(Page)
    BY <1>1, FS_Subset
  <2>5. Cardinality(passed) = Cardinality(Page) + 1
    BY <1>1, FS_Interval
  <2>6. Cardinality(passed) <= Cardinality(turned)
    <3> HIDE DEF shown, turned, passed
    <3> QED  BY <2>3, <2>4, FS_Surjection
  <2>7. Cardinality(turned) \in Nat
    <3> HIDE DEF turned
    <3> QED  BY <2>4, FS_CardinalityType
  <2> QED
    <3> HIDE DEF turned, passed
    <3> QED  BY <1>1, <2>4, <2>5, <2>6, <2>7
<1> QED  BY <1>1, <1>4, <1>5

-----------------------------------------------------------------------------
SweepTypeOK ==
    /\ linked \subseteq Swept /\ stayed \subseteq linked
    /\ left \subseteq Swept /\ queued \subseteq Swept
    /\ offset \in Nat /\ finished \in BOOLEAN

\* Nobody before c has left the filter.
Unmoved(c) == \A d \in left : ~(d < c)

\* The offset passes over nobody whom nobody before him has moved; and in the end over everybody.
PassedIsQueued == \A c \in stayed : Unmoved(c) => c \in queued \/ Before(c) >= offset

FinishedHasPassed == finished => \A c \in linked : Before(c) < offset

SweepInv == SweepTypeOK /\ PassedIsQueued /\ FinishedHasPassed

LEMMA SweptRows ==
  ASSUME SweepTypeOK
  PROVE  /\ Swept \subseteq Nat /\ IsFiniteSet(Swept) /\ PageSize \in Nat
         /\ IsFiniteSet(linked) /\ linked \subseteq Nat
         /\ \A c \in linked : Before(c) \in Nat
<1>1. Swept \subseteq Nat /\ IsFiniteSet(Swept) /\ PageSize \in Nat
  BY SweepAssumption
<1>2. IsFiniteSet(linked) /\ linked \subseteq Nat
  BY <1>1, FS_Subset DEF SweepTypeOK
<1> QED  BY <1>1, <1>2, NumbersAreTaken

LEMMA SweepInvInit == SweepInit => SweepInv
<1> SUFFICES ASSUME SweepInit PROVE SweepInv
  OBVIOUS
<1>1. SweepTypeOK
  BY DEF SweepInit, SweepTypeOK
<1>2. PassedIsQueued
  BY <1>1, SweptRows DEF SweepInit, PassedIsQueued, SweepTypeOK
<1> QED  BY <1>1, <1>2 DEF SweepInit, SweepInv, FinishedHasPassed

LEMMA SweepInvStep == SweepInv /\ [SweepNext]_sweepVars => SweepInv'
<1> SUFFICES ASSUME SweepInv, [SweepNext]_sweepVars PROVE SweepInv'
  OBVIOUS
<1>1. SweepTypeOK /\ PassedIsQueued /\ FinishedHasPassed
  BY DEF SweepInv
<1>2. CASE SweepPage
  <2>1. /\ queued' = queued \cup Page /\ offset' = offset + Cardinality(Page)
        /\ finished' = (Cardinality(Page) < PageSize)
        /\ UNCHANGED <<linked, left, stayed>>
    BY <1>2 DEF SweepPage
  <2>2. /\ Cardinality(Page) \in Nat /\ Cardinality(Page) <= PageSize /\ offset \in Nat
        /\ Cardinality(Page) < PageSize => \A c \in linked : Before(c) < offset + Cardinality(Page)
    BY <1>1, SweptRows, PageCounts DEF SweepTypeOK
  <2>3. SweepTypeOK'
    BY <1>1, <2>1, <2>2 DEF SweepTypeOK, Page
  <2>4. \A c : Before(c)' = Before(c)
    BY <2>1 DEF Before
  <2>5. PassedIsQueued'
    <3> SUFFICES ASSUME NEW c \in stayed, Unmoved(c), c \notin queued \cup Page
                 PROVE  Before(c) >= offset + Cardinality(Page)
      BY <2>1, <2>4 DEF PassedIsQueued, Unmoved
    <3>1. c \in linked /\ Before(c) \in Nat /\ Before(c) >= offset
      BY <1>1, SweptRows DEF SweepTypeOK, PassedIsQueued
    <3>2. Before(c) >= offset + PageSize
      BY <1>1, <2>2, <3>1, SweptRows DEF Page
    <3> QED  BY <1>1, <2>2, <3>1, <3>2, SweptRows
  <2>6. FinishedHasPassed'
    BY <2>1, <2>2, <2>4 DEF FinishedHasPassed
  <2> QED  BY <2>3, <2>5, <2>6 DEF SweepInv
<1>3. ASSUME NEW c \in Swept, Relink(c) PROVE SweepInv'
  <2>1. /\ linked' = IF c \in linked THEN linked \ {c} ELSE linked \cup {c}
        /\ left' = left \cup ({c} \cap linked)
        /\ stayed' = stayed \ {c}
        /\ ~finished /\ UNCHANGED <<offset, finished, queued>>
    BY <1>3 DEF Relink
  <2>2. SweepTypeOK'
    BY <1>1, <2>1 DEF SweepTypeOK
  <2>3. PassedIsQueued'
    <3> SUFFICES ASSUME NEW e \in stayed', Unmoved(e)', e \notin queued
                 PROVE  Before(e)' >= offset
      BY <2>1 DEF PassedIsQueued
    <3>1. e \in stayed /\ e # c /\ e \in linked /\ Unmoved(e) /\ e \in Nat
      BY <1>1, <2>1, SweptRows DEF Unmoved, SweepTypeOK
    <3>2. Before(e) >= offset /\ Before(e) \in Nat /\ offset \in Nat
      BY <1>1, <3>1, SweptRows DEF PassedIsQueued, SweepTypeOK
    <3>3. IsFiniteSet(linked') /\ linked' \subseteq Nat /\ Before(e)' \in Nat
      <4>1. IsFiniteSet(linked') /\ linked' \subseteq Nat
        BY <1>1, <2>2, SweptRows, FS_Subset DEF SweepTypeOK
      <4> QED  BY <3>1, <4>1, CountsOfSubsets DEF Before
    <3>4. CASE c \in linked
      <4>1. ~(c < e)
        BY <2>1, <3>4 DEF Unmoved
      <4>2. {d \in linked' : d < e} = {d \in linked : d < e}
        BY <2>1, <3>4, <4>1
      <4> QED  BY <3>2, <4>2 DEF Before
    <3>5. CASE c \notin linked
      <4>1. linked \in SUBSET linked'
        BY <2>1, <3>5
      <4>2. Before(e) <= Before(e)'
        BY <3>1, <3>3, <4>1, CountsOfSubsets DEF Before
      <4> QED  BY <3>2, <3>3, <4>2
    <3> QED  BY <3>4, <3>5
  <2>4. FinishedHasPassed'
    BY <2>1 DEF FinishedHasPassed
  <2> QED  BY <2>2, <2>3, <2>4 DEF SweepInv
<1>4. CASE UNCHANGED sweepVars
  BY <1>1, <1>4
  DEF sweepVars, SweepInv, SweepTypeOK, PassedIsQueued, Unmoved, FinishedHasPassed, Before
<1> QED  BY <1>2, <1>3, <1>4 DEF SweepNext

\* However connections are linked and unlinked between two pages, and whatever the size of a
\* page: who was connected all the time got a job, unless somebody before him was unlinked.
THEOREM SkippedOnlyForCause == SweepSpec => []SkippedForCause
<1>1. SweepInv => SkippedForCause
  <2> SUFFICES ASSUME SweepInv, finished, NEW c \in stayed \ queued, \A d \in left : ~(d < c)
               PROVE  FALSE
    BY DEF SkippedForCause
  <2>1. c \in linked /\ Before(c) \in Nat /\ offset \in Nat
    BY SweptRows DEF SweepInv, SweepTypeOK
  <2>2. Before(c) < offset
    BY <2>1 DEF SweepInv, FinishedHasPassed
  <2>3. Before(c) >= offset
    BY DEF SweepInv, PassedIsQueued, Unmoved
  <2> QED  BY <2>1, <2>2, <2>3
<1> QED  BY <1>1, SweepInvInit, SweepInvStep, PTL DEF SweepSpec
=============================================================================
