---------------------------- MODULE ConnectForm ----------------------------
(***************************************************************************)
(* Connecting an ESPN league (connect-espn-form.tsx): the form asks the     *)
(* discovery route for the teams of the league in the link, saves the team *)
(* it can tell to be the user's, or lets the user choose one.  Its fields  *)
(* can be edited while a request is under way, and a handler goes on with  *)
(* what they were when it was called.  A league stands for its season too. *)
(***************************************************************************)
EXTENDS Naturals, FiniteSets

CONSTANTS
    Credentials,  \* pairs of ESPN session values
    TeamsOf,      \* the teams ESPN lists in each league
    OwnersOf,     \* of each team of a league, the credentials whose SWID it names as an owner
    ReadableBy,   \* of each league, the credentials ESPN answers, NoCredentials for public ones
    MaxRequests   \* discoveries and saves

Known         == DOMAIN TeamsOf
NoTeam        == 0
NowhereYet    == "nowhere"
NoCredentials == "no credentials"

ASSUME ConnectFormAssumption ==
    /\ NowhereYet \notin Known /\ NoCredentials \notin Credentials
    /\ \A l \in Known : NoTeam \notin TeamsOf[l]
    /\ MaxRequests \in Nat

\* What parseEspnLeagueLink finds in a link.
Links == {[league |-> NowhereYet, team |-> NoTeam]}
         \cup [league : Known, team : {NoTeam} \cup UNION {TeamsOf[l] : l \in Known}]

VARIABLES
    form,     \* the fields, the step, the league whose teams are listed, the credentials held,
              \* and whether list and link may have come apart
    request,  \* the request under way, with what its handler has closed over
    saved,    \* the connection of each league in the database
    found,   \* <<league, credentials>> ESPN has answered
    astray,   \* leagues saved when list and link may have come apart, until they are saved with
              \* credentials of their own again
    asked     \* how many requests there were

formVars == <<form, request, saved, found, astray, asked>>

NoRequest == [at |-> "none"]
Busy      == request # NoRequest

-----------------------------------------------------------------------------
(* The fields. *)

EditLink(link) ==
    /\ form.step = "details" /\ link # form.link
    /\ form' = [form EXCEPT !.link = link, !.crossed = @ \/ Busy]
    /\ UNCHANGED <<request, saved, found, astray, asked>>

TypeCredentials(c) ==
    /\ form.step = "details" /\ ~form.public
    /\ form' = [form EXCEPT !.typed = c]
    /\ UNCHANGED <<request, saved, found, astray, asked>>

\* The inputs for credentials are taken away, or come back empty.
TogglePublic ==
    /\ form.step = "details"
    /\ form' = [form EXCEPT !.public = ~@, !.typed = NoCredentials]
    /\ UNCHANGED <<request, saved, found, astray, asked>>

Back ==
    /\ form.step = "choose-team" /\ ~Busy
    /\ form' = [form EXCEPT !.step = "details", !.typed = NoCredentials]
    /\ UNCHANGED <<request, saved, found, astray, asked>>

Cleared(fields) == [fields EXCEPT !.typed = NoCredentials, !.held = NoCredentials]

-----------------------------------------------------------------------------
(* The first step: the teams of the league. *)

Discover ==
    /\ form.step = "details" /\ ~Busy /\ form.link.league \in Known
    /\ asked < MaxRequests /\ asked' = asked + 1
    /\ request' = [at |-> "discovering", link |-> form.link, public |-> form.public,
                   credentials |-> form.typed]
    /\ form' = [form EXCEPT !.crossed = FALSE]
    /\ UNCHANGED <<saved, found, astray>>

\* Whether ESPN shows the league to these credentials; a public one is shown to any.
EspnAnswers(league, c) == c \in ReadableBy[league] \/ NoCredentials \in ReadableBy[league]

\* espnMatchTeam: the team of this identity, if it is the only one.
MatchedTeam(league, c) ==
    LET owned == {t \in TeamsOf[league] : c \in OwnersOf[league][t]} IN
    IF Cardinality(owned) = 1 THEN CHOOSE t \in owned : TRUE ELSE NoTeam

\* A team of the link wins, if the league has it.
Preselected(link, c) ==
    IF link.team \in TeamsOf[link.league] THEN link.team ELSE MatchedTeam(link.league, c)

SaveRequest(league, team, public, c, direct, crossed) ==
    [at |-> "saving", league |-> league, team |-> team, public |-> public, credentials |-> c,
     direct |-> direct, crossed |-> crossed]

\* Mutant: a discovery without credentials leaves those of the one before.
KeptBefore(c) == IF c = NoCredentials THEN form.held ELSE c

Kept(c) == c

\* The found team is saved as the form was when it was submitted, or the teams are listed.
Discovered ==
    /\ request.at = "discovering"
    /\ LET link == request.link
           c    == request.credentials
           team == Preselected(link, c) IN
       /\ EspnAnswers(link.league, c)
       /\ found' = found \cup {<<link.league, c>>}
       /\ IF team # NoTeam
          THEN /\ form' = [form EXCEPT !.held = Kept(c)]
               /\ request' = SaveRequest(link.league, team, request.public, Kept(c), TRUE, FALSE)
          ELSE /\ form' = [form EXCEPT !.held = Kept(c), !.offered = link.league,
                                       !.step = "choose-team", !.typed = NoCredentials]
               /\ request' = NoRequest
    /\ UNCHANGED <<saved, astray, asked>>

\* ESPN refuses or does not answer, or the request is lost.
DiscoveryFails ==
    /\ request.at = "discovering"
    /\ request' = NoRequest
    /\ form' = Cleared(form)
    /\ UNCHANGED <<saved, found, astray, asked>>

-----------------------------------------------------------------------------
(* The second step: the connection is saved. *)

PickTeam(team) ==
    /\ form.step = "choose-team" /\ ~Busy
    /\ form.offered \in Known /\ team \in TeamsOf[form.offered]
    /\ asked < MaxRequests /\ asked' = asked + 1
    /\ request' = SaveRequest(form.link.league, team, form.public, form.held, FALSE, form.crossed)
    /\ UNCHANGED <<form, saved, found, astray>>

\* PUT connections/espn: saved credentials are kept when none are sent.
ServerSaves ==
    /\ request.at = "saving" /\ request.league \in Known
    /\ LET league == request.league
           kept   == IF request.credentials = NoCredentials THEN saved[league].credentials
                     ELSE request.credentials IN
       /\ request.public \/ kept # NoCredentials
       /\ saved' = [saved EXCEPT ![league] =
              [team |-> request.team, credentials |-> IF request.public THEN NoCredentials ELSE kept]]
       /\ astray' = IF request.crossed THEN astray \cup {league}
                    ELSE IF request.public \/ request.credentials # NoCredentials THEN astray \ {league}
                    ELSE astray
    /\ request' = [request EXCEPT !.at = "saved"]
    /\ UNCHANGED <<form, found, asked>>

\* The page loads its rows again; the form stays as it is.
Connected ==
    /\ request.at = "saved"
    /\ request' = NoRequest
    /\ form' = Cleared(form)
    /\ UNCHANGED <<saved, found, astray, asked>>

\* It is refused, or it or its answer is lost: the teams of the last list are shown, of
\* whatever league that was.
SaveFails ==
    /\ request.at \in {"saving", "saved"}
    /\ request' = NoRequest
    /\ form' = [Cleared(form) EXCEPT !.step = "choose-team", !.crossed = @ \/ request.direct]
    /\ UNCHANGED <<saved, found, astray, asked>>

-----------------------------------------------------------------------------
FormInit ==
    /\ form = [link |-> [league |-> NowhereYet, team |-> NoTeam], typed |-> NoCredentials,
               public |-> FALSE, step |-> "details", offered |-> NowhereYet,
               held |-> NoCredentials, crossed |-> FALSE]
    /\ request = NoRequest
    /\ saved = [l \in Known |-> [team |-> NoTeam, credentials |-> NoCredentials]]
    /\ found = {} /\ astray = {} /\ asked = 0

FormNext ==
    \/ \E link \in Links : EditLink(link)
    \/ \E c \in Credentials : TypeCredentials(c)
    \/ TogglePublic \/ Back \/ Discover \/ Discovered \/ DiscoveryFails
    \/ \E l \in Known : \E team \in TeamsOf[l] : PickTeam(team)
    \/ ServerSaves \/ Connected \/ SaveFails

FormSpec == FormInit /\ [][FormNext]_formVars

-----------------------------------------------------------------------------
\* A league is saved with one of its own teams, which ESPN has listed, and with credentials
\* ESPN has answered for it, although list, link and credentials are kept apart across
\* requests, edits and failures: unless the link was edited during the discovery whose teams
\* are listed, or the list is what a failed save has brought back.
SavedWasFound ==
    \A l \in Known \ astray :
        saved[l].team # NoTeam =>
            /\ saved[l].team \in TeamsOf[l]
            /\ \E c \in Credentials \cup {NoCredentials} : <<l, c>> \in found
            /\ saved[l].credentials # NoCredentials => <<l, saved[l].credentials>> \in found
=============================================================================
