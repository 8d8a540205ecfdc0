---------------------------- MODULE LocalSession ----------------------------
(***************************************************************************)
(* Sign-in to the local edition: the browser's cookies, the session rows   *)
(* of the server and the CSRF token that every call but a safe one must    *)
(* carry.  Two tabs share the cookies; each keeps the token it saw last.   *)
(* A refused call asks for a new token, which takes the place of the old   *)
(* one, and is made once more.                                              *)
(***************************************************************************)
EXTENDS Integers, FiniteSets

CONSTANTS
    Tabs,        \* tabs of one browser
    MaxCalls,    \* unsafe calls of a tab
    MaxSessions  \* sessions that are created

None == 0

VARIABLES
    sessions,    \* digest and revocation of each session that was created
    tokens,      \* CSRF tokens issued so far, which are numbered
    cookies,     \* the browser's session and CSRF cookies
    remembered,  \* the CSRF token each tab remembers
    calls,       \* the call each tab makes
    asked        \* calls each tab has made

sessionVars == <<sessions, tokens, cookies, remembered, calls, asked>>

\* A call: its method, where it is, the cookie and header it was sent with, the token or
\* session that is answered, whether it was made before, and whether somebody else's token
\* or sign-in came between its request for a token and its second answer.
NoAsk == [kind |-> "none", at |-> "ended", cookie |-> None, header |-> None,
           answer |-> None, retried |-> FALSE, crossed |-> FALSE]

Live(n) == n # None /\ ~sessions[n].revoked

\* The tabs whose second attempt is at stake.
Retrying(u) == \/ calls[u].at \in {"rotated", "renewed"}
               \/ calls[u].at = "sent" /\ calls[u].retried

\* Somebody else does something that takes their token away.
Crossed(others) == [u \in Tabs |-> [calls[u] EXCEPT !.crossed = @ \/ u \in others]]

-----------------------------------------------------------------------------
CurrentToken(t) == IF cookies.csrf # None THEN cookies.csrf ELSE remembered[t]

Sent(t, kind, retried) ==
    [calls[t] EXCEPT !.kind = kind, !.at = "sent", !.cookie = cookies.session,
        !.header = CurrentToken(t), !.retried = retried, !.crossed = retried /\ @]

\* api(): the cookie's token is remembered before the call is sent.
Sends(t, kind, retried) ==
    /\ remembered' = [remembered EXCEPT ![t] = CurrentToken(t)]
    /\ calls' = [calls EXCEPT ![t] = Sent(t, kind, retried)]

Asks(t, kind) ==
    /\ calls[t].at = "ended" /\ asked[t] < MaxCalls
    /\ asked' = [asked EXCEPT ![t] = @ + 1]
    /\ Sends(t, kind, FALSE)
    /\ UNCHANGED <<sessions, tokens, cookies>>

\* restoreSession(): a tab that is opened without a CSRF cookie asks for a token.
Restores(t) ==
    /\ calls[t].at = "ended" /\ asked[t] < MaxCalls
    /\ cookies.session # None /\ cookies.csrf = None
    /\ asked' = [asked EXCEPT ![t] = @ + 1]
    /\ calls' = [calls EXCEPT ![t] = [NoAsk EXCEPT !.kind = "restore", !.at = "renewing",
                                                 !.cookie = cookies.session]]
    /\ UNCHANGED <<sessions, tokens, cookies, remembered>>

\* authenticate_session, for a method that is not safe.
Authentic(t) ==
    /\ Live(calls[t].cookie)
    /\ calls[t].header # None
    /\ calls[t].header = sessions[calls[t].cookie].digest

\* The route is run, or 401 is answered.
ServerRuns(t) ==
    /\ calls[t].at = "sent" /\ calls[t].kind = "post" /\ Authentic(t)
    /\ calls' = [calls EXCEPT ![t].at = "ended"]
    /\ UNCHANGED <<sessions, tokens, cookies, remembered, asked>>

\* delete_session: the row is revoked; the cookies go when the answer arrives.
ServerSignsOut(t) ==
    /\ calls[t].at = "sent" /\ calls[t].kind = "sign-out" /\ Authentic(t)
    /\ sessions' = [sessions EXCEPT ![calls[t].cookie].revoked = TRUE]
    /\ calls' = [calls EXCEPT ![t].at = "signed out"]
    /\ UNCHANGED <<tokens, cookies, remembered, asked>>

\* Whatever signOut() was answered, the page is loaded again without its token.
SignedOut(t) ==
    /\ \/ calls[t].at = "signed out" /\ cookies' = [session |-> None, csrf |-> None]
       \/ calls[t].at = "refused" /\ calls[t].kind = "sign-out" /\ UNCHANGED cookies
    /\ remembered' = [remembered EXCEPT ![t] = cookies'.csrf]
    /\ calls' = [calls EXCEPT ![t].at = "ended"]
    /\ UNCHANGED <<sessions, tokens, asked>>

\* 401: the first time a new token is asked for, the second time the call has failed.
Refused(t) ==
    /\ calls[t].at = "sent" /\ calls[t].kind # "sign-in" /\ ~Authentic(t)
    /\ calls' = [calls EXCEPT ![t] =
          IF @.retried THEN [@ EXCEPT !.at = "refused"]
          ELSE [@ EXCEPT !.at = "renewing", !.cookie = cookies.session]]
    /\ UNCHANGED <<sessions, tokens, cookies, remembered, asked>>

\* refresh_csrf and rotate_csrf_token: the old token is worth nothing from now on.
ServerRotates(t) ==
    /\ calls[t].at = "renewing" /\ Live(calls[t].cookie)
    /\ tokens' = tokens + 1
    /\ sessions' = [sessions EXCEPT ![calls[t].cookie].digest = tokens + 1]
    /\ calls' = [Crossed({u \in Tabs \ {t} : Retrying(u)}) EXCEPT ![t] =
                   [calls[t] EXCEPT !.at = "rotated", !.answer = tokens + 1]]
    /\ UNCHANGED <<cookies, remembered, asked>>

\* The session has ended: the call is given up.
RenewalRefused(t) ==
    /\ calls[t].at = "renewing" /\ ~Live(calls[t].cookie)
    /\ calls' = [calls EXCEPT ![t].at = "refused"]
    /\ UNCHANGED <<sessions, tokens, cookies, remembered, asked>>

AfterToken(t) == IF calls[t].kind = "restore" THEN "ended" ELSE "renewed"

\* Mutant: the answer sets no cookie.
TokenArrivesBare(t) ==
    /\ calls[t].at = "rotated"
    /\ remembered' = [remembered EXCEPT ![t] = calls[t].answer]
    /\ calls' = [Crossed({u \in Tabs \ {t} : calls[u].at = "renewed"}) EXCEPT ![t].at = AfterToken(t)]
    /\ UNCHANGED <<sessions, tokens, cookies, asked>>

\* The answer sets the cookie, and its body is read before the call is made once more.
TokenArrives(t) ==
    /\ calls[t].at = "rotated"
    /\ cookies' = [cookies EXCEPT !.csrf = calls[t].answer]
    /\ remembered' = [remembered EXCEPT ![t] = calls[t].answer]
    /\ calls' = [Crossed({u \in Tabs \ {t} : calls[u].at = "renewed"}) EXCEPT ![t].at = AfterToken(t)]
    /\ UNCHANGED <<sessions, tokens, asked>>

CallsAgain(t) ==
    /\ calls[t].at = "renewed"
    /\ Sends(t, calls[t].kind, TRUE)
    /\ UNCHANGED <<sessions, tokens, cookies, asked>>

\* The call has failed; signOut() alone goes on, with SignedOut.
GivesUp(t) ==
    /\ calls[t].at = "refused" /\ calls[t].kind # "sign-out"
    /\ calls' = [calls EXCEPT ![t].at = "ended"]
    /\ UNCHANGED <<sessions, tokens, cookies, remembered, asked>>

-----------------------------------------------------------------------------
\* create_session: an access token is exchanged for a session, beside any other.
ServerSignsIn(t) ==
    /\ calls[t].at = "sent" /\ calls[t].kind = "sign-in"
    /\ Cardinality(DOMAIN sessions) < MaxSessions
    /\ tokens' = tokens + 1
    /\ LET n == Cardinality(DOMAIN sessions) + 1 IN
         /\ sessions' = [k \in 1..n |-> IF k = n THEN [digest |-> tokens + 1, revoked |-> FALSE]
                                        ELSE sessions[k]]
         /\ calls' = [calls EXCEPT ![t] = [@ EXCEPT !.at = "signed in", !.answer = n,
                                                  !.header = tokens + 1]]
    /\ UNCHANGED <<cookies, remembered, asked>>

\* The token is not one of the server's: 401 without a second attempt.
SignInRefused(t) ==
    /\ calls[t].at = "sent" /\ calls[t].kind = "sign-in"
    /\ calls' = [calls EXCEPT ![t].at = "ended"]
    /\ UNCHANGED <<sessions, tokens, cookies, remembered, asked>>

SignInArrives(t) ==
    /\ calls[t].at = "signed in"
    /\ cookies' = [session |-> calls[t].answer, csrf |-> calls[t].header]
    /\ remembered' = [remembered EXCEPT ![t] = calls[t].header]
    /\ calls' = [Crossed({u \in Tabs \ {t} : calls[u].at \in {"renewing", "rotated", "renewed"}})
                   EXCEPT ![t].at = "ended"]
    /\ UNCHANGED <<sessions, tokens, asked>>

-----------------------------------------------------------------------------
\* The browser was signed in before; cookies may be gone.
SessionInit ==
    /\ sessions = [k \in {1} |-> [digest |-> 1, revoked |-> FALSE]]
    /\ tokens = 1
    /\ cookies \in {[session |-> 1, csrf |-> 1], [session |-> 1, csrf |-> None]}
    /\ remembered = [t \in Tabs |-> cookies.csrf]
    /\ calls = [t \in Tabs |-> NoAsk]
    /\ asked = [t \in Tabs |-> 0]

SessionNext ==
    \E t \in Tabs :
        \/ \E kind \in {"post", "sign-out", "sign-in"} : Asks(t, kind)
        \/ Restores(t) \/ ServerRuns(t) \/ ServerSignsOut(t) \/ SignedOut(t) \/ Refused(t)
        \/ ServerRotates(t) \/ RenewalRefused(t) \/ TokenArrives(t) \/ CallsAgain(t) \/ GivesUp(t)
        \/ ServerSignsIn(t) \/ SignInRefused(t) \/ SignInArrives(t)

SessionSpec == SessionInit /\ [][SessionNext]_sessionVars

-----------------------------------------------------------------------------
\* A call fails for want of its token, although its session is live, only if another tab's
\* token or sign-in came between its request for a new one and its second attempt: whatever tokens
\* were handed out before, in whatever order their cookies arrived, one attempt more is
\* enough for a tab that is left alone.
RefusedForCause ==
    \A t \in Tabs :
        calls[t].at = "refused" /\ Live(calls[t].cookie) => calls[t].crossed
=============================================================================
