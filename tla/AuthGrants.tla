----------------------------- MODULE AuthGrants -----------------------------
(***************************************************************************)
(* The authorization server: pending authorization requests, sign-ins,     *)
(* authorization codes, grants with rotating refresh tokens, revocation    *)
(* (app/auth_server/server.py), and the MCP gateway that asks whether a    *)
(* grant is live before it accepts a token (app/mcp_gateway/               *)
(* composite_auth.py).                                                     *)
(*                                                                         *)
(* The server is one asyncio process.  A handler is one step unless it     *)
(* awaits between two accesses to its state; only the consent form does,   *)
(* when it asks CloudPod to check the password.  Pending requests are in   *)
(* memory; codes and grants are committed to SQLite.                       *)
(*                                                                         *)
(* A submission of a consent form yields at most one code, which bears its *)
(* name.  A grant <<c, n>> is the n-th one made from code c.  A token      *)
(* <<g, k>> is the pair of access and refresh token that the k-th answer   *)
(* about grant g holds.                                                    *)
(***************************************************************************)
EXTENDS Naturals, FiniteSets

CONSTANTS
    Requests,        \* authorization requests: GETs of /authorize
    Submissions,     \* POSTs of the consent form
    Subjects,        \* accounts
    OAuthClients,
    ClientOf,        \* the client that makes each request
    Calls,           \* calls of the gateway that carry a token
    MaxPending,      \* _PENDING_MAX
    MaxSignIns,      \* _MAX_SIGNIN_ATTEMPTS
    MaxUses,         \* bound: grants of one code
    MaxTokens        \* bound: answers about one grant

Codes  == Submissions
Grants == Codes \X (1..MaxUses)
Tokens == Grants \X (1..MaxTokens)

ASSUME AuthGrantsAssumption ==
    /\ ClientOf \in [Requests -> OAuthClients]
    /\ IsFiniteSet(Requests) /\ IsFiniteSet(Submissions)
    /\ MaxPending \in Nat \ {0}
    /\ MaxSignIns \in Nat \ {0}
    /\ MaxUses \in Nat \ {0}
    /\ MaxTokens \in Nat \ {0}

CodeStatus   == {"none", "fresh", "used"}
GrantStatus  == {"none", "live", "revoked"}
NoSubmission == [stage |-> "new"]
Submitted    == [stage : {"signing-in", "failed", "done"}, request : Requests, subject : Subjects]
NoCall       == [stage |-> "idle"]
CallInFlight == [stage : {"asked", "accepted"}, token : Tokens, dead : BOOLEAN]

VARIABLES
    \* memory of the authorization server
    pending,     \* requests in _PENDING
    born,        \* position of each request in the order of their creation, 0 before
    attempts,    \* failed sign-ins counted for each request
    submission,  \* each submission and what it holds across its await
    \* its database
    code,        \* used_at of each code
    grant,       \* revoked_at of each grant
    refresh,     \* refresh_token_hash: number of the token whose hash is stored, or 0
    issued,      \* answers with tokens, for each grant
    lapsed,      \* codes, grants and access tokens that have expired
    \* clients and gateway
    known,       \* tokens that have reached their client
    call,        \* verification of each call; dead: its grant was revoked when it began
    \* history
    replayed,    \* codes presented again after their use
    reused       \* grants of which a rotated refresh token was presented

memoryVars   == <<pending, born, attempts, submission>>
databaseVars == <<code, grant, refresh, issued, lapsed>>
outsideVars  == <<known, call>>
historyVars  == <<replayed, reused>>
vars         == <<memoryVars, databaseVars, outsideVars, historyVars>>

-----------------------------------------------------------------------------
CodeOf(g)  == g[1]
GrantOf(t) == t[1]
Number(t)  == t[2]

\* Subject and client that a code, and a grant made from it, are stored with.
OwnerOf(c) == <<submission[c].subject, ClientOf[submission[c].request]>>

\* Mutant: only the time of the grant is looked at.
ActiveUntilExpiry(g) == grant[g] # "none" /\ g \notin lapsed

Active(g) == grant[g] = "live" /\ g \notin lapsed

Init ==
    /\ pending    = {}
    /\ born       = [r \in Requests |-> 0]
    /\ attempts   = [r \in Requests |-> 0]
    /\ submission = [s \in Submissions |-> NoSubmission]
    /\ code       = [c \in Codes |-> "none"]
    /\ grant      = [g \in Grants |-> "none"]
    /\ refresh    = [g \in Grants |-> 0]
    /\ issued     = [g \in Grants |-> 0]
    /\ lapsed     = {}
    /\ known      = {}
    /\ call       = [v \in Calls |-> NoCall]
    /\ replayed   = {}
    /\ reused     = {}

-----------------------------------------------------------------------------
(* Consent. *)

\* GET /authorize: the request is remembered; beyond the cap the oldest are evicted.
Oldest(S) == CHOOSE r \in S : \A x \in S : born'[r] <= born'[x]

Authorize(r) ==
    /\ born[r] = 0
    /\ born' = [born EXCEPT ![r] = 1 + Cardinality({x \in Requests : born[x] > 0})]
    /\ LET held == pending \cup {r} IN
       pending' = IF Cardinality(held) > MaxPending THEN held \ {Oldest(held)} ELSE held
    /\ UNCHANGED <<attempts, submission, databaseVars, outsideVars, historyVars>>

\* The request is given up: denied, throttled, or ten minutes old.  Every handler prunes
\* the store before it looks, so an old request is gone from the moment it is.
Dismiss(r) ==
    /\ r \in pending
    /\ pending' = pending \ {r}
    /\ UNCHANGED <<born, attempts, submission, databaseVars, outsideVars, historyVars>>

\* POST /authorize up to its await.
Submit(s, r, u) ==
    /\ submission[s] = NoSubmission
    /\ r \in pending
    /\ submission' = [submission EXCEPT ![s] = [stage |-> "signing-in", request |-> r, subject |-> u]]
    /\ UNCHANGED <<pending, born, attempts, databaseVars, outsideVars, historyVars>>

SignInEnds(s, outcome) ==
    /\ submission[s].stage = "signing-in"
    /\ submission' = [submission EXCEPT ![s].stage = outcome]

\* Whether another submission of the request was in progress.
Overlaps(r) == \E s \in Submissions : /\ submission'[s].stage = "signing-in"
                                      /\ submission'[s].request = r

\* Mutant: the count is read before the password is checked, so failures that overlap
\* count once.
CountOnce(r) == IF Overlaps(r) THEN attempts[r] ELSE attempts[r] + 1

Count(r) == attempts[r] + 1

\* The password is wrong: the failure is counted on the request the handler holds, and
\* at the limit the request is burned, if it still is there.
SignInFails(s) ==
    LET r == submission[s].request IN
    /\ SignInEnds(s, "failed")
    /\ attempts' = [attempts EXCEPT ![r] = Count(r)]
    /\ pending' = IF attempts'[r] >= MaxSignIns THEN pending \ {r} ELSE pending
    /\ UNCHANGED <<born, databaseVars, outsideVars, historyVars>>

\* CloudPod is not there or answers nonsense.
SignInBreaks(s) ==
    /\ SignInEnds(s, "done")
    /\ UNCHANGED <<pending, born, attempts, databaseVars, outsideVars, historyVars>>

\* The request is consumed, and a code is issued even if it was gone by then.
SignInSucceeds(s) ==
    /\ SignInEnds(s, "done")
    /\ pending' = pending \ {submission[s].request}
    /\ code' = [code EXCEPT ![s] = "fresh"]
    /\ UNCHANGED <<born, attempts, grant, refresh, issued, lapsed, outsideVars, historyVars>>

-----------------------------------------------------------------------------
(* Tokens.  A call that is refused changes nothing and is left out. *)

\* The answer reaches the client or is lost.
Answer(t) == known' = known \cup {t} \/ UNCHANGED known

\* Mutant: the code is not marked as used.
ExchangeAgain(c) ==
    /\ code[c] = "fresh"
    /\ c \notin lapsed
    /\ \E n \in 1..MaxUses :
        LET g == <<c, n>> IN
        /\ grant[g] = "none"
        /\ \A m \in 1..(n - 1) : grant[<<c, m>>] # "none"
        /\ grant' = [grant EXCEPT ![g] = "live"]
        /\ refresh' = [refresh EXCEPT ![g] = 1]
        /\ issued' = [issued EXCEPT ![g] = 1]
        /\ Answer(<<g, 1>>)
    /\ UNCHANGED <<memoryVars, code, lapsed, call, historyVars>>

\* POST /token with a code, its verifier, client and redirect URI.
Exchange(c) ==
    /\ code[c] = "fresh"
    /\ c \notin lapsed
    /\ code' = [code EXCEPT ![c] = "used"]
    /\ \E n \in 1..MaxUses :
        LET g == <<c, n>> IN
        /\ grant[g] = "none"
        /\ \A m \in 1..(n - 1) : grant[<<c, m>>] # "none"
        /\ grant' = [grant EXCEPT ![g] = "live"]
        /\ refresh' = [refresh EXCEPT ![g] = 1]
        /\ issued' = [issued EXCEPT ![g] = 1]
        /\ Answer(<<g, 1>>)
    /\ UNCHANGED <<memoryVars, lapsed, call, historyVars>>

\* Mutant: only grants that have not been refreshed are looked for.
DerivedUnrefreshed(c) == {g \in Grants : grant[g] = "live" /\ OwnerOf(CodeOf(g)) = OwnerOf(c)
                                         /\ issued[g] = 1}

\* The grants a replay revokes: all of the same subject and client.
Derived(c) == {g \in Grants : grant[g] = "live" /\ OwnerOf(CodeOf(g)) = OwnerOf(c)}

\* A used code is presented, by whomever and with whatever verifier.  The stored
\* refresh hashes are not cleared.
Replay(c) ==
    /\ code[c] = "used"
    /\ grant' = [g \in Grants |-> IF g \in Derived(c) THEN "revoked" ELSE grant[g]]
    /\ replayed' = replayed \cup {c}
    /\ UNCHANGED <<memoryVars, code, refresh, issued, lapsed, outsideVars, reused>>

\* POST /token with a refresh token: it is rotated.
\* Mutant: whether the grant is revoked is not asked.
RefreshableHash(g) == g \notin lapsed
Refreshable(g) == grant[g] # "revoked" /\ g \notin lapsed

Refresh(t) ==
    LET g == GrantOf(t) IN
    /\ t \in known
    /\ refresh[g] = Number(t)
    /\ Refreshable(g)
    /\ issued[g] < MaxTokens
    /\ issued' = [issued EXCEPT ![g] = @ + 1]
    /\ refresh' = [refresh EXCEPT ![g] = issued'[g]]
    /\ Answer(<<g, issued'[g]>>)
    /\ UNCHANGED <<memoryVars, code, grant, lapsed, call, historyVars>>

\* A refresh token that was rotated is presented: its hash is found nowhere.
RefreshRefused(t) ==
    /\ t \in known
    /\ refresh[GrantOf(t)] # Number(t)
    /\ reused' = reused \cup {GrantOf(t)}
    /\ UNCHANGED <<memoryVars, databaseVars, outsideVars, replayed>>

\* POST /revoke with a refresh token whose hash is stored or an unexpired access token.
Revoke(t) ==
    LET g == GrantOf(t) IN
    /\ t \in known
    /\ refresh[g] = Number(t) \/ t \notin lapsed
    /\ grant[g] = "live"
    /\ grant' = [grant EXCEPT ![g] = "revoked"]
    /\ refresh' = [refresh EXCEPT ![g] = 0]
    /\ UNCHANGED <<memoryVars, code, issued, lapsed, outsideVars, historyVars>>

\* A code, a grant or an access token expires.
Lapse(x) ==
    /\ x \notin lapsed
    /\ lapsed' = lapsed \cup {x}
    /\ UNCHANGED <<memoryVars, code, grant, refresh, issued, outsideVars, historyVars>>

\* What is there to expire.
Perishable ==
    {c \in Codes : code[c] = "fresh"}
    \cup {g \in Grants : grant[g] = "live"}
    \cup known

-----------------------------------------------------------------------------
(* The gateway. *)

\* verify_token: signature, audience and expiry are right, so introspection is asked.
CallArrives(v, t) ==
    /\ call[v] = NoCall
    /\ t \in known
    /\ t \notin lapsed
    /\ call' = [call EXCEPT ![v] = [stage |-> "asked", token |-> t,
                                    dead |-> grant[GrantOf(t)] = "revoked"]]
    /\ UNCHANGED <<known, memoryVars, databaseVars, historyVars>>

\* The server answers whether the grant is live.
CallIsChecked(v) ==
    /\ call[v].stage = "asked"
    /\ call' = [call EXCEPT ![v] = IF Active(GrantOf(@.token)) THEN [@ EXCEPT !.stage = "accepted"]
                                   ELSE NoCall]
    /\ UNCHANGED <<known, memoryVars, databaseVars, historyVars>>

\* The question fails, or the accepted call has been served.
CallEnds(v) ==
    /\ call[v] # NoCall
    /\ call' = [call EXCEPT ![v] = NoCall]
    /\ UNCHANGED <<known, memoryVars, databaseVars, historyVars>>

-----------------------------------------------------------------------------
\* The authorization server restarts: pending requests and sign-ins in progress are lost.
ServerRestarts ==
    /\ pending' = {}
    /\ submission' = [s \in Submissions |-> IF submission[s].stage = "signing-in"
                                            THEN [submission[s] EXCEPT !.stage = "done"]
                                            ELSE submission[s]]
    /\ UNCHANGED <<born, attempts, databaseVars, outsideVars, historyVars>>

Next ==
    \/ \E r \in Requests : Authorize(r) \/ Dismiss(r)
    \/ \E s \in Submissions, r \in Requests, u \in Subjects : Submit(s, r, u)
    \/ \E s \in Submissions : SignInFails(s) \/ SignInBreaks(s) \/ SignInSucceeds(s)
    \/ \E c \in Codes : Exchange(c) \/ Replay(c)
    \/ \E t \in Tokens : Refresh(t) \/ RefreshRefused(t) \/ Revoke(t)
    \/ \E x \in Perishable : Lapse(x)
    \/ \E v \in Calls, t \in Tokens : CallArrives(v, t)
    \/ \E v \in Calls : CallIsChecked(v) \/ CallEnds(v)
    \/ ServerRestarts

Spec == Init /\ [][Next]_vars

-----------------------------------------------------------------------------
TypeOK ==
    /\ pending \subseteq Requests
    /\ born \in [Requests -> Nat]
    /\ attempts \in [Requests -> Nat]
    /\ submission \in [Submissions -> {NoSubmission} \cup Submitted]
    /\ code \in [Codes -> CodeStatus]
    /\ grant \in [Grants -> GrantStatus]
    /\ refresh \in [Grants -> 0..MaxTokens]
    /\ issued \in [Grants -> 0..MaxTokens]
    /\ lapsed \subseteq Codes \cup Grants \cup Tokens
    /\ known \subseteq Tokens
    /\ call \in [Calls -> {NoCall} \cup CallInFlight]
    /\ replayed \subseteq Codes
    /\ reused \subseteq Grants

\* "A single-use authorization code" (models.py): however often and in whatever order it
\* is presented, one code makes at most one grant.
OneGrantPerCode ==
    \A g, h \in Grants :
        CodeOf(g) = CodeOf(h) /\ grant[g] # "none" /\ grant[h] # "none" => g = h

\* "A second presentation is rejected AND the associated grant is revoked" (models.py):
\* after a replay no grant made from the code is live, whether it was refreshed since,
\* has expired, or belongs to an owner with several codes.
ReplayRevokes ==
    \A g \in Grants : CodeOf(g) \in replayed => grant[g] # "live"

\* "Revoking it invalidates every derived token" (models.py): a revoked grant stays
\* revoked and yields no further token, although a replay leaves its refresh hash.
RevokedIsFinal ==
    [][\A g \in Grants : grant[g] = "revoked" => grant'[g] = "revoked" /\ issued'[g] = issued[g]]_vars

\* "Revocation must take effect before the access token's own expiry" (composite_auth):
\* no call that arrives after the revocation of its grant is accepted.
AcceptedWasLive == \A v \in Calls : call[v].stage = "accepted" => ~call[v].dead

\* Submissions of a request whose password was wrong.
FailedFor(r) == {s \in Submissions : submission[s].stage = "failed" /\ submission[s].request = r}

\* "Sign-in attempts allowed against one pending request before it is burned": failures
\* of overlapping submissions are all counted, and the request is gone at the limit.
BurnedIsGone == \A r \in Requests : Cardinality(FailedFor(r)) >= MaxSignIns => r \notin pending

\* "Refresh tokens rotate on every use; replay invalidates the grant"
\* (docs/AUTH_SERVER.md).
ReuseInvalidates == \A g \in reused : grant[g] # "live"

=============================================================================
