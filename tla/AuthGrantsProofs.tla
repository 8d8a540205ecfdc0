-------------------------- MODULE AuthGrantsProofs --------------------------
(***************************************************************************)
(* Theorems about AuthGrants, for every number of requests, submissions,   *)
(* accounts, clients, calls, answers and restarts.                         *)
(*                                                                         *)
(* Two invariants carry them.  Derivation follows the codes: a submission  *)
(* that has not succeeded has no code, a code has a grant only when used,  *)
(* and then one; a replayed code is used and its grants are revoked; a     *)
(* call whose grant was dead on arrival has a dead grant still.  Counting  *)
(* follows the requests: the counter held in memory is the number of       *)
(* failed submissions, and a request that reached the limit has left the   *)
(* store for good.                                                         *)
(***************************************************************************)
EXTENDS AuthGrants, FiniteSetTheorems, TLAPS

LEMMA GrantParts == ASSUME NEW g \in Grants PROVE CodeOf(g) \in Codes /\ CodeOf(g) \in Submissions
BY DEF Grants, CodeOf, Codes

LEMMA TokenParts ==
    ASSUME NEW t \in Tokens PROVE GrantOf(t) \in Grants /\ Number(t) \in 1..MaxTokens
BY DEF Tokens, GrantOf, Number

\* A submission in progress holds a request and an account, and a call in progress
\* holds a token.
LEMMA SubmissionParts ==
    ASSUME TypeOK, NEW s \in Submissions, submission[s].stage = "signing-in"
    PROVE  submission[s] \in Submitted /\ submission[s].request \in Requests
<1>1. submission[s] # NoSubmission
    BY DEF NoSubmission
<1> QED
    BY <1>1 DEF TypeOK, Submitted

LEMMA CallParts ==
    ASSUME TypeOK, NEW v \in Calls, call[v].stage = "asked"
    PROVE  call[v] \in CallInFlight /\ call[v].token \in Tokens
<1>1. call[v] # NoCall
    BY DEF NoCall
<1> QED
    BY <1>1 DEF TypeOK, CallInFlight

-----------------------------------------------------------------------------
(* Types. *)

LEMMA TypeInit == Init => TypeOK
BY AuthGrantsAssumption DEF Init, TypeOK, AuthGrantsAssumption, CodeStatus, GrantStatus

LEMMA NumberOfBirths == 1 + Cardinality({x \in Requests : born[x] > 0}) \in Nat \ {0}
<1>1. IsFiniteSet({x \in Requests : born[x] > 0})
    BY AuthGrantsAssumption, FS_Subset DEF AuthGrantsAssumption
<1> QED
    BY <1>1, FS_CardinalityType

LEMMA EndType ==
    ASSUME TypeOK, NEW s \in Submissions, NEW outcome \in {"failed", "done"}, SignInEnds(s, outcome)
    PROVE  submission' \in [Submissions -> {NoSubmission} \cup Submitted]
<1>1. submission[s] \in Submitted
    BY SubmissionParts DEF SignInEnds
<1>2. [submission[s] EXCEPT !.stage = outcome] \in Submitted
    BY <1>1 DEF Submitted
<1> QED
    BY <1>2 DEF SignInEnds, TypeOK

LEMMA TypeStep == TypeOK /\ [Next]_vars => TypeOK'
<1> SUFFICES ASSUME TypeOK, [Next]_vars
             PROVE  TypeOK'
    OBVIOUS
<1> USE DEF memoryVars, databaseVars, outsideVars, historyVars
<1>m. MaxTokens \in Nat /\ 1 \in 1..MaxTokens /\ 1 \in 0..MaxTokens /\ 0 \in 0..MaxTokens
    BY AuthGrantsAssumption DEF AuthGrantsAssumption
<1>1. ASSUME NEW r \in Requests, Authorize(r)
      PROVE  TypeOK'
    <2>1. pending' \subseteq pending \cup {r}
        BY <1>1 DEF Authorize
    <2>2. born' \in [Requests -> Nat]
        BY <1>1, NumberOfBirths DEF Authorize, TypeOK
    <2> QED
        BY <1>1, <2>1, <2>2 DEF Authorize, TypeOK
<1>2. ASSUME NEW r \in Requests, Dismiss(r)
      PROVE  TypeOK'
    BY <1>2 DEF Dismiss, TypeOK
<1>3. ASSUME NEW s \in Submissions, NEW r \in Requests, NEW u \in Subjects, Submit(s, r, u)
      PROVE  TypeOK'
    <2>1. [stage |-> "signing-in", request |-> r, subject |-> u] \in Submitted
        BY DEF Submitted
    <2> QED
        BY <1>3, <2>1 DEF Submit, TypeOK
<1>4. ASSUME NEW s \in Submissions, SignInFails(s)
      PROVE  TypeOK'
    <2>1. submission[s].request \in Requests
        BY <1>4, SubmissionParts DEF SignInFails, SignInEnds
    <2>2. attempts' \in [Requests -> Nat] /\ pending' \subseteq Requests
        BY <1>4, <2>1 DEF SignInFails, Count, TypeOK
    <2>3. submission' \in [Submissions -> {NoSubmission} \cup Submitted]
        BY <1>4, EndType DEF SignInFails
    <2> QED
        BY <1>4, <2>2, <2>3 DEF SignInFails, TypeOK
<1>5. ASSUME NEW s \in Submissions, SignInBreaks(s)
      PROVE  TypeOK'
    <2>1. submission' \in [Submissions -> {NoSubmission} \cup Submitted]
        BY <1>5, EndType DEF SignInBreaks
    <2> QED
        BY <1>5, <2>1 DEF SignInBreaks, TypeOK
<1>6. ASSUME NEW s \in Submissions, SignInSucceeds(s)
      PROVE  TypeOK'
    <2>1. submission' \in [Submissions -> {NoSubmission} \cup Submitted]
        BY <1>6, EndType DEF SignInSucceeds
    <2> QED
        BY <1>6, <2>1 DEF SignInSucceeds, TypeOK, CodeStatus
<1>7. ASSUME NEW c \in Codes, Exchange(c)
      PROVE  TypeOK'
    <2>1. PICK n \in 1..MaxUses :
              /\ grant' = [grant EXCEPT ![<<c, n>>] = "live"]
              /\ refresh' = [refresh EXCEPT ![<<c, n>>] = 1]
              /\ issued' = [issued EXCEPT ![<<c, n>>] = 1]
              /\ Answer(<<<<c, n>>, 1>>)
        BY <1>7 DEF Exchange
    <2>2. <<<<c, n>>, 1>> \in Tokens
        BY <1>m DEF Tokens, Grants
    <2>3. grant' \in [Grants -> GrantStatus] /\ code' \in [Codes -> CodeStatus]
        BY <1>7, <2>1 DEF Exchange, TypeOK, GrantStatus, CodeStatus
    <2>4. refresh' \in [Grants -> 0..MaxTokens] /\ issued' \in [Grants -> 0..MaxTokens]
        <3>1. <<c, n>> \in Grants
            BY DEF Grants
        <3> QED
            BY <2>1, <3>1, <1>m DEF TypeOK
    <2>5. known' \subseteq Tokens
        BY <2>1, <2>2 DEF Answer, TypeOK
    <2> QED
        BY <1>7, <2>3, <2>4, <2>5 DEF Exchange, TypeOK
<1>8. ASSUME NEW c \in Codes, Replay(c)
      PROVE  TypeOK'
    BY <1>8 DEF Replay, TypeOK, GrantStatus
<1>9. ASSUME NEW t \in Tokens, Refresh(t)
      PROVE  TypeOK'
    <2>1. GrantOf(t) \in Grants
        BY TokenParts
    <2>2. issued[GrantOf(t)] \in 0..MaxTokens /\ issued[GrantOf(t)] < MaxTokens
        BY <1>9, <2>1 DEF Refresh, TypeOK
    <2>3. issued[GrantOf(t)] + 1 \in 1..MaxTokens
        BY <2>2, <1>m
    <2>4. issued' = [issued EXCEPT ![GrantOf(t)] = issued[GrantOf(t)] + 1]
        BY <1>9 DEF Refresh
    <2>5. issued' \in [Grants -> 0..MaxTokens] /\ issued'[GrantOf(t)] \in 1..MaxTokens
        BY <2>1, <2>3, <2>4, <1>m DEF TypeOK
    <2>6. refresh' \in [Grants -> 0..MaxTokens]
        BY <1>9, <2>1, <2>5, <1>m DEF Refresh, TypeOK
    <2>7. known' \subseteq Tokens
        BY <1>9, <2>1, <2>5 DEF Refresh, Answer, Tokens, TypeOK
    <2> QED
        BY <1>9, <2>5, <2>6, <2>7 DEF Refresh, TypeOK
<1>10. ASSUME NEW t \in Tokens, RefreshRefused(t)
       PROVE  TypeOK'
    BY <1>10, TokenParts DEF RefreshRefused, TypeOK
<1>11. ASSUME NEW t \in Tokens, Revoke(t)
       PROVE  TypeOK'
    <2>1. GrantOf(t) \in Grants /\ 0 \in 0..MaxTokens
        BY TokenParts, <1>m
    <2> QED
        BY <1>11, <2>1 DEF Revoke, TypeOK, GrantStatus
<1>12. ASSUME NEW x \in Perishable, Lapse(x)
       PROVE  TypeOK'
    <2>1. x \in Codes \cup Grants \cup Tokens
        BY DEF Perishable, TypeOK
    <2> QED
        BY <1>12, <2>1 DEF Lapse, TypeOK
<1>13. ASSUME NEW v \in Calls, NEW t \in Tokens, CallArrives(v, t)
       PROVE  TypeOK'
    <2>1. [stage |-> "asked", token |-> t, dead |-> grant[GrantOf(t)] = "revoked"] \in CallInFlight
        BY DEF CallInFlight
    <2> QED
        BY <1>13, <2>1 DEF CallArrives, TypeOK
<1>14. ASSUME NEW v \in Calls, CallIsChecked(v)
       PROVE  TypeOK'
    <2>1. call[v] \in CallInFlight
        BY <1>14, CallParts DEF CallIsChecked
    <2>2. [call[v] EXCEPT !.stage = "accepted"] \in CallInFlight
        BY <2>1 DEF CallInFlight
    <2> QED
        BY <1>14, <2>2 DEF CallIsChecked, TypeOK
<1>15. ASSUME NEW v \in Calls, CallEnds(v)
       PROVE  TypeOK'
    BY <1>15 DEF CallEnds, TypeOK
<1>16. ASSUME ServerRestarts
       PROVE  TypeOK'
    <2>1. ASSUME NEW s \in Submissions, submission[s].stage = "signing-in"
          PROVE  [submission[s] EXCEPT !.stage = "done"] \in Submitted
        BY <2>1, SubmissionParts DEF Submitted
    <2>2. submission' \in [Submissions -> {NoSubmission} \cup Submitted]
        BY <1>16, <2>1 DEF ServerRestarts, TypeOK
    <2> QED
        BY <1>16, <2>2 DEF ServerRestarts, TypeOK
<1>17. CASE UNCHANGED vars
    BY <1>17 DEF vars, TypeOK
<1> QED
    BY <1>1, <1>2, <1>3, <1>4, <1>5, <1>6, <1>7, <1>8, <1>9, <1>10, <1>11, <1>12, <1>13,
       <1>14, <1>15, <1>16, <1>17 DEF Next

\* Requests, submissions, codes, grants, tokens and calls keep their types.
THEOREM TypeCorrect == Spec => []TypeOK
<1> QED
    BY TypeInit, TypeStep, PTL DEF Spec

-----------------------------------------------------------------------------
(* Revocation. *)

\* What an exchange and a replay do to the grants.
LEMMA ExchangeEffect ==
    ASSUME TypeOK, NEW c \in Codes, Exchange(c)
    PROVE  \E h \in Grants :
              /\ CodeOf(h) = c /\ grant[h] = "none"
              /\ grant' = [grant EXCEPT ![h] = "live"]
              /\ issued' = [issued EXCEPT ![h] = 1]
<1>1. PICK n \in 1..MaxUses :
          /\ grant[<<c, n>>] = "none"
          /\ grant' = [grant EXCEPT ![<<c, n>>] = "live"]
          /\ issued' = [issued EXCEPT ![<<c, n>>] = 1]
    BY DEF Exchange
<1>2. <<c, n>> \in Grants /\ CodeOf(<<c, n>>) = c
    BY DEF Grants, CodeOf
<1> QED
    BY <1>1, <1>2

LEMMA ReplayEffect ==
    ASSUME TypeOK, NEW c \in Codes, Replay(c), NEW g \in Grants
    PROVE  /\ grant'[g] = "none" <=> grant[g] = "none"
           /\ grant[g] = "revoked" => grant'[g] = "revoked"
           /\ grant'[g] = "live" => grant[g] = "live" /\ CodeOf(g) # c
<1>1. grant'[g] = IF g \in Derived(c) THEN "revoked" ELSE grant[g]
    BY DEF Replay
<1>2. g \in Derived(c) <=> grant[g] = "live" /\ OwnerOf(CodeOf(g)) = OwnerOf(c)
    BY DEF Derived
<1> QED
    BY <1>1, <1>2 DEF TypeOK, GrantStatus

\* A revoked grant stays revoked and issues nothing.
LEMMA RevokedStep ==
    ASSUME TypeOK, [Next]_vars, NEW g \in Grants, grant[g] = "revoked"
    PROVE  grant'[g] = "revoked" /\ issued'[g] = issued[g]
<1> USE DEF memoryVars, databaseVars, outsideVars, historyVars
<1>1. ASSUME NEW r \in Requests, Authorize(r) \/ Dismiss(r)
      PROVE  UNCHANGED <<grant, issued>>
    BY <1>1 DEF Authorize, Dismiss
<1>2. ASSUME NEW s \in Submissions, NEW r \in Requests, NEW u \in Subjects, Submit(s, r, u)
      PROVE  UNCHANGED <<grant, issued>>
    BY <1>2 DEF Submit
<1>3. ASSUME NEW s \in Submissions, SignInFails(s) \/ SignInBreaks(s) \/ SignInSucceeds(s)
      PROVE  UNCHANGED <<grant, issued>>
    BY <1>3 DEF SignInFails, SignInBreaks, SignInSucceeds
<1>4. ASSUME NEW c \in Codes, Exchange(c)
      PROVE  grant'[g] = "revoked" /\ issued'[g] = issued[g]
    BY <1>4, ExchangeEffect DEF TypeOK
<1>5. ASSUME NEW c \in Codes, Replay(c)
      PROVE  grant'[g] = "revoked" /\ issued'[g] = issued[g]
    BY <1>5, ReplayEffect DEF Replay
<1>6. ASSUME NEW t \in Tokens, Refresh(t)
      PROVE  grant'[g] = "revoked" /\ issued'[g] = issued[g]
    <2>1. GrantOf(t) # g
        BY <1>6 DEF Refresh, Refreshable
    <2> QED
        BY <1>6, <2>1 DEF Refresh, TypeOK
<1>7. ASSUME NEW t \in Tokens, RefreshRefused(t)
      PROVE  UNCHANGED <<grant, issued>>
    BY <1>7 DEF RefreshRefused
<1>8. ASSUME NEW t \in Tokens, Revoke(t)
      PROVE  grant'[g] = "revoked" /\ issued'[g] = issued[g]
    BY <1>8 DEF Revoke, TypeOK
<1>9. ASSUME NEW x \in Perishable, Lapse(x)
      PROVE  UNCHANGED <<grant, issued>>
    BY <1>9 DEF Lapse
<1>10. ASSUME NEW v \in Calls, NEW t \in Tokens, CallArrives(v, t)
       PROVE  UNCHANGED <<grant, issued>>
    BY <1>10 DEF CallArrives
<1>11. ASSUME NEW v \in Calls, CallIsChecked(v) \/ CallEnds(v)
       PROVE  UNCHANGED <<grant, issued>>
    BY <1>11 DEF CallIsChecked, CallEnds
<1>12. ASSUME ServerRestarts
       PROVE  UNCHANGED <<grant, issued>>
    BY <1>12 DEF ServerRestarts
<1>13. CASE UNCHANGED vars
    BY <1>13 DEF vars
<1> QED
    BY <1>1, <1>2, <1>3, <1>4, <1>5, <1>6, <1>7, <1>8, <1>9, <1>10, <1>11, <1>12, <1>13 DEF Next

\* Nothing brings a revoked grant back, and no further token comes from it: neither an
\* exchange nor the refresh hash that a replay leaves behind.
THEOREM RevocationIsFinal == Spec => RevokedIsFinal
<1>1. TypeOK /\ [Next]_vars =>
          [\A g \in Grants : grant[g] = "revoked" =>
               grant'[g] = "revoked" /\ issued'[g] = issued[g]]_vars
    BY RevokedStep
<1> QED
    BY <1>1, TypeCorrect, PTL DEF Spec, RevokedIsFinal

-----------------------------------------------------------------------------
(* Codes and the grants made from them. *)

CodeAfterSignIn ==
    \A s \in Submissions : submission[s].stage \in {"new", "signing-in"} => code[s] = "none"

GrantAfterUse == \A g \in Grants : grant[g] # "none" => code[CodeOf(g)] = "used"

ReplayAfterUse == \A c \in replayed : code[c] = "used"

DeadStaysDead ==
    \A v \in Calls :
        call[v].stage \in {"asked", "accepted"} /\ call[v].dead =>
            grant[GrantOf(call[v].token)] = "revoked"

Derivation ==
    /\ TypeOK
    /\ CodeAfterSignIn
    /\ GrantAfterUse
    /\ ReplayAfterUse
    /\ DeadStaysDead
    /\ OneGrantPerCode
    /\ ReplayRevokes
    /\ AcceptedWasLive

LEMMA DerivationInit == Init => Derivation
BY TypeInit
   DEF Init, Derivation, CodeAfterSignIn, GrantAfterUse, ReplayAfterUse, DeadStaysDead,
       OneGrantPerCode, ReplayRevokes, AcceptedWasLive, NoCall, Codes

\* A call in progress whose grant was dead stays so as long as calls do not move.
LEMMA CallsKeep ==
    ASSUME Derivation, [Next]_vars, UNCHANGED call
    PROVE  DeadStaysDead' /\ AcceptedWasLive'
<1>1. ASSUME NEW v \in Calls, call[v].stage \in {"asked", "accepted"}, call[v].dead
      PROVE  grant'[GrantOf(call[v].token)] = "revoked"
    <2>1. call[v] \in CallInFlight
        BY <1>1 DEF Derivation, TypeOK, NoCall
    <2>2. GrantOf(call[v].token) \in Grants
        BY <2>1, TokenParts DEF CallInFlight
    <2> QED
        BY <1>1, <2>2, RevokedStep DEF Derivation, DeadStaysDead
<1> QED
    BY <1>1 DEF Derivation, DeadStaysDead, AcceptedWasLive

\* The conjuncts about codes and grants depend on nothing else.
LEMMA CodesKeep ==
    ASSUME Derivation, UNCHANGED <<code, grant, replayed>>
    PROVE  GrantAfterUse' /\ ReplayAfterUse' /\ OneGrantPerCode' /\ ReplayRevokes'
BY DEF Derivation, GrantAfterUse, ReplayAfterUse, OneGrantPerCode, ReplayRevokes

LEMMA DerivationStep == Derivation /\ [Next]_vars => Derivation'
<1> SUFFICES ASSUME Derivation, [Next]_vars
             PROVE  Derivation'
    OBVIOUS
<1> USE DEF memoryVars, databaseVars, outsideVars, historyVars
<1>t. TypeOK /\ TypeOK'
    BY TypeStep DEF Derivation
<1>k. CASE UNCHANGED <<submission, code, grant, replayed, call>>
    BY <1>k, <1>t, CodesKeep, CallsKeep DEF Derivation, CodeAfterSignIn
<1>1. ASSUME NEW r \in Requests, Authorize(r) \/ Dismiss(r)
      PROVE  Derivation'
    BY <1>1, <1>k DEF Authorize, Dismiss
<1>2. ASSUME NEW s \in Submissions, NEW r \in Requests, NEW u \in Subjects, Submit(s, r, u)
      PROVE  Derivation'
    <2>1. CodeAfterSignIn'
        BY <1>2, <1>t DEF Submit, Derivation, CodeAfterSignIn, TypeOK, NoSubmission
    <2>2. UNCHANGED <<code, grant, replayed, call>>
        BY <1>2 DEF Submit
    <2> QED
        BY <1>t, <2>1, <2>2, CodesKeep, CallsKeep DEF Derivation
<1>3. ASSUME NEW s \in Submissions, SignInFails(s) \/ SignInBreaks(s)
      PROVE  Derivation'
    <2>1. /\ UNCHANGED <<code, grant, replayed, call>>
          /\ submission[s].stage = "signing-in"
          /\ \A x \in Submissions : x # s => submission'[x] = submission[x]
        BY <1>3, <1>t DEF SignInFails, SignInBreaks, SignInEnds, TypeOK
    <2>2. CodeAfterSignIn'
        BY <2>1 DEF Derivation, CodeAfterSignIn
    <2> QED
        BY <1>t, <2>1, <2>2, CodesKeep, CallsKeep DEF Derivation
<1>4. ASSUME NEW s \in Submissions, SignInSucceeds(s)
      PROVE  Derivation'
    <2>1. /\ UNCHANGED <<grant, replayed, call>>
          /\ submission[s].stage = "signing-in" /\ code[s] = "none"
          /\ code' = [code EXCEPT ![s] = "fresh"]
        BY <1>4 DEF SignInSucceeds, SignInEnds, Derivation, CodeAfterSignIn
    <2>2. /\ \A x \in Submissions : x # s => submission'[x] = submission[x]
          /\ submission'[s].stage = "done"
        <3>1. submission[s] \in Submitted
            BY <1>t, <2>1, SubmissionParts
        <3> QED
            BY <1>4, <1>t, <3>1 DEF SignInSucceeds, SignInEnds, TypeOK, Submitted
    <2>3. \A x \in Codes : x # s => code'[x] = code[x]
        BY <1>t, <2>1 DEF TypeOK
    <2>4. CodeAfterSignIn'
        BY <2>2, <2>3 DEF Derivation, CodeAfterSignIn, Codes
    <2>5. GrantAfterUse'
        BY <2>1, <2>3, GrantParts DEF Derivation, GrantAfterUse
    <2>6. ReplayAfterUse'
        BY <1>t, <2>1, <2>3 DEF Derivation, ReplayAfterUse, TypeOK
    <2>7. OneGrantPerCode' /\ ReplayRevokes'
        BY <2>1 DEF Derivation, OneGrantPerCode, ReplayRevokes
    <2> QED
        BY <1>t, <2>1, <2>4, <2>5, <2>6, <2>7, CallsKeep DEF Derivation
<1>5. ASSUME NEW c \in Codes, Exchange(c)
      PROVE  Derivation'
    <2>1. /\ UNCHANGED <<submission, replayed, call>>
          /\ code[c] = "fresh" /\ code' = [code EXCEPT ![c] = "used"]
        BY <1>5 DEF Exchange
    <2>2. /\ \A x \in Codes : x # c => code'[x] = code[x]
          /\ code'[c] = "used"
        BY <1>t, <2>1 DEF TypeOK
    <2>3. PICK h \in Grants : /\ CodeOf(h) = c /\ grant[h] = "none"
                              /\ grant' = [grant EXCEPT ![h] = "live"]
        BY <1>5, <1>t, ExchangeEffect
    <2>4. \A g \in Grants : g # h => grant'[g] = grant[g]
        BY <1>t, <2>3 DEF TypeOK
    <2>5. \A g \in Grants : CodeOf(g) = c => grant[g] = "none"
        BY <2>1 DEF Derivation, GrantAfterUse
    <2>6. CodeAfterSignIn'
        BY <2>1, <2>2 DEF Derivation, CodeAfterSignIn, Codes
    <2>7. GrantAfterUse'
        BY <2>2, <2>3, <2>4, GrantParts DEF Derivation, GrantAfterUse
    <2>8. ReplayAfterUse'
        BY <1>t, <2>1, <2>2 DEF Derivation, ReplayAfterUse, TypeOK
    <2>9. OneGrantPerCode'
        BY <2>3, <2>4, <2>5 DEF Derivation, OneGrantPerCode
    <2>10. c \notin replayed
        BY <2>1 DEF Derivation, ReplayAfterUse
    <2>11. ReplayRevokes'
        BY <2>1, <2>3, <2>4, <2>10 DEF Derivation, ReplayRevokes
    <2> QED
        BY <1>t, <2>1, <2>6, <2>7, <2>8, <2>9, <2>11, CallsKeep DEF Derivation
<1>6. ASSUME NEW c \in Codes, Replay(c)
      PROVE  Derivation'
    <2>1. /\ UNCHANGED <<submission, code, call>>
          /\ code[c] = "used" /\ replayed' = replayed \cup {c}
        BY <1>6 DEF Replay
    <2>2. \A g \in Grants : /\ grant'[g] = "none" <=> grant[g] = "none"
                            /\ grant'[g] = "live" => grant[g] = "live" /\ CodeOf(g) # c
        BY <1>6, <1>t, ReplayEffect
    <2>3. CodeAfterSignIn'
        BY <2>1 DEF Derivation, CodeAfterSignIn
    <2>4. GrantAfterUse'
        BY <2>1, <2>2 DEF Derivation, GrantAfterUse
    <2>5. ReplayAfterUse'
        BY <2>1 DEF Derivation, ReplayAfterUse
    <2>6. OneGrantPerCode'
        BY <2>2 DEF Derivation, OneGrantPerCode
    <2>7. ReplayRevokes'
        BY <2>1, <2>2 DEF Derivation, ReplayRevokes
    <2> QED
        BY <1>t, <2>1, <2>3, <2>4, <2>5, <2>6, <2>7, CallsKeep DEF Derivation
<1>7. ASSUME NEW t \in Tokens, Refresh(t) \/ RefreshRefused(t)
      PROVE  Derivation'
    BY <1>7, <1>k DEF Refresh, RefreshRefused
<1>8. ASSUME NEW t \in Tokens, Revoke(t)
      PROVE  Derivation'
    <2>1. /\ UNCHANGED <<submission, code, replayed, call>>
          /\ grant[GrantOf(t)] = "live" /\ grant' = [grant EXCEPT ![GrantOf(t)] = "revoked"]
        BY <1>8 DEF Revoke
    <2>2. \A g \in Grants : /\ grant'[g] = "none" <=> grant[g] = "none"
                            /\ grant'[g] = "live" => grant[g] = "live"
        BY <1>t, <2>1 DEF TypeOK
    <2>3. CodeAfterSignIn' /\ ReplayAfterUse'
        BY <2>1 DEF Derivation, CodeAfterSignIn, ReplayAfterUse
    <2>4. GrantAfterUse' /\ OneGrantPerCode' /\ ReplayRevokes'
        BY <2>1, <2>2 DEF Derivation, GrantAfterUse, OneGrantPerCode, ReplayRevokes
    <2> QED
        BY <1>t, <2>1, <2>3, <2>4, CallsKeep DEF Derivation
<1>9. ASSUME NEW x \in Perishable, Lapse(x)
      PROVE  Derivation'
    BY <1>9, <1>k DEF Lapse
<1>10. ASSUME NEW v \in Calls, NEW t \in Tokens, CallArrives(v, t)
       PROVE  Derivation'
    <2>1. /\ UNCHANGED <<submission, code, grant, replayed>>
          /\ \A w \in Calls : w # v => call'[w] = call[w]
          /\ call'[v] = [stage |-> "asked", token |-> t, dead |-> grant[GrantOf(t)] = "revoked"]
        BY <1>10, <1>t DEF CallArrives, TypeOK
    <2>2. /\ call'[v].stage = "asked" /\ call'[v].token = t
          /\ call'[v].dead = (grant[GrantOf(t)] = "revoked")
        <3>1. ASSUME NEW d
              PROVE  LET c == [stage |-> "asked", token |-> t, dead |-> d]
                     IN  c.stage = "asked" /\ c.token = t /\ c.dead = d
            OBVIOUS
        <3> QED
            BY <2>1, <3>1, ZenonT(40)
    <2>3. ASSUME NEW w \in Calls, call'[w].stage \in {"asked", "accepted"}, call'[w].dead
          PROVE  grant'[GrantOf(call'[w].token)] = "revoked"
        <3>1. CASE w = v
            BY <2>1, <2>2, <2>3, <3>1, Zenon
        <3>2. CASE w # v
            BY <2>1, <2>3, <3>2, Zenon DEF Derivation, DeadStaysDead
        <3> QED
            BY <3>1, <3>2
    <2>4. AcceptedWasLive'
        BY <2>1, <2>2 DEF Derivation, AcceptedWasLive
    <2>5. DeadStaysDead' /\ AcceptedWasLive'
        BY <2>3, <2>4, Zenon DEF DeadStaysDead
    <2> QED
        BY <1>t, <2>1, <2>5, CodesKeep DEF Derivation, CodeAfterSignIn
<1>11. ASSUME NEW v \in Calls, CallIsChecked(v)
       PROVE  Derivation'
    <2>1. /\ UNCHANGED <<submission, code, grant, replayed>>
          /\ call[v].stage = "asked"
          /\ \A w \in Calls : w # v => call'[w] = call[w]
          /\ call'[v] = IF Active(GrantOf(call[v].token))
                        THEN [call[v] EXCEPT !.stage = "accepted"] ELSE NoCall
        BY <1>11, <1>t DEF CallIsChecked, TypeOK
    <2>2. call[v] \in CallInFlight
        BY <1>t, <2>1, CallParts
    <2>3. ASSUME Active(GrantOf(call[v].token))
          PROVE  /\ call'[v].token = call[v].token /\ call'[v].dead = call[v].dead
                 /\ ~call[v].dead
        <3>1. grant[GrantOf(call[v].token)] # "revoked"
            BY <2>3 DEF Active
        <3>2. call'[v] = [call[v] EXCEPT !.stage = "accepted"]
            BY <2>1, <2>3
        <3> QED
            BY <2>1, <2>2, <3>1, <3>2 DEF Derivation, DeadStaysDead, CallInFlight
    <2>4. ASSUME ~Active(GrantOf(call[v].token))
          PROVE  call'[v].stage = "idle"
        BY <2>1, <2>4 DEF NoCall
    <2>5. DeadStaysDead' /\ AcceptedWasLive'
        BY <2>1, <2>3, <2>4 DEF Derivation, DeadStaysDead, AcceptedWasLive
    <2> QED
        BY <1>t, <2>1, <2>5, CodesKeep DEF Derivation, CodeAfterSignIn
<1>12. ASSUME NEW v \in Calls, CallEnds(v)
       PROVE  Derivation'
    <2>1. /\ UNCHANGED <<submission, code, grant, replayed>>
          /\ \A w \in Calls : w # v => call'[w] = call[w]
          /\ call'[v].stage = "idle"
        BY <1>12, <1>t DEF CallEnds, TypeOK, NoCall
    <2>2. DeadStaysDead' /\ AcceptedWasLive'
        BY <2>1 DEF Derivation, DeadStaysDead, AcceptedWasLive
    <2> QED
        BY <1>t, <2>1, <2>2, CodesKeep DEF Derivation, CodeAfterSignIn
<1>13. ASSUME ServerRestarts
       PROVE  Derivation'
    <2>1. UNCHANGED <<code, grant, replayed, call>>
        BY <1>13 DEF ServerRestarts
    <2>2. \A s \in Submissions : submission'[s].stage \in {"new", "signing-in"} =>
              submission[s].stage \in {"new", "signing-in"}
        BY <1>13 DEF ServerRestarts
    <2>3. CodeAfterSignIn'
        BY <2>1, <2>2 DEF Derivation, CodeAfterSignIn
    <2> QED
        BY <1>t, <2>1, <2>3, CodesKeep, CallsKeep DEF Derivation
<1>14. CASE UNCHANGED vars
    BY <1>14, <1>k DEF vars
<1> QED
    BY <1>1, <1>2, <1>3, <1>4, <1>5, <1>6, <1>7, <1>8, <1>9, <1>10, <1>11, <1>12, <1>13,
       <1>14 DEF Next

LEMMA DerivationHolds == Spec => []Derivation
BY DerivationInit, DerivationStep, PTL DEF Spec

\* One authorization code makes at most one grant.
THEOREM CodesAreSingleUse == Spec => []OneGrantPerCode
<1>1. Derivation => OneGrantPerCode
    BY DEF Derivation
<1> QED
    BY <1>1, DerivationHolds, PTL

\* Once a code has been replayed, no grant made from it is live, then or later.
THEOREM ReplayEndsTheGrant == Spec => []ReplayRevokes
<1>1. Derivation => ReplayRevokes
    BY DEF Derivation
<1> QED
    BY <1>1, DerivationHolds, PTL

\* The gateway accepts no call that arrived after its grant was revoked.
THEOREM RevokedIsNotAccepted == Spec => []AcceptedWasLive
<1>1. Derivation => AcceptedWasLive
    BY DEF Derivation
<1> QED
    BY <1>1, DerivationHolds, PTL

-----------------------------------------------------------------------------
(* Counting failures. *)

Counted == \A r \in Requests : attempts[r] = Cardinality(FailedFor(r))

LimitLeaves == \A r \in Requests : attempts[r] >= MaxSignIns => r \notin pending

HeldAreBorn == \A r \in pending : born[r] > 0

SubmittedAreBorn ==
    \A s \in Submissions : submission[s].stage # "new" => born[submission[s].request] > 0

Counting == TypeOK /\ Counted /\ LimitLeaves /\ HeldAreBorn /\ SubmittedAreBorn

LEMMA CountingInit == Init => Counting
<1> SUFFICES ASSUME Init PROVE Counting
    OBVIOUS
<1>1. TypeOK
    BY TypeInit
<1>2. \A r \in Requests : FailedFor(r) = {}
    BY DEF Init, FailedFor, NoSubmission
<1>3. Counted
    BY <1>2, FS_EmptySet DEF Counted, Init
<1> QED
    BY <1>1, <1>3 DEF Counting, Init, LimitLeaves, HeldAreBorn, SubmittedAreBorn, NoSubmission

\* Steps that touch neither the store of requests nor the submissions.
LEMMA CountingKeeps ==
    ASSUME Counting, TypeOK', UNCHANGED memoryVars
    PROVE  Counting'
BY DEF Counting, Counted, LimitLeaves, HeldAreBorn, SubmittedAreBorn, FailedFor, memoryVars

\* A submission that ends without a failure is counted nowhere.
LEMMA CountedKeeps ==
    ASSUME Counting, UNCHANGED attempts, NEW s \in Submissions,
           submission[s].stage # "failed", submission'[s].stage # "failed",
           \A x \in Submissions : x # s => submission'[x] = submission[x]
    PROVE  Counted'
<1>1. \A r \in Requests : FailedFor(r)' = FailedFor(r)
    BY DEF FailedFor
<1> QED
    BY <1>1 DEF Counting, Counted

LEMMA CountingStep == Counting /\ [Next]_vars => Counting'
<1> SUFFICES ASSUME Counting, [Next]_vars
             PROVE  Counting'
    OBVIOUS
<1> USE DEF memoryVars, databaseVars, outsideVars, historyVars
<1>t. TypeOK /\ TypeOK'
    BY TypeStep DEF Counting
<1>1. ASSUME NEW r \in Requests, Authorize(r)
      PROVE  Counting'
    <2>1. /\ UNCHANGED <<attempts, submission>>
          /\ born[r] = 0
          /\ born'[r] > 0
          /\ \A x \in Requests : x # r => born'[x] = born[x]
        <3> DEFINE position == 1 + Cardinality({x \in Requests : born[x] > 0})
        <3>1. position > 0
            BY NumberOfBirths
        <3>2. UNCHANGED <<attempts, submission>> /\ born[r] = 0 /\ born' = [born EXCEPT ![r] = position]
            BY <1>1 DEF Authorize
        <3> HIDE DEF position
        <3> QED
            BY <1>t, <3>1, <3>2 DEF TypeOK
    <2>2. pending' \subseteq pending \cup {r}
        BY <1>1 DEF Authorize
    <2>3. Counted'
        BY <2>1 DEF Counting, Counted, FailedFor
    <2>4. FailedFor(r) = {}
        BY <2>1 DEF Counting, SubmittedAreBorn, FailedFor
    <2>5. attempts[r] = 0
        BY <2>4, FS_EmptySet DEF Counting, Counted
    <2>6. LimitLeaves'
        BY <2>1, <2>2, <2>5, AuthGrantsAssumption DEF Counting, LimitLeaves, AuthGrantsAssumption
    <2>7. HeldAreBorn'
        BY <1>t, <2>1, <2>2 DEF Counting, HeldAreBorn, TypeOK
    <2>8. SubmittedAreBorn'
        <3>1. ASSUME NEW s \in Submissions, submission[s].stage # "new"
              PROVE  submission[s].request \in Requests
            BY <1>t, <3>1 DEF TypeOK, NoSubmission, Submitted
        <3> QED
            BY <2>1, <3>1 DEF Counting, SubmittedAreBorn
    <2> QED
        BY <1>t, <2>3, <2>6, <2>7, <2>8 DEF Counting
<1>2. ASSUME NEW r \in Requests, Dismiss(r)
      PROVE  Counting'
    BY <1>2, <1>t
       DEF Dismiss, Counting, Counted, FailedFor, LimitLeaves, HeldAreBorn, SubmittedAreBorn
<1>3. ASSUME NEW s \in Submissions, NEW r \in Requests, NEW u \in Subjects, Submit(s, r, u)
      PROVE  Counting'
    <2>1. /\ UNCHANGED <<pending, born, attempts>>
          /\ submission[s].stage = "new" /\ r \in pending
          /\ submission'[s] = [stage |-> "signing-in", request |-> r, subject |-> u]
          /\ \A x \in Submissions : x # s => submission'[x] = submission[x]
        BY <1>3, <1>t DEF Submit, TypeOK, NoSubmission
    <2>2. Counted'
        BY <2>1, CountedKeeps
    <2>3. LimitLeaves' /\ HeldAreBorn'
        BY <2>1 DEF Counting, LimitLeaves, HeldAreBorn
    <2>4. SubmittedAreBorn'
        BY <2>1 DEF Counting, HeldAreBorn, SubmittedAreBorn
    <2> QED
        BY <1>t, <2>2, <2>3, <2>4 DEF Counting
<1>4. ASSUME NEW s \in Submissions, SignInFails(s)
      PROVE  Counting'
    <2>0. submission[s].request \in Requests
        BY <1>4, <1>t, SubmissionParts DEF SignInFails, SignInEnds
    <2> PICK q \in Requests : q = submission[s].request
        BY <2>0
    <2>1. submission[s] \in Submitted /\ q \in Requests /\ submission[s].stage = "signing-in"
        BY <1>4, <1>t, SubmissionParts DEF SignInFails, SignInEnds
    <2>2. /\ UNCHANGED born
          /\ attempts' = [attempts EXCEPT ![q] = attempts[q] + 1]
          /\ pending' = IF attempts'[q] >= MaxSignIns THEN pending \ {q} ELSE pending
          /\ submission' = [submission EXCEPT ![s] = [submission[s] EXCEPT !.stage = "failed"]]
        BY <1>4 DEF SignInFails, SignInEnds, Count
    <2>3. /\ submission'[s].stage = "failed" /\ submission'[s].request = q
          /\ \A x \in Submissions : x # s => submission'[x] = submission[x]
        BY <1>t, <2>1, <2>2 DEF TypeOK, Submitted
    <2>4. Counted'
        <3>1. FailedFor(q)' = FailedFor(q) \cup {s} /\ s \notin FailedFor(q)
            BY <2>1, <2>3 DEF FailedFor
        <3>2. \A r \in Requests : r # q => FailedFor(r)' = FailedFor(r)
            BY <2>1, <2>3 DEF FailedFor
        <3>3. IsFiniteSet(FailedFor(q))
            BY AuthGrantsAssumption, FS_Subset DEF AuthGrantsAssumption, FailedFor
        <3>4. Cardinality(FailedFor(q)') = Cardinality(FailedFor(q)) + 1
            BY <3>1, <3>3, FS_AddElement
        <3>5. /\ attempts'[q] = attempts[q] + 1
              /\ \A r \in Requests : r # q => attempts'[r] = attempts[r]
            BY <1>t, <2>1, <2>2 DEF TypeOK
        <3>6. attempts'[q] = Cardinality(FailedFor(q)')
            BY <2>1, <3>4, <3>5 DEF Counting, Counted
        <3>7. ASSUME NEW r \in Requests, r # q
              PROVE  attempts'[r] = Cardinality(FailedFor(r)')
            BY <3>2, <3>5, <3>7 DEF Counting, Counted
        <3>8. \A r \in Requests : attempts'[r] = Cardinality(FailedFor(r)')
            BY <3>6, <3>7, Zenon
        <3> QED
            BY <3>8, Zenon DEF Counted
    <2>5. LimitLeaves'
        BY <1>t, <2>1, <2>2 DEF Counting, LimitLeaves, TypeOK
    <2>6. HeldAreBorn' /\ SubmittedAreBorn'
        BY <2>1, <2>2, <2>3 DEF Counting, HeldAreBorn, SubmittedAreBorn
    <2> QED
        BY <1>t, <2>4, <2>5, <2>6 DEF Counting
<1>5. ASSUME NEW s \in Submissions, SignInBreaks(s) \/ SignInSucceeds(s)
      PROVE  Counting'
    <2>1. submission[s] \in Submitted /\ submission[s].stage = "signing-in"
        BY <1>5, <1>t, SubmissionParts DEF SignInBreaks, SignInSucceeds, SignInEnds
    <2>2. /\ UNCHANGED <<born, attempts>>
          /\ pending' \subseteq pending
          /\ submission' = [submission EXCEPT ![s] = [submission[s] EXCEPT !.stage = "done"]]
        BY <1>5 DEF SignInBreaks, SignInSucceeds, SignInEnds
    <2>3. /\ submission'[s].stage = "done" /\ submission'[s].request = submission[s].request
          /\ \A x \in Submissions : x # s => submission'[x] = submission[x]
        BY <1>t, <2>1, <2>2 DEF TypeOK, Submitted
    <2>4. Counted'
        BY <2>1, <2>2, <2>3, CountedKeeps
    <2>5. LimitLeaves' /\ HeldAreBorn' /\ SubmittedAreBorn'
        BY <2>1, <2>2, <2>3 DEF Counting, LimitLeaves, HeldAreBorn, SubmittedAreBorn
    <2> QED
        BY <1>t, <2>4, <2>5 DEF Counting
<1>6. ASSUME NEW c \in Codes, Exchange(c) \/ Replay(c)
      PROVE  Counting'
    BY <1>6, <1>t, CountingKeeps DEF Exchange, Replay
<1>7. ASSUME NEW t \in Tokens, Refresh(t) \/ RefreshRefused(t) \/ Revoke(t)
      PROVE  Counting'
    BY <1>7, <1>t, CountingKeeps DEF Refresh, RefreshRefused, Revoke
<1>8. ASSUME NEW x \in Perishable, Lapse(x)
      PROVE  Counting'
    BY <1>8, <1>t, CountingKeeps DEF Lapse
<1>9. ASSUME NEW v \in Calls, NEW t \in Tokens, CallArrives(v, t)
      PROVE  Counting'
    BY <1>9, <1>t, CountingKeeps DEF CallArrives
<1>10. ASSUME NEW v \in Calls, CallIsChecked(v) \/ CallEnds(v)
       PROVE  Counting'
    BY <1>10, <1>t, CountingKeeps DEF CallIsChecked, CallEnds
<1>11. ASSUME ServerRestarts
       PROVE  Counting'
    <2>1. UNCHANGED <<born, attempts>> /\ pending' = {}
        BY <1>11 DEF ServerRestarts
    <2>2. ASSUME NEW s \in Submissions
          PROVE  /\ submission'[s].stage = "failed" <=> submission[s].stage = "failed"
                 /\ submission'[s].stage # "new" => submission[s].stage # "new"
                 /\ submission'[s].stage # "new" =>
                        submission'[s].request = submission[s].request
        <3>1. CASE submission[s].stage = "signing-in"
            <4>1. submission[s] \in Submitted
                BY <1>t, <3>1, SubmissionParts
            <4>2. submission'[s] = [submission[s] EXCEPT !.stage = "done"]
                BY <1>11, <3>1 DEF ServerRestarts
            <4> QED
                BY <3>1, <4>1, <4>2 DEF Submitted
        <3>2. CASE submission[s].stage # "signing-in"
            BY <1>11, <3>2 DEF ServerRestarts
        <3> QED
            BY <3>1, <3>2
    <2>3. \A r \in Requests : FailedFor(r)' = FailedFor(r)
        BY <2>2 DEF FailedFor
    <2>4. Counted'
        BY <2>1, <2>3 DEF Counting, Counted
    <2> QED
        BY <1>t, <2>1, <2>2, <2>4
           DEF Counting, LimitLeaves, HeldAreBorn, SubmittedAreBorn
<1>12. CASE UNCHANGED vars
    BY <1>12, <1>t, CountingKeeps DEF vars
<1> QED
    BY <1>1, <1>2, <1>3, <1>4, <1>5, <1>6, <1>7, <1>8, <1>9, <1>10, <1>11, <1>12 DEF Next

\* A request against which the allowed number of sign-ins failed, overlapping or not, is
\* never in the store again.
THEOREM BurnedStaysBurned == Spec => []BurnedIsGone
<1>1. Counting => BurnedIsGone
    BY DEF Counting, Counted, LimitLeaves, BurnedIsGone
<1> QED
    BY <1>1, CountingInit, CountingStep, PTL DEF Spec

=============================================================================
