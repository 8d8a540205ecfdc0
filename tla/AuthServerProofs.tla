-------------------------- MODULE AuthServerProofs --------------------------
(* What SigningKeys, SignInThrottle and ClientMetadata promise, for any keys, periods, limits,
   clients and number of attempts. *)
EXTENDS SigningKeys, SignInThrottle, ClientMetadata, FiniteSetTheorems, TLAPS

-----------------------------------------------------------------------------
(* SigningKeys. *)

KeyTypeOK ==
    /\ now \in Nat
    /\ made \subseteq Kids /\ active \subseteq made
    /\ retires \in [Kids -> Nat] /\ created \in [Kids -> Nat] /\ expiry \in [Kids -> Nat]
    /\ keySet \in [loaded : BOOLEAN, kids : SUBSET Kids, known : SUBSET Kids]

\* A token is dated before its key's period ends, and a little later at most.
TokensEndInTime ==
    \A k \in Kids : expiry[k] # 0 =>
        k \in made /\ expiry[k] < retires[k] + MintDelay + AccessTTL

\* The keys the gateway was not told of, among those that existed, sign nothing any more.
UnknownKeysAreOver ==
    keySet.loaded =>
        /\ keySet.known \subseteq made
        /\ \A k \in keySet.known \ keySet.kids : retires[k] <= now /\ expiry[k] <= now

SignInv == KeyTypeOK /\ TokensEndInTime /\ UnknownKeysAreOver

\* What active_key does to the table: rows stay as they are, and the key it returns has
\* time left.
LEMMA ActiveKeyStep ==
    ASSUME KeyTypeOK, NEW k \in Kids, ActiveKey(k)
    PROVE  /\ made \subseteq made' /\ made' \subseteq Kids /\ active' \subseteq made'
           /\ retires' \in [Kids -> Nat] /\ created' \in [Kids -> Nat]
           /\ \A j \in made : retires'[j] = retires[j]
           /\ k \in made' /\ retires'[k] > now
           /\ k \in made => retires[k] > now
<1>1. CASE UseKey(k)
  BY <1>1 DEF UseKey, Current, KeyTypeOK, keyVars
<1>2. CASE MakeKey(k)
  BY <1>2, SigningKeysAssumption DEF MakeKey, KeyTypeOK
<1> QED  BY <1>1, <1>2 DEF ActiveKey

LEMMA LiveIsPublished ==
    ASSUME KeyTypeOK, TokensEndInTime PROVE PublishedCoversLive
<1> SUFFICES ASSUME NEW k \in Kids, expiry[k] > now PROVE k \in PublishedKeys
  BY DEF PublishedCoversLive, LiveKeys, Verifies
<1>1. k \in made /\ expiry[k] < retires[k] + MintDelay + AccessTTL
  BY DEF KeyTypeOK, TokensEndInTime
<1> QED  BY <1>1, SigningKeysAssumption DEF PublishedKeys, KeyTypeOK

LEMMA SignInvInit == SignInit => SignInv
  BY DEF SignInit, SignInv, KeyTypeOK, TokensEndInTime, UnknownKeysAreOver, NoSet

LEMMA SignInvStep == SignInv /\ [SignNext]_signVars => SignInv'
<1> SUFFICES ASSUME SignInv, [SignNext]_signVars PROVE SignInv'
  OBVIOUS
<1>0. KeyTypeOK /\ TokensEndInTime /\ UnknownKeysAreOver
  BY DEF SignInv
<1> USE SigningKeysAssumption
<1>1. CASE Tick
  BY <1>0, <1>1
  DEF Tick, keyVars, SignInv, KeyTypeOK, TokensEndInTime, UnknownKeysAreOver
<1>2. ASSUME NEW k \in Kids, NEW delay \in 0..MintDelay, Mint(k, delay) PROVE SignInv'
  <2> DEFINE end == now + delay + AccessTTL
  <2>1. ActiveKey(k) /\ UNCHANGED <<now, keySet>>
    BY <1>2 DEF Mint
  <2>2. /\ expiry' = [expiry EXCEPT ![k] = IF end > @ THEN end ELSE @]
        /\ end \in Nat /\ end # 0
    BY <1>0, <1>2 DEF Mint, KeyTypeOK
  <2>3. KeyTypeOK'
    BY <1>0, <2>1, <2>2, ActiveKeyStep DEF KeyTypeOK
  <2>4. TokensEndInTime'
    <3>1. ASSUME NEW j \in Kids \ {k}, expiry'[j] # 0
          PROVE  j \in made' /\ expiry'[j] < retires'[j] + MintDelay + AccessTTL
      BY <1>0, <2>1, <2>2, <3>1, ActiveKeyStep DEF KeyTypeOK, TokensEndInTime
    <3>2. end < retires'[k] + MintDelay + AccessTTL
      <4>1. retires'[k] > now /\ retires'[k] \in Nat /\ now \in Nat
        BY <1>0, <2>1, ActiveKeyStep DEF KeyTypeOK
      <4> QED  BY <4>1
    <3>3. expiry[k] # 0 => expiry[k] < retires'[k] + MintDelay + AccessTTL
      BY <1>0, <2>1, ActiveKeyStep DEF KeyTypeOK, TokensEndInTime
    <3>4. k \in made' /\ expiry'[k] < retires'[k] + MintDelay + AccessTTL
      <4>1. expiry'[k] = end \/ (expiry'[k] = expiry[k] /\ expiry[k] # 0)
        BY <1>0, <2>2 DEF KeyTypeOK
      <4> QED  BY <1>0, <2>1, <3>2, <3>3, <4>1, ActiveKeyStep
    <3> QED  BY <3>1, <3>4 DEF TokensEndInTime
  <2>5. UnknownKeysAreOver'
    <3> SUFFICES ASSUME keySet.loaded
                 PROVE  /\ keySet.known \subseteq made'
                        /\ \A j \in keySet.known \ keySet.kids :
                              retires'[j] <= now /\ expiry'[j] <= now
      BY <2>1 DEF UnknownKeysAreOver
    <3>1. k \notin keySet.known \ keySet.kids
      BY <1>0, <2>1, ActiveKeyStep DEF UnknownKeysAreOver, KeyTypeOK
    <3> QED
      BY <1>0, <2>1, <2>2, <3>1, ActiveKeyStep DEF UnknownKeysAreOver, KeyTypeOK
  <2> QED  BY <2>3, <2>4, <2>5 DEF SignInv
<1>3. ASSUME NEW k \in Kids, ActiveKey(k), UNCHANGED <<now, expiry>>,
             keySet' = keySet
                 \/ keySet' = [loaded |-> TRUE, kids |-> PublishedKeys', known |-> made']
      PROVE  SignInv'
  <2>1. TokensEndInTime'
    BY <1>0, <1>3, ActiveKeyStep DEF KeyTypeOK, TokensEndInTime
  <2>2. CASE keySet' = keySet
    <3>1. KeyTypeOK'
      BY <1>0, <1>3, <2>2, ActiveKeyStep DEF KeyTypeOK
    <3>2. UnknownKeysAreOver'
      BY <1>0, <1>3, <2>2, ActiveKeyStep DEF KeyTypeOK, UnknownKeysAreOver
    <3> QED  BY <2>1, <3>1, <3>2 DEF SignInv
  <2>3. CASE keySet' = [loaded |-> TRUE, kids |-> PublishedKeys', known |-> made']
    <3>1. KeyTypeOK'
      BY <1>0, <1>3, <2>3, ActiveKeyStep DEF KeyTypeOK, PublishedKeys
    <3>2. PublishedCoversLive'
      BY <2>1, <3>1, LiveIsPublished, PTL
    <3>3. ASSUME NEW j \in made' \ PublishedKeys' PROVE retires'[j] <= now' /\ expiry'[j] <= now'
      <4>1. j \in Kids /\ retires'[j] \in Nat /\ expiry'[j] \in Nat /\ now' \in Nat
        BY <3>1 DEF KeyTypeOK
      <4>2. ~(retires'[j] + Published > now')
        BY <3>3 DEF PublishedKeys
      <4>3. ~(expiry'[j] > now')
        BY <3>2, <4>1 DEF PublishedCoversLive, LiveKeys, Verifies
      <4> QED  BY <4>1, <4>2, <4>3
    <3>4. UnknownKeysAreOver'
      BY <2>3, <3>3 DEF UnknownKeysAreOver
    <3> QED  BY <2>1, <3>1, <3>4 DEF SignInv
  <2> QED  BY <1>3, <2>2, <2>3
<1>4. ASSUME NEW k \in Kids, PublishTo(k) PROVE SignInv'
  BY <1>3, <1>4 DEF PublishTo
<1>5. ASSUME NEW k \in Kids, GatewayLoads(k) PROVE SignInv'
  BY <1>3, <1>5 DEF GatewayLoads
<1>6. CASE GatewayRestarts
  BY <1>0, <1>6
  DEF GatewayRestarts, NoSet, keyVars, SignInv, KeyTypeOK, TokensEndInTime, UnknownKeysAreOver
<1>7. CASE UNCHANGED signVars
  BY <1>0, <1>7
  DEF signVars, keyVars, SignInv, KeyTypeOK, TokensEndInTime, UnknownKeysAreOver
<1> QED  BY <1>1, <1>2, <1>4, <1>5, <1>6, <1>7 DEF SignNext

\* Whoever asks for the key set can verify every token that has not expired, if access
\* tokens live no longer than retired keys are published.
THEOREM PublishedKeysSuffice == SignSpec => []PublishedCoversLive
<1>1. SignInit => SignInv
  BY SignInvInit
<1>2. SignInv /\ [SignNext]_signVars => SignInv'
  BY SignInvStep
<1>3. SignInv => PublishedCoversLive
  BY LiveIsPublished DEF SignInv
<1> QED  BY <1>1, <1>2, <1>3, PTL DEF SignSpec

\* The gateway's cached key set fails only for keys made after it was filled.
THEOREM CacheCoversItsTime == SignSpec => []StaleOnlyForNewKeys
<1>1. SignInit => SignInv
  BY SignInvInit
<1>2. SignInv /\ [SignNext]_signVars => SignInv'
  BY SignInvStep
<1>3. SignInv => StaleOnlyForNewKeys
  BY DEF SignInv, KeyTypeOK, UnknownKeysAreOver, StaleOnlyForNewKeys, LiveKeys, Verifies
<1> QED  BY <1>1, <1>2, <1>3, PTL DEF SignSpec

-----------------------------------------------------------------------------
(* SignInThrottle. *)

ThrottleTypeOK ==
    /\ time \in Nat /\ count \in Nat
    /\ failures \in [ThrottleKeys -> SUBSET Attempts]
    /\ lastTouch \in [ThrottleKeys -> Nat]
    /\ stage \in [Attempts -> {"new", "calling", "failed", "over"}]
    /\ failedAt \in [Attempts -> Nat]
    /\ evicted \subseteq ThrottleKeys

\* A key holds failures on it since its last success, and all the recent ones unless its
\* entry was evicted.
HeldAreFailures ==
    \A k \in ThrottleKeys : \A a \in failures[k] :
        stage[a] = "failed" /\ a \in AttemptsOn(k) /\ <<k, a>> \notin cleared
RecentAreHeld == \A k \in ThrottleKeys \ evicted : Recent(k) \subseteq failures[k]

ClearedFailed ==
    \A k \in ThrottleKeys, a \in Attempts : <<k, a>> \in cleared => stage[a] = "failed"

OverlapBounded == Cardinality(InCall) <= MaxOverlap

HeldInv ==
    ThrottleTypeOK /\ HeldAreFailures /\ RecentAreHeld /\ ClearedFailed /\ OverlapBounded

LEMMA KeysOfTypes ==
    \A a \in Attempts : /\ IdentifierOf[a] \in ThrottleKeys /\ NetworkOf[a] \in ThrottleKeys
                        /\ \A k \in ThrottleKeys : a \in AttemptsOn(k) <=> k \in KeysOf(a)
  BY ThrottleAssumption DEF ThrottleKeys, KeysOf, AttemptsOn

LEMMA HeldInvInit == ThrottleInit => HeldInv
<1> SUFFICES ASSUME ThrottleInit PROVE HeldInv
  OBVIOUS
<1>1. ThrottleTypeOK /\ HeldAreFailures /\ RecentAreHeld /\ ClearedFailed
  BY DEF ThrottleInit, ThrottleTypeOK, HeldAreFailures, RecentAreHeld, ClearedFailed, Recent,
         AttemptsOn
<1>2. InCall = {}
  BY DEF ThrottleInit, InCall
<1>3. OverlapBounded
  BY <1>2, FS_EmptySet, ThrottleAssumption DEF OverlapBounded
<1> QED  BY <1>1, <1>3 DEF HeldInv

\* Calls only end: then the overlap does not grow.
LEMMA OverlapShrinks ==
    ASSUME OverlapBounded, InCall' \subseteq InCall PROVE OverlapBounded'
<1>1. IsFiniteSet(InCall)
  BY FS_Subset, ThrottleAssumption DEF InCall
<1>2. Cardinality(InCall') <= Cardinality(InCall)
  BY <1>1, FS_Subset
<1>3. Cardinality(InCall') \in Nat /\ Cardinality(InCall) \in Nat
  BY <1>1, FS_Subset, FS_CardinalityType
<1> QED  BY <1>2, <1>3, ThrottleAssumption DEF OverlapBounded

LEMMA HeldInvStep == HeldInv /\ [ThrottleNext]_throttleVars => HeldInv'
<1> SUFFICES ASSUME HeldInv, [ThrottleNext]_throttleVars PROVE HeldInv'
  OBVIOUS
<1>0. ThrottleTypeOK /\ HeldAreFailures /\ RecentAreHeld /\ ClearedFailed /\ OverlapBounded
  BY DEF HeldInv
<1> USE KeysOfTypes, ThrottleAssumption
<1>1. CASE Pass
  <2>1. ThrottleTypeOK' /\ HeldAreFailures' /\ ClearedFailed'
    BY <1>0, <1>1 DEF Pass, ThrottleTypeOK, HeldAreFailures, ClearedFailed, AttemptsOn
  <2>2. \A k \in ThrottleKeys : Recent(k)' \subseteq Recent(k)
    BY <1>0, <1>1 DEF Pass, Recent, ThrottleTypeOK, AttemptsOn
  <2>3. RecentAreHeld'
    BY <1>0, <1>1, <2>2 DEF Pass, RecentAreHeld
  <2>4. OverlapBounded'
    BY <1>0, <1>1 DEF Pass, OverlapBounded, InCall
  <2> QED  BY <2>1, <2>3, <2>4 DEF HeldInv
<1>2. ASSUME NEW a \in Attempts,
             stage[a] = "new",
             NEW s \in {"calling", "over"}, stage' = [stage EXCEPT ![a] = s],
             failures' \in [ThrottleKeys -> SUBSET Attempts],
             \A k \in ThrottleKeys : failures'[k] \in {failures[k], Pruned(k)},
             UNCHANGED <<time, lastTouch, failedAt, count, cleared, evicted>>
      PROVE  ThrottleTypeOK' /\ HeldAreFailures' /\ RecentAreHeld' /\ ClearedFailed'
  <2>1. ThrottleTypeOK'
    BY <1>0, <1>2 DEF ThrottleTypeOK
  <2>2. HeldAreFailures'
    <3> SUFFICES ASSUME NEW k \in ThrottleKeys, NEW b \in failures'[k]
                 PROVE  stage'[b] = "failed" /\ b \in AttemptsOn(k) /\ <<k, b>> \notin cleared'
      BY DEF HeldAreFailures, AttemptsOn
    <3>1. b \in failures[k]
      BY <1>2 DEF Pruned
    <3>2. stage[b] = "failed" /\ b \in AttemptsOn(k) /\ <<k, b>> \notin cleared
      BY <1>0, <3>1 DEF HeldAreFailures
    <3> QED  BY <1>0, <1>2, <3>2 DEF ThrottleTypeOK
  <2>3. \A k \in ThrottleKeys : Recent(k)' = Recent(k)
    BY <1>0, <1>2 DEF ThrottleTypeOK, Recent, AttemptsOn
  <2>4. RecentAreHeld'
    BY <1>0, <1>2, <2>3 DEF RecentAreHeld, Recent, Pruned
  <2>5. ClearedFailed'
    BY <1>0, <1>2 DEF ThrottleTypeOK, ClearedFailed
  <2> QED  BY <2>1, <2>2, <2>4, <2>5
<1>3. ASSUME NEW a \in Attempts, Throttled(a) PROVE HeldInv'
  <2>1. /\ failures' \in [ThrottleKeys -> SUBSET Attempts]
        /\ \A k \in ThrottleKeys : failures'[k] \in {failures[k], Pruned(k)}
    BY <1>0, <1>3 DEF Throttled, ThrottleTypeOK, Pruned
  <2>2. ThrottleTypeOK' /\ HeldAreFailures' /\ RecentAreHeld' /\ ClearedFailed'
    BY <1>2, <1>3, <2>1 DEF Throttled
  <2>3. InCall' \subseteq InCall
    BY <1>0, <1>3 DEF Throttled, InCall, ThrottleTypeOK
  <2> QED  BY <1>0, <2>2, <2>3, OverlapShrinks DEF HeldInv
<1>4. ASSUME NEW a \in Attempts, LetThrough(a) PROVE HeldInv'
  <2>1. /\ failures' \in [ThrottleKeys -> SUBSET Attempts]
        /\ \A k \in ThrottleKeys : failures'[k] \in {failures[k], Pruned(k)}
    BY <1>0, <1>4 DEF LetThrough, ThrottleTypeOK, Pruned
  <2>2. ThrottleTypeOK' /\ HeldAreFailures' /\ RecentAreHeld' /\ ClearedFailed'
    BY <1>2, <1>4, <2>1 DEF LetThrough
  <2>3. InCall' = InCall \cup {a} /\ a \notin InCall
    BY <1>0, <1>4 DEF LetThrough, InCall, ThrottleTypeOK
  <2>4. IsFiniteSet(InCall) /\ Cardinality(InCall) < MaxOverlap
    BY <1>4, FS_Subset DEF LetThrough, InCall
  <2>5. OverlapBounded'
    <3>1. Cardinality(InCall') = Cardinality(InCall) + 1 /\ Cardinality(InCall) \in Nat
      BY <2>3, <2>4, FS_AddElement, FS_CardinalityType
    <3> QED  BY <2>4, <3>1 DEF OverlapBounded
  <2> QED  BY <2>2, <2>5 DEF HeldInv
<1>5. ASSUME NEW a \in Attempts, SignInFailed(a) PROVE HeldInv'
  <2> DEFINE held == [k \in ThrottleKeys |-> IF k \in KeysOf(a) THEN Pruned(k) \cup {a}
                                             ELSE failures[k]]
  <2>1. /\ stage[a] = "calling" /\ stage' = [stage EXCEPT ![a] = "failed"]
        /\ failedAt' = [failedAt EXCEPT ![a] = time]
        /\ UNCHANGED <<time, cleared>>
        /\ evicted \subseteq evicted'
        /\ \A k \in ThrottleKeys : \/ failures'[k] = {} /\ k \in evicted'
                                   \/ failures'[k] = held[k]
    BY <1>5 DEF SignInFailed
  <2>2. ThrottleTypeOK'
    <3>1. failures' \in [ThrottleKeys -> SUBSET Attempts]
      BY <1>0, <1>5 DEF SignInFailed, ThrottleTypeOK, Pruned
    <3> QED  BY <1>0, <1>5, <3>1 DEF SignInFailed, ThrottleTypeOK
  <2>3. HeldAreFailures'
    <3> SUFFICES ASSUME NEW k \in ThrottleKeys, NEW b \in failures'[k]
                 PROVE  stage'[b] = "failed" /\ b \in AttemptsOn(k) /\ <<k, b>> \notin cleared
      BY <2>1 DEF HeldAreFailures, AttemptsOn
    <3>1. b \in held[k]
      BY <2>1
    <3>2. CASE b \in failures[k]
      BY <1>0, <2>1, <3>2 DEF HeldAreFailures, ThrottleTypeOK
    <3>3. CASE b = a /\ k \in KeysOf(a)
      BY <1>0, <2>1, <3>3 DEF ThrottleTypeOK, ClearedFailed
    <3> QED  BY <3>1, <3>2, <3>3 DEF Pruned
  <2>4. RecentAreHeld'
    <3> SUFFICES ASSUME NEW k \in ThrottleKeys, k \notin evicted', NEW b \in Recent(k)'
                 PROVE  b \in failures'[k]
      BY DEF RecentAreHeld
    <3>1. failures'[k] = held[k] /\ k \notin evicted
      BY <2>1
    <3>2. CASE b = a
      BY <3>1, <3>2 DEF Recent, AttemptsOn
    <3>3. CASE b # a
      <4>1. b \in Recent(k)
        BY <1>0, <2>1, <3>3 DEF Recent, AttemptsOn, ThrottleTypeOK
      <4>2. b \in Pruned(k) /\ b \in failures[k]
        BY <1>0, <3>1, <4>1 DEF RecentAreHeld, Recent, Pruned
      <4> QED  BY <3>1, <4>2
    <3> QED  BY <3>2, <3>3
  <2>5. InCall' \subseteq InCall
    BY <1>0, <2>1 DEF InCall, ThrottleTypeOK
  <2>6. ClearedFailed'
    BY <1>0, <2>1 DEF ThrottleTypeOK, ClearedFailed
  <2> QED  BY <1>0, <2>2, <2>3, <2>4, <2>5, <2>6, OverlapShrinks DEF HeldInv
<1>6. ASSUME NEW a \in Attempts, SignInSucceeded(a) PROVE HeldInv'
  <2> DEFINE i == IdentifierOf[a]
  <2>1. /\ stage[a] = "calling" /\ stage' = [stage EXCEPT ![a] = "over"]
        /\ failures' = [failures EXCEPT ![i] = {}]
        /\ cleared' = cleared \cup {<<i, b>> : b \in {x \in AttemptsOn(i) : stage[x] = "failed"}}
        /\ UNCHANGED <<time, lastTouch, failedAt, count, evicted>>
    BY <1>6 DEF SignInSucceeded
  <2>2. ThrottleTypeOK'
    BY <1>0, <2>1 DEF ThrottleTypeOK
  <2>3. HeldAreFailures'
    <3> SUFFICES ASSUME NEW k \in ThrottleKeys, NEW b \in failures'[k]
                 PROVE  stage'[b] = "failed" /\ b \in AttemptsOn(k) /\ <<k, b>> \notin cleared'
      BY DEF HeldAreFailures, AttemptsOn
    <3>1. k # i /\ b \in failures[k]
      BY <1>0, <2>1 DEF ThrottleTypeOK
    <3>2. stage[b] = "failed" /\ b \in AttemptsOn(k) /\ <<k, b>> \notin cleared /\ b \in Attempts
      BY <1>0, <3>1 DEF HeldAreFailures, ThrottleTypeOK
    <3> QED  BY <1>0, <2>1, <3>1, <3>2 DEF ThrottleTypeOK
  <2>4. RecentAreHeld'
    <3> SUFFICES ASSUME NEW k \in ThrottleKeys, k \notin evicted, NEW b \in Recent(k)'
                 PROVE  b \in failures'[k]
      BY <2>1 DEF RecentAreHeld
    <3>1. b \in Recent(k)
      BY <1>0, <2>1 DEF Recent, AttemptsOn, ThrottleTypeOK
    <3>2. k # i
      BY <1>0, <2>1, <3>1 DEF Recent, AttemptsOn, ThrottleTypeOK
    <3> QED  BY <1>0, <2>1, <3>1, <3>2 DEF RecentAreHeld, ThrottleTypeOK
  <2>5. InCall' \subseteq InCall
    BY <1>0, <2>1 DEF InCall, ThrottleTypeOK
  <2>6. ClearedFailed'
    BY <1>0, <2>1 DEF ThrottleTypeOK, ClearedFailed, AttemptsOn
  <2> QED  BY <1>0, <2>2, <2>3, <2>4, <2>5, <2>6, OverlapShrinks DEF HeldInv
<1>7. ASSUME NEW a \in Attempts, SignInBroke(a) PROVE HeldInv'
  <2>1. ThrottleTypeOK' /\ HeldAreFailures' /\ ClearedFailed'
    BY <1>0, <1>7 DEF SignInBroke, ThrottleTypeOK, HeldAreFailures, ClearedFailed, AttemptsOn
  <2>2. \A k \in ThrottleKeys : Recent(k)' = Recent(k)
    BY <1>0, <1>7 DEF SignInBroke, ThrottleTypeOK, Recent, AttemptsOn
  <2>3. RecentAreHeld'
    BY <1>0, <1>7, <2>2 DEF SignInBroke, RecentAreHeld
  <2>4. InCall' \subseteq InCall
    BY <1>0, <1>7 DEF SignInBroke, InCall, ThrottleTypeOK
  <2> QED  BY <1>0, <2>1, <2>3, <2>4, OverlapShrinks DEF HeldInv
<1>8. CASE UNCHANGED throttleVars
  BY <1>0, <1>8
  DEF throttleVars, HeldInv, ThrottleTypeOK, HeldAreFailures, RecentAreHeld, ClearedFailed,
      OverlapBounded, InCall, Recent, AttemptsOn
<1> QED  BY <1>1, <1>3, <1>4, <1>5, <1>6, <1>7, <1>8 DEF ThrottleNext

\* Whoever is refused has failed as often as the limit within the last window.
THEOREM ThrottleIsNoLockout == ThrottleSpec => []NeverLockedOut
<1>1. ThrottleInit => HeldInv
  BY HeldInvInit
<1>2. HeldInv /\ [ThrottleNext]_throttleVars => HeldInv'
  BY HeldInvStep
<1>3. HeldInv => NeverLockedOut
  <2> SUFFICES ASSUME HeldInv, NEW k \in ThrottleKeys, ~Allows(k)
               PROVE  Cardinality(Recent(k)) >= Limit(k)
    BY DEF NeverLockedOut
  <2>1. Pruned(k) \subseteq Recent(k)
    BY DEF HeldInv, ThrottleTypeOK, HeldAreFailures, Pruned, Recent
  <2>2. IsFiniteSet(Recent(k))
    BY ThrottleAssumption, FS_Subset DEF Recent, AttemptsOn
  <2>3. /\ Cardinality(Pruned(k)) <= Cardinality(Recent(k))
        /\ Cardinality(Pruned(k)) \in Nat /\ Cardinality(Recent(k)) \in Nat
    BY <2>1, <2>2, FS_Subset, FS_CardinalityType
  <2> QED  BY <2>3, ThrottleAssumption DEF Allows
<1> QED  BY <1>1, <1>2, <1>3, PTL DEF ThrottleSpec

LEMMA GuessesFinite ==
    \A k \in ThrottleKeys : IsFiniteSet(Guesses(k)) /\ Cardinality(Guesses(k)) \in Nat
<1> SUFFICES ASSUME NEW k \in ThrottleKeys PROVE IsFiniteSet(Guesses(k))
  BY FS_CardinalityType
<1>1. Guesses(k) \subseteq Attempts
  BY DEF Guesses, Recent, InCall, AttemptsOn
<1> QED  BY <1>1, ThrottleAssumption, FS_Subset

LEMMA GuessesInit == ThrottleInit => GuessesBounded
<1> SUFFICES ASSUME ThrottleInit, NEW k \in ThrottleKeys
             PROVE  Cardinality(Guesses(k)) < Limit(k) + MaxOverlap
  BY DEF GuessesBounded
<1>1. Guesses(k) = {}
  BY DEF ThrottleInit, Guesses, Recent, InCall, AttemptsOn
<1> QED  BY <1>1, FS_EmptySet, ThrottleAssumption

\* Only an attempt that is let through adds to the guesses of a key.
LEMMA GuessesStep ==
    HeldInv /\ GuessesBounded /\ [ThrottleNext]_throttleVars => GuessesBounded'
<1> SUFFICES ASSUME HeldInv, GuessesBounded, [ThrottleNext]_throttleVars,
                    NEW k \in ThrottleKeys, k \notin evicted'
             PROVE  Cardinality(Guesses(k)') < Limit(k) + MaxOverlap
  BY DEF GuessesBounded
<1>0. ThrottleTypeOK /\ HeldAreFailures /\ RecentAreHeld /\ OverlapBounded
      /\ ThrottleTypeOK' /\ OverlapBounded'
  BY HeldInvStep DEF HeldInv
<1> USE KeysOfTypes
<1>1. CASE k \notin evicted /\ Guesses(k)' \subseteq Guesses(k)
  <2>1. Cardinality(Guesses(k)) < Limit(k) + MaxOverlap
    BY <1>1 DEF GuessesBounded
  <2>2. /\ Cardinality(Guesses(k)') <= Cardinality(Guesses(k))
        /\ IsFiniteSet(Guesses(k)')
    BY <1>1, GuessesFinite, FS_Subset
  <2> QED  BY <2>1, <2>2, GuessesFinite, FS_CardinalityType, ThrottleAssumption
<1>2. ASSUME NEW a \in Attempts, LetThrough(a), k \in KeysOf(a)
      PROVE  Cardinality(Guesses(k)') < Limit(k) + MaxOverlap
  <2>1. Recent(k)' = Recent(k) /\ k \notin evicted
    BY <1>0, <1>2 DEF LetThrough, Recent, AttemptsOn, ThrottleTypeOK
  <2>2. Recent(k) \subseteq Pruned(k) /\ Cardinality(Pruned(k)) < Limit(k)
    BY <1>0, <1>2, <2>1 DEF RecentAreHeld, Recent, Pruned, LetThrough, Allows
  <2> DEFINE R == Recent(k)'
             C == InCall' \cap AttemptsOn(k)
  <2>3. /\ IsFiniteSet(Pruned(k)) /\ IsFiniteSet(InCall')
    <3>1. Pruned(k) \subseteq Attempts /\ InCall' \subseteq Attempts
      BY <1>0 DEF Pruned, InCall, ThrottleTypeOK
    <3> QED  BY <3>1, FS_Subset, ThrottleAssumption
  <2>4. /\ IsFiniteSet(R) /\ IsFiniteSet(C)
        /\ Cardinality(R) <= Cardinality(Pruned(k)) /\ Cardinality(C) <= Cardinality(InCall')
    BY <2>1, <2>2, <2>3, FS_Subset
  <2>5. Guesses(k)' = R \cup C
    BY DEF Guesses, AttemptsOn
  <2> HIDE DEF R, C
  <2>6. /\ Cardinality(R \cup C) = Cardinality(R) + Cardinality(C) - Cardinality(R \cap C)
        /\ IsFiniteSet(R \cap C)
    BY <2>4, FS_Union, FS_Subset
  <2>7. /\ Cardinality(R) \in Nat /\ Cardinality(C) \in Nat /\ Cardinality(R \cap C) \in Nat
        /\ Cardinality(Pruned(k)) \in Nat /\ Cardinality(InCall') \in Nat
    BY <2>3, <2>4, <2>6, FS_CardinalityType
  <2>8. Cardinality(InCall') <= MaxOverlap
    BY <1>0 DEF OverlapBounded
  <2> QED  BY <2>2, <2>4, <2>5, <2>6, <2>7, <2>8, ThrottleAssumption
<1>3. CASE Pass
  <2>1. time' = time + 1 /\ UNCHANGED <<stage, failedAt, cleared, evicted>>
    BY <1>3 DEF Pass
  <2>2. \A a \in Attempts : failedAt[a] + Window > time + 1 => failedAt[a] + Window > time
    BY <1>0, ThrottleAssumption DEF ThrottleTypeOK
  <2>3. Recent(k)' \subseteq Recent(k)
    BY <2>1, <2>2 DEF Recent, AttemptsOn
  <2>4. InCall' = InCall /\ AttemptsOn(k)' = AttemptsOn(k)
    BY <2>1 DEF InCall, AttemptsOn
  <2>5. k \notin evicted /\ Guesses(k)' \subseteq Guesses(k)
    BY <2>1, <2>3, <2>4 DEF Guesses
  <2> QED  BY <1>1, <2>5
<1>4. ASSUME NEW a \in Attempts, LetThrough(a), k \notin KeysOf(a)
      PROVE  k \notin evicted /\ Guesses(k)' \subseteq Guesses(k)
  BY <1>0, <1>4 DEF LetThrough, Guesses, Recent, InCall, AttemptsOn, ThrottleTypeOK
<1>5. ASSUME NEW a \in Attempts, Throttled(a) \/ SignInBroke(a)
      PROVE  k \notin evicted /\ Guesses(k)' \subseteq Guesses(k)
  BY <1>0, <1>5
  DEF Throttled, SignInBroke, Guesses, Recent, InCall, AttemptsOn, ThrottleTypeOK
<1>6. ASSUME NEW a \in Attempts, SignInFailed(a)
      PROVE  k \notin evicted /\ Guesses(k)' \subseteq Guesses(k)
  <2>1. /\ stage[a] = "calling" /\ stage' = [stage EXCEPT ![a] = "failed"]
        /\ failedAt' = [failedAt EXCEPT ![a] = time]
        /\ UNCHANGED <<time, cleared>>
        /\ evicted \subseteq evicted'
    BY <1>6 DEF SignInFailed
  <2> QED  BY <1>0, <2>1 DEF Guesses, Recent, InCall, AttemptsOn, ThrottleTypeOK
<1>7. ASSUME NEW a \in Attempts, SignInSucceeded(a)
      PROVE  k \notin evicted /\ Guesses(k)' \subseteq Guesses(k)
  BY <1>0, <1>7 DEF SignInSucceeded, Guesses, Recent, InCall, AttemptsOn, ThrottleTypeOK
<1>8. CASE UNCHANGED throttleVars
  <2>1. k \notin evicted /\ Guesses(k)' \subseteq Guesses(k)
    BY <1>8 DEF throttleVars, Guesses, Recent, InCall, AttemptsOn
  <2> QED  BY <1>1, <2>1
<1> QED
  BY <1>1, <1>2, <1>3, <1>4, <1>5, <1>6, <1>7, <1>8 DEF ThrottleNext

\* Within a window a key is tried fewer times than its limit and the overlap together.
THEOREM GuessesStayBounded == ThrottleSpec => []GuessesBounded
<1>1. ThrottleInit => HeldInv /\ GuessesBounded
  BY HeldInvInit, GuessesInit
<1>2. HeldInv /\ GuessesBounded /\ [ThrottleNext]_throttleVars => (HeldInv /\ GuessesBounded)'
  BY HeldInvStep, GuessesStep
<1> QED  BY <1>1, <1>2, PTL DEF ThrottleSpec

-----------------------------------------------------------------------------
(* ClientMetadata. *)

Call ==
    [at : {"new", "failed"}]
    \cup [at : {"fetching"}, client : UrlClients, uri : Uris, began : Nat]
    \cup [at : {"read"}, client : UrlClients, uri : Uris, began : Nat, document : SUBSET Uris]
    \cup [at : {"accepted", "refused"}, client : Clients, uri : Uris, age : Int]

MetaTypeOK ==
    /\ row \in [Clients -> [uris : SUBSET Uris, at : Nat]]
    /\ site \in [UrlClients -> SUBSET Uris]
    /\ listed \in [UrlClients -> [Uris -> Nat]]
    /\ authorize \in [Asking -> Call]
    /\ instant \in Nat

\* The history keeps step with the clock and the sites.
ListedInTime ==
    \A c \in UrlClients, u \in Uris :
        listed[c][u] <= instant /\ (u \in site[c] => listed[c][u] = instant)

\* What a row holds is exact, and was listed when its document was fetched, or little before.
RowsAreBacked ==
    \A c \in Clients : \A u \in row[c].uris :
        u \in Exact /\ (c \in UrlClients => row[c].at <= listed[c][u] + FetchTime)

\* So was what a fetch has read, since the fetch began.
FetchesAreBacked ==
    \A x \in Asking : authorize[x].at \in {"fetching", "read"} =>
        /\ authorize[x].began <= instant /\ instant <= authorize[x].began + FetchTime
        /\ authorize[x].at = "read" =>
              \A u \in authorize[x].document :
                  authorize[x].began <= listed[authorize[x].client][u]

MetaInv == MetaTypeOK /\ ListedInTime /\ RowsAreBacked /\ FetchesAreBacked /\ AcceptedWasListed

LEMMA MetaInvInit == MetaInit => MetaInv
BY ClientMetadataAssumption
DEF MetaInit, MetaInv, MetaTypeOK, ListedInTime, RowsAreBacked, FetchesAreBacked,
    AcceptedWasListed, Call, Clients, NoRow

\* A call that is answered with what a backed set of URIs holds.
LEMMA CompareStep ==
    ASSUME MetaInv, NEW x \in Asking, NEW c \in Clients, NEW uri \in Uris, NEW uris,
           Compare(x, c, uri, uris), UNCHANGED <<site, listed, instant>>,
           \A u \in uris : /\ u \in Exact
                           /\ c \in UrlClients => instant < listed[c][u] + CachePeriod + FetchTime
    PROVE  authorize' \in [Asking -> Call] /\ FetchesAreBacked' /\ AcceptedWasListed'
<1> DEFINE new == [at |-> IF uri \in uris THEN "accepted" ELSE "refused", client |-> c,
                   uri |-> uri, age |-> Age(c, uri)]
<1>1. authorize' = [authorize EXCEPT ![x] = new] /\ authorize \in [Asking -> Call]
  BY DEF Compare, MetaInv, MetaTypeOK
<1>2. Age(c, uri) \in Int /\ (uri \in uris => Age(c, uri) < CachePeriod + FetchTime)
  BY ClientMetadataAssumption DEF Age, MetaInv, MetaTypeOK
<1>3. new \in Call /\ new.at \notin {"fetching", "read"}
  BY <1>2 DEF Call
<1>4. authorize' \in [Asking -> Call] /\ authorize'[x] = new
      /\ \A y \in Asking \ {x} : authorize'[y] = authorize[y]
  BY <1>1, <1>3
<1>5. FetchesAreBacked'
  BY <1>3, <1>4 DEF FetchesAreBacked, MetaInv
<1>6. new.at = "accepted" => new.uri \in Exact /\ new.age < CachePeriod + FetchTime
  BY <1>2
<1>7. AcceptedWasListed'
  BY <1>4, <1>6 DEF AcceptedWasListed, MetaInv
<1> QED  BY <1>4, <1>5, <1>7

LEMMA MetaInvStep == MetaInv /\ [MetaNext]_metaVars => MetaInv'
<1> SUFFICES ASSUME MetaInv, [MetaNext]_metaVars  PROVE MetaInv'
  OBVIOUS
<1> USE ClientMetadataAssumption
<1>1. ASSUME NEW c \in UrlClients, NEW document \in Documents, SiteChanges(c, document)
      PROVE  MetaInv'
  <2>1. /\ site' = [site EXCEPT ![c] = document]
        /\ listed' = [listed EXCEPT ![c] = [u \in Uris |-> IF u \in document THEN instant
                                                          ELSE listed[c][u]]]
        /\ UNCHANGED <<row, authorize, instant>>
    BY <1>1 DEF SiteChanges, MetaInv, MetaTypeOK
  <2>2. MetaTypeOK'
    BY <2>1 DEF MetaInv, MetaTypeOK, Documents
  <2>3. \A d \in UrlClients, u \in Uris : listed[d][u] <= listed'[d][u]
    BY <2>1 DEF MetaInv, MetaTypeOK, ListedInTime
  <2>4. ListedInTime'
    BY <2>1 DEF MetaInv, MetaTypeOK, ListedInTime, Documents
  <2>5. RowsAreBacked'
    BY <2>1, <2>2, <2>3 DEF MetaInv, MetaTypeOK, RowsAreBacked, Clients
  <2>6. FetchesAreBacked'
    BY <2>1, <2>2, <2>3 DEF MetaInv, MetaTypeOK, FetchesAreBacked, Call
  <2>7. AcceptedWasListed'
    BY <2>1 DEF MetaInv, AcceptedWasListed
  <2> QED  BY <2>2, <2>4, <2>5, <2>6, <2>7 DEF MetaInv
<1>2. CASE TimePasses
  <2>1. /\ instant' = instant + 1 /\ UNCHANGED <<row, site, authorize>>
        /\ listed' = [c \in UrlClients |->
               [u \in Uris |-> IF u \in site[c] THEN instant + 1 ELSE listed[c][u]]]
        /\ \A x \in Asking : authorize[x].at \in {"fetching", "read"} =>
               instant < authorize[x].began + FetchTime
    BY <1>2 DEF TimePasses
  <2>2. MetaTypeOK'
    BY <2>1 DEF MetaInv, MetaTypeOK
  <2>3. \A d \in UrlClients, u \in Uris : listed[d][u] <= listed'[d][u]
    BY <2>1 DEF MetaInv, MetaTypeOK, ListedInTime
  <2>4. ListedInTime'
    BY <2>1 DEF MetaInv, MetaTypeOK, ListedInTime
  <2>5. RowsAreBacked'
    BY <2>1, <2>2, <2>3 DEF MetaInv, MetaTypeOK, RowsAreBacked, Clients
  <2>6. FetchesAreBacked'
    BY <2>1, <2>2, <2>3 DEF MetaInv, MetaTypeOK, FetchesAreBacked, Call
  <2>7. AcceptedWasListed'
    BY <2>1 DEF MetaInv, AcceptedWasListed
  <2> QED  BY <2>2, <2>4, <2>5, <2>6, <2>7 DEF MetaInv
<1>3. ASSUME NEW c \in Clients, NEW document \in Documents, Register(c, document)
      PROVE  MetaInv'
  BY <1>3 DEF Register, Valid, MetaInv, MetaTypeOK, ListedInTime, RowsAreBacked,
     FetchesAreBacked, AcceptedWasListed, Clients, Documents
<1>4. ASSUME NEW x \in Asking, NEW c \in Clients, NEW uri \in Uris, AuthorizeByRow(x, c, uri)
      PROVE  MetaInv'
  <2>1. \A u \in row[c].uris :
          /\ u \in Exact
          /\ c \in UrlClients => instant < listed[c][u] + CachePeriod + FetchTime
    BY <1>4 DEF AuthorizeByRow, Fresh, MetaInv, MetaTypeOK, RowsAreBacked
  <2>2. Compare(x, c, uri, row[c].uris) /\ UNCHANGED <<row, site, listed, instant>>
    BY <1>4 DEF AuthorizeByRow
  <2>3. authorize' \in [Asking -> Call] /\ FetchesAreBacked' /\ AcceptedWasListed'
    BY <2>1, <2>2, CompareStep
  <2> QED  BY <2>2, <2>3 DEF MetaInv, MetaTypeOK, ListedInTime, RowsAreBacked
<1>5. ASSUME NEW x \in Asking, NEW c \in Clients, NEW uri \in Uris, AuthorizeFetches(x, c, uri)
      PROVE  MetaInv'
  <2> DEFINE new == [at |-> "fetching", client |-> c, uri |-> uri, began |-> instant]
  <2>1. /\ authorize' = [authorize EXCEPT ![x] = new] /\ c \in UrlClients
        /\ UNCHANGED <<row, site, listed, instant>>
    BY <1>5 DEF AuthorizeFetches
  <2>2. new \in Call
    BY <2>1 DEF Call, MetaInv, MetaTypeOK
  <2>3. authorize' \in [Asking -> Call] /\ authorize'[x] = new
        /\ \A y \in Asking \ {x} : authorize'[y] = authorize[y]
    BY <2>1, <2>2 DEF MetaInv, MetaTypeOK
  <2>4. FetchesAreBacked' /\ AcceptedWasListed'
    BY <2>1, <2>3 DEF FetchesAreBacked, AcceptedWasListed, MetaInv, MetaTypeOK
  <2> QED  BY <2>1, <2>3, <2>4 DEF MetaInv, MetaTypeOK, ListedInTime, RowsAreBacked
<1>6. ASSUME NEW x \in Asking, SiteAnswers(x)
      PROVE  MetaInv'
  <2> DEFINE call == authorize[x]
             new  == [at |-> "read", client |-> call.client, uri |-> call.uri,
                      began |-> call.began, document |-> site[call.client]]
  <2>1. /\ authorize[x].at = "fetching" /\ authorize' = [authorize EXCEPT ![x] = new]
        /\ UNCHANGED <<row, site, listed, instant>>
    BY <1>6 DEF SiteAnswers
  <2>2. authorize[x] \in [at : {"fetching"}, client : UrlClients, uri : Uris, began : Nat]
    BY <2>1 DEF Call, MetaInv, MetaTypeOK
  <2>3. new \in Call
    BY <2>2 DEF Call, MetaInv, MetaTypeOK
  <2>4. authorize' \in [Asking -> Call] /\ authorize'[x] = new
        /\ \A y \in Asking \ {x} : authorize'[y] = authorize[y]
    BY <2>1, <2>3 DEF MetaInv, MetaTypeOK
  <2>5. call.began <= instant /\ instant <= call.began + FetchTime
    BY <2>1 DEF MetaInv, FetchesAreBacked
  <2>6. \A u \in site[call.client] : call.began <= listed[call.client][u]
    BY <2>2, <2>5 DEF MetaInv, MetaTypeOK, ListedInTime
  <2>7. FetchesAreBacked' /\ AcceptedWasListed'
    BY <2>1, <2>4, <2>5, <2>6 DEF FetchesAreBacked, AcceptedWasListed, MetaInv, MetaTypeOK
  <2> QED  BY <2>1, <2>4, <2>7 DEF MetaInv, MetaTypeOK, ListedInTime, RowsAreBacked
<1>7. ASSUME NEW x \in Asking, authorize' = [authorize EXCEPT ![x] = [at |-> "failed"]],
             UNCHANGED <<row, site, listed, instant>>
      PROVE  MetaInv'
  <2>1. authorize' \in [Asking -> Call] /\ authorize'[x] = [at |-> "failed"]
        /\ \A y \in Asking \ {x} : authorize'[y] = authorize[y]
    BY <1>7 DEF MetaInv, MetaTypeOK, Call
  <2>2. FetchesAreBacked' /\ AcceptedWasListed'
    BY <1>7, <2>1 DEF FetchesAreBacked, AcceptedWasListed, MetaInv
  <2> QED  BY <1>7, <2>1, <2>2 DEF MetaInv, MetaTypeOK, ListedInTime, RowsAreBacked
<1>8. ASSUME NEW x \in Asking, Upsert(x), Valid(authorize[x].document)
      PROVE  MetaInv'
  <2> DEFINE c == authorize[x].client  document == authorize[x].document
  <2>1. /\ authorize[x].at = "read" /\ document \subseteq Exact
        /\ row' = [row EXCEPT ![c] = [uris |-> document, at |-> instant]]
        /\ Compare(x, c, authorize[x].uri, document)
        /\ UNCHANGED <<site, listed, instant>>
    BY <1>8 DEF Upsert, Valid
  <2>2. authorize[x] \in [at : {"read"}, client : UrlClients, uri : Uris, began : Nat,
                          document : SUBSET Uris]
    BY <2>1 DEF Call, MetaInv, MetaTypeOK
  <2>3. \A u \in document : u \in Exact /\ instant <= listed[c][u] + FetchTime
    BY <2>1, <2>2 DEF MetaInv, MetaTypeOK, FetchesAreBacked
  <2>4. c \in Clients /\ authorize[x].uri \in Uris
    BY <2>2 DEF Clients
  <2>5. authorize' \in [Asking -> Call] /\ FetchesAreBacked' /\ AcceptedWasListed'
    <3>1. \A u \in document : /\ u \in Exact
                              /\ c \in UrlClients => instant < listed[c][u] + CachePeriod + FetchTime
      BY <2>2, <2>3 DEF MetaInv, MetaTypeOK
    <3> HIDE DEF c, document
    <3> QED  BY <2>1, <2>4, <3>1, CompareStep
  <2>6. row' \in [Clients -> [uris : SUBSET Uris, at : Nat]]
    BY <2>1, <2>2, <2>4 DEF MetaInv, MetaTypeOK
  <2>7. RowsAreBacked'
    BY <2>1, <2>2, <2>3, <2>4 DEF MetaInv, MetaTypeOK, RowsAreBacked
  <2> QED  BY <2>1, <2>5, <2>6, <2>7 DEF MetaInv, MetaTypeOK, ListedInTime
<1>9. CASE UNCHANGED metaVars
  BY <1>9 DEF metaVars, MetaInv, MetaTypeOK, ListedInTime, RowsAreBacked, FetchesAreBacked,
     AcceptedWasListed
<1>10. ASSUME NEW x \in Asking, FetchFails(x)  PROVE MetaInv'
  BY <1>7, <1>10 DEF FetchFails
<1>11. ASSUME NEW x \in Asking, Upsert(x)  PROVE MetaInv'
  <2>1. CASE Valid(authorize[x].document)
    BY <1>8, <1>11, <2>1
  <2>2. CASE ~Valid(authorize[x].document)
    BY <1>7, <1>11, <2>2 DEF Upsert
  <2> QED  BY <2>1, <2>2
<1> QED
  BY <1>1, <1>2, <1>3, <1>4, <1>5, <1>6, <1>9, <1>10, <1>11 DEF MetaNext

\* Whatever sites, fetches and clocks do, an accepted redirect URI is exact and was listed less
\* than a cache period and a fetch ago.
THEOREM AcceptedUrisAreListed == MetaSpec => []AcceptedWasListed
<1>1. MetaInv => AcceptedWasListed
  BY DEF MetaInv
<1> QED  BY <1>1, MetaInvInit, MetaInvStep, PTL DEF MetaSpec
=============================================================================
