--------------------------- MODULE SignInThrottle ---------------------------
(***************************************************************************)
(* The throttle of the authorization server's sign-in                      *)
(* (app/auth_server/throttle.py and authorize_submit of server.py): a      *)
(* sliding window of failures for each e-mail and for each network, both   *)
(* of which must have room.  The check comes before the awaited call to    *)
(* the sign-in service and the failure is recorded after it, so that       *)
(* attempts overlap.                                                       *)
(*                                                                         *)
(* A failure is named by its attempt; a key's deque is the set of its      *)
(* failures, ordered by their times.  The order of the OrderedDict is the  *)
(* order of each key's last failure.                                       *)
(***************************************************************************)
EXTENDS Naturals, FiniteSets

CONSTANTS
    Attempts,        \* sign-ins, each made once
    Identifiers,     \* e-mails
    Networks,        \* client networks
    IdentifierOf, NetworkOf,  \* of each attempt
    Limit(_),        \* IDENTIFIER_LIMIT or NETWORK_LIMIT of a key
    Window,          \* WINDOW_SECONDS
    MaxKeys,         \* MAX_TRACKED_KEYS
    MaxOverlap,      \* bound: attempts in the sign-in call at once
    LastInstant      \* bound: the time at which the model ends

ThrottleKeys == Identifiers \cup Networks

ASSUME ThrottleAssumption ==
    /\ Identifiers \cap Networks = {}
    /\ IsFiniteSet(Attempts)
    /\ IdentifierOf \in [Attempts -> Identifiers]
    /\ NetworkOf \in [Attempts -> Networks]
    /\ \A k \in ThrottleKeys : Limit(k) \in Nat \ {0}
    /\ Window \in Nat \ {0} /\ MaxKeys \in Nat \ {0}
    /\ MaxOverlap \in Nat \ {0} /\ LastInstant \in Nat

VARIABLES
    time,
    failures,   \* _failures: the failures each key holds, {} when it has no entry
    lastTouch,  \* rank of the last failure of each key, which is its place in the order
    stage,      \* of each attempt
    failedAt,   \* time of an attempt's failure
    count,      \* failures so far
    cleared,    \* history: failures of an identifier from before its last success
    evicted     \* history: keys that lost failures to the limit of entries

throttleVars == <<time, failures, lastTouch, stage, failedAt, count, cleared, evicted>>

KeysOf(a)   == {IdentifierOf[a], NetworkOf[a]}
SameSide(k) == IF k \in Identifiers THEN Identifiers ELSE Networks
AttemptsOn(k) == {a \in Attempts : k \in KeysOf(a)}

ThrottleInit ==
    /\ time = 1
    /\ failures = [k \in ThrottleKeys |-> {}]
    /\ lastTouch = [k \in ThrottleKeys |-> 0]
    /\ stage = [a \in Attempts |-> "new"]
    /\ failedAt = [a \in Attempts |-> 0]
    /\ count = 0
    /\ cleared = {}
    /\ evicted = {}

\* Mutants: nothing is pruned; one failure too many is allowed.
PrunedNever(k)   == failures[k]
AllowsLimit(k)   == Cardinality({a \in failures[k] : failedAt[a] + Window > time}) <= Limit(k)

\* _prune: what is left of a key's failures when the old ones are dropped.
Pruned(k) == {a \in failures[k] : failedAt[a] + Window > time}

Allows(k) == Cardinality(Pruned(k)) < Limit(k)

InCall == {a \in Attempts : stage[a] = "calling"}

Pass == time < LastInstant /\ time' = time + 1
        /\ UNCHANGED <<failures, lastTouch, stage, failedAt, count, cleared, evicted>>

\* The submission is refused; the network is only looked at if the identifier has room.
Throttled(a) ==
    LET i == IdentifierOf[a]
        n == NetworkOf[a] IN
    /\ stage[a] = "new"
    /\ \/ /\ ~Allows(i)
          /\ failures' = [failures EXCEPT ![i] = Pruned(i)]
       \/ /\ Allows(i) /\ ~Allows(n)
          /\ failures' = [failures EXCEPT ![i] = Pruned(i), ![n] = Pruned(n)]
    /\ stage' = [stage EXCEPT ![a] = "over"]
    /\ UNCHANGED <<time, lastTouch, failedAt, count, cleared, evicted>>

\* It is let through, and the sign-in service is called.
LetThrough(a) ==
    /\ stage[a] = "new"
    /\ Cardinality(InCall) < MaxOverlap
    /\ \A k \in KeysOf(a) : Allows(k)
    /\ failures' = [k \in ThrottleKeys |-> IF k \in KeysOf(a) THEN Pruned(k) ELSE failures[k]]
    /\ stage' = [stage EXCEPT ![a] = "calling"]
    /\ UNCHANGED <<time, lastTouch, failedAt, count, cleared, evicted>>

\* record_failure for both keys, and eviction: with one entry too many on a side, the one
\* touched least recently goes.
Evicted(k, held) ==
    LET side == {j \in SameSide(k) : held[j] # {}} IN
    /\ held[k] # {}
    /\ Cardinality(side) > MaxKeys
    /\ \A j \in side : lastTouch'[k] <= lastTouch'[j]

SignInFailed(a) ==
    LET held == [k \in ThrottleKeys |-> IF k \in KeysOf(a) THEN Pruned(k) \cup {a}
                                        ELSE failures[k]]
        gone == {k \in ThrottleKeys : Evicted(k, held)} IN
    /\ stage[a] = "calling"
    /\ stage' = [stage EXCEPT ![a] = "failed"]
    /\ failedAt' = [failedAt EXCEPT ![a] = time]
    /\ count' = count + 1
    /\ lastTouch' = [k \in ThrottleKeys |-> IF k \in KeysOf(a) THEN count + 1 ELSE lastTouch[k]]
    /\ failures' = [k \in ThrottleKeys |-> IF k \in gone THEN {} ELSE held[k]]
    /\ evicted' = evicted \cup gone
    /\ UNCHANGED <<time, cleared>>

\* A success clears the identifier, and leaves the network its failures.
SignInSucceeded(a) ==
    LET i == IdentifierOf[a] IN
    /\ stage[a] = "calling"
    /\ stage' = [stage EXCEPT ![a] = "over"]
    /\ failures' = [failures EXCEPT ![i] = {}]
    /\ cleared' = cleared \cup {<<i, b>> : b \in {x \in AttemptsOn(i) : stage[x] = "failed"}}
    /\ UNCHANGED <<time, lastTouch, failedAt, count, evicted>>

\* The sign-in service cannot be reached: nothing is recorded.
SignInBroke(a) ==
    /\ stage[a] = "calling"
    /\ stage' = [stage EXCEPT ![a] = "over"]
    /\ UNCHANGED <<time, failures, lastTouch, failedAt, count, cleared, evicted>>

ThrottleNext ==
    \/ Pass
    \/ \E a \in Attempts : \/ Throttled(a) \/ LetThrough(a) \/ SignInFailed(a)
                           \/ SignInSucceeded(a) \/ SignInBroke(a)

ThrottleSpec == ThrottleInit /\ [][ThrottleNext]_throttleVars

-----------------------------------------------------------------------------
\* The failures of a key within the last window, and the attempts under way on it.
Recent(k) == {a \in AttemptsOn(k) : /\ stage[a] = "failed"
                                    /\ failedAt[a] + Window > time
                                    /\ <<k, a>> \notin cleared}
Guesses(k) == Recent(k) \cup (InCall \cap AttemptsOn(k))

\* Unless its entry was evicted, a key is tried fewer times within a window than its limit
\* and the attempts that overlap allow together: those that passed the check before the
\* first of them failed are all the check lets slip.
GuessesBounded ==
    \A k \in ThrottleKeys \ evicted : Cardinality(Guesses(k)) < Limit(k) + MaxOverlap

\* "Deliberately not a lockout" (FailureThrottle): whoever is refused has failed as often
\* as the limit within the last window, and not before a success.
NeverLockedOut ==
    \A k \in ThrottleKeys : ~Allows(k) => Cardinality(Recent(k)) >= Limit(k)
=============================================================================
