----------------------------- MODULE SigningKeys -----------------------------
(***************************************************************************)
(* The signing keys of the authorization server (app/auth_server/keys.py), *)
(* the access tokens signed with them (tokens.py), and the gateway that    *)
(* verifies a token with a key set it has fetched once                     *)
(* (app/mcp_gateway/composite_auth.py).                                    *)
(*                                                                         *)
(* The server is one asyncio process and a key is picked, retired and made *)
(* without an await, so that is one step.  Time is in units in which every *)
(* period is a whole number.  Of the tokens signed with a key only the     *)
(* latest expiry matters.                                                  *)
(***************************************************************************)
EXTENDS Naturals

CONSTANTS
    Kids,       \* key ids
    KeyTTL,     \* signing_key_ttl_seconds
    AccessTTL,  \* access_token_ttl_seconds, at most a day
    MintDelay,  \* most time between picking a key and dating the token
    Published,  \* how long a key is published after its period: two days
    Horizon     \* bound: the time at which the model ends

ASSUME SigningKeysAssumption ==
    /\ KeyTTL \in Nat \ {0} /\ AccessTTL \in Nat \ {0}
    /\ MintDelay \in Nat /\ Published \in Nat /\ Horizon \in Nat
    /\ AccessTTL + MintDelay <= Published

NoSet == [loaded |-> FALSE, kids |-> {}, known |-> {}]

VARIABLES
    now,
    made,     \* signing_keys rows
    active,   \* is_active column
    retires,  \* retire_after column
    created,  \* created_at column
    expiry,   \* latest expiry of the tokens signed with each key, 0 without any
    keySet    \* what the gateway holds: the set, and (history) the keys made when it came

keyVars  == <<made, active, retires, created>>
signVars == <<now, keyVars, expiry, keySet>>

SignInit ==
    /\ now = 1
    /\ made = {} /\ active = {}
    /\ retires = [k \in Kids |-> 0] /\ created = [k \in Kids |-> 0]
    /\ expiry = [k \in Kids |-> 0]
    /\ keySet = NoSet

\* The key the query for the latest active one returns.
Current(k) == k \in active /\ \A j \in active : created[j] <= created[k]

\* active_key returns k: the current key while its period lasts ...
UseKey(k) == Current(k) /\ retires[k] > now /\ UNCHANGED keyVars

\* ... and else a new one, the current one being retired.
MakeKey(k) ==
    /\ \A j \in active : Current(j) => retires[j] <= now
    /\ k \in Kids \ made
    /\ made' = made \cup {k}
    /\ \/ active = {} /\ active' = {k}
       \/ \E j \in active : Current(j) /\ active' = (active \ {j}) \cup {k}
    /\ retires' = [retires EXCEPT ![k] = now + KeyTTL]
    /\ created' = [created EXCEPT ![k] = now]

ActiveKey(k) == UseKey(k) \/ MakeKey(k)

\* Mutants: only the active keys are published; a key goes with the end of its period.
PublishedActive == active
PublishedPeriod == {k \in made : retires[k] > now}

PublishedKeys == {k \in made : retires[k] + Published > now}

-----------------------------------------------------------------------------
Tick ==
    /\ now < Horizon
    /\ now' = now + 1
    /\ UNCHANGED <<keyVars, expiry, keySet>>

\* An exchange or a refresh signs an access token.
Mint(k, delay) ==
    LET end == now + delay + AccessTTL IN
    /\ ActiveKey(k)
    /\ expiry' = [expiry EXCEPT ![k] = IF end > @ THEN end ELSE @]
    /\ UNCHANGED <<now, keySet>>

\* The key set is asked for: the active key is made first, so that there is one.
PublishTo(k) == ActiveKey(k) /\ UNCHANGED <<now, expiry, keySet>>

\* The gateway asks for it with the first token it verifies and keeps the answer for good;
\* a failed request leaves it without, and the next token asks again.
GatewayLoads(k) ==
    /\ ~keySet.loaded
    /\ ActiveKey(k)
    /\ UNCHANGED <<now, expiry>>
    /\ keySet' = [loaded |-> TRUE, kids |-> PublishedKeys', known |-> made']

GatewayRestarts ==
    /\ keySet.loaded
    /\ keySet' = NoSet
    /\ UNCHANGED <<now, keyVars, expiry>>

SignNext ==
    \/ Tick
    \/ \E k \in Kids, delay \in 0..MintDelay : Mint(k, delay)
    \/ \E k \in Kids : PublishTo(k)
    \/ \E k \in Kids : GatewayLoads(k)
    \/ GatewayRestarts

SignSpec == SignInit /\ [][SignNext]_signVars

\* decode_access_token with a key set: the signature can be checked.
Verifies(kids, k) == k \in kids
LiveKeys == {k \in Kids : expiry[k] > now}

-----------------------------------------------------------------------------
\* "Rotation publishes a new active key and keeps the previous one in the JWKS until every
\* token it signed has expired" (KeyStore): whoever asks for the key set can verify every
\* token that has not expired, whenever keys rotate and however late a token is dated.
PublishedCoversLive == \A k \in LiveKeys : Verifies(PublishedKeys, k)

\* "clients caching the JWKS never see a token they cannot verify" (KeyStore) holds for the
\* gateway's cache as far as the keys that existed when it was filled: a token that has not
\* expired and does not verify was signed with a key made since.
StaleOnlyForNewKeys ==
    keySet.loaded => \A k \in LiveKeys \cap keySet.known : Verifies(keySet.kids, k)
=============================================================================
