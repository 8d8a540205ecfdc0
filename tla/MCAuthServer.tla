---------------------------- MODULE MCAuthServer ----------------------------
(* The authorization server on small instances: AuthGrants, SigningKeys, SignInThrottle and
   ClientMetadata.  They share no state: a run explores one after the other, the part being
   chosen at the start. *)
EXTENDS MCAuthGrants, SigningKeys, SignInThrottle, ClientMetadata

CONSTANTS
    k1, k2, k3,              \* signing keys
    t1, t2, t3, t4,          \* attempts to sign in
    m1, m2, h1,              \* two identifiers and a network
    p1, p2, e1, e2           \* clients of the two kinds, two redirect URIs

VARIABLE part

TwoMails == (t1 :> m1) @@ (t2 :> m1) @@ (t3 :> m1) @@ (t4 :> m2)
OneHost  == [a \in Attempts |-> h1]
Limits(k) == IF k = h1 THEN 2 ELSE 1

MCVars == <<part, vars, signVars, throttleVars, metaVars>>

MCInit ==
    /\ part \in {"grants", "keys", "throttle", "clients"}
    /\ Init /\ SignInit /\ ThrottleInit /\ MetaInit

MCNext ==
    \/ /\ part = "grants" /\ Next
       /\ UNCHANGED <<part, signVars, throttleVars, metaVars>>
    \/ /\ part = "keys" /\ SignNext
       /\ UNCHANGED <<part, vars, throttleVars, metaVars>>
    \/ /\ part = "throttle" /\ ThrottleNext
       /\ UNCHANGED <<part, vars, signVars, metaVars>>
    \/ /\ part = "clients" /\ MetaNext
       /\ UNCHANGED <<part, vars, signVars, throttleVars>>

MCSpec == MCInit /\ [][MCNext]_MCVars
=============================================================================
