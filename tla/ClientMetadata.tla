--------------------------- MODULE ClientMetadata ---------------------------
(***************************************************************************)
(* Which redirect URIs the authorization server takes to be a client's     *)
(* (app/auth_server/clients.py and the routes register and authorize).  A   *)
(* client registers them, or its identifier is the URL of a document that   *)
(* lists them, which is fetched when the row kept of it is too old.  The    *)
(* server awaits nothing but that fetch.                                    *)
(***************************************************************************)
EXTENDS Naturals, FiniteSets

CONSTANTS
    UrlClients,         \* clients whose identifier is an HTTPS URL
    RegisteredClients,  \* clients that register
    Uris,
    Exact,              \* absolute HTTPS or loopback URIs, without wildcard or fragment
    Asking,             \* calls of authorize
    CachePeriod,        \* METADATA_CACHE_SECONDS
    FetchTime,          \* the longest a fetch takes
    LastTime            \* bound of the clock

ASSUME ClientMetadataAssumption ==
    /\ Exact \subseteq Uris
    /\ UrlClients \cap RegisteredClients = {}
    /\ CachePeriod \in Nat \ {0} /\ FetchTime \in Nat /\ LastTime \in Nat

Clients   == UrlClients \cup RegisteredClients
Documents == SUBSET Uris
NoRow     == [uris |-> {}, at |-> 0]

VARIABLES
    row,        \* the row of each client: its URIs, and when its document was fetched
    site,       \* what the document at each URL lists now
    listed,     \* when each URI was last in the document of each client
    authorize,  \* where each call of authorize is, and what it has been answered
    instant     \* the server's clock

metaVars == <<row, site, listed, authorize, instant>>

-----------------------------------------------------------------------------
\* The site changes its document; what it lists was listed until now.
SiteChanges(c, document) ==
    /\ document # site[c]
    /\ site' = [site EXCEPT ![c] = document]
    /\ listed' = [listed EXCEPT ![c] = [u \in Uris |-> IF u \in document THEN instant ELSE @[u]]]
    /\ UNCHANGED <<row, authorize, instant>>

\* A fetch that takes longer is given up.
TimePasses ==
    /\ instant < LastTime
    /\ \A x \in Asking :
        authorize[x].at \in {"fetching", "read"} => instant < authorize[x].began + FetchTime
    /\ instant' = instant + 1
    /\ listed' = [c \in UrlClients |->
           [u \in Uris |-> IF u \in site[c] THEN instant + 1 ELSE listed[c][u]]]
    /\ UNCHANGED <<row, site, authorize>>

-----------------------------------------------------------------------------
\* validate_redirect_uris: one that is not exact spoils the document, and an empty list is none.
Valid(document) == document # {} /\ document \subseteq Exact

Register(c, document) ==
    /\ c \in RegisteredClients /\ row[c] = NoRow
    /\ Valid(document)
    /\ row' = [row EXCEPT ![c] = [uris |-> document, at |-> instant]]
    /\ UNCHANGED <<site, listed, authorize, instant>>

\* Mutant: the period is counted to its end.
FreshToTheEnd(c) == row[c].at + CachePeriod >= instant

\* metadata_is_fresh
Fresh(c) == row[c].at + CachePeriod > instant

\* How long ago the URI a call is answered for was last listed.
Age(c, uri) == IF c \in UrlClients THEN instant - listed[c][uri] ELSE 0

Compare(x, c, uri, uris) ==
    authorize' = [authorize EXCEPT ![x] =
        [at |-> IF uri \in uris THEN "accepted" ELSE "refused", client |-> c, uri |-> uri,
         age |-> Age(c, uri)]]

\* authorize with a row that may be used: the URI is compared with it at once.
AuthorizeByRow(x, c, uri) ==
    /\ authorize[x].at = "new"
    /\ row[c] # NoRow
    /\ c \in UrlClients => Fresh(c)
    /\ Compare(x, c, uri, row[c].uris)
    /\ UNCHANGED <<row, site, listed, instant>>

\* Without one the document is fetched.
AuthorizeFetches(x, c, uri) ==
    /\ authorize[x].at = "new"
    /\ c \in UrlClients
    /\ row[c] = NoRow \/ ~Fresh(c)
    /\ authorize' = [authorize EXCEPT ![x] =
           [at |-> "fetching", client |-> c, uri |-> uri, began |-> instant]]
    /\ UNCHANGED <<row, site, listed, instant>>

SiteAnswers(x) ==
    /\ authorize[x].at = "fetching"
    /\ LET call == authorize[x] IN
       authorize' = [authorize EXCEPT ![x] =
           [at |-> "read", client |-> call.client, uri |-> call.uri, began |-> call.began,
            document |-> site[call.client]]]
    /\ UNCHANGED <<row, site, listed, instant>>

\* The fetch fails or takes too long, or the document is not JSON, too long, of another client, or
\* wants none of the scopes there are.
FetchFails(x) ==
    /\ authorize[x].at \in {"fetching", "read"}
    /\ authorize' = [authorize EXCEPT ![x] = [at |-> "failed"]]
    /\ UNCHANGED <<row, site, listed, instant>>

\* upsert_url_client, and the comparison with what was fetched; no other handler comes between.
Upsert(x) ==
    /\ authorize[x].at = "read"
    /\ LET c        == authorize[x].client
           document == authorize[x].document IN
       IF Valid(document)
       THEN /\ row' = [row EXCEPT ![c] = [uris |-> document, at |-> instant]]
            /\ Compare(x, c, authorize[x].uri, document)
       ELSE /\ authorize' = [authorize EXCEPT ![x] = [at |-> "failed"]]
            /\ UNCHANGED row
    /\ UNCHANGED <<site, listed, instant>>

-----------------------------------------------------------------------------
MetaInit ==
    /\ row = [c \in Clients |-> NoRow]
    /\ site = [c \in UrlClients |-> {}]
    /\ listed = [c \in UrlClients |-> [u \in Uris |-> 0]]
    /\ authorize = [x \in Asking |-> [at |-> "new"]]
    /\ instant = CachePeriod + FetchTime   \* nothing has been listed for that long

MetaNext ==
    \/ \E c \in UrlClients, document \in Documents : SiteChanges(c, document)
    \/ TimePasses
    \/ \E c \in Clients, document \in Documents : Register(c, document)
    \/ \E x \in Asking, c \in Clients, uri \in Uris :
        AuthorizeByRow(x, c, uri) \/ AuthorizeFetches(x, c, uri)
    \/ \E x \in Asking : SiteAnswers(x) \/ FetchFails(x) \/ Upsert(x)

MetaSpec == MetaInit /\ [][MetaNext]_metaVars

-----------------------------------------------------------------------------
\* An authorization request goes on only with a redirect URI that is exact and that its client's
\* own document listed less than a cache period and a fetch ago, whatever the site has changed
\* meanwhile and in whatever order overlapping fetches store what they read.
AcceptedWasListed ==
    \A x \in Asking : authorize[x].at = "accepted" =>
        /\ authorize[x].uri \in Exact
        /\ authorize[x].age < CachePeriod + FetchTime
=============================================================================
