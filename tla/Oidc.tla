-------------------------------- MODULE Oidc --------------------------------
(***************************************************************************)
(* Bearer-token validation (app/oidc.py) of one process: the discovery     *)
(* document and the lru_cache around _get_jwks_client, PyJWT's caches (the *)
(* JWK set, and the signing keys resolved so far), the startup prefetch,   *)
(* and requests that verify their token on the event loop when the keys    *)
(* look warm and in the threadpool otherwise.                              *)
(*                                                                         *)
(* A token is the kid it names, whether its signature and claims are       *)
(* genuine, and whether it carries one of the route's roles.  PyJWT is     *)
(* external: a failed fetch may or may not drop the cached set.            *)
(***************************************************************************)
EXTENDS Naturals

CONSTANTS
  Requests,    \* concurrent requests
  Keys,        \* signing keys the provider may publish
  MaxChanges   \* bound on the provider's outages, recoveries and rotations

ASSUME OidcAssumption == MaxChanges \in Nat /\ "malformed" \notin Keys

VARIABLES
  discovery,  \* the provider serves its discovery document
  jwks,       \* the provider serves its JWK set
  published,  \* the keys in the provider's JWK set
  ever,       \* history: every key it has published
  startup,    \* prefetch_jwks: "discover", "fetch", "serving"
  client,     \* _get_jwks_client's cache holds a client
  cached,     \* that client's JWK set cache: a set of keys, or None
  resolved,   \* that client's cache of signing keys (cache_keys=True)
  req,        \* the requests
  changes     \* number of changes at the provider

provider == <<discovery, jwks, published, ever, changes>>
caches == <<client, cached, resolved>>
vars == <<provider, startup, caches, req>>

None == {"none"}           \* no JWK set
Malformed == "malformed"   \* the kid of a token whose header does not parse

Tokens == [kid : Keys \union {Malformed}, genuine : BOOLEAN, role : BOOLEAN]

\* place: where decode_bearer_token runs; own: its client is not the cached one
\* (two threads discovered at once, one client was dropped); calm: history, the
\* provider has served this token's key since the request arrived.
Request == [pc : {"idle", "discover", "key", "fetch", "refresh", "verify", "roles", "handler",
                  "401", "403", "503"},
            token : Tokens, place : {"loop", "thread"}, own : BOOLEAN, calm : BOOLEAN]

\* The type of every variable.
TypeOK ==
  /\ discovery \in BOOLEAN /\ jwks \in BOOLEAN /\ client \in BOOLEAN
  /\ published \subseteq Keys /\ ever \subseteq Keys
  /\ startup \in {"discover", "fetch", "serving"}
  /\ cached \in (SUBSET Keys) \union {None}
  /\ resolved \subseteq Keys
  /\ req \in [Requests -> Request]
  /\ changes \in 0..MaxChanges

-----------------------------------------------------------------------------
IdleRequest ==
  [pc |-> "idle", token |-> [kid |-> Malformed, genuine |-> FALSE, role |-> FALSE],
   place |-> "loop", own |-> FALSE, calm |-> FALSE]

KeySets == SUBSET Keys \ {{}}

Init ==
  /\ discovery \in BOOLEAN /\ jwks \in BOOLEAN
  /\ published \in KeySets /\ ever = published
  /\ startup = "discover"
  /\ client = FALSE /\ cached = None /\ resolved = {}
  /\ req = [r \in Requests |-> IdleRequest]
  /\ changes = 0

(* The provider *)

Calm(r, up, keys) == req[r].calm /\ up /\ req[r].token.kid \in keys

\* The provider goes down or comes back, wholly or in part, or changes its keys.
ProviderChanges(d, j, keys) ==
  /\ changes < MaxChanges /\ changes' = changes + 1
  /\ discovery' = d /\ jwks' = j
  /\ published' = keys /\ ever' = ever \union keys
  /\ req' = [r \in Requests |-> [req[r] EXCEPT !.calm = Calm(r, d /\ j, keys)]]
  /\ UNCHANGED <<startup, caches>>

\* The JWK set's lifespan passes.
Expire ==
  /\ cached # None
  /\ cached' = None
  /\ UNCHANGED <<provider, startup, client, resolved, req>>

(* prefetch_jwks, awaited before the first request is served *)

\* Discovery builds the client; its failure (503) is logged and swallowed.
PrefetchDiscovers ==
  /\ startup = "discover"
  /\ client' = discovery
  /\ startup' = IF discovery THEN "fetch" ELSE "serving"
  /\ UNCHANGED <<provider, cached, resolved, req>>

\* get_jwk_set fills the set cache; a PyJWTError is logged and swallowed.
PrefetchFetches ==
  /\ startup = "fetch"
  /\ cached' = IF jwks THEN published ELSE None
  /\ startup' = "serving"
  /\ UNCHANGED <<provider, client, resolved, req>>

-----------------------------------------------------------------------------
(* decode_bearer_token_async and decode_bearer_token *)

Goto(r, pc) == req' = [req EXCEPT ![r] = [req[r] EXCEPT !.pc = pc]]

\* _jwks_is_warm: no discovery pending, and the set cache holds the kid; an
\* unparsable header is warm, it is rejected without a fetch.
JwksIsWarm(t) == client /\ (t.kid = Malformed \/ (cached # None /\ t.kid \in cached))

\* A request arrives; warm tokens are verified on the event loop.
Arrive(r, t) ==
  /\ startup = "serving" /\ req[r].pc = "idle"
  /\ req' = [req EXCEPT ![r] =
       [pc |-> IF client THEN "key" ELSE "discover",
        token |-> t,
        place |-> IF JwksIsWarm(t) THEN "loop" ELSE "thread",
        own |-> FALSE,
        calm |-> discovery /\ jwks /\ t.kid \in published]]
  /\ UNCHANGED <<provider, startup, caches>>

\* _get_jwks_client runs: a failure is a 503 and is not cached, the first client
\* stays in the lru_cache, and a thread that was overtaken keeps its own.
Discover(r) ==
  /\ req[r].pc = "discover"
  /\ IF discovery
     THEN /\ client' = TRUE
          /\ req' = [req EXCEPT ![r] = [req[r] EXCEPT !.pc = "key", !.own = client]]
     ELSE Goto(r, "503") /\ UNCHANGED client
  /\ UNCHANGED <<provider, startup, cached, resolved>>

\* Mutant: the failed lookup is cached.
CachesFailure(r) ==
  /\ req[r].pc = "key" /\ req[r].token.kid = Malformed
  /\ resolved' = resolved \union {req[r].token.kid}
  /\ Goto(r, "401")
  /\ UNCHANGED <<provider, startup, client, cached>>

\* A token whose header does not parse.
Unparsable(r) ==
  /\ req[r].pc = "key" /\ req[r].token.kid = Malformed
  /\ Goto(r, "401")
  /\ UNCHANGED <<provider, startup, caches>>

\* The signing key is taken from the caches of the client, ...
KeyCached(r) ==
  /\ req[r].pc = "key" /\ ~req[r].own
  /\ \/ req[r].token.kid \in resolved
     \/ cached # None /\ req[r].token.kid \in cached
  /\ resolved' = resolved \union {req[r].token.kid}
  /\ Goto(r, "verify")
  /\ UNCHANGED <<provider, startup, client, cached>>

\* Mutant: an unknown kid is rejected against the cached set.
NoRefresh(r) ==
  /\ req[r].pc = "key" /\ req[r].token.kid # Malformed
  /\ req[r].own \/ req[r].token.kid \notin resolved
  /\ \/ (req[r].own \/ cached = None) /\ Goto(r, "fetch")
     \/ ~req[r].own /\ cached # None /\ req[r].token.kid \notin cached /\ Goto(r, "401")
  /\ UNCHANGED <<provider, startup, caches>>

\* ... or must be fetched: no set is cached, or the cached one lacks the kid.
KeyMissing(r) ==
  /\ req[r].pc = "key" /\ req[r].token.kid # Malformed
  /\ req[r].own \/ req[r].token.kid \notin resolved
  /\ \/ (req[r].own \/ cached = None) /\ Goto(r, "fetch")
     \/ ~req[r].own /\ cached # None /\ req[r].token.kid \notin cached /\ Goto(r, "refresh")
  /\ UNCHANGED <<provider, startup, caches>>

\* The JWK set is fetched: once when none was cached, once more when the kid was
\* not in it.
Fetch(r) ==
  /\ req[r].pc \in {"fetch", "refresh"} /\ jwks
  /\ cached' = IF req[r].own THEN cached ELSE published
  /\ IF req[r].token.kid \in published
     THEN /\ Goto(r, "verify")
          /\ resolved' = IF req[r].own THEN resolved ELSE resolved \union {req[r].token.kid}
     ELSE /\ Goto(r, IF req[r].pc = "fetch" THEN "refresh" ELSE "401")
          /\ UNCHANGED resolved
  /\ UNCHANGED <<provider, startup, client>>

\* A PyJWKClientConnectionError is a PyJWTError: 401.
FetchFails(r) ==
  /\ req[r].pc \in {"fetch", "refresh"} /\ ~jwks
  /\ cached' \in IF req[r].own THEN {cached} ELSE {cached, None}
  /\ Goto(r, "401")
  /\ UNCHANGED <<provider, startup, client, resolved>>

\* Mutant: jwt.decode without verification.
TrustsClaims(r) ==
  /\ req[r].pc = "verify"
  /\ Goto(r, "roles")
  /\ UNCHANGED <<provider, startup, caches>>

\* jwt.decode checks the signature, expiry, audience and issuer.
Verify(r) ==
  /\ req[r].pc = "verify"
  /\ Goto(r, IF req[r].token.genuine THEN "roles" ELSE "401")
  /\ UNCHANGED <<provider, startup, caches>>

\* require_roles: one of the route's roles, or 403; the handler runs.
RequireRoles(r) ==
  /\ req[r].pc = "roles"
  /\ Goto(r, IF req[r].token.role THEN "handler" ELSE "403")
  /\ UNCHANGED <<provider, startup, caches>>

Answered == {"handler", "401", "403", "503"}

Answer(r) ==
  /\ req[r].pc \in Answered
  /\ req' = [req EXCEPT ![r] = IdleRequest]
  /\ UNCHANGED <<provider, startup, caches>>

Next ==
  \/ \E d, j \in BOOLEAN, keys \in KeySets : ProviderChanges(d, j, keys)
  \/ Expire \/ PrefetchDiscovers \/ PrefetchFetches
  \/ \E r \in Requests :
       \/ \E t \in Tokens : Arrive(r, t)
       \/ Discover(r) \/ Unparsable(r) \/ KeyCached(r) \/ KeyMissing(r)
       \/ Fetch(r) \/ FetchFails(r) \/ Verify(r) \/ RequireRoles(r) \/ Answer(r)

Spec == Init /\ [][Next]_vars

-----------------------------------------------------------------------------
(* Properties *)

\* A handler runs only for a genuine token with a role, signed with a key the
\* provider published at some time (decode_bearer_token, require_roles): no
\* interleaving of misses, refreshes and rotations lets another token through.
OnlyGenuine ==
  \A r \in Requests :
    req[r].pc = "handler" => /\ req[r].token.genuine /\ req[r].token.role
                             /\ req[r].token.kid \in ever

\* While the provider serves its documents and the token's key, a genuine token
\* is never turned away, whatever outage or rotation came before and whatever
\* other requests do to the caches: failures are not cached and an unknown kid
\* is looked up again (_get_jwks_client, decode_bearer_token).
HealthyMeansAccepted ==
  \A r \in Requests :
    req[r].calm /\ req[r].token.genuine => req[r].pc \notin {"401", "503"}

\* prefetch_jwks' docstring: with an unreachable provider "the lazy path in
\* get_current_claims still works (and still answers 503)": a genuine token of a
\* published key is never answered 401.
OutageAnswers503 ==
  \A r \in Requests :
    req[r].pc = "401" => ~(req[r].token.genuine /\ req[r].token.kid \in published)
=============================================================================
