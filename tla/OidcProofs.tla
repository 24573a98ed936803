----------------------------- MODULE OidcProofs -----------------------------
(***************************************************************************)
(* For any number of requests and keys: what a handler may rely on, and    *)
(* that a healthy provider's tokens are never turned away.                 *)
(***************************************************************************)
EXTENDS Oidc, TLAPS

\* The caches hold only keys the provider has published.
CachesPublished ==
  /\ published \subseteq ever
  /\ cached # None => cached \subseteq ever
  /\ resolved \subseteq ever

\* What a request at each stage has established about its token.
StageOK(q) ==
  /\ q.pc \in {"verify", "roles", "handler"} => q.token.kid \in ever
  /\ q.pc \in {"roles", "handler"} => q.token.genuine
  /\ q.pc = "handler" => q.token.role

\* A calm request's provider is up and serves its key, and has not been blamed.
CalmOK(q) ==
  q.calm => /\ discovery /\ jwks /\ q.token.kid \in published
            /\ q.token.genuine => q.pc \notin {"401", "503"}

\* The inductive invariant.
Inv ==
  /\ TypeOK
  /\ CachesPublished
  /\ \A r \in Requests : StageOK(req[r]) /\ CalmOK(req[r])

\* A step of one request that leaves the provider alone keeps Inv when the
\* request's new record and the caches are good.
LEMMA RequestStep ==
  ASSUME Inv, NEW r \in Requests, NEW q \in Request,
         UNCHANGED <<provider, startup>>,
         req' = [req EXCEPT ![r] = q],
         client' \in BOOLEAN, cached' \in (SUBSET Keys) \union {None}, resolved' \subseteq Keys,
         cached' # None => cached' \subseteq ever, resolved' \subseteq ever,
         StageOK(q), CalmOK(q)
  PROVE  Inv'
<1>1. TypeOK'
  BY DEF Inv, TypeOK, provider
<1>2. CachesPublished'
  BY DEF Inv, CachesPublished, provider
<1>3. ASSUME NEW s \in Requests PROVE (StageOK(req[s]) /\ CalmOK(req[s]))'
  <2>1. req'[s] = IF s = r THEN q ELSE req[s]
    BY DEF Inv, TypeOK
  <2>2. StageOK(req'[s]) /\ CalmOK(req'[s])
    BY <2>1 DEF Inv
  <2>3. QED
    BY <2>2 DEF StageOK, CalmOK, provider
<1>4. QED
  BY <1>1, <1>2, <1>3 DEF Inv, StageOK, CalmOK

\* Cold caches and idle requests satisfy the invariant, whatever the provider serves.
LEMMA InitInv == Init => Inv
<1> SUFFICES ASSUME Init PROVE Inv
  OBVIOUS
<1>1. IdleRequest \in Request
  BY DEF IdleRequest, Request, Tokens
<1>2. TypeOK
  <2>1. changes \in 0..MaxChanges
    BY OidcAssumption DEF Init
  <2>2. req \in [Requests -> Request]
    BY <1>1 DEF Init
  <2>3. published \subseteq Keys /\ ever \subseteq Keys
    BY DEF Init, KeySets
  <2>4. QED
    BY <2>1, <2>2, <2>3 DEF Init, TypeOK
<1>3. CachesPublished
  BY DEF Init, CachesPublished
<1>4. \A r \in Requests : StageOK(req[r]) /\ CalmOK(req[r])
  BY DEF Init, StageOK, CalmOK, IdleRequest
<1>5. QED
  BY <1>2, <1>3, <1>4 DEF Inv

\* An outage, a recovery or a rotation keeps the invariant: no cache loses the
\* provenance of its keys, and a request under way is no longer calm unless it
\* still finds a healthy provider.
LEMMA ProviderStep ==
  ASSUME Inv, NEW d \in BOOLEAN, NEW j \in BOOLEAN, NEW keys \in KeySets,
         ProviderChanges(d, j, keys)
  PROVE  Inv'
<1>1. keys \subseteq Keys
  BY DEF KeySets
<1>2. \A r \in Requests : [req[r] EXCEPT !.calm = Calm(r, d /\ j, keys)] \in Request
  BY DEF Inv, TypeOK, Request, Calm
<1>3. TypeOK'
  BY <1>1, <1>2, OidcAssumption DEF Inv, TypeOK, ProviderChanges, caches
<1>4. CachesPublished'
  BY DEF Inv, CachesPublished, ProviderChanges, caches
<1>5. ASSUME NEW r \in Requests PROVE (StageOK(req[r]) /\ CalmOK(req[r]))'
  <2>1. req[r] \in Request /\ StageOK(req[r]) /\ CalmOK(req[r])
    BY DEF Inv, TypeOK
  <2>2. req'[r] = [req[r] EXCEPT !.calm = Calm(r, d /\ j, keys)]
    BY DEF ProviderChanges
  <2>3. StageOK(req[r])'
    BY <2>1, <2>2 DEF ProviderChanges, StageOK, Request
  <2>4. CalmOK(req[r])'
    BY <2>1, <2>2 DEF ProviderChanges, CalmOK, Calm, Request
  <2>5. QED
    BY <2>3, <2>4
<1>6. QED
  BY <1>3, <1>4, <1>5 DEF Inv, StageOK, CalmOK

\* Every step of the specification keeps the invariant.
LEMMA NextInv == Inv /\ [Next]_vars => Inv'
<1> SUFFICES ASSUME Inv, [Next]_vars PROVE Inv'
  OBVIOUS
<1> USE DEF KeySets
<1>1. CASE \E d, j \in BOOLEAN, keys \in KeySets : ProviderChanges(d, j, keys)
  BY <1>1, ProviderStep
<1>2. CASE Expire
  BY <1>2 DEF Expire, Inv, TypeOK, CachesPublished, StageOK, CalmOK, provider
<1>3. CASE PrefetchDiscovers
  BY <1>3 DEF PrefetchDiscovers, Inv, TypeOK, CachesPublished, StageOK, CalmOK, provider
<1>4. CASE PrefetchFetches
  BY <1>4 DEF PrefetchFetches, Inv, TypeOK, CachesPublished, StageOK, CalmOK, provider
<1>5. ASSUME NEW r \in Requests,
             \/ \E t \in Tokens : Arrive(r, t)
             \/ Discover(r) \/ Unparsable(r) \/ KeyCached(r) \/ KeyMissing(r)
             \/ Fetch(r) \/ FetchFails(r) \/ Verify(r) \/ RequireRoles(r) \/ Answer(r)
      PROVE  Inv'
  <2> DEFINE q == req[r]
             to(pc) == [q EXCEPT !.pc = pc]
  <2>0. /\ q \in Request /\ StageOK(q) /\ CalmOK(q)
        /\ client \in BOOLEAN /\ cached \in (SUBSET Keys) \union {None} /\ resolved \subseteq Keys
        /\ published \subseteq ever /\ published \subseteq Keys
        /\ (cached # None => cached \subseteq ever) /\ resolved \subseteq ever
    BY DEF Inv, TypeOK, CachesPublished
  <2>a. \A pc \in {"key", "fetch", "refresh", "verify", "roles", "handler", "401", "403", "503"} :
          /\ to(pc) \in Request
          /\ to(pc).pc = pc /\ to(pc).token = q.token /\ to(pc).calm = q.calm
    BY <2>0 DEF Request
  <2>1. CASE \E t \in Tokens : Arrive(r, t)
    <3>1. PICK t \in Tokens : Arrive(r, t)
      BY <2>1
    <3> DEFINE n == [pc |-> IF client THEN "key" ELSE "discover", token |-> t,
                     place |-> IF JwksIsWarm(t) THEN "loop" ELSE "thread",
                     own |-> FALSE, calm |-> discovery /\ jwks /\ t.kid \in published]
    <3>2. n \in Request
      BY DEF Request, Inv, TypeOK
    <3>3. StageOK(n) /\ CalmOK(n)
      BY DEF StageOK, CalmOK
    <3>4. req' = [req EXCEPT ![r] = n] /\ UNCHANGED <<provider, startup, caches>>
      BY <3>1 DEF Arrive
    <3> HIDE DEF n
    <3>5. QED
      BY <2>0, <3>2, <3>3, <3>4, RequestStep DEF caches
  <2>2. CASE Discover(r)
    <3>1. CASE discovery
      <4> DEFINE n == [q EXCEPT !.pc = "key", !.own = client]
      <4>1. n \in Request /\ StageOK(n) /\ CalmOK(n)
        BY <2>0 DEF Request, StageOK, CalmOK
      <4>2. /\ req' = [req EXCEPT ![r] = n] /\ client' = TRUE
            /\ UNCHANGED <<provider, startup, cached, resolved>>
        BY <2>2, <3>1 DEF Discover
      <4> HIDE DEF n
      <4>3. QED
        BY <2>0, <4>1, <4>2, RequestStep
    <3>2. CASE ~discovery
      <4>1. to("503") \in Request /\ StageOK(to("503")) /\ CalmOK(to("503"))
        BY <2>0, <2>a, <3>2 DEF StageOK, CalmOK
      <4>2. /\ req' = [req EXCEPT ![r] = to("503")]
            /\ UNCHANGED <<provider, startup, client, cached, resolved>>
        BY <2>2, <3>2 DEF Discover, Goto
      <4> HIDE DEF to
      <4>3. QED
        BY <2>0, <4>1, <4>2, RequestStep
    <3>3. QED
      BY <3>1, <3>2
  <2>3. CASE Unparsable(r)
    <3>1. ~q.calm
      BY <2>0, <2>3, OidcAssumption DEF Unparsable, CalmOK, Malformed
    <3>2. to("401") \in Request /\ StageOK(to("401")) /\ CalmOK(to("401"))
      BY <2>a, <3>1 DEF StageOK, CalmOK
    <3>3. req' = [req EXCEPT ![r] = to("401")] /\ UNCHANGED <<provider, startup, caches>>
      BY <2>3 DEF Unparsable, Goto
    <3> HIDE DEF to
    <3>4. QED
      BY <2>0, <3>2, <3>3, RequestStep DEF caches
  <2>4. CASE KeyCached(r)
    <3>1. q.token.kid \in ever /\ q.token.kid \in Keys
      BY <2>0, <2>4 DEF KeyCached, None
    <3>2. to("verify") \in Request /\ StageOK(to("verify")) /\ CalmOK(to("verify"))
      BY <2>0, <2>a, <3>1 DEF StageOK, CalmOK
    <3>3. /\ req' = [req EXCEPT ![r] = to("verify")]
          /\ UNCHANGED <<provider, startup, client, cached>>
          /\ resolved' = resolved \union {q.token.kid}
      BY <2>4 DEF KeyCached, Goto
    <3> HIDE DEF to
    <3>4. QED
      BY <2>0, <3>1, <3>2, <3>3, RequestStep
  <2>5. CASE KeyMissing(r)
    <3>1. \A pc \in {"fetch", "refresh"} : to(pc) \in Request /\ StageOK(to(pc)) /\ CalmOK(to(pc))
      BY <2>0, <2>a DEF StageOK, CalmOK
    <3>2. /\ \E pc \in {"fetch", "refresh"} : req' = [req EXCEPT ![r] = to(pc)]
          /\ UNCHANGED <<provider, startup, caches>>
      BY <2>5 DEF KeyMissing, Goto
    <3> HIDE DEF to
    <3>3. QED
      BY <2>0, <3>1, <3>2, RequestStep DEF caches
  <2>6. CASE Fetch(r)
    <3>1. CASE q.token.kid \in published
      <4>1. to("verify") \in Request /\ StageOK(to("verify")) /\ CalmOK(to("verify"))
        BY <2>0, <2>a, <3>1 DEF StageOK, CalmOK
      <4>2. /\ req' = [req EXCEPT ![r] = to("verify")]
            /\ UNCHANGED <<provider, startup, client>>
            /\ cached' = cached \/ cached' = published
            /\ resolved' = resolved \/ resolved' = resolved \union {q.token.kid}
        BY <2>6, <3>1 DEF Fetch, Goto
      <4> HIDE DEF to
      <4>3. QED
        BY <2>0, <3>1, <4>1, <4>2, RequestStep
    <3>2. CASE q.token.kid \notin published
      <4>1. \A pc \in {"refresh", "401"} : to(pc) \in Request /\ StageOK(to(pc)) /\ CalmOK(to(pc))
        BY <2>0, <2>a, <3>2 DEF StageOK, CalmOK
      <4>2. /\ \E pc \in {"refresh", "401"} : req' = [req EXCEPT ![r] = to(pc)]
            /\ UNCHANGED <<provider, startup, client, resolved>>
            /\ cached' = cached \/ cached' = published
        BY <2>6, <3>2 DEF Fetch, Goto
      <4> HIDE DEF to
      <4>3. QED
        BY <2>0, <4>1, <4>2, RequestStep
    <3>3. QED
      BY <3>1, <3>2
  <2>7. CASE FetchFails(r)
    <3>1. ~q.calm
      BY <2>0, <2>7 DEF FetchFails, CalmOK
    <3>2. to("401") \in Request /\ StageOK(to("401")) /\ CalmOK(to("401"))
      BY <2>a, <3>1 DEF StageOK, CalmOK
    <3>3. /\ req' = [req EXCEPT ![r] = to("401")]
          /\ UNCHANGED <<provider, startup, client, resolved>>
          /\ cached' = cached \/ cached' = None
      BY <2>7 DEF FetchFails, Goto
    <3> HIDE DEF to
    <3>4. QED
      BY <2>0, <3>2, <3>3, RequestStep
  <2>8. CASE Verify(r)
    <3> DEFINE pc == IF q.token.genuine THEN "roles" ELSE "401"
    <3>1. to(pc) \in Request /\ StageOK(to(pc)) /\ CalmOK(to(pc))
      BY <2>0, <2>8, <2>a DEF Verify, StageOK, CalmOK
    <3>2. req' = [req EXCEPT ![r] = to(pc)] /\ UNCHANGED <<provider, startup, caches>>
      BY <2>8 DEF Verify, Goto
    <3> HIDE DEF to, pc
    <3>3. QED
      BY <2>0, <3>1, <3>2, RequestStep DEF caches
  <2>9. CASE RequireRoles(r)
    <3> DEFINE pc == IF q.token.role THEN "handler" ELSE "403"
    <3>1. to(pc) \in Request /\ StageOK(to(pc)) /\ CalmOK(to(pc))
      BY <2>0, <2>9, <2>a DEF RequireRoles, StageOK, CalmOK
    <3>2. req' = [req EXCEPT ![r] = to(pc)] /\ UNCHANGED <<provider, startup, caches>>
      BY <2>9 DEF RequireRoles, Goto
    <3> HIDE DEF to, pc
    <3>3. QED
      BY <2>0, <3>1, <3>2, RequestStep DEF caches
  <2>10. CASE Answer(r)
    <3>1. IdleRequest \in Request /\ StageOK(IdleRequest) /\ CalmOK(IdleRequest)
      BY DEF IdleRequest, Request, Tokens, StageOK, CalmOK
    <3>2. req' = [req EXCEPT ![r] = IdleRequest] /\ UNCHANGED <<provider, startup, caches>>
      BY <2>10 DEF Answer
    <3>3. QED
      BY <2>0, <3>1, <3>2, RequestStep DEF caches
  <2>11. QED
    BY <1>5, <2>1, <2>2, <2>3, <2>4, <2>5, <2>6, <2>7, <2>8, <2>9, <2>10
<1>6. CASE UNCHANGED vars
  BY <1>6 DEF vars, provider, caches, Inv, TypeOK, CachesPublished, StageOK, CalmOK
<1>7. QED
  BY <1>1, <1>2, <1>3, <1>4, <1>5, <1>6 DEF Next

\* Inv is an invariant of the specification.
THEOREM Invariance == Spec => []Inv
  BY InitInv, NextInv, PTL DEF Spec

\* The variables keep their types.
THEOREM TypeCorrect == Spec => []TypeOK
<1>1. Inv => TypeOK
  BY DEF Inv
<1>2. QED
  BY <1>1, Invariance, PTL

\* However many requests run and however often the provider rotates its keys, a
\* handler runs only for a genuine token with the role, of a published key.
THEOREM HandlersAreAuthorized == Spec => []OnlyGenuine
<1>1. Inv => OnlyGenuine
  BY DEF Inv, OnlyGenuine, StageOK
<1>2. QED
  BY <1>1, Invariance, PTL

\* A genuine token is not turned away while the provider serves its key, whatever
\* happened before the request and whatever other requests do to the caches.
THEOREM NoWedge == Spec => []HealthyMeansAccepted
<1>1. Inv => HealthyMeansAccepted
  BY DEF Inv, HealthyMeansAccepted, CalmOK
<1>2. QED
  BY <1>1, Invariance, PTL
=============================================================================
