------------------------------ MODULE Settings ------------------------------
(***************************************************************************)
(* app/config.py: which environments a process agrees to start with, and   *)
(* what it then connects to and publishes about itself. Pure operators on  *)
(* an environment: a record of what the variables hold, reduced to what    *)
(* the validators and the clients tell apart.                              *)
(***************************************************************************)

Modes == {"dev", "mock", "production"}

\* publicUrl is an http(s) origin, one with something after it ("path"), or no such URL.
\* policy stands for security.txt's policy and canonical URLs, oneLine for the four
\* security.txt values being printable lines.
Environment ==
  [mode : Modes, allowMock : BOOLEAN, migrations : BOOLEAN, cacheTtl : BOOLEAN,
   profiling : BOOLEAN,
   subscriberSecret : BOOLEAN,           \* set, and long enough
   credentials : SUBSET {"postgres", "s3 access", "s3 secret"},  \* those not at their default
   redis : {"redis", "rediss"}, s3 : {"http", "https"},
   sslmode : {"unset", "disable", "allow", "prefer", "require", "verify-ca", "verify-full"},
   issuerUrl : {"http", "https"}, issuer : {"unset", "http", "https"},
   discovery : {"unset", "http", "https"},
   mqttTls : BOOLEAN, mqttUser : BOOLEAN, mqttPassword : BOOLEAN,
   publicUrl : {"unset", "http", "https", "http path", "https path", "other"},
   contact : {"unset", "uri", "other"}, policy : {"unset", "https", "other"}, oneLine : BOOLEAN,
   expires : {"unset", "near", "far", "past", "no zone"}]

Production(env) == env.mode = "production"

-----------------------------------------------------------------------------
(* What the settings mean to the code that reads them *)

\* OIDC_ISSUER, or OIDC_ISSUER_URL.
ExpectedIssuer(env) == IF env.issuer = "unset" THEN env.issuerUrl ELSE env.issuer

\* OIDC_DISCOVERY_URL, or a document under the expected issuer.
DiscoveryUrl(env) == IF env.discovery = "unset" THEN ExpectedIssuer(env) ELSE env.discovery

\* PUBLIC_BASE_URL, or http://localhost:8000.
ResourceUrl(env) == IF env.publicUrl = "unset" THEN "http" ELSE env.publicUrl

\* Only require and verify-* keep asyncpg from falling back to a plain connection.
EncryptedEngine(env) == env.sslmode \notin {"unset", "disable", "allow", "prefer"}

\* security.txt is served when both fields are set.
ServesSecurityTxt(env) == env.contact # "unset" /\ env.expires # "unset"

\* build_stats_cache: no TTL, no cache; the in-process one under MODE=mock.
StatsCacheKind(env) ==
  CASE ~env.cacheTtl -> "off"
    [] env.cacheTtl /\ env.mode = "mock" -> "memory"
    [] OTHER -> "redis"

\* The security.txt that is served.
GoodSecurityTxt(env) ==
  ServesSecurityTxt(env) /\ env.expires = "near" /\ env.policy # "other" /\ env.oneLine

\* lifespan migrates unless it is told not to, and never under MODE=mock. alembic
\* makes its own engine, from database_url alone: whatever POSTGRES_SSLMODE says,
\* that connection may be in the clear (alembic/env.py).
RunsMigrations(env) == env.migrations /\ env.mode # "mock"

-----------------------------------------------------------------------------
(* The validators *)

PublicBaseUrlProblem(env) ==
  \/ env.publicUrl \in {"http path", "https path", "other"}
  \/ Production(env) /\ env.publicUrl \notin {"https", "https path"}

SecurityTxtProblem(env) ==
  \/ ~env.oneLine
  \/ env.contact # "unset" /\ (env.contact = "other" \/ env.policy = "other" \/ env.expires # "near")

MockWithoutFlag(env) == env.mode = "mock" /\ ~env.allowMock

NoSubscriberSecret(env) == Production(env) /\ ~env.subscriberSecret

DefaultCredentials(env) ==
  Production(env) /\ env.credentials # {"postgres", "s3 access", "s3 secret"}

PlainStores(env) == Production(env) /\ (env.s3 # "https" \/ env.redis # "rediss")

PlainPostgres(env) == Production(env) /\ env.sslmode \notin {"require", "verify-ca", "verify-full"}

\* Mutant: the discovery URL is trusted to follow the issuer.
ChecksIssuerOnly(env) == Production(env) /\ ExpectedIssuer(env) # "https"

PlainIssuer(env) ==
  Production(env) /\ (ExpectedIssuer(env) # "https" \/ DiscoveryUrl(env) # "https")

AnonymousBroker(env) ==
  Production(env) /\ ~(env.mqttTls /\ env.mqttUser /\ env.mqttPassword)

\* install_profiling refuses MODE=production.
ProfilingRefused(env) == Production(env) /\ env.profiling

\* Settings() is constructed, and importing app.main gets past install_profiling.
Starts(env) ==
  ~ (\/ PublicBaseUrlProblem(env) \/ SecurityTxtProblem(env) \/ MockWithoutFlag(env)
     \/ NoSubscriberSecret(env) \/ DefaultCredentials(env) \/ PlainStores(env)
     \/ PlainPostgres(env) \/ PlainIssuer(env) \/ AnonymousBroker(env)
     \/ ProfilingRefused(env))

-----------------------------------------------------------------------------
\* What a started process may do that its mode forbids: connections in the clear, of
\* its engine, of its migrations and to the other services, addresses clients are
\* told to use without TLS, credentials everybody knows, a broker anybody may use,
\* subscriber ids another replica cannot check.
Lapses(env) ==
  {what \in {"engine", "migrations", "stats cache", "s3", "oidc", "issuer", "resource",
             "credentials", "broker", "subscriber ids", "profiles"} :
    /\ Production(env)
    /\ CASE what = "engine" -> ~EncryptedEngine(env)
         [] what = "migrations" -> RunsMigrations(env)
         [] what = "stats cache" -> env.redis # "rediss"
         [] what = "s3" -> env.s3 # "https"
         [] what = "oidc" -> DiscoveryUrl(env) # "https"
         [] what = "issuer" -> ExpectedIssuer(env) # "https"
         [] what = "resource" -> ResourceUrl(env) # "https"
         [] what = "credentials" -> env.credentials # {"postgres", "s3 access", "s3 secret"}
         [] what = "broker" -> ~env.mqttTls \/ ~(env.mqttUser /\ env.mqttPassword)
         [] what = "subscriber ids" -> ~env.subscriberSecret
         [] what = "profiles" -> env.profiling}
  \union (IF env.contact # "unset" /\ ~GoodSecurityTxt(env) THEN {"security.txt"} ELSE {})
=============================================================================
