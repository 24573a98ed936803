----------------------------- MODULE Baselines -----------------------------
(***************************************************************************)
(* Environments to start a process with: the complete production settings  *)
(* of tests/unit/test_config.py and the defaults, in any mode, with any    *)
(* two groups of variables changed.                                        *)
(***************************************************************************)
EXTENDS Settings

ProductionBase ==
  [mode |-> "production", allowMock |-> FALSE, migrations |-> TRUE, cacheTtl |-> FALSE,
   profiling |-> FALSE, subscriberSecret |-> TRUE,
   credentials |-> {"postgres", "s3 access", "s3 secret"}, redis |-> "rediss", s3 |-> "https",
   sslmode |-> "verify-full", issuerUrl |-> "https", issuer |-> "unset",
   discovery |-> "unset", mqttTls |-> TRUE, mqttUser |-> TRUE, mqttPassword |-> TRUE,
   publicUrl |-> "https", contact |-> "unset", policy |-> "unset", oneLine |-> TRUE,
   expires |-> "unset"]

Defaults ==
  [mode |-> "dev", allowMock |-> FALSE, migrations |-> TRUE, cacheTtl |-> FALSE,
   profiling |-> FALSE, subscriberSecret |-> FALSE, credentials |-> {}, redis |-> "redis",
   s3 |-> "http", sslmode |-> "unset", issuerUrl |-> "http", issuer |-> "unset",
   discovery |-> "unset", mqttTls |-> FALSE, mqttUser |-> FALSE, mqttPassword |-> FALSE,
   publicUrl |-> "unset", contact |-> "unset", policy |-> "unset", oneLine |-> TRUE,
   expires |-> "unset"]

\* One group of variables that belong together, changed in every way.
Changed(env) ==
  {[env EXCEPT !.mode = v, !.allowMock = w] : v \in Modes, w \in BOOLEAN}
    \union {[env EXCEPT !.migrations = v, !.cacheTtl = w] : v \in BOOLEAN, w \in BOOLEAN}
    \union {[env EXCEPT !.profiling = v, !.subscriberSecret = w] : v \in BOOLEAN, w \in BOOLEAN}
    \union {[env EXCEPT !.credentials = @ \ {v}] : v \in env.credentials}
    \union {[env EXCEPT !.redis = v] : v \in {"redis", "rediss"}}
    \union {[env EXCEPT !.s3 = v] : v \in {"http", "https"}}
    \union {[env EXCEPT !.sslmode = v] :
              v \in {"unset", "disable", "allow", "prefer", "require", "verify-ca", "verify-full"}}
    \union {[env EXCEPT !.issuerUrl = v, !.issuer = w] :
              v \in {"http", "https"}, w \in {"unset", "http", "https"}}
    \union {[env EXCEPT !.discovery = v] : v \in {"unset", "http", "https"}}
    \union {[env EXCEPT !.mqttTls = v, !.mqttUser = w, !.mqttPassword = x] :
              v \in BOOLEAN, w \in BOOLEAN, x \in BOOLEAN}
    \union {[env EXCEPT !.publicUrl = v] :
              v \in {"unset", "http", "https", "http path", "https path", "other"}}
    \union {[env EXCEPT !.policy = v, !.oneLine = w] :
              v \in {"unset", "https", "other"}, w \in BOOLEAN}
    \union {[env EXCEPT !.contact = v, !.expires = w] :
              v \in {"unset", "uri", "other"}, w \in {"unset", "near", "far", "past", "no zone"}}

TwoChanges ==
  UNION {Changed(env) : env \in Changed(ProductionBase) \union Changed(Defaults)}
=============================================================================
