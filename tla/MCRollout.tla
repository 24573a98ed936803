------------------------------ MODULE MCRollout ------------------------------
(***************************************************************************)
(* Instances of Rollout: the process, one other replica and the operator.  *)
(* A deployment finds a database with an owned hero and no lifecycle       *)
(* columns yet; downgrades lead below it.                                  *)
(***************************************************************************)
EXTENDS Rollout, Baselines

AllSteps == {"migrate", "prefetch", "enter", "cache", "health", "engine"}

OneName == {"name"}
OnePower == {"p"}
OneList == {<<"p", "p">>}
Level == {"power_level"}

\* A row of revision k: one power below 91807f3de5be, two from there on.
Row(k) ==
  [c \in DOMAIN Columns(k) |->
     CASE c = "name" -> "name"
       [] c = "superpower" -> "p"
       [] c = "powers" -> <<"p", "p">>
       [] c = "owner_id" -> "owner"
       [] c \in {"is_draft", "is_locked"} -> "flag"
       [] c \in {"created_at", "updated_at"} -> "now"
       [] OTHER -> NULL]

Found(k, ids) ==
  [revision |-> k, tables |-> TablesOf(k), columns |-> Columns(k), rows |-> [i \in ids |-> Row(k)]]

Databases == {Found(4, {1})}
=============================================================================
