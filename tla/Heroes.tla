------------------------------- MODULE Heroes -------------------------------
(***************************************************************************)
(* The two versions of the hero resource over one table (app/views,        *)
(* app/crud_1/heroes): the v2 shape with a list of powers, and the         *)
(* deprecated v1 shape with one, converted to and from it by CompatCRUD.   *)
(*                                                                         *)
(* A payload is a function from the fields the client sent to their        *)
(* values; a field that is not in its domain was not sent. craftainer_crud *)
(* is external: it validates a payload and writes the fields that were     *)
(* sent.                                                                   *)
(***************************************************************************)
EXTENDS Migrations

CONSTANTS
  Names,      \* non-empty names
  Powers,     \* non-empty powers
  PowerLists, \* the non-empty lists of powers clients send
  MoreFields  \* which of their other fields clients write

ASSUME PayloadsAssumption == PowerLists \subseteq Seq(Powers) \ {<<>>}
ASSUME FieldsAssumption == MoreFields \subseteq Lifecycle \union Flags \union {"power_level"}
ASSUME NullAssumption == NULL \notin {"now", "flag"} /\ \A p \in Powers : NULL # <<p>>

\* The columns of models/hero.py and of its mixins.
HeroModel ==
  [c \in {"name", "powers", "power_level", "archived_at", "publish_at", "unpublish_at"} |-> "null"]
  ++ [c \in {"owner_id", "created_at", "updated_at", "is_draft", "is_locked"} |-> "not null"]

\* v1's stand-in for what a draft has not set.
Draft == "(draft)"

-----------------------------------------------------------------------------
(* Payloads *)

\* HeroV1Update: both fields optional and nullable.
V1Updates ==
  [{"name"} -> Names \union {NULL}] \union [{"superpower"} -> Powers \union {NULL}]
    \union [name : Names, superpower : Powers]

\* A field that may be sent, with one of the values or null.
Field(f, values) == {<<>>} \union [{f} -> values \union {NULL}]

\* The other fields, each of which may be sent; "set" is a level, a time or a flag
\* that the client chose.
More(fields) ==
  UNION {[sent -> {"set", NULL}] : sent \in SUBSET (fields \intersect MoreFields)}

\* HeroV2Create.
V2Creates == {p ++ m : p \in [name : Names, powers : PowerLists], m \in More({"power_level"})}

\* HeroV2Update, also the shape of a draft's body. What sends a name, powers and
\* more at once does what as many updates do.
V2Updates ==
  Field("name", Names) \union Field("powers", PowerLists)
    \union More({"power_level", "is_locked", "publish_at", "unpublish_at"})

\* What the routes of publish, archive and restore set.
StateChanges == More({"is_draft", "archived_at"})

IsPower(p) == p # NULL

\* HeroV2Update: a list of powers holds no null and is not empty.
ValidV2Update(payload) ==
  "powers" \in DOMAIN payload /\ payload.powers # NULL =>
    payload.powers # <<>> /\ \A i \in DOMAIN payload.powers : IsPower(payload.powers[i])

-----------------------------------------------------------------------------
(* The converters *)

\* Mutant: a draft has no name to show.
V2ToV1WithoutPlaceholder(hero) ==
  [name |-> hero.name, superpower |-> IF hero.powers = NULL THEN Draft ELSE hero.powers[1]]

V2ToV1(hero) ==
  [name |-> IF hero.name = NULL THEN Draft ELSE hero.name,
   superpower |-> IF hero.powers = NULL THEN Draft ELSE hero.powers[1]]

V1CreateToV2(payload) == [name |-> payload.name, powers |-> <<payload.superpower>>]

\* Mutant: the payload is dumped with its unset fields.
V1UpdateKeepsUnset(payload) ==
  [name |-> IF "name" \in DOMAIN payload THEN payload.name ELSE NULL,
   powers |-> IF "superpower" \in DOMAIN payload THEN <<payload.superpower>> ELSE NULL]

\* Only what was supplied is converted.
V1UpdateToV2(payload) ==
  [f \in {"name" : x \in DOMAIN payload \intersect {"name"}}
           \union {"powers" : x \in DOMAIN payload \intersect {"superpower"}} |->
     IF f = "name" THEN payload.name ELSE <<payload.superpower>>]

\* A v1 response is valid: HeroV1 requires both fields.
ValidV1(view) ==
  view.name \in Names \union {Draft} /\ view.superpower \in Powers \union {Draft}
=============================================================================
