----------------------------- MODULE Migrations -----------------------------
(***************************************************************************)
(* The alembic chain (alembic/versions) and how `alembic upgrade head` and *)
(* `downgrade -1` run it (alembic/env.py): several processes may do so at  *)
(* once on one database, each in one transaction, with no lock of their    *)
(* own around it.                                                          *)
(*                                                                         *)
(* A migration is the sequence of its statements; "flag" and "now" stand   *)
(* for any Boolean and any time. Postgres is external: a statement that    *)
(* cannot be executed aborts its transaction.                              *)
(***************************************************************************)
EXTENDS Integers, Sequences

CONSTANTS
  NULL,     \* NULL in SQL, None in Python, null in JSON
  Runners   \* processes that run alembic: replicas, and the operator's CLI

VARIABLES
  db,     \* the committed database: revision, tables, columns and rows of heroes
  phase,  \* where each runner is
  plan,   \* the migrations it has still to run: k upgrades to k, -k undoes k
  work    \* the database as the open transaction sees it

migrationVars == <<db, phase, plan, work>>

\* 383b0a85de69, 7dc8146fcf6c, 91807f3de5be, 4733a4dd6da9, 8e0846bd353a, 49e3e2487a13.
HeadRevision == 6

Phases == {"idle", "planned", "open", "done", "failed"}

Empty == [revision |-> 0, tables |-> {}, columns |-> <<>>, rows |-> <<>>]

-----------------------------------------------------------------------------
(* Statements *)

\* A column is "null" or "not null", as in its declaration.
Create(table) == [do |-> "create", on |-> table, declared |-> "null", default |-> NULL]
DropTable(table) == [do |-> "drop table", on |-> table, declared |-> "null", default |-> NULL]
Add(column, declared, default) ==
  [do |-> "add", on |-> column, declared |-> declared, default |-> default]
Drop(column) == [do |-> "drop", on |-> column, declared |-> "null", default |-> NULL]
Alter(column, declared) ==
  [do |-> "alter", on |-> column, declared |-> declared, default |-> NULL]
Update(column) == [do |-> "update", on |-> column, declared |-> "null", default |-> NULL]
DeleteRows == [do |-> "delete", on |-> "heroes", declared |-> "null", default |-> NULL]

\* UPDATE heroes SET powers = ARRAY[superpower], and back.
Converted(row, column) ==
  CASE column = "powers" -> <<row.superpower>>
    [] column = "superpower" -> IF row.powers = NULL THEN NULL ELSE row.powers[1]

HasNoNull(d, column) == \A i \in DOMAIN d.rows : d.rows[i][column] # NULL

Executable(d, s) ==
  CASE s.do = "create" -> s.on \notin d.tables
    [] s.do = "drop table" -> s.on \in d.tables
    [] s.do = "add" -> /\ s.on \notin DOMAIN d.columns
                       /\ s.declared = "null" \/ s.default # NULL \/ DOMAIN d.rows = {}
    [] s.do = "alter" -> s.on \in DOMAIN d.columns /\ (s.declared = "null" \/ HasNoNull(d, s.on))
    [] s.do = "delete" -> s.on \in d.tables
    [] OTHER -> s.on \in DOMAIN d.columns

Without(f, x) == [y \in DOMAIN f \ {x} |-> f[y]]

\* The fields of f, and those of g that f has not.
f ++ g == [x \in DOMAIN f \union DOMAIN g |-> IF x \in DOMAIN f THEN f[x] ELSE g[x]]

With(g, x, value) == [y \in {x} |-> value] ++ g

\* One value after a statement: of the tables, of the columns, of a row.
TablesAfter(tables, s) ==
  CASE s.do = "create" -> tables \union {s.on}
    [] s.do = "drop table" -> tables \ {s.on}
    [] OTHER -> tables

ColumnsAfter(columns, s) ==
  CASE s.do = "add" -> With(columns, s.on, s.declared)
    [] s.do = "drop" -> Without(columns, s.on)
    [] s.do = "alter" -> [columns EXCEPT ![s.on] = s.declared]
    [] OTHER -> columns

RowAfter(row, s) ==
  CASE s.do = "add" -> With(row, s.on, s.default)
    [] s.do = "drop" -> Without(row, s.on)
    [] s.do = "update" -> [row EXCEPT ![s.on] = Converted(row, s.on)]
    [] OTHER -> row

Effect(d, s) ==
  IF s.do = "drop table" /\ s.on = "heroes" THEN [Empty EXCEPT !.tables = TablesAfter(d.tables, s)]
  ELSE [revision |-> d.revision,
        tables |-> TablesAfter(d.tables, s),
        columns |-> ColumnsAfter(d.columns, s),
        rows |-> IF s.do = "delete" THEN <<>>
                 ELSE [i \in DOMAIN d.rows |-> RowAfter(d.rows[i], s)]]

\* What a statement makes of each database: nothing where it cannot be executed.
ds | s == {Effect(d, s) : d \in {x \in ds : Executable(x, s)}}

-----------------------------------------------------------------------------
(* The chain: what the statements of a migration make of each database *)

AddHeroes(ds) ==
  ds | Create("heroes") | Add("name", "not null", NULL) | Add("superpower", "not null", NULL)

DropHeroes(ds) == ds | DropTable("heroes")

AddTimestamps(ds) == ds | Add("created_at", "not null", "now") | Add("updated_at", "not null", "now")

DropTimestamps(ds) == ds | Drop("updated_at") | Drop("created_at")

PowersList(ds) ==
  ds | Add("powers", "null", NULL) | Update("powers") | Alter("powers", "not null") | Drop("superpower")

SinglePower(ds) ==
  ds | Add("superpower", "null", NULL) | Update("superpower") | Alter("superpower", "not null")
     | Drop("powers")

AddOwner(ds) == ds | DeleteRows | Add("owner_id", "not null", NULL)

DropOwner(ds) == ds | Drop("owner_id")

AddLifecycle(ds) ==
  ds | Create("revisions") | Add("archived_at", "null", NULL) | Add("is_draft", "not null", "flag")
     | Add("publish_at", "null", NULL) | Add("unpublish_at", "null", NULL)
     | Add("is_locked", "not null", "flag") | Alter("name", "null") | Alter("powers", "null")

\* Mutant: name and powers stay nullable.
LeavesNullable(ds) ==
  ds | Drop("is_locked") | Drop("unpublish_at") | Drop("publish_at") | Drop("is_draft")
     | Drop("archived_at") | DropTable("revisions")

DropLifecycle(ds) ==
  ds | Alter("powers", "not null") | Alter("name", "not null") | Drop("is_locked") | Drop("unpublish_at")
     | Drop("publish_at") | Drop("is_draft") | Drop("archived_at") | DropTable("revisions")

AddPowerLevel(ds) == ds | Add("power_level", "null", NULL)

DropPowerLevel(ds) == ds | Drop("power_level")

Ran(ds, k) ==
  CASE k = 1 -> AddHeroes(ds)      [] k = -1 -> DropHeroes(ds)
    [] k = 2 -> AddTimestamps(ds)  [] k = -2 -> DropTimestamps(ds)
    [] k = 3 -> PowersList(ds)     [] k = -3 -> SinglePower(ds)
    [] k = 4 -> AddOwner(ds)       [] k = -4 -> DropOwner(ds)
    [] k = 5 -> AddLifecycle(ds)   [] k = -5 -> DropLifecycle(ds)
    [] k = 6 -> AddPowerLevel(ds)  [] k = -6 -> DropPowerLevel(ds)

\* The outcome of one migration, none if it fails: its statements, then the row
\* of alembic_version, which must still hold the revision the plan expects.
Migrated(d, k) ==
  LET from == IF k > 0 THEN k - 1 ELSE -k
      to == IF k > 0 THEN k ELSE -k - 1
  IN {[x EXCEPT !.revision = to] : x \in Ran({y \in {d} : y.revision = from}, k)}

-----------------------------------------------------------------------------
(* alembic: one transaction around the whole plan *)

PlanUpgrade(r) ==
  /\ phase[r] = "idle"
  /\ plan' = [plan EXCEPT ![r] = [n \in 1 .. HeadRevision - db.revision |-> db.revision + n]]
  /\ phase' = [phase EXCEPT ![r] = "planned"]
  /\ UNCHANGED <<db, work>>

PlanDowngrade(r) ==
  /\ phase[r] = "idle" /\ db.revision > 0
  /\ plan' = [plan EXCEPT ![r] = <<-db.revision>>]
  /\ phase' = [phase EXCEPT ![r] = "planned"]
  /\ UNCHANGED <<db, work>>

TableLocked == \E r \in Runners : phase[r] = "open"

\* The plan's first statement takes the table, or waits for the transaction that has it.
TakeTable(r) ==
  /\ phase[r] = "planned" /\ plan[r] # <<>> /\ ~TableLocked
  /\ phase' = [phase EXCEPT ![r] = "open"]
  /\ work' = db
  /\ UNCHANGED <<db, plan>>

Rollback(r) ==
  /\ phase' = [phase EXCEPT ![r] = "failed"]
  /\ plan' = [plan EXCEPT ![r] = <<>>]
  /\ work' = IF phase[r] = "open" THEN NULL ELSE work
  /\ UNCHANGED db

\* Mutant: a failed migration is tried again in the same transaction.
TriesAgain(r) ==
  /\ phase[r] = "open" /\ plan[r] # <<>>
  /\ \/ \E after \in Migrated(work, Head(plan[r])) :
          work' = after /\ plan' = [plan EXCEPT ![r] = Tail(@)] /\ UNCHANGED <<db, phase>>
     \/ Migrated(work, Head(plan[r])) = {} /\ UNCHANGED migrationVars

RunMigration(r) ==
  /\ phase[r] = "open" /\ plan[r] # <<>>
  /\ \/ \E after \in Migrated(work, Head(plan[r])) :
          work' = after /\ plan' = [plan EXCEPT ![r] = Tail(@)] /\ UNCHANGED <<db, phase>>
     \/ Migrated(work, Head(plan[r])) = {} /\ Rollback(r)

\* An empty plan commits without having taken anything.
Commit(r) ==
  /\ phase[r] \in {"planned", "open"} /\ plan[r] = <<>>
  /\ phase' = [phase EXCEPT ![r] = "done"]
  /\ db' = IF phase[r] = "open" THEN work ELSE db
  /\ work' = IF phase[r] = "open" THEN NULL ELSE work
  /\ UNCHANGED plan

\* Two plans that start with 4733a4dd6da9 both execute its DELETE, which shares
\* the table, and then wait for each other: Postgres fails one of them, and the
\* other has the table to itself.
Deadlock(victim) ==
  \E other \in Runners \ {victim} :
    /\ {phase[victim], phase[other]} = {"open", "planned"} /\ work = db
    /\ \A r \in {victim, other} : plan[r] # <<>> /\ Head(plan[r]) = 4
    /\ phase' = [phase EXCEPT ![victim] = "failed", ![other] = "open"]
    /\ plan' = [plan EXCEPT ![victim] = <<>>, ![other] = Tail(@)]
    /\ work' \in Migrated(db, 4)
    /\ UNCHANGED db

\* The process dies, or its connection does.
Abort(r) == phase[r] \in {"planned", "open"} /\ Rollback(r)

\* A transaction that nothing else holds up goes on.
Advance(r) == TakeTable(r) \/ RunMigration(r) \/ Commit(r)

-----------------------------------------------------------------------------
(* The schema of each revision, which its upgrade leads to and the downgrade *)
(* of the next one restores                                                  *)

Times == {"created_at", "updated_at"}
Flags == {"is_draft", "is_locked"}
Lifecycle == {"archived_at", "publish_at", "unpublish_at"}

\* The columns that may be null: none before drafts.
Nullable(k) ==
  CASE k = 5 -> Lifecycle \union {"name", "powers"}
    [] k = 6 -> Lifecycle \union {"name", "powers", "power_level"}
    [] OTHER -> {}

Required(k) ==
  CASE k = 0 -> {}
    [] k = 1 -> {"name", "superpower"}
    [] k = 2 -> {"name", "superpower"} \union Times
    [] k = 3 -> {"name", "powers"} \union Times
    [] k = 4 -> {"name", "powers", "owner_id"} \union Times
    [] OTHER -> {"owner_id"} \union Times \union Flags

Columns(k) ==
  [c \in Nullable(k) \union Required(k) |-> IF c \in Nullable(k) THEN "null" ELSE "not null"]

TablesOf(k) == CASE k = 0 -> {} [] k \in 1 .. 4 -> {"heroes"} [] OTHER -> {"heroes", "revisions"}
=============================================================================
