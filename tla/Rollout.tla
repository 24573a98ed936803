------------------------------- MODULE Rollout -------------------------------
(***************************************************************************)
(* A deployment: one process with its whole life (Lifespan), the other     *)
(* replicas of the release, reduced to starting, serving and being         *)
(* restarted, and the operator's alembic CLI, on one database that may be  *)
(* at any revision (Migrations); meanwhile whoever serves writes heroes in *)
(* both API versions (Heroes).                                             *)
(*                                                                         *)
(* All replicas run with one configuration. Lifespan.Migrate takes its     *)
(* outcome from the process's migration transaction.                       *)
(***************************************************************************)
EXTENDS Lifespan, Heroes

CONSTANTS
  self,          \* the process Lifespan describes
  Others,        \* the other replicas
  cli,           \* the operator's alembic
  Ids,           \* hero ids
  Begin,         \* databases a deployment may find
  MaxFaults      \* bound: deaths of transactions and replicas, and downgrades

ASSUME RunnersAssumption ==
  Runners = {self, cli} \union Others /\ self \notin Others /\ cli \notin {self} \union Others

\* A value a column may hold.
ValueFits(c, v) ==
  CASE c = "name" -> v \in Names \union {NULL}
    [] c = "superpower" -> v \in Powers \union {NULL}
    [] c = "powers" -> v = NULL \/ v[1] \in Powers
    [] OTHER -> TRUE

\* A database as migrations and clients leave it: it has the schema of its revision,
\* and its rows satisfy that schema.
Consistent(d) ==
  /\ DOMAIN d = DOMAIN Empty /\ d.revision \in 0 .. HeadRevision
  /\ d.tables = TablesOf(d.revision) /\ d.columns = Columns(d.revision)
  /\ DOMAIN d.rows \subseteq Ids /\ (d.revision = 0 => DOMAIN d.rows = {})
  /\ \A i \in DOMAIN d.rows :
       /\ DOMAIN d.rows[i] = DOMAIN d.columns
       /\ \A c \in DOMAIN d.columns :
            ValueFits(c, d.rows[i][c]) /\ (d.rows[i][c] # NULL \/ d.columns[c] = "null")

ASSUME BeginAssumption == \A d \in Begin : Consistent(d)
ASSUME FaultsAssumption == MaxFaults \in Nat

VARIABLES
  heroes,     \* auxiliary: the fields clients wrote, by id, while heroes had an owner
  aborts,     \* how many died
  downgrades  \* how many downgrades the operator has started

bounds == <<aborts, downgrades>>
MoreFaults == aborts + downgrades < MaxFaults
rolloutVars == <<vars, migrationVars, heroes, bounds>>

\* What the fields of a row hold that clients write.
Shown(row) == [c \in DOMAIN row \intersect ({"name", "powers"} \union MoreFields) |-> row[c]]

\* The heroes of revisions without owner_id are disposable.
OwnedHeroes(d) == IF d.revision >= 4 THEN [i \in DOMAIN d.rows |-> Shown(d.rows[i])] ELSE <<>>

\* What a downgrade to revision k leaves of what was written: no hero without its
\* owner, and of a hero the fields that k has a column for.
Kept(hs, k) ==
  IF k < 4 THEN <<>>
  ELSE [i \in DOMAIN hs |-> [c \in DOMAIN hs[i] \intersect DOMAIN Columns(k) |-> hs[i][c]]]

\* The rows are these heroes, each with its name, its powers and what else was written.
Holds(rows, hs) ==
  /\ DOMAIN hs = DOMAIN rows
  /\ \A i \in DOMAIN hs :
       /\ {"name", "powers"} \subseteq DOMAIN hs[i] /\ DOMAIN hs[i] \subseteq DOMAIN rows[i]
       /\ \A c \in DOMAIN hs[i] : hs[i][c] = rows[i][c]

\* The type of every variable that is not Lifespan's.
RolloutTypeOK ==
  /\ TypeOK
  /\ DOMAIN db = DOMAIN Empty /\ db.revision \in 0 .. HeadRevision
  /\ phase \in [Runners -> Phases]
  /\ \A r \in Runners : plan[r] # <<>> => phase[r] \in {"planned", "open"}
  /\ IF TableLocked THEN work.revision \in 0 .. HeadRevision ELSE work = NULL
  /\ DOMAIN heroes \subseteq Ids /\ aborts + downgrades \in 0 .. MaxFaults

RolloutInit ==
  /\ Init
  /\ db \in Begin
  /\ phase = [r \in Runners |-> "idle"]
  /\ plan = [r \in Runners |-> <<>>]
  /\ work = NULL
  /\ heroes = OwnedHeroes(db)
  /\ aborts = 0 /\ downgrades = 0

-----------------------------------------------------------------------------
(* Replicas and the operator *)

\* _run_migrations of the process Lifespan describes.
SelfMigrates ==
  /\ pc = "migrate"
  /\ PlanUpgrade(self) \/ Advance(self)
  /\ UNCHANGED <<vars, heroes, bounds>>

\* Mutant: a failed upgrade is logged and startup goes on.
StartsAnyway ==
  /\ Migrate
  /\ phase[self] \in {"done", "failed"} /\ pc' = "prefetch"
  /\ UNCHANGED <<migrationVars, heroes, bounds>>

\* command.upgrade returns, or its error ends the startup.
SelfMigrated ==
  /\ Migrate
  /\ \/ phase[self] = "done" /\ pc' = "prefetch"
     \/ phase[self] = "failed" /\ pc' = "end"
  /\ UNCHANGED <<migrationVars, heroes, bounds>>

\* The rest of the process's life touches no schema.
SelfLives ==
  /\ pc # "migrate"
  /\ Next
  /\ UNCHANGED <<migrationVars, heroes, bounds>>

OtherMigrates(r) ==
  /\ migrates /\ (PlanUpgrade(r) \/ Advance(r))
  /\ UNCHANGED <<vars, heroes, bounds>>

\* A replica whose startup failed is started again; a CLI command may be repeated.
Restart(r) ==
  /\ phase[r] \in IF r = cli THEN {"failed", "done"} ELSE {"failed"}
  /\ phase' = [phase EXCEPT ![r] = "idle"]
  /\ UNCHANGED <<vars, db, plan, work, heroes, bounds>>

\* A serving replica is replaced.
Replace(r) ==
  /\ MoreFaults /\ phase[r] = "done"
  /\ phase' = [phase EXCEPT ![r] = "idle"]
  /\ aborts' = aborts + 1
  /\ UNCHANGED <<vars, db, plan, work, heroes, downgrades>>

Dies(r) ==
  /\ MoreFaults
  /\ r = self => pc = "migrate"
  /\ Abort(r)
  /\ aborts' = aborts + 1
  /\ UNCHANGED <<vars, heroes, downgrades>>

Deadlocks(r) ==
  /\ Deadlock(r)
  /\ UNCHANGED <<vars, heroes, bounds>>

\* alembic upgrade head, or downgrade -1.
OperatorStarts ==
  /\ ~mock
  /\ \/ PlanUpgrade(cli) /\ UNCHANGED downgrades
     \/ /\ MoreFaults /\ downgrades' = downgrades + 1
        /\ PlanDowngrade(cli)
  /\ UNCHANGED <<vars, heroes, aborts>>

OperatorAdvances ==
  /\ Advance(cli)
  /\ heroes' = IF db' = db THEN heroes ELSE Kept(heroes, db'.revision)
  /\ UNCHANGED <<vars, bounds>>

-----------------------------------------------------------------------------
(* Requests to a replica that serves *)

Serves(r) == IF r = self THEN pc = "serve" ELSE phase[r] = "done" \/ ~migrates

\* The model's columns exist and no migration holds the table.
TableUsable ==
  /\ ~mock
  /\ \E r \in {self} \union Others : Serves(r)
  /\ DOMAIN HeroModel \subseteq DOMAIN db.columns /\ ~TableLocked

\* An ORM insert names every column of the model.
Inserted(payload) ==
  payload ++ [c \in DOMAIN HeroModel |->
    CASE c = "owner_id" -> "owner"
      [] c \in {"is_draft", "is_locked"} -> "flag"
      [] c \in {"created_at", "updated_at"} -> "now"
      [] OTHER -> NULL]

\* craftainer_crud writes the validated row; a failed constraint rolls it back.
\* An update that changes nothing is left out.
Write(i, row, hero) ==
  /\ TableUsable
  /\ i \in DOMAIN heroes => hero # heroes[i]
  /\ \A c \in DOMAIN db.columns : db.columns[c] = "null" \/ row[c] # NULL
  /\ db' = [db EXCEPT !.rows = With(@, i, row)]
  /\ heroes' = With(heroes, i, hero)
  /\ UNCHANGED <<vars, phase, plan, work, bounds>>

CreateV1(i) ==
  /\ i \notin DOMAIN db.rows
  /\ \E n \in Names, p \in Powers :
       Write(i, Inserted(V1CreateToV2([name |-> n, superpower |-> p])),
             [name |-> n, powers |-> <<p>>])

CreateV2(i) ==
  /\ i \notin DOMAIN db.rows
  /\ \E payload \in V2Creates : Write(i, Inserted(payload), payload)

SaveDraft(i) ==
  /\ i \notin DOMAIN db.rows
  /\ \E payload \in V2Updates :
       /\ ValidV2Update(payload)
       /\ Write(i, Inserted(payload), payload ++ [name |-> NULL, powers |-> NULL])

\* A field that was not sent keeps its value. publish, archive and restore have routes
\* of their own, and change a field likewise.
PatchV2(i) ==
  /\ i \in DOMAIN db.rows
  /\ \E payload \in V2Updates \union StateChanges :
       /\ ValidV2Update(payload)
       /\ Write(i, payload ++ db.rows[i], payload ++ heroes[i])

PatchV1(i) ==
  /\ i \in DOMAIN db.rows
  /\ \E payload \in V1Updates :
       /\ ValidV2Update(V1UpdateToV2(payload))
       /\ Write(i, V1UpdateToV2(payload) ++ db.rows[i],
                [name |-> IF "name" \in DOMAIN payload THEN payload.name ELSE heroes[i].name,
                 powers |-> IF "superpower" \in DOMAIN payload THEN <<payload.superpower>>
                            ELSE heroes[i].powers] ++ heroes[i])

-----------------------------------------------------------------------------
RolloutNext ==
  \/ SelfMigrates \/ SelfMigrated \/ SelfLives
  \/ \E r \in Others : OtherMigrates(r) \/ Replace(r)
  \/ \E r \in Runners \ {self} : Restart(r)
  \/ \E r \in Runners : Dies(r) \/ Deadlocks(r)
  \/ OperatorStarts \/ OperatorAdvances
  \/ \E i \in Ids : CreateV1(i) \/ CreateV2(i) \/ SaveDraft(i) \/ PatchV1(i) \/ PatchV2(i)

RolloutSpec == RolloutInit /\ [][RolloutNext]_rolloutVars

\* The event loop runs what is ready, Postgres executes what is not blocked, and
\* a replica that failed to start is started again.
Deployed == <<migrationVars, heroes, bounds>>

RolloutFairness ==
  /\ WF_rolloutVars(SelfMigrates \/ SelfMigrated \/ (pc # "migrate" /\ Coroutine /\ UNCHANGED Deployed))
  /\ WF_rolloutVars(Task /\ UNCHANGED Deployed)
  /\ WF_rolloutVars(OperatorAdvances)
  /\ \A r \in Others : WF_rolloutVars(OtherMigrates(r) \/ Restart(r))

FairRollout == RolloutSpec /\ RolloutFairness

-----------------------------------------------------------------------------
(* Properties *)

\* At every revision the committed schema is that revision's, whichever transactions
\* ran, failed or were undone, and every row satisfies it; at the head it is the
\* model's (models/hero.py).
SchemaMatchesRevision ==
  Consistent(db) /\ (db.revision = HeadRevision => db.columns = HeroModel)

\* A replica that migrates at startup serves only once the database is at the
\* head, unless the operator has downgraded it (lifespan: migrate, then serve).
ServesAtHead ==
  migrates /\ downgrades = 0 /\ (\E r \in {self} \union Others : Serves(r)) =>
    db.revision = HeadRevision

\* No start, race or crash loses or alters what clients have written of a hero, and
\* a client of one version changes only what it sends: a v1 update without superpower
\* keeps the list of powers. A downgrade as far as owner_id keeps every hero's name
\* and powers, and loses only the fields its revision has no column for: power_level
\* below 49e3e2487a13, the lifecycle fields below 8e0846bd353a.
HeroesSurvive == db.revision >= 4 => Holds(db.rows, heroes)

\* Whatever v2 clients and drafts have stored, a v1 client that lists heroes
\* gets a valid response (hero_v2_to_v1).
V1ReadsValid ==
  db.revision = HeadRevision => \A i \in DOMAIN db.rows : ValidV1(V2ToV1(db.rows[i]))

\* Replicas that race for the migrations all serve in the end.
RolloutCompletes == migrates => \A r \in Others : <>[](phase[r] = "done")
=============================================================================
