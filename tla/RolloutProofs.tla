---------------------------- MODULE RolloutProofs ----------------------------
(***************************************************************************)
(* A process keeps to its mode, its invalidation task ends before anything *)
(* it uses is released, and a shutdown releases everything: for every      *)
(* environment and whichever steps raise.                                  *)
(*                                                                         *)
(* A process in a deployment lives the life that Lifespan describes, with  *)
(* its migrations decided by the database instead of by chance: so what    *)
(* is proved of the process alone holds among other replicas, an operator  *)
(* and clients, whatever they do to the database it migrates.              *)
(*                                                                         *)
(* And the database they share keeps its schema and its heroes, for any    *)
(* number of replicas, ids and payloads. Each statement, then each         *)
(* migration, then each transaction is shown to lead from one sound        *)
(* database to another; the invariant says that what is committed and what *)
(* the one open transaction sees are sound, and that nobody has finished   *)
(* upgrading below the head.                                               *)
(***************************************************************************)
EXTENDS Rollout, SequenceTheorems, TLAPS

-----------------------------------------------------------------------------
(* The process alone *)

Starting == {"migrate", "prefetch", "enter"}
Releasing == {"health", "analytics", "engine", "end"}

\* There is a task from serving on, or never.
TaskInPlace ==
  /\ pc \in Starting => task = "none"
  /\ pc \in {"exit", "await"} => task # "none"

\* Releases happen in order; the cache's comes first, if its task was started.
ReleasedSoFar ==
  /\ pc \in Starting \union {"serve", "exit", "await", "cache"} => released = {}
  /\ pc \in {"analytics", "engine"} => "health" \in released
  /\ pc = "engine" => "analytics" \in released
  /\ pc = "end" => \/ task = "none" /\ released = {}
                   \/ {"health", "analytics", "engine"} \subseteq released
  /\ pc \in Releasing /\ cache = "redis" /\ task # "none" => "cache" \in released

\* The inductive invariant.
Inv ==
  /\ TypeOK
  /\ KeepsToItsMode
  /\ TaskEndsFirst
  /\ TaskInPlace
  /\ ReleasedSoFar

-----------------------------------------------------------------------------
\* Every environment the validators let through, not only those a run lists, is
\* one whose process does nothing its mode forbids but connect its migrations.
LEMMA ValidatorsSuffice ==
  ASSUME NEW env \in Environment, Starts(env)
  PROVE  Lapses(env) \ Tolerated = {}
<1>1. CASE Production(env)
  <2>1. EncryptedEngine(env) /\ env.redis = "rediss" /\ env.s3 = "https"
    BY <1>1 DEF Environment, Starts, PlainPostgres, PlainStores, EncryptedEngine
  <2>2. ExpectedIssuer(env) = "https" /\ DiscoveryUrl(env) = "https"
    BY <1>1 DEF Starts, PlainIssuer
  <2>3. ResourceUrl(env) = "https"
    BY <1>1 DEF Environment, Starts, PublicBaseUrlProblem, ResourceUrl
  <2>4. env.credentials = {"postgres", "s3 access", "s3 secret"}
    BY <1>1 DEF Starts, DefaultCredentials
  <2>5. env.mqttTls /\ env.mqttUser /\ env.mqttPassword /\ env.subscriberSecret
    BY <1>1 DEF Starts, AnonymousBroker, NoSubscriberSecret
  <2>6. ~env.profiling
    BY <1>1 DEF Starts, ProfilingRefused
  <2>7. env.contact # "unset" => GoodSecurityTxt(env)
    BY DEF Environment, Starts, SecurityTxtProblem, GoodSecurityTxt, ServesSecurityTxt
  <2>8. QED
    BY <2>1, <2>2, <2>3, <2>4, <2>5, <2>6, <2>7 DEF Lapses, Tolerated
<1>2. CASE ~Production(env)
  <2>1. env.contact # "unset" => GoodSecurityTxt(env)
    BY DEF Environment, Starts, SecurityTxtProblem, GoodSecurityTxt, ServesSecurityTxt
  <2>2. QED
    BY <1>2, <2>1 DEF Lapses, Tolerated
<1>3. QED
  BY <1>1, <1>2

\* A process about to start satisfies the invariant.
LEMMA InitInv == Init => Inv
<1> SUFFICES ASSUME Init PROVE Inv
  OBVIOUS
<1>1. PICK env \in Environments :
        /\ Starts(env)
        /\ mock = (env.mode = "mock")
        /\ lapses = Lapses(env) \ Tolerated
        /\ migrates = RunsMigrations(env)
        /\ cache = StatsCacheKind(env)
  BY DEF Init
<1>2. env \in Environment
  BY <1>1, EnvironmentsAssumption
<1>3. mock \in BOOLEAN /\ migrates \in BOOLEAN
  BY <1>1, <1>2 DEF Environment, RunsMigrations
<1>4. cache \in {"off", "memory", "redis"}
  BY <1>1, <1>2 DEF Environment, StatsCacheKind
<1>5. pc \in {"migrate", "prefetch"}
  BY DEF Init
<1>6. TypeOK
  BY <1>3, <1>4, <1>5 DEF Init, TypeOK, Steps, TaskStates
<1>7. KeepsToItsMode
  BY <1>1, <1>2, ValidatorsSuffice DEF KeepsToItsMode
<1>8. TaskEndsFirst /\ TaskInPlace /\ ReleasedSoFar
  BY <1>5 DEF Init, TaskEndsFirst, TaskInPlace, ReleasedSoFar, Starting, Releasing
<1>9. QED
  BY <1>6, <1>7, <1>8 DEF Inv

-----------------------------------------------------------------------------
\* What the environment settled stays settled.
LEMMA SettingsStay == Next => UNCHANGED settings
BY DEF Next, Coroutine, Migrate, Prefetch, EnterCache, CancelTask, AwaitTask, CloseCache,
         CloseHealthChecks, AnalyticsShutdown, DisposeEngine, BuildHealthRegistry, Shutdown,
         Task, TaskStep, DeliverCancel, Unwound, UnwindRaises, lifespanVars, Ended, vars

\* Every step keeps the types.
LEMMA TypeStep == TypeOK /\ TaskInPlace /\ Next => TypeOK'
<1> SUFFICES ASSUME TypeOK, TaskInPlace, Next PROVE TypeOK'
  OBVIOUS
<1>1. (mock \in BOOLEAN /\ migrates \in BOOLEAN /\ cache \in {"off", "memory", "redis"})'
  BY SettingsStay DEF settings, TypeOK
<1>2. (check \in BOOLEAN /\ cancelled \in BOOLEAN /\ swallowed \in BOOLEAN)'
  BY DEF Next, Coroutine, Migrate, Prefetch, EnterCache, CancelTask, AwaitTask, CloseCache,
         CloseHealthChecks, AnalyticsShutdown, DisposeEngine, BuildHealthRegistry, Shutdown,
         Task, TaskStep, DeliverCancel, Unwound, UnwindRaises, lifespanVars, Ended, vars, TypeOK
<1>3. (pc \in Steps /\ task \in TaskStates)'
  BY DEF Next, Coroutine, Migrate, Prefetch, EnterCache, CancelTask, AwaitTask, CloseCache,
         CloseHealthChecks, AnalyticsShutdown, DisposeEngine, BuildHealthRegistry, Shutdown,
         Task, TaskStep, DeliverCancel, Unwound, UnwindRaises, lifespanVars, Ended, vars, Step, TypeOK, Steps, TaskStates
<1>4. (released \subseteq {"cache", "health", "analytics", "engine"})'
  BY DEF Next, Coroutine, Migrate, Prefetch, EnterCache, CancelTask, AwaitTask, CloseCache,
         CloseHealthChecks, AnalyticsShutdown, DisposeEngine, BuildHealthRegistry, Shutdown,
         Task, TaskStep, DeliverCancel, Unwound, UnwindRaises, lifespanVars, Ended, vars, TypeOK
<1>5. (cancelled => task # "none")'
  BY DEF Next, Coroutine, Migrate, Prefetch, EnterCache, CancelTask, AwaitTask, CloseCache,
         CloseHealthChecks, AnalyticsShutdown, DisposeEngine, BuildHealthRegistry, Shutdown,
         Task, TaskStep, DeliverCancel, Unwound, UnwindRaises, lifespanVars, Ended, vars, Step, TypeOK, TaskInPlace
<1>6. QED
  BY <1>1, <1>2, <1>3, <1>4, <1>5 DEF TypeOK

\* The task comes and goes in its place: none before it is started, and none
\* running once something it uses is released.
LEMMA TaskPlaceStep ==
  TypeOK /\ TaskEndsFirst /\ TaskInPlace /\ Next => TaskEndsFirst' /\ TaskInPlace'
<1> SUFFICES ASSUME TypeOK, TaskEndsFirst, TaskInPlace, Next
             PROVE  TaskEndsFirst' /\ TaskInPlace'
  OBVIOUS
<1> USE DEF TaskEndsFirst, TaskInPlace, Starting
<1>1. CASE Migrate \/ Prefetch \/ EnterCache
  BY <1>1 DEF Migrate, Prefetch, EnterCache, Step
<1>2. CASE CancelTask \/ AwaitTask
  BY <1>2 DEF CancelTask, AwaitTask
<1>3. CASE CloseCache \/ CloseHealthChecks \/ AnalyticsShutdown \/ DisposeEngine
  BY <1>3 DEF CloseCache, CloseHealthChecks, AnalyticsShutdown, DisposeEngine, Step
<1>4. CASE BuildHealthRegistry \/ Shutdown \/ Ended
  BY <1>4 DEF BuildHealthRegistry, Shutdown, Ended, vars
<1>5. CASE Task
  \* A task that is none or has ended takes no step but the delivery of a late cancel.
  <2>1. pc' = pc /\ task # "none" /\ task' # "none" /\ (task = "ended" => task' = "ended")
    BY <1>5 DEF Task, TaskStep, DeliverCancel, Unwound, UnwindRaises, lifespanVars, TypeOK
  <2>2. QED
    BY <2>1
<1>6. QED
  BY <1>1, <1>2, <1>3, <1>4, <1>5 DEF Next, Coroutine

\* Every release is tried before the next one, whatever raises.
LEMMA ReleaseStep ==
  TypeOK /\ TaskInPlace /\ ReleasedSoFar /\ Next => ReleasedSoFar'
<1> SUFFICES ASSUME TypeOK, TaskInPlace, ReleasedSoFar, Next
             PROVE  ReleasedSoFar'
  OBVIOUS
<1> USE DEF ReleasedSoFar, Starting, Releasing
<1>1. CASE Migrate \/ Prefetch \/ EnterCache
  BY <1>1 DEF Migrate, Prefetch, EnterCache, Step, TaskInPlace, settings
<1>2. CASE CancelTask \/ AwaitTask
  BY <1>2 DEF CancelTask, AwaitTask, settings
<1>3. CASE CloseCache
  BY <1>3 DEF CloseCache, Step, settings
<1>4. CASE CloseHealthChecks
  BY <1>4 DEF CloseHealthChecks, Step, settings
<1>5. CASE AnalyticsShutdown
  BY <1>5 DEF AnalyticsShutdown, settings
<1>6. CASE DisposeEngine
  BY <1>6 DEF DisposeEngine, Step, settings
<1>7. CASE BuildHealthRegistry \/ Shutdown \/ Ended
  BY <1>7 DEF BuildHealthRegistry, Shutdown, Ended, vars, settings
<1>8. CASE Task
  <2>1. UNCHANGED <<pc, cache, released>> /\ task # "none" /\ task' # "none"
    BY <1>8 DEF Task, TaskStep, DeliverCancel, Unwound, UnwindRaises, lifespanVars, settings,
                TypeOK
  <2>2. QED
    BY <2>1
<1>9. QED
  BY <1>1, <1>2, <1>3, <1>4, <1>5, <1>6, <1>7, <1>8 DEF Next, Coroutine

\* What a process may do does not change.
LEMMA ModeStep == KeepsToItsMode /\ Next => KeepsToItsMode'
BY SettingsStay DEF KeepsToItsMode, settings

\* Every step keeps the invariant.
LEMMA NextInv == Inv /\ [Next]_vars => Inv'
<1> SUFFICES ASSUME Inv, [Next]_vars PROVE Inv'
  OBVIOUS
<1>1. CASE Next
  BY <1>1, TypeStep, TaskPlaceStep, ReleaseStep, ModeStep DEF Inv
<1>2. CASE UNCHANGED vars
  BY <1>2 DEF Inv, vars, settings, TypeOK, KeepsToItsMode, TaskEndsFirst, TaskInPlace,
              ReleasedSoFar
<1>3. QED
  BY <1>1, <1>2

LEMMA AlwaysInv == Spec => []Inv
<1>1. QED
  BY InitInv, NextInv, PTL DEF Spec

-----------------------------------------------------------------------------
\* Every variable keeps its type.
THEOREM TypeCorrect == Spec => []TypeOK
<1>1. Inv => TypeOK
  BY DEF Inv
<1>2. QED
  BY <1>1, AlwaysInv, PTL

\* In every environment that the validators accept, a process does nothing that
\* its mode forbids, as long as it lives: save that the migrations of its startup may
\* connect to the database in the clear, which no validator prevents.
THEOREM ModeIsKept == Spec => []KeepsToItsMode
<1>1. Inv => KeepsToItsMode
  BY DEF Inv
<1>2. QED
  BY <1>1, AlwaysInv, PTL

\* The cancel, wherever it meets the task, is awaited before a release.
THEOREM TaskFirst == Spec => []TaskEndsFirst
<1>1. Inv => TaskEndsFirst
  BY DEF Inv
<1>2. QED
  BY <1>1, AlwaysInv, PTL

\* Whichever steps raise, every release is tried once startup got that far.
THEOREM NothingLeftOpen == Spec => []AllReleased
<1>1. Inv => AllReleased
  BY DEF Inv, ReleasedSoFar, AllReleased, Releasing
<1>2. QED
  BY <1>1, AlwaysInv, PTL

-----------------------------------------------------------------------------
(* The process among the others *)

\* Every step of a deployment is a step of the process, or none of its business.
LEMMA StepIsLifespan == [RolloutNext]_rolloutVars => [Next]_vars
<1> SUFFICES ASSUME [RolloutNext]_rolloutVars PROVE [Next]_vars
  OBVIOUS
<1>1. CASE SelfMigrates
  BY <1>1 DEF SelfMigrates
<1>2. CASE SelfMigrated
  BY <1>2 DEF SelfMigrated, Next, Coroutine
<1>3. CASE SelfLives
  BY <1>3 DEF SelfLives
<1>4. CASE \E r \in Others : OtherMigrates(r) \/ Replace(r)
  BY <1>4 DEF OtherMigrates, Replace
<1>5. CASE \E r \in Runners \ {self} : Restart(r)
  BY <1>5 DEF Restart
<1>6. CASE \E r \in Runners : Dies(r) \/ Deadlocks(r)
  BY <1>6 DEF Dies, Deadlocks
<1>7. CASE OperatorStarts \/ OperatorAdvances
  BY <1>7 DEF OperatorStarts, OperatorAdvances
<1>8. CASE \E i \in Ids : CreateV1(i) \/ CreateV2(i) \/ SaveDraft(i) \/ PatchV1(i) \/ PatchV2(i)
  BY <1>8 DEF CreateV1, CreateV2, SaveDraft, PatchV1, PatchV2, Write
<1>9. CASE UNCHANGED rolloutVars
  BY <1>9 DEF rolloutVars
<1>10. QED
  BY <1>1, <1>2, <1>3, <1>4, <1>5, <1>6, <1>7, <1>8, <1>9 DEF RolloutNext

\* The composition implements Lifespan.
THEOREM RolloutIsLifespan == RolloutSpec => Spec
<1>1. RolloutInit => Init
  BY DEF RolloutInit
<1>2. QED
  BY <1>1, StepIsLifespan, PTL DEF RolloutSpec, Spec

\* So a replica among others keeps to its mode, the connection of its migrations
\* aside, and its shutdown releases everything after its task has ended.
THEOREM ReplicaIsSafe == RolloutSpec => [](KeepsToItsMode /\ TaskEndsFirst /\ AllReleased)
BY RolloutIsLifespan, ModeIsKept, TaskFirst, NothingLeftOpen, PTL

-----------------------------------------------------------------------------
(* Statements *)

\* The columns N may be null, the columns R not.
Cols(N, R) == [c \in N \union R |-> IF c \in N THEN "null" ELSE "not null"]

RowFits(row, N, R) ==
  /\ DOMAIN row = N \union R
  /\ \A c \in N \union R : ValueFits(c, row[c])
  /\ \A c \in R : row[c] # NULL

Shape(d, N, R, T) ==
  /\ DOMAIN d = DOMAIN Empty
  /\ d.tables = T
  /\ d.columns = Cols(N, R)
  /\ DOMAIN d.rows \subseteq Ids
  /\ \A i \in DOMAIN d.rows : RowFits(d.rows[i], N, R)

All(ds, N, R, T) == \A d \in ds : Shape(d, N, R, T)

NoRows(ds) == \A d \in ds : DOMAIN d.rows = {}

\* The statement is executed on every one of the databases.
Works(ds, s) == \A d \in ds : Executable(d, s)

\* A statement that can be executed leaves something.
LEMMA WorksOnSome == ASSUME NEW ds, NEW s, ds # {}, Works(ds, s) PROVE (ds | s) # {}
BY DEF Works, |

\* ALTER TABLE heroes ADD COLUMN: the rows there are take the default.
LEMMA Added ==
  ASSUME NEW ds, NEW N, NEW R, NEW T, All(ds, N, R, T), NEW c, NEW v, ValueFits(c, v)
  PROVE  /\ All(ds | Add(c, "null", v), N \union {c}, R, T)
         /\ All(ds | Add(c, "not null", v), N, R \union {c}, T)
<1> SUFFICES ASSUME NEW declared \in {"null", "not null"}, NEW d \in ds,
                    Executable(d, Add(c, declared, v))
             PROVE  Shape(Effect(d, Add(c, declared, v)),
                          IF declared = "null" THEN N \union {c} ELSE N,
                          IF declared = "null" THEN R ELSE R \union {c}, T)
  BY DEF All, |
<1> DEFINE s == Add(c, declared, v)
           e == Effect(d, s)
           N1 == IF declared = "null" THEN N \union {c} ELSE N
           R1 == IF declared = "null" THEN R ELSE R \union {c}
<1>1. s.do = "add" /\ s.on = c /\ s.declared = declared /\ s.default = v
  BY DEF Add
<1> HIDE DEF s
<1>2. Shape(d, N, R, T)
  BY DEF All
<1>3. c \notin N \union R /\ (declared = "null" \/ v # NULL \/ DOMAIN d.rows = {})
  BY <1>1, <1>2 DEF Executable, Shape, Cols, s
<1>4. DOMAIN e = DOMAIN Empty /\ e.tables = d.tables
  BY <1>1 DEF Effect, TablesAfter, Empty
<1>5. e.columns = Cols(N1, R1)
  <2>1. e.columns = ColumnsAfter(d.columns, s) /\ d.columns = Cols(N, R)
    BY <1>1, <1>2 DEF Effect, Shape
  <2>2. e.columns = With(Cols(N, R), c, declared)
    BY <1>1, <2>1 DEF ColumnsAfter
  <2>3. CASE declared = "null"
    BY <1>3, <2>2, <2>3 DEF With, ++, Cols
  <2>4. CASE declared # "null"
    BY <1>3, <2>2, <2>4 DEF With, ++, Cols
  <2>5. QED
    BY <2>3, <2>4
<1>6. e.rows = [i \in DOMAIN d.rows |-> RowAfter(d.rows[i], s)]
  BY <1>1 DEF Effect
<1>7. ASSUME NEW i \in DOMAIN d.rows
      PROVE  RowFits(RowAfter(d.rows[i], s), N1, R1)
  BY <1>1, <1>2, <1>3 DEF Shape, RowFits, RowAfter, With, ++
<1>8. QED
  BY <1>2, <1>4, <1>5, <1>6, <1>7 DEF Shape, s

\* It is executed unless there are rows and no value for them.
LEMMA AddWorks ==
  ASSUME NEW ds, NEW N, NEW R, NEW T, All(ds, N, R, T), NEW c, c \notin N \union R, NEW v
  PROVE  /\ Works(ds, Add(c, "null", v))
         /\ NoRows(ds) \/ v # NULL => Works(ds, Add(c, "not null", v))
         /\ NoRows(ds) => NoRows(ds | Add(c, "not null", v))
<1>1. ASSUME NEW declared, NEW d \in ds, declared = "null" \/ DOMAIN d.rows = {} \/ v # NULL
      PROVE  Executable(d, Add(c, declared, v))
  <2> DEFINE s == Add(c, declared, v)
  <2>1. s.do = "add" /\ s.on = c /\ s.declared = declared /\ s.default = v
    BY DEF Add
  <2>2. DOMAIN d.columns = N \union R
    BY DEF All, Shape, Cols
  <2> HIDE DEF s
  <2>3. Executable(d, s)
    BY <1>1, <2>1, <2>2 DEF Executable
  <2>4. QED
    BY <2>3 DEF s
<1>2. ASSUME NEW d, DOMAIN d.rows = {}
      PROVE  DOMAIN Effect(d, Add(c, "not null", v)).rows = {}
  <2> DEFINE s == Add(c, "not null", v)
  <2>1. s.do = "add"
    BY DEF Add
  <2> HIDE DEF s
  <2>2. Effect(d, s).rows = [i \in DOMAIN d.rows |-> RowAfter(d.rows[i], s)]
    BY <2>1 DEF Effect
  <2>3. QED
    BY <1>2, <2>2 DEF s
<1>3. QED
  BY <1>1, <1>2 DEF Works, NoRows, |

\* ALTER TABLE heroes DROP COLUMN.
LEMMA Dropped ==
  ASSUME NEW ds, NEW N, NEW R, NEW T, All(ds, N, R, T), NEW c
  PROVE  /\ All(ds | Drop(c), N \ {c}, R \ {c}, T)
         /\ c \in N \union R => Works(ds, Drop(c))
<1> SUFFICES ASSUME NEW d \in ds
             PROVE  /\ Shape(Effect(d, Drop(c)), N \ {c}, R \ {c}, T)
                    /\ c \in N \union R => Executable(d, Drop(c))
  BY DEF All, Works, |
<1> DEFINE s == Drop(c)
           e == Effect(d, s)
<1>1. s.do = "drop" /\ s.on = c
  BY DEF Drop
<1> HIDE DEF s
<1>2. Shape(d, N, R, T)
  BY DEF All
<1>3. c \in N \union R => Executable(d, s)
  BY <1>1, <1>2 DEF Executable, Shape, Cols
<1>4. DOMAIN e = DOMAIN Empty /\ e.tables = d.tables
  BY <1>1 DEF Effect, TablesAfter, Empty
<1>5. e.columns = Cols(N \ {c}, R \ {c})
  <2>1. e.columns = ColumnsAfter(d.columns, s) /\ d.columns = Cols(N, R)
    BY <1>1, <1>2 DEF Effect, Shape
  <2>2. e.columns = Without(Cols(N, R), c)
    BY <1>1, <2>1 DEF ColumnsAfter
  <2>3. QED
    BY <2>2 DEF Without, Cols
<1>6. e.rows = [i \in DOMAIN d.rows |-> RowAfter(d.rows[i], s)]
  BY <1>1 DEF Effect
<1>7. ASSUME NEW i \in DOMAIN d.rows
      PROVE  RowFits(RowAfter(d.rows[i], s), N \ {c}, R \ {c})
  BY <1>1, <1>2 DEF Shape, RowFits, RowAfter, Without
<1>8. QED
  BY <1>2, <1>3, <1>4, <1>5, <1>6, <1>7 DEF Shape, s

\* ALTER TABLE heroes ALTER COLUMN: SET NOT NULL is refused where there is a null.
LEMMA Altered ==
  ASSUME NEW ds, NEW N, NEW R, NEW T, All(ds, N, R, T), NEW c
  PROVE  /\ All(ds | Alter(c, "null"), N \union {c}, R \ {c}, T)
         /\ All(ds | Alter(c, "not null"), N \ {c}, R \union {c}, T)
         /\ c \in N \union R => Works(ds, Alter(c, "null"))
         /\ c \in N \union R /\ (\A d \in ds : HasNoNull(d, c)) => Works(ds, Alter(c, "not null"))
<1> SUFFICES ASSUME NEW declared \in {"null", "not null"}, NEW d \in ds
             PROVE  /\ Executable(d, Alter(c, declared)) =>
                         Shape(Effect(d, Alter(c, declared)),
                               IF declared = "null" THEN N \union {c} ELSE N \ {c},
                               IF declared = "null" THEN R \ {c} ELSE R \union {c}, T)
                    /\ c \in N \union R /\ (declared = "null" \/ HasNoNull(d, c)) =>
                         Executable(d, Alter(c, declared))
  BY DEF All, Works, |
<1> DEFINE s == Alter(c, declared)
           e == Effect(d, s)
           N1 == IF declared = "null" THEN N \union {c} ELSE N \ {c}
           R1 == IF declared = "null" THEN R \ {c} ELSE R \union {c}
<1>1. s.do = "alter" /\ s.on = c /\ s.declared = declared
  BY DEF Alter
<1> HIDE DEF s
<1>2. Shape(d, N, R, T)
  BY DEF All
<1>3. Executable(d, s) <=> c \in N \union R /\ (declared = "null" \/ HasNoNull(d, c))
  <2>1. DOMAIN d.columns = N \union R
    BY <1>2 DEF Shape, Cols
  <2>2. QED
    BY <1>1, <2>1 DEF Executable
<1>4. DOMAIN e = DOMAIN Empty /\ e.tables = d.tables
  BY <1>1 DEF Effect, TablesAfter, Empty
<1>5. ASSUME c \in N \union R PROVE e.columns = Cols(N1, R1)
  <2>1. e.columns = ColumnsAfter(d.columns, s) /\ d.columns = Cols(N, R)
    BY <1>1, <1>2 DEF Effect, Shape
  <2>2. e.columns = [Cols(N, R) EXCEPT ![c] = declared]
    BY <1>1, <2>1 DEF ColumnsAfter
  <2>3. CASE declared = "null"
    BY <1>5, <2>2, <2>3 DEF Cols
  <2>4. CASE declared # "null"
    BY <1>5, <2>2, <2>4 DEF Cols
  <2>5. QED
    BY <2>3, <2>4
<1>6. e.rows = [i \in DOMAIN d.rows |-> RowAfter(d.rows[i], s)]
  BY <1>1 DEF Effect
<1>7. ASSUME NEW i \in DOMAIN d.rows, Executable(d, s)
      PROVE  RowFits(RowAfter(d.rows[i], s), N1, R1)
  BY <1>1, <1>2, <1>3, <1>7 DEF Shape, RowFits, RowAfter, HasNoNull
<1>8. QED
  BY <1>2, <1>3, <1>4, <1>5, <1>6, <1>7 DEF Shape, s

\* UPDATE heroes: a list of the one power, or the first of the list.
LEMMA Updated ==
  ASSUME NEW ds, NEW N, NEW R, NEW T, All(ds, N, R, T), NEW c,
         \/ c = "powers" /\ "powers" \in N /\ "superpower" \in R
         \/ c = "superpower" /\ "superpower" \in N /\ "powers" \in R,
         c \notin R
  PROVE  /\ All(ds | Update(c), N, R, T)
         /\ Works(ds, Update(c))
         /\ c = "powers" => \A d \in (ds | Update(c)) : HasNoNull(d, c)
<1> SUFFICES ASSUME NEW d \in ds
             PROVE  /\ Shape(Effect(d, Update(c)), N, R, T)
                    /\ Executable(d, Update(c))
                    /\ c = "powers" => HasNoNull(Effect(d, Update(c)), c)
  BY DEF All, Works, |
<1> DEFINE s == Update(c)
           e == Effect(d, s)
<1>1. s.do = "update" /\ s.on = c
  BY DEF Update
<1> HIDE DEF s
<1>2. Shape(d, N, R, T)
  BY DEF All
<1>3. Executable(d, s)
  BY <1>1, <1>2 DEF Executable, Shape, Cols
<1>4. DOMAIN e = DOMAIN Empty /\ e.tables = d.tables
  BY <1>1 DEF Effect, TablesAfter, Empty
<1>5. e.columns = d.columns
  BY <1>1 DEF Effect, ColumnsAfter
<1>6. e.rows = [i \in DOMAIN d.rows |-> RowAfter(d.rows[i], s)]
  BY <1>1 DEF Effect
<1>7. ASSUME NEW i \in DOMAIN d.rows
      PROVE  /\ RowFits(RowAfter(d.rows[i], s), N, R)
             /\ c = "powers" => RowAfter(d.rows[i], s)[c] # NULL
  <2> DEFINE row == d.rows[i]
  <2>1. RowFits(row, N, R)
    BY <1>2 DEF Shape
  <2>2. RowAfter(row, s) = [row EXCEPT ![c] = Converted(row, c)]
    BY <1>1 DEF RowAfter
  <2>3. ValueFits(c, Converted(row, c))
    BY <2>1 DEF RowFits, ValueFits, Converted
  <2>4. ASSUME c = "powers" PROVE Converted(row, c) # NULL
    <3>1. row["superpower"] \in Powers
      BY <2>1, <2>4 DEF RowFits, ValueFits
    <3>2. QED
      BY <2>4, <3>1, NullAssumption DEF Converted
  <2>5. QED
    BY <2>1, <2>2, <2>3, <2>4 DEF RowFits
<1>8. QED
  BY <1>2, <1>3, <1>4, <1>5, <1>6, <1>7 DEF Shape, HasNoNull, s

\* DELETE FROM heroes.
LEMMA Deleted ==
  ASSUME NEW ds, NEW N, NEW R, NEW T, All(ds, N, R, T)
  PROVE  /\ All(ds | DeleteRows, N, R, T)
         /\ NoRows(ds | DeleteRows)
         /\ "heroes" \in T => Works(ds, DeleteRows)
<1> SUFFICES ASSUME NEW d \in ds
             PROVE  /\ Shape(Effect(d, DeleteRows), N, R, T)
                    /\ DOMAIN Effect(d, DeleteRows).rows = {}
                    /\ "heroes" \in T => Executable(d, DeleteRows)
  BY DEF All, NoRows, Works, |
<1> DEFINE e == Effect(d, DeleteRows)
<1>1. /\ DOMAIN e = DOMAIN Empty
      /\ e.tables = d.tables /\ e.columns = d.columns /\ e.rows = <<>>
  BY DEF DeleteRows, Effect, TablesAfter, ColumnsAfter, Empty
<1>2. d.tables = T => (Executable(d, DeleteRows) <=> "heroes" \in T)
  BY DEF DeleteRows, Executable
<1>3. QED
  BY <1>1, <1>2 DEF All, Shape

\* CREATE TABLE.
LEMMA Created ==
  ASSUME NEW ds, NEW N, NEW R, NEW T, All(ds, N, R, T), NEW t
  PROVE  /\ All(ds | Create(t), N, R, T \union {t})
         /\ t \notin T => Works(ds, Create(t))
         /\ NoRows(ds) => NoRows(ds | Create(t))
<1> SUFFICES ASSUME NEW d \in ds
             PROVE  /\ Shape(Effect(d, Create(t)), N, R, T \union {t})
                    /\ t \notin T => Executable(d, Create(t))
                    /\ DOMAIN Effect(d, Create(t)).rows = DOMAIN d.rows
  BY DEF All, Works, NoRows, |
<1> DEFINE s == Create(t)
           e == Effect(d, s)
<1>1. s.do = "create" /\ s.on = t
  BY DEF Create
<1> HIDE DEF s
<1>2. DOMAIN e = DOMAIN Empty /\ e.tables = d.tables \union {t} /\ e.columns = d.columns
  BY <1>1 DEF Effect, TablesAfter, ColumnsAfter, Empty
<1>3. e.rows = [i \in DOMAIN d.rows |-> RowAfter(d.rows[i], s)]
  BY <1>1 DEF Effect
<1>4. \A row : RowAfter(row, s) = row
  BY <1>1 DEF RowAfter
<1>5. t \notin d.tables => Executable(d, s)
  BY <1>1 DEF Executable
<1>6. QED
  BY <1>2, <1>3, <1>4, <1>5 DEF All, Shape, s

\* DROP TABLE revisions.
LEMMA RevisionsDropped ==
  ASSUME NEW ds, NEW N, NEW R, NEW T, All(ds, N, R, T)
  PROVE  All(ds | DropTable("revisions"), N, R, T \ {"revisions"})
<1> SUFFICES ASSUME NEW d \in ds
             PROVE  Shape(Effect(d, DropTable("revisions")), N, R, T \ {"revisions"})
  BY DEF All, |
<1> DEFINE s == DropTable("revisions")
           e == Effect(d, s)
<1>1. s.do = "drop table" /\ s.on = "revisions"
  BY DEF DropTable
<1> HIDE DEF s
<1>2. /\ DOMAIN e = DOMAIN Empty
      /\ e.tables = d.tables \ {"revisions"} /\ e.columns = d.columns
  BY <1>1 DEF Effect, TablesAfter, ColumnsAfter, Empty
<1>3. e.rows = [i \in DOMAIN d.rows |-> RowAfter(d.rows[i], s)]
  BY <1>1 DEF Effect
<1>4. \A row : RowAfter(row, s) = row
  BY <1>1 DEF RowAfter
<1>5. QED
  BY <1>2, <1>3, <1>4 DEF All, Shape, s

\* DROP TABLE heroes, with its columns and rows.
LEMMA HeroesDropped ==
  ASSUME NEW ds, NEW N, NEW R, NEW T, All(ds, N, R, T)
  PROVE  /\ All(ds | DropTable("heroes"), {}, {}, T \ {"heroes"})
         /\ NoRows(ds | DropTable("heroes"))
<1> SUFFICES ASSUME NEW d \in ds
             PROVE  /\ Shape(Effect(d, DropTable("heroes")), {}, {}, T \ {"heroes"})
                    /\ DOMAIN Effect(d, DropTable("heroes")).rows = {}
  BY DEF All, NoRows, |
<1> DEFINE s == DropTable("heroes")
           e == Effect(d, s)
<1>1. s.do = "drop table" /\ s.on = "heroes"
  BY DEF DropTable
<1> HIDE DEF s
<1>2. /\ DOMAIN e = DOMAIN Empty
      /\ e.tables = d.tables \ {"heroes"} /\ e.columns = <<>> /\ e.rows = <<>>
  BY <1>1 DEF Effect, TablesAfter, Empty
<1>3. <<>> = Cols({}, {})
  BY DEF Cols
<1>4. QED
  BY <1>2, <1>3 DEF All, Shape, s

-----------------------------------------------------------------------------
(* Migrations *)

\* Every one of the databases has the schema of revision k.
At(ds, k) == All(ds, Nullable(k), Required(k), TablesOf(k))

\* Every column may hold NULL, and a time or a flag any token.
LEMMA ValuesFit ==
  /\ \A c : ValueFits(c, NULL)
  /\ \A c \in Times \union Flags : \A v : ValueFits(c, v)
BY DEF ValueFits, Times, Flags

\* Each migration leads from the schema of one revision to that of the next, or
\* back; each upgrade can be executed on any database of the revision before.

\* 383b0a85de69 creates the empty table.
LEMMA AddHeroesLeads ==
  ASSUME NEW ds, At(ds, 0)
  PROVE  At(AddHeroes(ds), 1) /\ (ds # {} /\ NoRows(ds) => AddHeroes(ds) # {})
<1> DEFINE d1 == ds | Create("heroes")
           T1 == TablesOf(0) \union {"heroes"}
           d2 == d1 | Add("name", "not null", NULL)
           R2 == Required(0) \union {"name"}
           d3 == d2 | Add("superpower", "not null", NULL)
           R3 == R2 \union {"superpower"}
<1>1. /\ "heroes" \notin TablesOf(0)
      /\ "name" \notin Nullable(0) \union Required(0)
      /\ "superpower" \notin Nullable(0) \union R2
  BY DEF Nullable, Required, TablesOf, Times, Flags, Lifecycle
<1>2. All(d1, Nullable(0), Required(0), T1) /\ (ds # {} /\ NoRows(ds) => d1 # {} /\ NoRows(d1))
  BY <1>1, Created, WorksOnSome DEF At
<1> HIDE DEF d1, T1
<1>3. All(d2, Nullable(0), R2, T1) /\ (ds # {} /\ NoRows(ds) => d2 # {} /\ NoRows(d2))
  BY <1>2, <1>1, Added, ValuesFit, AddWorks, WorksOnSome
<1> HIDE DEF d2, R2
<1>4. All(d3, Nullable(0), R3, T1) /\ (ds # {} /\ NoRows(ds) => d3 # {})
  BY <1>3, <1>1, Added, ValuesFit, AddWorks, WorksOnSome
<1> HIDE DEF d3, R3
<1>5. Nullable(0) = Nullable(1) /\ R3 = Required(1) /\ T1 = TablesOf(1)
  BY DEF T1, R2, R3, Nullable, Required, TablesOf, Times, Flags, Lifecycle
<1>6. QED
  BY <1>4, <1>5 DEF At, AddHeroes, d1, d2, d3

\* 383b0a85de69, undone, leaves an empty database.
LEMMA DropHeroesLeads ==
  ASSUME NEW ds, At(ds, 1)
  PROVE  At(DropHeroes(ds), 0) /\ NoRows(DropHeroes(ds))
<1> DEFINE d1 == ds | DropTable("heroes")
           T1 == TablesOf(1) \ {"heroes"}
<1>1. All(d1, {}, {}, T1) /\ NoRows(d1)
  BY HeroesDropped DEF At
<1> HIDE DEF d1, T1
<1>2. {} = Nullable(0) /\ {} = Required(0) /\ T1 = TablesOf(0)
  BY DEF T1, Nullable, Required, TablesOf, Times, Flags, Lifecycle
<1>3. QED
  BY <1>1, <1>2 DEF At, DropHeroes, d1

\* 7dc8146fcf6c adds the timestamps.
LEMMA AddTimestampsLeads ==
  ASSUME NEW ds, At(ds, 1)
  PROVE  At(AddTimestamps(ds), 2) /\ (ds # {} => AddTimestamps(ds) # {})
<1> DEFINE d1 == ds | Add("created_at", "not null", "now")
           R1 == Required(1) \union {"created_at"}
           d2 == d1 | Add("updated_at", "not null", "now")
           R2 == R1 \union {"updated_at"}
<1>1. /\ "created_at" \notin Nullable(1) \union Required(1)
      /\ "updated_at" \notin Nullable(1) \union R1
  BY DEF Nullable, Required, TablesOf, Times, Flags, Lifecycle
<1>2. All(d1, Nullable(1), R1, TablesOf(1)) /\ (ds # {} => d1 # {})
  BY <1>1, Added, ValuesFit, NullAssumption, AddWorks, WorksOnSome DEF Times, At
<1> HIDE DEF d1, R1
<1>3. All(d2, Nullable(1), R2, TablesOf(1)) /\ (ds # {} => d2 # {})
  BY <1>2, <1>1, Added, ValuesFit, NullAssumption, AddWorks, WorksOnSome DEF Times
<1> HIDE DEF d2, R2
<1>4. Nullable(1) = Nullable(2) /\ R2 = Required(2) /\ TablesOf(1) = TablesOf(2)
  BY DEF R1, R2, Nullable, Required, TablesOf, Times, Flags, Lifecycle
<1>5. QED
  BY <1>3, <1>4 DEF At, AddTimestamps, d1, d2

\* 7dc8146fcf6c, undone, drops the timestamps.
LEMMA DropTimestampsLeads == ASSUME NEW ds, At(ds, 2) PROVE At(DropTimestamps(ds), 1)
<1> DEFINE d1 == ds | Drop("updated_at")
           N1 == Nullable(2) \ {"updated_at"}
           R1 == Required(2) \ {"updated_at"}
           d2 == d1 | Drop("created_at")
           N2 == N1 \ {"created_at"}
           R2 == R1 \ {"created_at"}
<1>1. All(d1, N1, R1, TablesOf(2))
  BY Dropped DEF At
<1> HIDE DEF d1, N1, R1
<1>2. All(d2, N2, R2, TablesOf(2))
  BY <1>1, Dropped
<1> HIDE DEF d2, N2, R2
<1>3. N2 = Nullable(1) /\ R2 = Required(1) /\ TablesOf(2) = TablesOf(1)
  BY DEF N1, R1, N2, R2, Nullable, Required, TablesOf, Times, Flags, Lifecycle
<1>4. QED
  BY <1>2, <1>3 DEF At, DropTimestamps, d1, d2

\* 91807f3de5be turns the power into a list.
LEMMA PowersListLeads ==
  ASSUME NEW ds, At(ds, 2)
  PROVE  At(PowersList(ds), 3) /\ (ds # {} => PowersList(ds) # {})
<1> DEFINE d1 == ds | Add("powers", "null", NULL)
           N1 == Nullable(2) \union {"powers"}
           d2 == d1 | Update("powers")
           d3 == d2 | Alter("powers", "not null")
           N3 == N1 \ {"powers"}
           R3 == Required(2) \union {"powers"}
           d4 == d3 | Drop("superpower")
           N4 == N3 \ {"superpower"}
           R4 == R3 \ {"superpower"}
<1>1. /\ "powers" \notin Nullable(2) \union Required(2)
      /\ "powers" \in N1 /\ "superpower" \in Required(2) /\ "powers" \notin Required(2)
      /\ "powers" \in N1 \union Required(2)
      /\ "superpower" \in N3 \union R3
  BY DEF Nullable, Required, TablesOf, Times, Flags, Lifecycle
<1>2. All(d1, N1, Required(2), TablesOf(2)) /\ (ds # {} => d1 # {})
  BY <1>1, Added, ValuesFit, AddWorks, WorksOnSome DEF At
<1> HIDE DEF d1, N1
<1>3. /\ All(d2, N1, Required(2), TablesOf(2))
      /\ (ds # {} => d2 # {}) /\ \A d \in d2 : HasNoNull(d, "powers")
  BY <1>2, <1>1, Updated, WorksOnSome
<1> HIDE DEF d2
<1>4. All(d3, N3, R3, TablesOf(2)) /\ (ds # {} => d3 # {})
  BY <1>3, <1>1, Altered, WorksOnSome
<1> HIDE DEF d3, N3, R3
<1>5. All(d4, N4, R4, TablesOf(2)) /\ (ds # {} => d4 # {})
  BY <1>4, <1>1, Dropped, WorksOnSome
<1> HIDE DEF d4, N4, R4
<1>6. N4 = Nullable(3) /\ R4 = Required(3) /\ TablesOf(2) = TablesOf(3)
  BY DEF N1, N3, R3, N4, R4, Nullable, Required, TablesOf, Times, Flags, Lifecycle
<1>7. QED
  BY <1>5, <1>6 DEF At, PowersList, d1, d2, d3, d4

\* 91807f3de5be, undone, keeps a single power.
LEMMA SinglePowerLeads == ASSUME NEW ds, At(ds, 3) PROVE At(SinglePower(ds), 2)
<1> DEFINE d1 == ds | Add("superpower", "null", NULL)
           N1 == Nullable(3) \union {"superpower"}
           d2 == d1 | Update("superpower")
           d3 == d2 | Alter("superpower", "not null")
           N3 == N1 \ {"superpower"}
           R3 == Required(3) \union {"superpower"}
           d4 == d3 | Drop("powers")
           N4 == N3 \ {"powers"}
           R4 == R3 \ {"powers"}
<1>1. "superpower" \in N1 /\ "powers" \in Required(3) /\ "superpower" \notin Required(3)
  BY DEF Nullable, Required, TablesOf, Times, Flags, Lifecycle
<1>2. All(d1, N1, Required(3), TablesOf(3))
  BY <1>1, Added, ValuesFit DEF At
<1> HIDE DEF d1, N1
<1>3. All(d2, N1, Required(3), TablesOf(3))
  BY <1>2, <1>1, Updated
<1> HIDE DEF d2
<1>4. All(d3, N3, R3, TablesOf(3))
  BY <1>3, <1>1, Altered
<1> HIDE DEF d3, N3, R3
<1>5. All(d4, N4, R4, TablesOf(3))
  BY <1>4, <1>1, Dropped
<1> HIDE DEF d4, N4, R4
<1>6. N4 = Nullable(2) /\ R4 = Required(2) /\ TablesOf(3) = TablesOf(2)
  BY DEF N1, N3, R3, N4, R4, Nullable, Required, TablesOf, Times, Flags, Lifecycle
<1>7. QED
  BY <1>5, <1>6 DEF At, SinglePower, d1, d2, d3, d4

\* 4733a4dd6da9 deletes the heroes and adds their owner.
LEMMA AddOwnerLeads ==
  ASSUME NEW ds, At(ds, 3)
  PROVE  At(AddOwner(ds), 4) /\ (ds # {} => AddOwner(ds) # {}) /\ NoRows(AddOwner(ds))
<1> DEFINE d1 == ds | DeleteRows
           d2 == d1 | Add("owner_id", "not null", NULL)
           R2 == Required(3) \union {"owner_id"}
<1>1. /\ "heroes" \in TablesOf(3)
      /\ "owner_id" \notin Nullable(3) \union Required(3)
  BY DEF Nullable, Required, TablesOf, Times, Flags, Lifecycle
<1>2. All(d1, Nullable(3), Required(3), TablesOf(3)) /\ (ds # {} => d1 # {}) /\ NoRows(d1)
  BY <1>1, Deleted, WorksOnSome DEF At
<1> HIDE DEF d1
<1>3. All(d2, Nullable(3), R2, TablesOf(3)) /\ (ds # {} => d2 # {}) /\ NoRows(d2)
  BY <1>2, <1>1, Added, ValuesFit, AddWorks, WorksOnSome
<1> HIDE DEF d2, R2
<1>4. Nullable(3) = Nullable(4) /\ R2 = Required(4) /\ TablesOf(3) = TablesOf(4)
  BY DEF R2, Nullable, Required, TablesOf, Times, Flags, Lifecycle
<1>5. QED
  BY <1>3, <1>4 DEF At, AddOwner, d1, d2

\* 4733a4dd6da9, undone, drops the owner.
LEMMA DropOwnerLeads == ASSUME NEW ds, At(ds, 4) PROVE At(DropOwner(ds), 3)
<1> DEFINE d1 == ds | Drop("owner_id")
           N1 == Nullable(4) \ {"owner_id"}
           R1 == Required(4) \ {"owner_id"}
<1>1. All(d1, N1, R1, TablesOf(4))
  BY Dropped DEF At
<1> HIDE DEF d1, N1, R1
<1>2. N1 = Nullable(3) /\ R1 = Required(3) /\ TablesOf(4) = TablesOf(3)
  BY DEF N1, R1, Nullable, Required, TablesOf, Times, Flags, Lifecycle
<1>3. QED
  BY <1>1, <1>2 DEF At, DropOwner, d1

\* 8e0846bd353a adds the lifecycle, for drafts without name and powers.
LEMMA AddLifecycleLeads ==
  ASSUME NEW ds, At(ds, 4)
  PROVE  At(AddLifecycle(ds), 5) /\ (ds # {} => AddLifecycle(ds) # {})
<1> DEFINE d1 == ds | Create("revisions")
           T1 == TablesOf(4) \union {"revisions"}
           d2 == d1 | Add("archived_at", "null", NULL)
           N2 == Nullable(4) \union {"archived_at"}
           d3 == d2 | Add("is_draft", "not null", "flag")
           R3 == Required(4) \union {"is_draft"}
           d4 == d3 | Add("publish_at", "null", NULL)
           N4 == N2 \union {"publish_at"}
           d5 == d4 | Add("unpublish_at", "null", NULL)
           N5 == N4 \union {"unpublish_at"}
           d6 == d5 | Add("is_locked", "not null", "flag")
           R6 == R3 \union {"is_locked"}
           d7 == d6 | Alter("name", "null")
           N7 == N5 \union {"name"}
           R7 == R6 \ {"name"}
           d8 == d7 | Alter("powers", "null")
           N8 == N7 \union {"powers"}
           R8 == R7 \ {"powers"}
<1>1. /\ "revisions" \notin TablesOf(4)
      /\ "archived_at" \notin Nullable(4) \union Required(4)
      /\ "is_draft" \notin N2 \union Required(4)
      /\ "publish_at" \notin N2 \union R3
      /\ "unpublish_at" \notin N4 \union R3
      /\ "is_locked" \notin N5 \union R3
      /\ "name" \in N5 \union R6
      /\ "powers" \in N7 \union R7
  BY DEF Nullable, Required, TablesOf, Times, Flags, Lifecycle
<1>2. All(d1, Nullable(4), Required(4), T1) /\ (ds # {} => d1 # {})
  BY <1>1, Created, WorksOnSome DEF At
<1> HIDE DEF d1, T1
<1>3. All(d2, N2, Required(4), T1) /\ (ds # {} => d2 # {})
  BY <1>2, <1>1, Added, ValuesFit, AddWorks, WorksOnSome
<1> HIDE DEF d2, N2
<1>4. All(d3, N2, R3, T1) /\ (ds # {} => d3 # {})
  BY <1>3, <1>1, Added, ValuesFit, NullAssumption, AddWorks, WorksOnSome DEF Flags
<1> HIDE DEF d3, R3
<1>5. All(d4, N4, R3, T1) /\ (ds # {} => d4 # {})
  BY <1>4, <1>1, Added, ValuesFit, AddWorks, WorksOnSome
<1> HIDE DEF d4, N4
<1>6. All(d5, N5, R3, T1) /\ (ds # {} => d5 # {})
  BY <1>5, <1>1, Added, ValuesFit, AddWorks, WorksOnSome
<1> HIDE DEF d5, N5
<1>7. All(d6, N5, R6, T1) /\ (ds # {} => d6 # {})
  BY <1>6, <1>1, Added, ValuesFit, NullAssumption, AddWorks, WorksOnSome DEF Flags
<1> HIDE DEF d6, R6
<1>8. All(d7, N7, R7, T1) /\ (ds # {} => d7 # {})
  BY <1>7, <1>1, Altered, WorksOnSome
<1> HIDE DEF d7, N7, R7
<1>9. All(d8, N8, R8, T1) /\ (ds # {} => d8 # {})
  BY <1>8, <1>1, Altered, WorksOnSome
<1> HIDE DEF d8, N8, R8
<1>10. N8 = Nullable(5) /\ R8 = Required(5) /\ T1 = TablesOf(5)
  BY DEF T1, N2, R3, N4, N5, R6, N7, R7, N8, R8, Nullable, Required, TablesOf,
     Times, Flags, Lifecycle
<1>11. QED
  BY <1>9, <1>10 DEF At, AddLifecycle, d1, d2, d3, d4, d5, d6, d7, d8

\* 8e0846bd353a, undone, requires a name and powers again, or fails on a draft.
LEMMA DropLifecycleLeads == ASSUME NEW ds, At(ds, 5) PROVE At(DropLifecycle(ds), 4)
<1> DEFINE d1 == ds | Alter("powers", "not null")
           N1 == Nullable(5) \ {"powers"}
           R1 == Required(5) \union {"powers"}
           d2 == d1 | Alter("name", "not null")
           N2 == N1 \ {"name"}
           R2 == R1 \union {"name"}
           d3 == d2 | Drop("is_locked")
           N3 == N2 \ {"is_locked"}
           R3 == R2 \ {"is_locked"}
           d4 == d3 | Drop("unpublish_at")
           N4 == N3 \ {"unpublish_at"}
           R4 == R3 \ {"unpublish_at"}
           d5 == d4 | Drop("publish_at")
           N5 == N4 \ {"publish_at"}
           R5 == R4 \ {"publish_at"}
           d6 == d5 | Drop("is_draft")
           N6 == N5 \ {"is_draft"}
           R6 == R5 \ {"is_draft"}
           d7 == d6 | Drop("archived_at")
           N7 == N6 \ {"archived_at"}
           R7 == R6 \ {"archived_at"}
           d8 == d7 | DropTable("revisions")
           T8 == TablesOf(5) \ {"revisions"}
<1>1. All(d1, N1, R1, TablesOf(5))
  BY Altered DEF At
<1> HIDE DEF d1, N1, R1
<1>2. All(d2, N2, R2, TablesOf(5))
  BY <1>1, Altered
<1> HIDE DEF d2, N2, R2
<1>3. All(d3, N3, R3, TablesOf(5))
  BY <1>2, Dropped
<1> HIDE DEF d3, N3, R3
<1>4. All(d4, N4, R4, TablesOf(5))
  BY <1>3, Dropped
<1> HIDE DEF d4, N4, R4
<1>5. All(d5, N5, R5, TablesOf(5))
  BY <1>4, Dropped
<1> HIDE DEF d5, N5, R5
<1>6. All(d6, N6, R6, TablesOf(5))
  BY <1>5, Dropped
<1> HIDE DEF d6, N6, R6
<1>7. All(d7, N7, R7, TablesOf(5))
  BY <1>6, Dropped
<1> HIDE DEF d7, N7, R7
<1>8. All(d8, N7, R7, T8)
  BY <1>7, RevisionsDropped
<1> HIDE DEF d8, T8
<1>9. N7 = Nullable(4) /\ R7 = Required(4) /\ T8 = TablesOf(4)
  BY DEF N1, R1, N2, R2, N3, R3, N4, R4, N5, R5, N6, R6, N7, R7, T8, Nullable,
     Required, TablesOf, Times, Flags, Lifecycle
<1>10. QED
  BY <1>8, <1>9 DEF At, DropLifecycle, d1, d2, d3, d4, d5, d6, d7, d8

\* 49e3e2487a13 adds power_level.
LEMMA AddPowerLevelLeads ==
  ASSUME NEW ds, At(ds, 5)
  PROVE  At(AddPowerLevel(ds), 6) /\ (ds # {} => AddPowerLevel(ds) # {})
<1> DEFINE d1 == ds | Add("power_level", "null", NULL)
           N1 == Nullable(5) \union {"power_level"}
<1>1. "power_level" \notin Nullable(5) \union Required(5)
  BY DEF Nullable, Required, TablesOf, Times, Flags, Lifecycle
<1>2. All(d1, N1, Required(5), TablesOf(5)) /\ (ds # {} => d1 # {})
  BY <1>1, Added, ValuesFit, AddWorks, WorksOnSome DEF At
<1> HIDE DEF d1, N1
<1>3. N1 = Nullable(6) /\ Required(5) = Required(6) /\ TablesOf(5) = TablesOf(6)
  BY DEF N1, Nullable, Required, TablesOf, Times, Flags, Lifecycle
<1>4. QED
  BY <1>2, <1>3 DEF At, AddPowerLevel, d1

\* 49e3e2487a13, undone, drops power_level.
LEMMA DropPowerLevelLeads == ASSUME NEW ds, At(ds, 6) PROVE At(DropPowerLevel(ds), 5)
<1> DEFINE d1 == ds | Drop("power_level")
           N1 == Nullable(6) \ {"power_level"}
           R1 == Required(6) \ {"power_level"}
<1>1. All(d1, N1, R1, TablesOf(6))
  BY Dropped DEF At
<1> HIDE DEF d1, N1, R1
<1>2. N1 = Nullable(5) /\ R1 = Required(5) /\ TablesOf(6) = TablesOf(5)
  BY DEF N1, R1, Nullable, Required, TablesOf, Times, Flags, Lifecycle
<1>3. QED
  BY <1>1, <1>2 DEF At, DropPowerLevel, d1

\* Databases that hold these heroes.
Shows(ds, h) == \A d \in ds : Holds(d.rows, h)

\* Nothing is known of the heroes but these fields.
Only(F, h) == \A i \in DOMAIN h : DOMAIN h[i] \subseteq F

\* A statement that leaves these fields alone changes no hero.
LEMMA Unshown ==
  ASSUME NEW ds, NEW h, NEW F, Shows(ds, h), Only(F, h), NEW s,
         \/ s.do \in {"create", "alter"}
         \/ s.do \in {"add", "drop"} /\ s.on \notin F
         \/ s.do = "drop table" /\ s.on # "heroes"
  PROVE  Shows(ds | s, h)
<1> SUFFICES ASSUME NEW d \in ds PROVE Holds(Effect(d, s).rows, h)
  BY DEF |, Shows
<1> DEFINE e == Effect(d, s)
<1>1. e.rows = [i \in DOMAIN d.rows |-> RowAfter(d.rows[i], s)]
  BY DEF Effect
<1>2. Holds(d.rows, h)
  BY DEF Shows
<1> HIDE DEF e
<1>3. DOMAIN e.rows = DOMAIN d.rows /\ DOMAIN h = DOMAIN d.rows
  BY <1>1, <1>2 DEF Holds
<1>4. ASSUME NEW i \in DOMAIN h
      PROVE  /\ {"name", "powers"} \subseteq DOMAIN h[i] /\ DOMAIN h[i] \subseteq DOMAIN e.rows[i]
             /\ \A c \in DOMAIN h[i] : h[i][c] = e.rows[i][c]
  <2> DEFINE row == d.rows[i]
             after == RowAfter(row, s)
  <2>1. /\ {"name", "powers"} \subseteq DOMAIN h[i] /\ DOMAIN h[i] \subseteq DOMAIN row
        /\ \A c \in DOMAIN h[i] : h[i][c] = row[c]
    BY <1>2 DEF Holds
  <2>2. \/ after = row
        \/ s.on \notin F /\ after = With(row, s.on, s.default)
        \/ s.on \notin F /\ after = Without(row, s.on)
    BY DEF RowAfter
  <2>3. DOMAIN h[i] \subseteq F
    BY DEF Only
  <2>4. e.rows[i] = after
    BY <1>1, <1>3
  <2> HIDE DEF after, row
  <2>5. DOMAIN h[i] \subseteq DOMAIN after /\ \A c \in DOMAIN h[i] : after[c] = row[c]
    BY <2>1, <2>2, <2>3 DEF With, Without, ++
  <2>6. QED
    BY <2>1, <2>4, <2>5
<1>5. QED
  BY <1>3, <1>4 DEF Holds, e

\* From owner_id on, migrations leave alone what is not in the columns they add or drop.
LEMMA MigrationsShow ==
  ASSUME NEW ds, NEW h, NEW F, Shows(ds, h), Only(F, h)
  PROVE  /\ F \intersect (Lifecycle \union Flags) = {} =>
              Shows(AddLifecycle(ds), h) /\ Shows(DropLifecycle(ds), h)
         /\ "power_level" \notin F => Shows(AddPowerLevel(ds), h) /\ Shows(DropPowerLevel(ds), h)
<1>1. ASSUME NEW es, Shows(es, h), NEW c, NEW declared, NEW v
      PROVE  /\ c \notin F => Shows(es | Add(c, declared, v), h)
             /\ c \notin F => Shows(es | Drop(c), h)
             /\ Shows(es | Alter(c, declared), h)
             /\ Shows(es | Create(c), h)
             /\ c # "heroes" => Shows(es | DropTable(c), h)
  <2>1. Add(c, declared, v).do = "add" /\ Add(c, declared, v).on = c
    BY DEF Add
  <2>2. Drop(c).do = "drop" /\ Drop(c).on = c
    BY DEF Drop
  <2>3. Alter(c, declared).do = "alter" /\ Create(c).do = "create"
    BY DEF Alter, Create
  <2>4. DropTable(c).do = "drop table" /\ DropTable(c).on = c
    BY DEF DropTable
  <2>5. QED
    BY <1>1, <2>1, <2>2, <2>3, <2>4, Unshown
<1>2. "power_level" \notin F => Shows(AddPowerLevel(ds), h) /\ Shows(DropPowerLevel(ds), h)
  BY <1>1 DEF AddPowerLevel, DropPowerLevel
<1>3. ASSUME F \intersect (Lifecycle \union Flags) = {}
      PROVE  Shows(AddLifecycle(ds), h) /\ Shows(DropLifecycle(ds), h)
  <2>1. /\ "archived_at" \notin F /\ "is_draft" \notin F /\ "publish_at" \notin F
        /\ "unpublish_at" \notin F /\ "is_locked" \notin F
    BY <1>3 DEF Lifecycle, Flags
  <2>2. Shows(AddLifecycle(ds), h)
    BY <1>1, <2>1 DEF AddLifecycle
  <2>3. Shows(DropLifecycle(ds), h)
    BY <1>1, <2>1 DEF DropLifecycle
  <2>4. QED
    BY <2>2, <2>3
<1>4. QED
  BY <1>2, <1>3

\* The columns of a revision, and what the next two add.
Fields(k) == Nullable(k) \union Required(k)

LEMMA FieldsFromOwner ==
  /\ Fields(4) \intersect (Lifecycle \union Flags) = {} /\ "power_level" \notin Fields(5)
  /\ \A k \in 4 .. HeadRevision : {"name", "powers"} \subseteq Fields(k)
  /\ \A k : Fields(k) = DOMAIN Columns(k)
BY DEF Fields, Nullable, Required, Columns, Times, Flags, Lifecycle, HeadRevision

\* The migration to revision k leads there, and from owner_id on keeps the heroes.
LEMMA RanUp ==
  ASSUME NEW ds, NEW k \in 1 .. HeadRevision, At(ds, k - 1)
  PROVE  /\ At(Ran(ds, k), k)
         /\ ds # {} /\ (k = 1 => NoRows(ds)) => Ran(ds, k) # {}
         /\ k = 4 => NoRows(Ran(ds, k))
         /\ \A h : k \in {5, 6} /\ Only(Fields(k - 1), h) /\ Shows(ds, h) => Shows(Ran(ds, k), h)
<1>1. CASE k = 1
  BY <1>1, AddHeroesLeads DEF Ran
<1>2. CASE k = 2
  BY <1>2, AddTimestampsLeads DEF Ran
<1>3. CASE k = 3
  BY <1>3, PowersListLeads DEF Ran
<1>4. CASE k = 4
  BY <1>4, AddOwnerLeads DEF Ran
<1>5. CASE k = 5
  BY <1>5, AddLifecycleLeads, MigrationsShow, FieldsFromOwner DEF Ran
<1>6. CASE k = 6
  BY <1>6, AddPowerLevelLeads, MigrationsShow, FieldsFromOwner DEF Ran
<1>7. QED
  BY <1>1, <1>2, <1>3, <1>4, <1>5, <1>6 DEF HeadRevision

\* So does undoing it, back.
LEMMA RanDown ==
  ASSUME NEW ds, NEW k \in 1 .. HeadRevision, At(ds, k)
  PROVE  /\ At(Ran(ds, -k), k - 1)
         /\ k = 1 => NoRows(Ran(ds, -k))
         /\ \A h : k \in {5, 6} /\ Only(Fields(k - 1), h) /\ Shows(ds, h) => Shows(Ran(ds, -k), h)
<1>1. CASE k = 1
  BY <1>1, DropHeroesLeads DEF Ran
<1>2. CASE k = 2
  BY <1>2, DropTimestampsLeads DEF Ran
<1>3. CASE k = 3
  BY <1>3, SinglePowerLeads DEF Ran
<1>4. CASE k = 4
  BY <1>4, DropOwnerLeads DEF Ran
<1>5. CASE k = 5
  BY <1>5, DropLifecycleLeads, MigrationsShow, FieldsFromOwner DEF Ran
<1>6. CASE k = 6
  BY <1>6, DropPowerLevelLeads, MigrationsShow, FieldsFromOwner DEF Ran
<1>7. QED
  BY <1>1, <1>2, <1>3, <1>4, <1>5, <1>6 DEF HeadRevision

\* A database at its revision.
Sound(d) ==
  /\ d.revision \in 0 .. HeadRevision
  /\ At({d}, d.revision)
  /\ d.revision = 0 => NoRows({d})

\* Writing alembic_version changes nothing else.
LEMMA Stamped ==
  ASSUME NEW x, NEW to, DOMAIN x = DOMAIN Empty
  PROVE  LET y == [x EXCEPT !.revision = to]
         IN /\ DOMAIN y = DOMAIN Empty /\ y.revision = to /\ y.rows = x.rows
            /\ y.tables = x.tables /\ y.columns = x.columns
BY DEF Empty

\* An upgrade leads from a sound database to a sound one of the next revision,
\* and can always be executed on one of the revision before.
LEMMA UpgradeSound ==
  ASSUME NEW d, Sound(d), NEW k \in 1 .. HeadRevision
  PROVE  /\ \A x \in Migrated(d, k) :
              /\ Sound(x) /\ x.revision = k /\ d.revision = k - 1
              /\ k = 4 => DOMAIN x.rows = {}
              /\ \A h : k \in {5, 6} /\ Only(Fields(k - 1), h) /\ Shows({d}, h) => Shows({x}, h)
         /\ d.revision = k - 1 => Migrated(d, k) # {}
<1> DEFINE ds == {y \in {d} : y.revision = k - 1}
<1>1. Migrated(d, k) = {[x EXCEPT !.revision = k] : x \in Ran(ds, k)}
  BY DEF Migrated, HeadRevision
<1>2. At(ds, k - 1)
  BY DEF Sound, At, All
<1>3. /\ At(Ran(ds, k), k) /\ (k = 4 => NoRows(Ran(ds, k)))
      /\ ds # {} /\ (k = 1 => NoRows(ds)) => Ran(ds, k) # {}
  BY <1>2, RanUp
<1>4. \A h : k \in {5, 6} /\ Only(Fields(k - 1), h) /\ Shows({d}, h) => Shows(Ran(ds, k), h)
  <2> SUFFICES ASSUME NEW h, k \in {5, 6}, Only(Fields(k - 1), h), Shows({d}, h)
               PROVE  Shows(Ran(ds, k), h)
    OBVIOUS
  <2>1. Shows(ds, h)
    BY DEF Shows
  <2>2. QED
    BY <2>1, <1>2, RanUp
<1>5. d.revision = k - 1 => ds # {} /\ (k = 1 => NoRows(ds))
  BY DEF Sound, NoRows
<1>6. Ran({}, k) = {}
  BY DEF Ran, |, AddHeroes, AddTimestamps, PowersList, AddOwner, AddLifecycle, AddPowerLevel,
     HeadRevision
<1>7. ASSUME NEW x \in Ran(ds, k) PROVE d.revision = k - 1
  BY <1>6
<1> HIDE DEF ds
<1>8. ASSUME NEW x \in Ran(ds, k)
      PROVE  LET y == [x EXCEPT !.revision = k]
             IN /\ Sound(y) /\ y.revision = k
                /\ k = 4 => DOMAIN y.rows = {}
                /\ \A h : k \in {5, 6} /\ Only(Fields(k - 1), h) /\ Shows({d}, h) => Shows({y}, h)
  <2> DEFINE y == [x EXCEPT !.revision = k]
  <2>1. Shape(x, Nullable(k), Required(k), TablesOf(k))
    BY <1>3 DEF At, All
  <2>2. /\ DOMAIN y = DOMAIN Empty /\ y.revision = k /\ y.rows = x.rows
        /\ y.tables = x.tables /\ y.columns = x.columns
    BY <2>1, Stamped DEF Shape
  <2> HIDE DEF y
  <2>3. Sound(y)
    BY <2>1, <2>2 DEF Shape, Sound, At, All, HeadRevision
  <2>4. \A h : Shows(Ran(ds, k), h) => Shows({y}, h)
    BY <2>2 DEF Shows
  <2>5. QED
    BY <1>3, <1>4, <2>2, <2>3, <2>4 DEF NoRows, y
<1>9. ASSUME NEW z \in Migrated(d, k)
      PROVE  /\ Sound(z) /\ z.revision = k /\ d.revision = k - 1
             /\ k = 4 => DOMAIN z.rows = {}
             /\ \A h : k \in {5, 6} /\ Only(Fields(k - 1), h) /\ Shows({d}, h) => Shows({z}, h)
  <2>1. PICK x \in Ran(ds, k) : z = [x EXCEPT !.revision = k]
    BY <1>1, <1>9
  <2>2. QED
    BY <1>7, <1>8, <2>1
<1>10. d.revision = k - 1 => Migrated(d, k) # {}
  <2>1. d.revision = k - 1 => Ran(ds, k) # {}
    BY <1>3, <1>5
  <2>2. QED
    BY <1>1, <2>1
<1>11. QED
  BY <1>9, <1>10

\* A downgrade leads from a sound database to a sound one of the revision before.
LEMMA DowngradeSound ==
  ASSUME NEW d, Sound(d), NEW k \in 1 .. HeadRevision
  PROVE  \A x \in Migrated(d, -k) :
           /\ Sound(x) /\ x.revision = k - 1 /\ d.revision = k
           /\ \A h : k \in {5, 6} /\ Only(Fields(k - 1), h) /\ Shows({d}, h) => Shows({x}, h)
<1> DEFINE ds == {y \in {d} : y.revision = k}
<1>1. Migrated(d, -k) = {[x EXCEPT !.revision = k - 1] : x \in Ran(ds, -k)}
  <2>1. ~(-k > 0) /\ -(-k) = k /\ -(-k) - 1 = k - 1
    BY DEF HeadRevision
  <2>2. Migrated(d, -k) = {[x EXCEPT !.revision = -(-k) - 1] :
                             x \in Ran({y \in {d} : y.revision = -(-k)}, -k)}
    BY <2>1 DEF Migrated
  <2>3. QED
    BY <2>1, <2>2
<1>2. At(ds, k)
  BY DEF Sound, At, All
<1>3. At(Ran(ds, -k), k - 1) /\ (k = 1 => NoRows(Ran(ds, -k)))
  BY <1>2, RanDown
<1>4. \A h : k \in {5, 6} /\ Only(Fields(k - 1), h) /\ Shows({d}, h) => Shows(Ran(ds, -k), h)
  <2> SUFFICES ASSUME NEW h, k \in {5, 6}, Only(Fields(k - 1), h), Shows({d}, h)
               PROVE  Shows(Ran(ds, -k), h)
    OBVIOUS
  <2>1. Shows(ds, h)
    BY DEF Shows
  <2>2. QED
    BY <2>1, <1>2, RanDown
<1>5. Ran({}, -k) = {}
  BY DEF Ran, |, DropHeroes, DropTimestamps, SinglePower, DropOwner, DropLifecycle,
         DropPowerLevel, HeadRevision
<1>6. ASSUME NEW x \in Ran(ds, -k) PROVE d.revision = k
  BY <1>5
<1> HIDE DEF ds
<1>7. ASSUME NEW x \in Ran(ds, -k)
      PROVE  LET y == [x EXCEPT !.revision = k - 1]
             IN /\ Sound(y) /\ y.revision = k - 1
                /\ \A h : k \in {5, 6} /\ Only(Fields(k - 1), h) /\ Shows({d}, h) => Shows({y}, h)
  <2> DEFINE y == [x EXCEPT !.revision = k - 1]
  <2>1. Shape(x, Nullable(k - 1), Required(k - 1), TablesOf(k - 1))
    BY <1>3 DEF At, All
  <2>2. /\ DOMAIN y = DOMAIN Empty /\ y.revision = k - 1 /\ y.rows = x.rows
        /\ y.tables = x.tables /\ y.columns = x.columns
    BY <2>1, Stamped DEF Shape
  <2> HIDE DEF y
  <2>3. y.revision = 0 => k = 1
    BY <2>2 DEF HeadRevision
  <2>4. Sound(y)
    BY <1>3, <2>1, <2>2, <2>3 DEF Shape, Sound, At, All, NoRows, HeadRevision
  <2>5. \A h : Shows(Ran(ds, -k), h) => Shows({y}, h)
    BY <2>2 DEF Shows
  <2>6. QED
    BY <1>4, <2>2, <2>4, <2>5 DEF y
<1>8. QED
  BY <1>1, <1>6, <1>7

\* The chain starts from an empty database.
LEMMA EmptyIsSound == Sound(Empty)
<1>1. <<>> = Cols({}, {})
  BY DEF Cols
<1>2. QED
  BY <1>1 DEF Sound, At, All, Shape, Empty, Nullable, Required, TablesOf, NoRows, HeadRevision

\* What the model calls consistent, in terms of the columns by revision.
LEMMA ConsistentIsSound == \A d : Consistent(d) <=> Sound(d)
<1> SUFFICES ASSUME NEW d, d.revision \in 0 .. HeadRevision
             PROVE  Consistent(d) <=> Sound(d)
  BY DEF Consistent, Sound
<1> DEFINE N == Nullable(d.revision)
           R == Required(d.revision)
<1>1. Columns(d.revision) = Cols(N, R)
  BY DEF Columns, Cols
<1>2. N \intersect R = {}
  BY DEF Nullable, Required, Times, Flags, Lifecycle, HeadRevision
<1>3. /\ DOMAIN Cols(N, R) = N \union R
      /\ \A c \in N \union R : Cols(N, R)[c] = "null" <=> c \in N
  BY DEF Cols
<1>4. Sound(d) <=> /\ Shape(d, N, R, TablesOf(d.revision))
                   /\ d.revision = 0 => DOMAIN d.rows = {}
  BY DEF Sound, At, All, NoRows
<1> HIDE DEF N, R
<1>5. QED
  BY <1>1, <1>2, <1>3, <1>4 DEF Consistent, Shape, RowFits

\* At the head it is the model's.
LEMMA HeadIsModel == Columns(HeadRevision) = HeroModel
<1> DEFINE N == {"name", "powers", "power_level", "archived_at", "publish_at", "unpublish_at"}
           R == {"owner_id", "created_at", "updated_at", "is_draft", "is_locked"}
<1>1. Columns(6) = Cols(Nullable(6), Required(6))
  BY DEF Columns, Cols
<1>2. Nullable(6) = N /\ Required(6) = R
  BY DEF Nullable, Required, Times, Flags, Lifecycle
<1>3. HeroModel = [c \in N |-> "null"] ++ [c \in R |-> "not null"]
  BY DEF HeroModel
<1> HIDE DEF N, R
<1>4. Cols(N, R) = [c \in N |-> "null"] ++ [c \in R |-> "not null"]
  BY DEF Cols, ++
<1>5. QED
  BY <1>1, <1>2, <1>3, <1>4 DEF HeadRevision

-----------------------------------------------------------------------------
(* The heroes *)

\* The database holds the heroes it should: none while they have no owner.
Carried(h, d) == IF d.revision >= 4 THEN Holds(d.rows, h) ELSE h = <<>>

\* So does one that is found as it is.
LEMMA OwnedAreCarried == ASSUME NEW d, Sound(d) PROVE Carried(OwnedHeroes(d), d)
<1>1. CASE d.revision >= 4
  <2>1. {"name", "powers"} \subseteq Fields(d.revision)
    BY <1>1, FieldsFromOwner DEF Sound, HeadRevision
  <2>2. \A i \in DOMAIN d.rows : {"name", "powers"} \subseteq DOMAIN d.rows[i]
    BY <2>1 DEF Sound, At, All, Shape, RowFits, Fields
  <2>3. QED
    BY <1>1, <2>2 DEF OwnedHeroes, Carried, Holds, Shown
<1>2. QED
  BY <1>1 DEF OwnedHeroes, Carried

\* What is known of a hero are columns of its revision.
LEMMA CarriedFields ==
  ASSUME NEW d, Sound(d), d.revision >= 4, NEW h, Holds(d.rows, h)
  PROVE  Only(Fields(d.revision), h)
BY DEF Sound, At, All, Shape, RowFits, Fields, Holds, Only

\* Of what rows hold, they hold what a downgrade leaves.
LEMMA KeptIsHeld ==
  ASSUME NEW rows, NEW h, Holds(rows, h), NEW k \in 4 .. HeadRevision
  PROVE  Holds(rows, Kept(h, k)) /\ Only(Fields(k), Kept(h, k))
<1> DEFINE F == DOMAIN Columns(k)
           g == [i \in DOMAIN h |-> [c \in DOMAIN h[i] \intersect F |-> h[i][c]]]
<1>1. Kept(h, k) = g
  BY DEF Kept, HeadRevision
<1>2. {"name", "powers"} \subseteq F /\ F = Fields(k)
  BY FieldsFromOwner
<1> HIDE DEF F
<1>3. /\ DOMAIN g = DOMAIN h
      /\ \A i \in DOMAIN h : /\ DOMAIN g[i] = DOMAIN h[i] \intersect F
                            /\ \A c \in DOMAIN g[i] : g[i][c] = h[i][c]
  OBVIOUS
<1> HIDE DEF g
<1>4. Holds(rows, g)
  BY <1>2, <1>3 DEF Holds
<1>5. Only(Fields(k), g)
  BY <1>2, <1>3 DEF Only
<1>6. QED
  BY <1>1, <1>4, <1>5

\* An upgrade changes no hero that has an owner.
LEMMA UpgradeCarries ==
  ASSUME NEW d, Sound(d), NEW k \in 1 .. HeadRevision, NEW x \in Migrated(d, k),
         NEW h, Carried(h, d)
  PROVE  Carried(h, x)
<1>1. Sound(x) /\ x.revision = k /\ d.revision = k - 1
  BY UpgradeSound
<1>2. CASE k < 4
  BY <1>1, <1>2 DEF Carried
<1>3. CASE k = 4
  <2>1. DOMAIN x.rows = {}
    BY <1>3, UpgradeSound
  <2>2. h = <<>>
    BY <1>1, <1>3 DEF Carried
  <2>3. DOMAIN h = {}
    BY <2>2
  <2>4. Holds(x.rows, h)
    BY <2>1, <2>3 DEF Holds
  <2>5. QED
    BY <1>1, <1>3, <2>4 DEF Carried
<1>4. CASE k > 4
  <2>1. Holds(d.rows, h) /\ d.revision >= 4
    BY <1>1, <1>4 DEF Carried
  <2>2. Only(Fields(k - 1), h)
    BY <1>1, <2>1, CarriedFields
  <2>3. k \in {5, 6}
    BY <1>4 DEF HeadRevision
  <2>4. Shows({d}, h)
    BY <2>1 DEF Shows
  <2>5. Shows({x}, h)
    BY <2>2, <2>3, <2>4, UpgradeSound
  <2>6. QED
    BY <1>1, <1>4, <2>5 DEF Shows, Carried
<1>5. QED
  BY <1>2, <1>3, <1>4

\* A downgrade keeps all that it can of each hero, as far as owner_id.
LEMMA DowngradeCarries ==
  ASSUME NEW d, Sound(d), NEW k \in 1 .. HeadRevision, NEW x \in Migrated(d, -k),
         NEW h, Carried(h, d)
  PROVE  Carried(Kept(h, x.revision), x)
<1>1. Sound(x) /\ x.revision = k - 1 /\ d.revision = k
  BY DowngradeSound
<1>2. CASE k - 1 < 4
  BY <1>1, <1>2 DEF Carried, Kept
<1>3. CASE k - 1 >= 4
  <2> DEFINE g == Kept(h, k - 1)
  <2>1. Holds(d.rows, h)
    BY <1>1, <1>3 DEF Carried
  <2>2. k - 1 \in 4 .. HeadRevision /\ k \in {5, 6}
    BY <1>3 DEF HeadRevision
  <2>3. Holds(d.rows, g) /\ Only(Fields(k - 1), g)
    BY <2>1, <2>2, KeptIsHeld
  <2> HIDE DEF g
  <2>4. Shows({d}, g)
    BY <2>3 DEF Shows
  <2>5. Shows({x}, g)
    BY <2>2, <2>3, <2>4, DowngradeSound
  <2>6. Carried(g, x)
    BY <1>1, <1>3, <2>5 DEF Shows, Carried
  <2>7. QED
    BY <1>1, <2>6 DEF g
<1>4. QED
  BY <1>2, <1>3

\* Nothing is lost where nothing is downgraded.
LEMMA KeptIsCarried ==
  ASSUME NEW d, Sound(d), NEW h, Carried(h, d)
  PROVE  Carried(Kept(h, d.revision), d)
<1>1. CASE d.revision >= 4
  <2>1. d.revision \in 4 .. HeadRevision
    BY <1>1 DEF Sound, HeadRevision
  <2>2. QED
    BY <1>1, <2>1, KeptIsHeld DEF Carried
<1>2. CASE ~ (d.revision >= 4)
  BY <1>2 DEF Sound, Carried, Kept, HeadRevision
<1>3. QED
  BY <1>1, <1>2

-----------------------------------------------------------------------------
(* The invariant *)

\* A plan is the upgrades still to run, up to the head, or one downgrade.
Upgrade(p) ==
  /\ p \in Seq(Int) /\ Len(p) <= HeadRevision
  /\ \A n \in 1 .. Len(p) : p[n] = HeadRevision - Len(p) + n

Downgrade(p) == \E k \in 1 .. HeadRevision : p = <<-k>>

Downgraded(r) == r = cli /\ downgrades > 0

Plans ==
  \A r \in Runners :
    /\ Upgrade(plan[r]) \/ (Downgraded(r) /\ Downgrade(plan[r]))
    /\ plan[r] # <<>> => phase[r] \in {"planned", "open"}

\* Nobody is done, nor has nothing to do, below the head.
Committed ==
  /\ Sound(db) /\ Carried(heroes, db)
  /\ \A r \in Runners :
       downgrades = 0 /\ (phase[r] = "done" \/ (phase[r] = "planned" /\ plan[r] = <<>>)) =>
         db.revision = HeadRevision

\* What clients have written, as it will be when r commits this database with the plan p
\* still to run: a downgrade by the operator leaves what it can.
Promised(r, p, d) == IF r = cli /\ p = <<>> THEN Kept(heroes, d.revision) ELSE heroes

\* The one open transaction.
Uncommitted ==
  /\ ~TableLocked => work = NULL
  /\ \A r, q \in Runners : phase[r] = "open" /\ phase[q] = "open" => r = q
  /\ \A r \in Runners : phase[r] = "open" =>
       /\ Sound(work)
       /\ Carried(Promised(r, plan[r], work), work)
       /\ plan[r] = <<>> /\ ~Downgraded(r) => work.revision = HeadRevision

Counts == aborts \in Nat /\ downgrades \in Nat /\ aborts + downgrades <= MaxFaults

\* The process is past its migrations only if they are done.
MigratedFirst == migrates /\ pc \notin {"migrate", "end"} => phase[self] = "done"

\* What the database, the heroes and the runners owe to each other.
Migrating ==
  /\ phase \in [Runners -> Phases] /\ plan \in [Runners -> Seq(Int)]
  /\ Plans /\ Committed /\ Uncommitted

RolloutInv == Migrating /\ Counts /\ MigratedFirst

-----------------------------------------------------------------------------
(* Plans *)

\* What upgrade plans from revision n: nothing only at the head.
LEMMA UpgradePlanned ==
  ASSUME NEW n \in 0 .. HeadRevision
  PROVE  LET p == [i \in 1 .. HeadRevision - n |-> n + i]
         IN Upgrade(p) /\ (p = <<>> => n = HeadRevision)
<1> DEFINE p == [i \in 1 .. HeadRevision - n |-> n + i]
<1>1. p \in Seq(Int) /\ Len(p) = HeadRevision - n
  BY DEF HeadRevision
<1>2. p = <<>> => n = HeadRevision
  BY <1>1 DEF HeadRevision
<1>3. QED
  BY <1>1, <1>2 DEF Upgrade, HeadRevision

\* An upgrade plan runs on to the head.
LEMMA UpgradeNext ==
  ASSUME NEW p, Upgrade(p), p # <<>>
  PROVE  /\ Head(p) \in 1 .. HeadRevision
         /\ Upgrade(Tail(p))
         /\ Tail(p) = <<>> => Head(p) = HeadRevision
<1> DEFINE n == Len(p)
           q == Tail(p)
<1>1. p \in Seq(Int) /\ n <= HeadRevision
  BY DEF Upgrade
<1>2. n \in Nat \ {0}
  BY <1>1, EmptySeq
<1>3. Head(p) = p[1]
  BY <1>1
<1>4. q \in Seq(Int) /\ Len(q) = n - 1 /\ \A i \in 1 .. Len(q) : q[i] = p[i + 1]
  BY <1>1, HeadTailProperties
<1>5. \A i \in 1 .. n : p[i] = HeadRevision - n + i
  BY DEF Upgrade
<1> HIDE DEF n, q
<1>6. n \in 1 .. HeadRevision /\ Head(p) = HeadRevision - n + 1
  BY <1>1, <1>2, <1>3, <1>5 DEF HeadRevision
<1>7. Upgrade(q)
  BY <1>4, <1>5, <1>6 DEF Upgrade, HeadRevision
<1>8. q = <<>> => Len(q) = 0
  OBVIOUS
<1>9. q = <<>> => n = 1
  BY <1>4, <1>6, <1>8 DEF HeadRevision
<1>10. QED
  BY <1>6, <1>7, <1>9 DEF q, HeadRevision

\* A transaction's next migration keeps its database sound and its heroes.
LEMMA NextMigration ==
  ASSUME Migrating, NEW r \in Runners, phase[r] = "open", plan[r] # <<>>,
         NEW after \in Migrated(work, Head(plan[r]))
  PROVE  LET rest == Tail(plan[r])
         IN /\ Sound(after)
            /\ rest \in Seq(Int)
            /\ Upgrade(rest) \/ (Downgraded(r) /\ Downgrade(rest))
            /\ Carried(Promised(r, rest, after), after)
            /\ rest = <<>> /\ ~Downgraded(r) => after.revision = HeadRevision
<1>1. Sound(work) /\ Carried(heroes, work)
  BY DEF Migrating, Uncommitted, Promised
<1>2. CASE Upgrade(plan[r])
  <2>1. /\ Head(plan[r]) \in 1 .. HeadRevision /\ Upgrade(Tail(plan[r]))
        /\ Tail(plan[r]) = <<>> => Head(plan[r]) = HeadRevision
    BY <1>2, UpgradeNext
  <2>2. Sound(after) /\ after.revision = Head(plan[r])
    BY <1>1, <2>1, UpgradeSound
  <2>3. Carried(heroes, after)
    BY <1>1, <2>1, UpgradeCarries
  <2>4. Carried(Kept(heroes, after.revision), after)
    BY <2>2, <2>3, KeptIsCarried
  <2>5. Carried(Promised(r, Tail(plan[r]), after), after)
    BY <2>3, <2>4 DEF Promised
  <2>6. QED
    BY <2>1, <2>2, <2>5 DEF Upgrade
<1>3. CASE Downgraded(r) /\ Downgrade(plan[r])
  <2>1. PICK k \in 1 .. HeadRevision : plan[r] = <<-k>>
    BY <1>3 DEF Downgrade
  <2>2. Head(plan[r]) = -k /\ Tail(plan[r]) = <<>>
    BY <2>1 DEF HeadRevision
  <2>3. Sound(after)
    BY <1>1, <2>2, DowngradeSound
  <2>4. Carried(Kept(heroes, after.revision), after)
    BY <1>1, <2>2, DowngradeCarries
  <2>5. Carried(Promised(r, Tail(plan[r]), after), after)
    BY <1>3, <2>2, <2>4 DEF Promised, Downgraded
  <2>6. Upgrade(<<>>) /\ <<>> \in Seq(Int)
    BY DEF Upgrade, HeadRevision
  <2>7. QED
    BY <1>3, <2>2, <2>3, <2>5, <2>6
<1>4. QED
  BY <1>2, <1>3 DEF Migrating, Plans

-----------------------------------------------------------------------------
(* The steps of a runner *)

\* Reading the revision and planning.
LEMMA PlanUpgradeStep ==
  ASSUME Migrating, NEW r \in Runners, PlanUpgrade(r), UNCHANGED <<heroes, downgrades>>
  PROVE  Migrating'
<1> DEFINE p == [n \in 1 .. HeadRevision - db.revision |-> db.revision + n]
<1>1. phase[r] = "idle" /\ plan' = [plan EXCEPT ![r] = p]
      /\ phase' = [phase EXCEPT ![r] = "planned"] /\ UNCHANGED <<db, work>>
  BY DEF PlanUpgrade
<1>2. Upgrade(p) /\ (p = <<>> => db.revision = HeadRevision)
  BY UpgradePlanned DEF Migrating, Committed, Sound
<1>3. p \in Seq(Int)
  BY <1>2 DEF Upgrade
<1> HIDE DEF p
<1>4. phase' \in [Runners -> Phases] /\ plan' \in [Runners -> Seq(Int)]
  BY <1>1, <1>3 DEF Migrating, Phases
<1>5. Plans'
  BY <1>1, <1>2 DEF Migrating, Plans, Downgraded
<1>6. Committed'
  BY <1>1, <1>2 DEF Migrating, Committed
<1>7. Uncommitted'
  BY <1>1 DEF Migrating, Uncommitted, Promised, TableLocked, Downgraded
<1>8. QED
  BY <1>4, <1>5, <1>6, <1>7 DEF Migrating

\* downgrade -1 plans one step back, and the operator has downgraded.
LEMMA PlanDowngradeStep ==
  ASSUME Migrating, PlanDowngrade(cli), UNCHANGED heroes,
         downgrades \in Nat, downgrades' = downgrades + 1
  PROVE  Migrating'
<1>1. /\ phase[cli] = "idle" /\ plan' = [plan EXCEPT ![cli] = <<-db.revision>>]
      /\ phase' = [phase EXCEPT ![cli] = "planned"] /\ UNCHANGED <<db, work>>
      /\ db.revision > 0
  BY DEF PlanDowngrade
<1>2. db.revision \in 1 .. HeadRevision
  BY <1>1 DEF Migrating, Committed, Sound, HeadRevision
<1>3. cli \in Runners
  BY RunnersAssumption
<1>4. phase' \in [Runners -> Phases] /\ plan' \in [Runners -> Seq(Int)]
  BY <1>1, <1>2, <1>3 DEF Migrating, Phases, HeadRevision
<1>5. Plans'
  <2>1. Downgraded(cli)' /\ \A r : Downgraded(r) => Downgraded(r)'
    BY DEF Downgraded
  <2>2. Downgrade(<<-db.revision>>)
    BY <1>2 DEF Downgrade
  <2>3. QED
    BY <1>1, <1>3, <2>1, <2>2 DEF Migrating, Plans
<1>6. Committed'
  BY <1>1 DEF Migrating, Committed
<1>7. Uncommitted'
  BY <1>1, <1>3 DEF Migrating, Uncommitted, Promised, TableLocked, Downgraded
<1>8. QED
  BY <1>4, <1>5, <1>6, <1>7 DEF Migrating

\* The first statement opens the one transaction, on the committed database.
LEMMA TakeTableStep ==
  ASSUME Migrating, NEW r \in Runners, TakeTable(r), UNCHANGED <<heroes, downgrades>>
  PROVE  Migrating'
<1>1. /\ phase[r] = "planned" /\ plan[r] # <<>> /\ ~TableLocked
      /\ phase' = [phase EXCEPT ![r] = "open"] /\ work' = db /\ UNCHANGED <<db, plan>>
  BY DEF TakeTable
<1>2. phase' \in [Runners -> Phases]
  BY <1>1 DEF Migrating, Phases
<1>3. Plans'
  BY <1>1 DEF Migrating, Plans, Downgraded
<1>4. Committed'
  BY <1>1 DEF Migrating, Committed
<1>5. Uncommitted'
  <2>1. \A q \in Runners : phase'[q] = "open" <=> q = r
    BY <1>1 DEF Migrating, TableLocked
  <2>2. QED
    BY <1>1, <2>1 DEF Migrating, Uncommitted, Promised, Committed, TableLocked
<1>6. QED
  BY <1>1, <1>2, <1>3, <1>4, <1>5 DEF Migrating

\* A failed or killed transaction leaves the database as it was committed.
LEMMA RollbackStep ==
  ASSUME Migrating, NEW r \in Runners, phase[r] \in {"planned", "open"}, Rollback(r),
         UNCHANGED <<heroes, downgrades>>
  PROVE  Migrating'
<1>1. /\ phase' = [phase EXCEPT ![r] = "failed"] /\ plan' = [plan EXCEPT ![r] = <<>>]
      /\ work' = (IF phase[r] = "open" THEN NULL ELSE work) /\ UNCHANGED db
  BY DEF Rollback
<1>2. phase' \in [Runners -> Phases] /\ plan' \in [Runners -> Seq(Int)]
  BY <1>1 DEF Migrating, Phases
<1>3. Plans'
  <2>1. Upgrade(<<>>)
    BY DEF Upgrade, HeadRevision
  <2>2. QED
    BY <1>1, <2>1 DEF Migrating, Plans, Downgraded
<1>4. Committed'
  BY <1>1 DEF Migrating, Committed
<1>5. Uncommitted'
  <2>1. CASE phase[r] = "open"
    <3>1. \A q \in Runners : phase'[q] # "open"
      BY <1>1, <2>1 DEF Migrating, Uncommitted
    <3>2. QED
      BY <1>1, <2>1, <3>1 DEF Uncommitted
  <2>2. CASE phase[r] # "open"
    <3>1. \A q \in Runners : phase'[q] = "open" <=> phase[q] = "open"
      BY <1>1, <2>2 DEF Migrating
    <3>2. \A q \in Runners : phase'[q] = "open" => plan'[q] = plan[q]
      BY <1>1 DEF Migrating
    <3>3. QED
      BY <1>1, <2>2, <3>1, <3>2 DEF Migrating, Uncommitted, Promised, TableLocked, Downgraded
  <2>3. QED
    BY <2>1, <2>2
<1>6. QED
  BY <1>2, <1>3, <1>4, <1>5 DEF Migrating

\* A migration works or fails within its transaction.
LEMMA RunMigrationStep ==
  ASSUME Migrating, NEW r \in Runners, RunMigration(r), UNCHANGED <<heroes, downgrades>>
  PROVE  Migrating'
<1>1. phase[r] = "open" /\ plan[r] # <<>>
  BY DEF RunMigration
<1>2. CASE Rollback(r)
  BY <1>1, <1>2, RollbackStep
<1>3. ASSUME NEW after \in Migrated(work, Head(plan[r])), work' = after,
             plan' = [plan EXCEPT ![r] = Tail(@)], UNCHANGED <<db, phase>>
      PROVE  Migrating'
  <2> DEFINE rest == Tail(plan[r])
  <2>1. /\ Sound(after) /\ rest \in Seq(Int)
        /\ Upgrade(rest) \/ (Downgraded(r) /\ Downgrade(rest))
        /\ Carried(Promised(r, rest, after), after)
        /\ rest = <<>> /\ ~Downgraded(r) => after.revision = HeadRevision
    BY <1>1, NextMigration
  <2> HIDE DEF rest
  <2>2. plan' = [plan EXCEPT ![r] = rest]
    BY <1>3 DEF rest
  <2>3. plan' \in [Runners -> Seq(Int)]
    BY <2>1, <2>2 DEF Migrating
  <2>4. Plans'
    BY <1>1, <1>3, <2>1, <2>2 DEF Migrating, Plans, Downgraded
  <2>5. Committed'
    BY <1>1, <1>3, <2>2 DEF Migrating, Committed
  <2>6. Uncommitted'
    <3>1. \A q \in Runners : phase'[q] = "open" <=> q = r
      BY <1>1, <1>3 DEF Migrating, Uncommitted
    <3>2. plan'[r] = rest
      BY <2>2 DEF Migrating
    <3>3. QED
      BY <1>1, <1>3, <2>1, <3>1, <3>2 DEF Uncommitted, Promised, TableLocked, Downgraded
  <2>7. QED
    BY <1>3, <2>3, <2>4, <2>5, <2>6 DEF Migrating
<1>4. QED
  BY <1>2, <1>3 DEF RunMigration

\* A commit is of a sound database, at the head unless the operator downgraded it.
LEMMA CommitStep ==
  ASSUME Migrating, NEW r \in Runners, Commit(r), UNCHANGED downgrades,
         heroes' = IF r = cli /\ db' # db THEN Kept(heroes, db'.revision) ELSE heroes
  PROVE  Migrating'
<1>1. /\ phase[r] \in {"planned", "open"} /\ plan[r] = <<>>
      /\ phase' = [phase EXCEPT ![r] = "done"] /\ UNCHANGED plan
      /\ db' = IF phase[r] = "open" THEN work ELSE db
      /\ work' = IF phase[r] = "open" THEN NULL ELSE work
  BY DEF Commit
<1>2. phase' \in [Runners -> Phases]
  BY <1>1 DEF Migrating, Phases
<1>3. Plans'
  BY <1>1 DEF Migrating, Plans, Downgraded
<1>4. CASE phase[r] = "open"
  <2>1. /\ Sound(work) /\ Carried(Promised(r, <<>>, work), work)
        /\ ~Downgraded(r) => work.revision = HeadRevision
    BY <1>1, <1>4 DEF Migrating, Uncommitted
  <2>2. Carried(heroes, db) /\ db' = work
    BY <1>1, <1>4 DEF Migrating, Committed
  <2>4. Carried(heroes', db')
    <3>1. CASE r = cli /\ work # db
      BY <2>1, <2>2, <3>1 DEF Promised
    <3>2. CASE r = cli /\ work = db
      BY <2>2, <3>2
    <3>3. CASE r # cli
      BY <2>1, <2>2, <3>3 DEF Promised
    <3>4. QED
      BY <3>1, <3>2, <3>3
  <2>5. Committed'
    BY <1>1, <1>4, <2>1, <2>4 DEF Migrating, Committed, Downgraded
  <2>6. \A q \in Runners : phase'[q] # "open"
    BY <1>1, <1>4 DEF Migrating, Uncommitted
  <2>7. QED
    BY <1>1, <1>2, <1>3, <1>4, <2>5, <2>6 DEF Migrating, Uncommitted
<1>5. CASE phase[r] # "open"
  <2>1. UNCHANGED <<db, work, plan>> /\ phase[r] = "planned"
    BY <1>1, <1>5
  <2>2. heroes' = heroes
    BY <2>1
  <2>3. Committed'
    BY <1>1, <2>1, <2>2 DEF Migrating, Committed
  <2>4. \A q \in Runners : phase'[q] = "open" <=> phase[q] = "open"
    BY <1>1, <1>5 DEF Migrating
  <2>5. Uncommitted'
    BY <2>1, <2>2, <2>4 DEF Migrating, Uncommitted, Promised, TableLocked, Downgraded
  <2>6. QED
    BY <1>1, <1>2, <1>3, <2>3, <2>5 DEF Migrating
<1>6. QED
  BY <1>4, <1>5

\* Of two deadlocked transactions one fails, and the other goes on alone.
LEMMA DeadlockStep ==
  ASSUME Migrating, NEW victim \in Runners, Deadlock(victim), UNCHANGED <<heroes, downgrades>>
  PROVE  Migrating'
<1>1. PICK other \in Runners \ {victim} :
        /\ {phase[victim], phase[other]} = {"open", "planned"} /\ work = db
        /\ \A r \in {victim, other} : plan[r] # <<>> /\ Head(plan[r]) = 4
        /\ phase' = [phase EXCEPT ![victim] = "failed", ![other] = "open"]
        /\ plan' = [plan EXCEPT ![victim] = <<>>, ![other] = Tail(@)]
        /\ work' \in Migrated(db, 4)
        /\ UNCHANGED db
  BY DEF Deadlock
<1> DEFINE rest == Tail(plan[other])
<1>2. Upgrade(plan[other])
  <2>1. ASSUME Downgrade(plan[other]) PROVE FALSE
    <3>1. PICK k \in 1 .. HeadRevision : plan[other] = <<-k>>
      BY <2>1 DEF Downgrade
    <3>2. Head(plan[other]) = -k
      BY <3>1
    <3>3. QED
      BY <1>1, <3>2 DEF HeadRevision
  <2>2. QED
    BY <2>1 DEF Migrating, Plans
<1>3. Upgrade(rest) /\ rest # <<>>
  BY <1>1, <1>2, UpgradeNext DEF HeadRevision
<1>4. Sound(db) /\ Carried(heroes, db)
  BY DEF Migrating, Committed
<1>5. Sound(work') /\ Carried(heroes, work')
  <2>1. 4 \in 1 .. HeadRevision
    BY DEF HeadRevision
  <2>2. \A x \in Migrated(db, 4) : Sound(x) /\ Carried(heroes, x)
    BY <1>4, <2>1, UpgradeSound, UpgradeCarries
  <2>3. QED
    BY <1>1, <1>4, <2>2
<1>6. rest \in Seq(Int)
  BY <1>3 DEF Upgrade
<1> HIDE DEF rest
<1>7. \A q \in Runners :
        /\ phase'[q] = IF q = victim THEN "failed" ELSE IF q = other THEN "open" ELSE phase[q]
        /\ plan'[q] = IF q = victim THEN <<>> ELSE IF q = other THEN rest ELSE plan[q]
  BY <1>1 DEF Migrating, rest
<1>8. phase' \in [Runners -> Phases] /\ plan' \in [Runners -> Seq(Int)]
  <2>1. plan' = [[plan EXCEPT ![victim] = <<>>] EXCEPT ![other] = rest]
    BY <1>1 DEF Migrating, rest
  <2>2. [plan EXCEPT ![victim] = <<>>] \in [Runners -> Seq(Int)]
    BY DEF Migrating
  <2>3. plan' \in [Runners -> Seq(Int)]
    BY <1>6, <2>1, <2>2
  <2>4. QED
    BY <1>1, <2>3 DEF Migrating, Phases
<1>9. Plans'
  <2>1. Upgrade(<<>>)
    BY DEF Upgrade, HeadRevision
  <2>2. QED
    BY <1>3, <1>7, <2>1 DEF Migrating, Plans, Downgraded
<1>10. Committed'
  BY <1>1, <1>7 DEF Migrating, Committed
<1>11. Uncommitted'
  <2>1. phase[victim] = "open" \/ phase[other] = "open"
    BY <1>1
  <2>2. \A q \in Runners : phase'[q] = "open" <=> q = other
    BY <1>1, <1>7, <2>1 DEF Migrating, Uncommitted
  <2>3. TableLocked'
    BY <2>2 DEF TableLocked
  <2>4. plan'[other] = rest /\ rest # <<>>
    BY <1>3, <1>7
  <2>5. QED
    BY <1>5, <2>2, <2>3, <2>4 DEF Uncommitted, Promised
<1>12. QED
  BY <1>8, <1>9, <1>10, <1>11 DEF Migrating

-----------------------------------------------------------------------------
(* Clients *)

\* Only the head has every column of the model.
LEMMA UsableAtHead ==
  ASSUME Migrating, TableUsable
  PROVE  /\ db.revision = HeadRevision
         /\ db.columns = HeroModel
         /\ \A r \in Runners : phase[r] # "open"
<1>1. Sound(db) /\ "power_level" \in DOMAIN db.columns
  BY DEF Migrating, Committed, TableUsable, HeroModel, ++
<1>2. "power_level" \in Nullable(db.revision) \union Required(db.revision)
  BY <1>1 DEF Sound, At, All, Shape, Cols
<1>3. db.revision = HeadRevision
  BY <1>1, <1>2 DEF Sound, Nullable, Required, Times, Flags, Lifecycle, HeadRevision
<1>4. db.columns = HeroModel
  BY <1>1, <1>3, ConsistentIsSound, HeadIsModel DEF Consistent
<1>5. QED
  BY <1>3, <1>4 DEF TableUsable, TableLocked

\* A row of the model's columns, written under its constraints.
LEMMA WriteStep ==
  ASSUME Migrating, NEW i \in Ids, NEW row, NEW hero, Write(i, row, hero),
         DOMAIN row = DOMAIN HeroModel, \A c \in DOMAIN HeroModel : ValueFits(c, row[c]),
         {"name", "powers"} \subseteq DOMAIN hero, DOMAIN hero \subseteq DOMAIN row,
         \A c \in DOMAIN hero : hero[c] = row[c]
  PROVE  Migrating'
<1>1. /\ TableUsable
      /\ \A c \in DOMAIN db.columns : db.columns[c] = "null" \/ row[c] # NULL
      /\ db' = [db EXCEPT !.rows = With(@, i, row)]
      /\ heroes' = With(heroes, i, hero)
      /\ UNCHANGED <<phase, plan, work, downgrades>>
  BY DEF Write, bounds
<1>2. /\ db.revision = HeadRevision /\ db.columns = HeroModel
      /\ \A r \in Runners : phase[r] # "open"
  BY <1>1, UsableAtHead
<1>3. Consistent(db) /\ Carried(heroes, db)
  BY ConsistentIsSound DEF Migrating, Committed
<1>4. /\ DOMAIN db' = DOMAIN Empty /\ db'.revision = db.revision
      /\ db'.tables = db.tables /\ db'.columns = db.columns
      /\ db'.rows = With(db.rows, i, row)
  BY <1>1, <1>3 DEF Consistent, Empty
<1>5. /\ DOMAIN db'.rows = DOMAIN db.rows \union {i}
      /\ \A j \in DOMAIN db'.rows : db'.rows[j] = IF j = i THEN row ELSE db.rows[j]
  BY <1>4 DEF With, ++
<1>6. Consistent(db')
  <2>1. DOMAIN db'.rows \subseteq Ids /\ db'.revision # 0
    BY <1>2, <1>3, <1>4, <1>5 DEF Consistent, HeadRevision
  <2>2. ASSUME NEW j \in DOMAIN db'.rows
        PROVE  /\ DOMAIN db'.rows[j] = DOMAIN db'.columns
               /\ \A c \in DOMAIN db'.columns :
                    /\ ValueFits(c, db'.rows[j][c])
                    /\ db'.rows[j][c] # NULL \/ db'.columns[c] = "null"
    <3>1. CASE j = i
      BY <1>1, <1>2, <1>4, <1>5, <3>1
    <3>2. CASE j # i
      <4>1. j \in DOMAIN db.rows /\ db'.rows[j] = db.rows[j]
        BY <1>5, <3>2
      <4>2. QED
        BY <1>3, <1>4, <4>1 DEF Consistent
    <3>3. QED
      BY <3>1, <3>2
  <2>3. QED
    BY <1>3, <1>4, <2>1, <2>2 DEF Consistent
<1>7. Carried(heroes', db')
  <2>1. Holds(db.rows, heroes)
    BY <1>2, <1>3 DEF Carried, HeadRevision
  <2>2. /\ DOMAIN heroes' = DOMAIN heroes \union {i}
        /\ \A j \in DOMAIN heroes' : heroes'[j] = IF j = i THEN hero ELSE heroes[j]
    BY <1>1 DEF With, ++
  <2>3. Holds(db'.rows, heroes')
    BY <1>5, <2>1, <2>2 DEF Holds
  <2>4. QED
    BY <1>2, <1>4, <2>3 DEF Carried, HeadRevision
<1>8. Sound(db')
  BY <1>6, ConsistentIsSound
<1>9. Committed'
  BY <1>1, <1>4, <1>7, <1>8 DEF Migrating, Committed
<1>10. Uncommitted' /\ Plans'
  BY <1>1, <1>2 DEF Migrating, Uncommitted, Promised, Plans, TableLocked, Downgraded
<1>11. QED
  BY <1>1, <1>9, <1>10 DEF Migrating

\* A list of powers starts with a power.
LEMMA ListsOfPowers == \A l \in PowerLists : l[1] \in Powers
<1> SUFFICES ASSUME NEW l \in PowerLists PROVE l[1] \in Powers
  OBVIOUS
<1>1. l \in Seq(Powers) /\ l # <<>>
  BY PayloadsAssumption
<1>2. QED
  BY <1>1, EmptySeq, ElementOfSeq

\* The columns of the model.
LEMMA ModelColumns ==
  DOMAIN HeroModel = {"name", "powers", "power_level", "archived_at", "publish_at", "unpublish_at",
                      "owner_id", "created_at", "updated_at", "is_draft", "is_locked"}
BY DEF HeroModel, ++

\* A payload that fits: some of the model's columns, each with a value it may hold.
Fits(p) == DOMAIN p \subseteq DOMAIN HeroModel /\ \A c \in DOMAIN p : ValueFits(c, p[c])

\* A new row has every column of the model, and the payload's value where it has one.
LEMMA InsertedFits ==
  ASSUME NEW p, Fits(p)
  PROVE  LET row == Inserted(p)
         IN /\ DOMAIN row = DOMAIN HeroModel
            /\ \A c \in DOMAIN HeroModel : ValueFits(c, row[c])
            /\ \A c \in DOMAIN p : row[c] = p[c]
            /\ \A c \in {"name", "powers"} \ DOMAIN p : row[c] = NULL
<1> DEFINE blank == [c \in DOMAIN HeroModel |->
             CASE c = "owner_id" -> "owner"
               [] c \in {"is_draft", "is_locked"} -> "flag"
               [] c \in {"created_at", "updated_at"} -> "now"
               [] OTHER -> NULL]
           row == Inserted(p)
<1>1. row = p ++ blank
  BY DEF Inserted
<1>2. /\ DOMAIN blank = DOMAIN HeroModel
      /\ \A c \in DOMAIN HeroModel : ValueFits(c, blank[c])
      /\ blank["name"] = NULL /\ blank["powers"] = NULL
  BY ModelColumns DEF ValueFits
<1> HIDE DEF blank, row
<1>3. /\ DOMAIN row = DOMAIN p \union DOMAIN blank
      /\ \A c \in DOMAIN row : row[c] = IF c \in DOMAIN p THEN p[c] ELSE blank[c]
  BY <1>1 DEF ++
<1>4. DOMAIN row = DOMAIN HeroModel
  BY <1>2, <1>3 DEF Fits
<1>5. \A c \in DOMAIN HeroModel : ValueFits(c, row[c])
  BY <1>2, <1>3, <1>4 DEF Fits
<1>6. \A c \in {"name", "powers"} \ DOMAIN p : row[c] = NULL
  BY <1>2, <1>3, <1>4, ModelColumns
<1>7. QED
  BY <1>3, <1>4, <1>5, <1>6 DEF row

\* What a client sends beside a name and powers are columns of the model.
LEMMA MoreFits ==
  ASSUME NEW fields, NEW m \in More(fields)
  PROVE  DOMAIN m \subseteq MoreFields /\ Fits(m)
<1>1. PICK sent \in SUBSET (fields \intersect MoreFields) : m \in [sent -> {"set", NULL}]
  BY DEF More
<1>2. DOMAIN m \subseteq MoreFields
  BY <1>1
<1>3. MoreFields \subseteq {"archived_at", "publish_at", "unpublish_at", "is_draft", "is_locked",
                           "power_level"}
  BY FieldsAssumption DEF Lifecycle, Flags
<1>4. QED
  BY <1>2, <1>3, ModelColumns DEF Fits, ValueFits

\* So a payload that sends nothing else, or with that a name and powers, fits.
LEMMA PayloadFits ==
  ASSUME NEW payload \in V2Updates \union StateChanges
  PROVE  Fits(payload)
<1>1. CASE payload = <<>>
  <2>1. DOMAIN payload = {}
    BY <1>1
  <2>2. QED
    BY <2>1 DEF Fits
<1>2. CASE payload \in [{"name"} -> Names \union {NULL}]
  BY <1>2, ModelColumns DEF Fits, ValueFits
<1>3. CASE payload \in [{"powers"} -> PowerLists \union {NULL}]
  <2>1. DOMAIN payload = {"powers"} /\ payload["powers"] \in PowerLists \union {NULL}
    BY <1>3
  <2>2. payload["powers"] = NULL \/ payload["powers"][1] \in Powers
    BY <2>1, ListsOfPowers
  <2>3. QED
    BY <2>1, <2>2, ModelColumns DEF Fits, ValueFits
<1>4. CASE \E fields : payload \in More(fields)
  BY <1>4, MoreFits
<1>5. QED
  BY <1>1, <1>2, <1>3, <1>4 DEF V2Updates, StateChanges, Field

\* As does what a hero is created from.
LEMMA CreationFits ==
  ASSUME NEW payload \in V2Creates
  PROVE  Fits(payload) /\ {"name", "powers"} \subseteq DOMAIN payload
<1>1. PICK p \in [name : Names, powers : PowerLists], m \in More({"power_level"}) : payload = p ++ m
  BY DEF V2Creates
<1>2. DOMAIN p = {"name", "powers"} /\ p.name \in Names /\ p.powers[1] \in Powers
  BY ListsOfPowers
<1>3. ValueFits("name", p["name"]) /\ ValueFits("powers", p["powers"])
  BY <1>2 DEF ValueFits
<1>4. Fits(m)
  BY MoreFits
<1>5. /\ DOMAIN payload = DOMAIN p \union DOMAIN m
      /\ \A c \in DOMAIN payload : payload[c] = IF c \in DOMAIN p THEN p[c] ELSE m[c]
  BY <1>1 DEF ++
<1>6. QED
  BY <1>2, <1>3, <1>4, <1>5, ModelColumns DEF Fits

\* Creates and saved drafts insert a whole row.
LEMMA CreateStep ==
  ASSUME Migrating, NEW i \in Ids, CreateV1(i) \/ CreateV2(i) \/ SaveDraft(i)
  PROVE  Migrating'
<1>1. CASE CreateV1(i)
  <2>1. PICK n \in Names, p \in Powers :
          Write(i, Inserted(V1CreateToV2([name |-> n, superpower |-> p])),
                [name |-> n, powers |-> <<p>>])
    BY <1>1 DEF CreateV1
  <2> DEFINE payload == V1CreateToV2([name |-> n, superpower |-> p])
  <2>2. payload = [name |-> n, powers |-> <<p>>]
    BY DEF V1CreateToV2
  <2>3. {"name", "powers"} \subseteq DOMAIN payload /\ Fits(payload)
    BY <2>2, ModelColumns DEF Fits, ValueFits
  <2>4. Write(i, Inserted(payload), payload)
    BY <2>1, <2>2
  <2> HIDE DEF payload
  <2>5. QED
    BY <2>3, <2>4, InsertedFits, WriteStep DEF Fits
<1>2. CASE CreateV2(i)
  <2>1. PICK payload \in V2Creates : Write(i, Inserted(payload), payload)
    BY <1>2 DEF CreateV2
  <2>2. Fits(payload) /\ {"name", "powers"} \subseteq DOMAIN payload
    BY CreationFits
  <2>3. QED
    BY <2>1, <2>2, InsertedFits, WriteStep DEF Fits
<1>3. CASE SaveDraft(i)
  <2>1. PICK payload \in V2Updates :
          Write(i, Inserted(payload), payload ++ [name |-> NULL, powers |-> NULL])
    BY <1>3 DEF SaveDraft
  <2> DEFINE hero == payload ++ [name |-> NULL, powers |-> NULL]
  <2>2. Fits(payload)
    BY PayloadFits
  <2>3. /\ DOMAIN hero = DOMAIN payload \union {"name", "powers"}
        /\ \A c \in DOMAIN hero : hero[c] = IF c \in DOMAIN payload THEN payload[c] ELSE NULL
    BY DEF ++
  <2> HIDE DEF hero
  <2>4. /\ DOMAIN hero \subseteq DOMAIN Inserted(payload)
        /\ \A c \in DOMAIN hero : hero[c] = Inserted(payload)[c]
    BY <2>2, <2>3, InsertedFits, ModelColumns DEF Fits
  <2>5. QED
    BY <2>1, <2>2, <2>3, <2>4, InsertedFits, WriteStep DEF hero
<1>4. QED
  BY <1>1, <1>2, <1>3

\* The rows at the head hold the heroes.
LEMMA RowAtHead ==
  ASSUME Migrating, TableUsable, NEW i \in DOMAIN db.rows
  PROVE  /\ DOMAIN db.rows[i] = DOMAIN HeroModel
         /\ \A c \in DOMAIN HeroModel : ValueFits(c, db.rows[i][c])
         /\ {"name", "powers"} \subseteq DOMAIN heroes[i]
         /\ DOMAIN heroes[i] \subseteq DOMAIN HeroModel
         /\ \A c \in DOMAIN heroes[i] : heroes[i][c] = db.rows[i][c]
<1>1. db.revision = HeadRevision /\ db.columns = HeroModel
  BY UsableAtHead
<1>2. Consistent(db) /\ Holds(db.rows, heroes)
  BY <1>1, ConsistentIsSound DEF Migrating, Committed, Carried, HeadRevision
<1>3. QED
  BY <1>1, <1>2 DEF Consistent, Holds

\* What an update leaves out keeps its value, in the row and in the hero.
LEMMA UpdatedFits ==
  ASSUME NEW p, Fits(p),
         NEW row, DOMAIN row = DOMAIN HeroModel, \A c \in DOMAIN HeroModel : ValueFits(c, row[c]),
         NEW hero, {"name", "powers"} \subseteq DOMAIN hero, DOMAIN hero \subseteq DOMAIN HeroModel,
         \A c \in DOMAIN hero : hero[c] = row[c]
  PROVE  /\ DOMAIN (p ++ row) = DOMAIN HeroModel
         /\ \A c \in DOMAIN HeroModel : ValueFits(c, (p ++ row)[c])
         /\ {"name", "powers"} \subseteq DOMAIN (p ++ hero)
         /\ DOMAIN (p ++ hero) \subseteq DOMAIN (p ++ row)
         /\ \A c \in DOMAIN (p ++ hero) : (p ++ hero)[c] = (p ++ row)[c]
<1>1. /\ DOMAIN (p ++ row) = DOMAIN HeroModel
      /\ \A c \in DOMAIN HeroModel : (p ++ row)[c] = IF c \in DOMAIN p THEN p[c] ELSE row[c]
  BY DEF ++, Fits
<1>2. /\ DOMAIN (p ++ hero) = DOMAIN p \union DOMAIN hero
      /\ \A c \in DOMAIN p \union DOMAIN hero :
           (p ++ hero)[c] = IF c \in DOMAIN p THEN p[c] ELSE hero[c]
  BY DEF ++
<1>3. QED
  BY <1>1, <1>2 DEF Fits

\* A v2 update changes what it sends.
LEMMA PatchV2Step == ASSUME Migrating, NEW i \in Ids, PatchV2(i) PROVE Migrating'
<1>1. PICK payload \in V2Updates \union StateChanges :
        Write(i, payload ++ db.rows[i], payload ++ heroes[i])
  BY DEF PatchV2
<1>2. i \in DOMAIN db.rows /\ TableUsable
  BY <1>1 DEF PatchV2, Write
<1> DEFINE row == db.rows[i]
           hero == heroes[i]
<1>3. /\ DOMAIN row = DOMAIN HeroModel /\ \A c \in DOMAIN HeroModel : ValueFits(c, row[c])
      /\ {"name", "powers"} \subseteq DOMAIN hero /\ DOMAIN hero \subseteq DOMAIN HeroModel
      /\ \A c \in DOMAIN hero : hero[c] = row[c]
  BY <1>2, RowAtHead
<1>4. Fits(payload) /\ Write(i, payload ++ row, payload ++ hero)
  BY <1>1, PayloadFits
<1> HIDE DEF row, hero
<1>5. QED
  BY <1>3, <1>4, UpdatedFits, WriteStep

\* A v1 update changes what it sends, and the list of powers only with a superpower.
LEMMA PatchV1Step == ASSUME Migrating, NEW i \in Ids, PatchV1(i) PROVE Migrating'
<1>1. PICK payload \in V1Updates :
        /\ ValidV2Update(V1UpdateToV2(payload))
        /\ Write(i, V1UpdateToV2(payload) ++ db.rows[i],
                 [name |-> IF "name" \in DOMAIN payload THEN payload.name ELSE heroes[i].name,
                  powers |-> IF "superpower" \in DOMAIN payload THEN <<payload.superpower>>
                             ELSE heroes[i].powers] ++ heroes[i])
  BY DEF PatchV1
<1>2. i \in DOMAIN db.rows /\ TableUsable
  BY <1>1 DEF PatchV1, Write
<1> DEFINE row == db.rows[i]
           hero == heroes[i]
           p == V1UpdateToV2(payload)
           told == [name |-> IF "name" \in DOMAIN payload THEN payload.name ELSE hero.name,
                    powers |-> IF "superpower" \in DOMAIN payload THEN <<payload.superpower>>
                               ELSE hero.powers]
<1>3. /\ DOMAIN row = DOMAIN HeroModel /\ \A c \in DOMAIN HeroModel : ValueFits(c, row[c])
      /\ {"name", "powers"} \subseteq DOMAIN hero /\ DOMAIN hero \subseteq DOMAIN HeroModel
      /\ \A c \in DOMAIN hero : hero[c] = row[c]
  BY <1>2, RowAtHead
<1>4. /\ DOMAIN p \subseteq {"name", "powers"}
      /\ "name" \in DOMAIN p <=> "name" \in DOMAIN payload
      /\ "powers" \in DOMAIN p <=> "superpower" \in DOMAIN payload
      /\ "name" \in DOMAIN p => p.name = payload.name
      /\ "powers" \in DOMAIN p => p.powers = <<payload.superpower>>
  BY DEF V1UpdateToV2
<1>5. "name" \in DOMAIN payload => payload.name \in Names \union {NULL}
  BY DEF V1Updates
<1>6. "superpower" \in DOMAIN payload => payload.superpower \in Powers \union {NULL}
  BY DEF V1Updates
<1>7. Write(i, p ++ row, told ++ hero)
  BY <1>1
<1>8. /\ DOMAIN told = {"name", "powers"}
      /\ told["name"] = IF "name" \in DOMAIN payload THEN payload.name ELSE hero["name"]
      /\ told["powers"] = IF "superpower" \in DOMAIN payload THEN <<payload.superpower>>
                         ELSE hero["powers"]
  OBVIOUS
<1> HIDE DEF p, row, hero, told
<1>9. "powers" \in DOMAIN p /\ p.powers # NULL => p.powers[1] # NULL
  BY <1>1, <1>4 DEF ValidV2Update, IsPower, p
<1>10. Fits(p)
  BY <1>4, <1>5, <1>6, <1>9, ModelColumns DEF Fits, ValueFits
<1>11. /\ DOMAIN (p ++ row) = DOMAIN HeroModel
       /\ \A c \in DOMAIN HeroModel : ValueFits(c, (p ++ row)[c])
       /\ DOMAIN (p ++ hero) \subseteq DOMAIN (p ++ row)
       /\ \A c \in DOMAIN (p ++ hero) : (p ++ hero)[c] = (p ++ row)[c]
  BY <1>3, <1>10, UpdatedFits
<1>12. /\ DOMAIN (told ++ hero) = DOMAIN (p ++ hero)
       /\ \A c \in DOMAIN (told ++ hero) : (told ++ hero)[c] = (p ++ hero)[c]
  <2>1. /\ DOMAIN (told ++ hero) = DOMAIN hero
        /\ \A c \in DOMAIN hero :
             (told ++ hero)[c] = IF c \in {"name", "powers"} THEN told[c] ELSE hero[c]
    BY <1>3, <1>8 DEF ++
  <2>2. /\ DOMAIN (p ++ hero) = DOMAIN hero
        /\ \A c \in DOMAIN hero : (p ++ hero)[c] = IF c \in DOMAIN p THEN p[c] ELSE hero[c]
    BY <1>3, <1>4 DEF ++
  <2>3. \A c \in {"name", "powers"} : told[c] = IF c \in DOMAIN p THEN p[c] ELSE hero[c]
    BY <1>4, <1>8
  <2>4. QED
    BY <1>4, <2>1, <2>2, <2>3
<1>13. {"name", "powers"} \subseteq DOMAIN (told ++ hero)
  BY <1>3 DEF ++
<1>14. QED
  BY <1>7, <1>11, <1>12, <1>13, WriteStep

-----------------------------------------------------------------------------
(* The deployment *)

\* A deployment starts on a consistent database, with nothing planned.
LEMMA RolloutInitInv == RolloutInit => RolloutInv
<1> SUFFICES ASSUME RolloutInit PROVE RolloutInv
  OBVIOUS
<1>1. /\ db \in Begin /\ work = NULL /\ heroes = OwnedHeroes(db)
      /\ phase = [r \in Runners |-> "idle"] /\ plan = [r \in Runners |-> <<>>]
      /\ aborts = 0 /\ downgrades = 0
      /\ migrates => pc = "migrate"
  BY DEF RolloutInit, Init
<1>2. phase \in [Runners -> Phases] /\ plan \in [Runners -> Seq(Int)]
  BY <1>1 DEF Phases
<1>3. Plans
  <2>1. Upgrade(<<>>)
    BY DEF Upgrade, HeadRevision
  <2>2. QED
    BY <1>1, <2>1 DEF Plans
<1>4. Committed
  BY <1>1, BeginAssumption, ConsistentIsSound, OwnedAreCarried DEF Committed
<1>5. Uncommitted
  BY <1>1 DEF Uncommitted
<1>6. Counts /\ MigratedFirst
  BY <1>1, FaultsAssumption DEF Counts, MigratedFirst
<1>7. QED
  BY <1>2, <1>3, <1>4, <1>5, <1>6 DEF RolloutInv, Migrating

\* What no step of a transaction changes.
LEMMA AdvanceStep ==
  ASSUME Migrating, NEW r \in Runners, Advance(r), UNCHANGED downgrades,
         heroes' = IF r = cli /\ db' # db THEN Kept(heroes, db'.revision) ELSE heroes
  PROVE  Migrating'
<1>1. CASE Commit(r)
  BY <1>1, CommitStep
<1>2. CASE TakeTable(r) \/ RunMigration(r)
  <2>1. db' = db
    BY <1>2 DEF TakeTable, RunMigration, Rollback
  <2>2. heroes' = heroes
    BY <2>1
  <2>3. QED
    BY <1>2, <2>2, TakeTableStep, RunMigrationStep
<1>3. QED
  BY <1>1, <1>2 DEF Advance

\* A runner that is neither planned nor open may be started again.
LEMMA IdleStep ==
  ASSUME Migrating, NEW r \in Runners, phase[r] \in {"failed", "done"},
         phase' = [phase EXCEPT ![r] = "idle"], UNCHANGED <<db, plan, work, heroes, downgrades>>
  PROVE  Migrating'
<1>1. phase' \in [Runners -> Phases]
  BY DEF Migrating, Phases
<1>2. \A q \in Runners : phase'[q] \in {"planned", "open", "done"} => phase'[q] = phase[q]
  BY DEF Migrating
<1>3. \A q \in Runners : phase[q] \in {"planned", "open"} => phase'[q] = phase[q]
  BY DEF Migrating
<1>4. Plans'
  BY <1>3 DEF Migrating, Plans, Downgraded
<1>5. Committed'
  BY <1>2 DEF Migrating, Committed
<1>6. Uncommitted'
  BY <1>2, <1>3 DEF Migrating, Uncommitted, Promised, TableLocked, Downgraded
<1>7. QED
  BY <1>1, <1>4, <1>5, <1>6 DEF Migrating

\* The runners are the process, the other replicas and the operator.
LEMMA WhoRuns == self \in Runners /\ cli \in Runners /\ Others \subseteq Runners \ {self, cli}
BY RunnersAssumption

\* Every step of a deployment keeps what its runners and clients rely on.
LEMMA MigratingStep == ASSUME Migrating, Counts, [RolloutNext]_rolloutVars PROVE Migrating'
<1>1. CASE SelfMigrates
  BY <1>1, WhoRuns, PlanUpgradeStep, AdvanceStep, RunnersAssumption DEF SelfMigrates, bounds
<1>2. CASE SelfMigrated \/ SelfLives \/ UNCHANGED rolloutVars
  <2>1. UNCHANGED <<db, phase, plan, work, heroes, downgrades>>
    BY <1>2 DEF SelfMigrated, SelfLives, rolloutVars, migrationVars, bounds
  <2>2. QED
    BY <2>1 DEF Migrating, Plans, Committed, Uncommitted, Promised, TableLocked, Downgraded
<1>3. ASSUME NEW r \in Others, OtherMigrates(r) PROVE Migrating'
  BY <1>3, WhoRuns, PlanUpgradeStep, AdvanceStep DEF OtherMigrates, bounds
<1>4. ASSUME NEW r \in Others, Replace(r) PROVE Migrating'
  BY <1>4, WhoRuns, IdleStep DEF Replace
<1>5. ASSUME NEW r \in Runners \ {self}, Restart(r) PROVE Migrating'
  BY <1>5, IdleStep DEF Restart, bounds
<1>6. ASSUME NEW r \in Runners, Dies(r) PROVE Migrating'
  BY <1>6, RollbackStep DEF Dies, Abort
<1>7. ASSUME NEW r \in Runners, Deadlocks(r) PROVE Migrating'
  BY <1>7, DeadlockStep DEF Deadlocks, bounds
<1>8. CASE OperatorStarts
  <2>1. CASE PlanUpgrade(cli) /\ UNCHANGED downgrades
    BY <1>8, <2>1, WhoRuns, PlanUpgradeStep DEF OperatorStarts
  <2>2. CASE PlanDowngrade(cli) /\ downgrades' = downgrades + 1
    BY <1>8, <2>2, PlanDowngradeStep DEF OperatorStarts, Counts
  <2>3. QED
    BY <1>8, <2>1, <2>2 DEF OperatorStarts
<1>9. CASE OperatorAdvances
  BY <1>9, WhoRuns, AdvanceStep DEF OperatorAdvances, bounds
<1>10. ASSUME NEW i \in Ids,
              CreateV1(i) \/ CreateV2(i) \/ SaveDraft(i) \/ PatchV1(i) \/ PatchV2(i)
       PROVE  Migrating'
  BY <1>10, CreateStep, PatchV1Step, PatchV2Step
<1>11. QED
  BY <1>1, <1>2, <1>3, <1>4, <1>5, <1>6, <1>7, <1>8, <1>9, <1>10 DEF RolloutNext

\* The bounds are kept.
LEMMA CountsStep == ASSUME Counts, [RolloutNext]_rolloutVars PROVE Counts'
<1>1. \/ UNCHANGED bounds
      \/ MoreFaults /\ aborts' = aborts + 1 /\ UNCHANGED downgrades
      \/ MoreFaults /\ downgrades' = downgrades + 1 /\ UNCHANGED aborts
      \/ UNCHANGED <<aborts, downgrades>>
  BY DEF RolloutNext, rolloutVars, SelfMigrates, SelfMigrated, SelfLives, OtherMigrates, Replace,
         Restart, Dies, Deadlocks, OperatorStarts, OperatorAdvances, CreateV1, CreateV2,
         SaveDraft, PatchV1, PatchV2, Write
<1>2. QED
  BY <1>1, FaultsAssumption DEF Counts, bounds, MoreFaults

\* Only the process leaves its migrations behind, and only with them done.
LEMMA MigratedFirstStep ==
  ASSUME Migrating, MigratedFirst, [RolloutNext]_rolloutVars
  PROVE  MigratedFirst'
<1>1. CASE SelfMigrates
  BY <1>1 DEF SelfMigrates, MigratedFirst, vars, settings
<1>2. CASE SelfMigrated
  BY <1>2 DEF SelfMigrated, Migrate, MigratedFirst, migrationVars, settings
<1>3. CASE SelfLives
  <2>1. pc = "end" => pc' = "end"
    BY <1>3 DEF SelfLives, Next, Coroutine, Migrate, Prefetch, EnterCache, CancelTask, AwaitTask,
                CloseCache, CloseHealthChecks, AnalyticsShutdown, DisposeEngine, Step,
                BuildHealthRegistry, Shutdown, Task, TaskStep, DeliverCancel, Unwound,
                UnwindRaises, lifespanVars, Ended, vars
  <2>2. migrates' = migrates
    BY <1>3, SettingsStay DEF SelfLives, settings
  <2>3. QED
    BY <1>3, <2>1, <2>2 DEF SelfLives, MigratedFirst, migrationVars
<1>4. ASSUME UNCHANGED vars, phase[self] = "done" => phase'[self] = "done"
      PROVE  MigratedFirst'
  BY <1>4 DEF MigratedFirst, vars, settings
<1>5. ASSUME NEW r \in Runners \ {self}, PlanUpgrade(r) \/ PlanDowngrade(r) \/ Advance(r)
      PROVE  phase'[self] = phase[self]
  BY <1>5, WhoRuns DEF Migrating, PlanUpgrade, PlanDowngrade, Advance, TakeTable, RunMigration,
     Rollback, Commit
<1>6. CASE \E r \in Others : OtherMigrates(r)
  BY <1>4, <1>5, <1>6, WhoRuns DEF OtherMigrates
<1>7. CASE OperatorStarts \/ OperatorAdvances
  BY <1>4, <1>5, <1>7, WhoRuns, RunnersAssumption DEF OperatorStarts, OperatorAdvances
<1>8. CASE \/ \E r \in Others : Replace(r)
           \/ \E r \in Runners \ {self} : Restart(r)
  BY <1>4, <1>8, WhoRuns DEF Migrating, Replace, Restart
<1>9. CASE \E r \in Runners : Dies(r)
  BY <1>4, <1>9 DEF Migrating, Dies, Abort, Rollback
<1>10. CASE \E r \in Runners : Deadlocks(r)
  <2>1. \A r \in Runners : Deadlock(r) /\ phase[self] = "done" => phase'[self] = "done"
    BY WhoRuns DEF Migrating, Deadlock
  <2>2. QED
    BY <1>4, <1>10, <2>1 DEF Deadlocks
<1>11. CASE \/ \E i \in Ids : CreateV1(i) \/ CreateV2(i) \/ SaveDraft(i) \/ PatchV1(i) \/ PatchV2(i)
            \/ UNCHANGED rolloutVars
  BY <1>4, <1>11 DEF CreateV1, CreateV2, SaveDraft, PatchV1, PatchV2, Write, rolloutVars,
     migrationVars
<1>12. QED
  BY <1>1, <1>2, <1>3, <1>6, <1>7, <1>8, <1>9, <1>10, <1>11 DEF RolloutNext

\* Every deployment, whatever its database, its replicas and its clients.
LEMMA AlwaysRollout == RolloutSpec => []RolloutInv
<1>1. RolloutInv /\ [RolloutNext]_rolloutVars => RolloutInv'
  BY MigratingStep, CountsStep, MigratedFirstStep DEF RolloutInv
<1>2. QED
  BY <1>1, RolloutInitInv, PTL DEF RolloutSpec

-----------------------------------------------------------------------------
(* What follows *)

\* The type of every variable that is not Lifespan's, and of those that are.
THEOREM RolloutTypeCorrect == RolloutSpec => []RolloutTypeOK
<1>1. TypeOK /\ RolloutInv => RolloutTypeOK
  <2> SUFFICES ASSUME TypeOK, RolloutInv PROVE RolloutTypeOK
    OBVIOUS
  <2>1. Sound(db) /\ Carried(heroes, db)
    BY DEF RolloutInv, Migrating, Committed
  <2>2. /\ DOMAIN db = DOMAIN Empty /\ db.revision \in 0 .. HeadRevision
        /\ DOMAIN db.rows \subseteq Ids
    BY <2>1 DEF Sound, At, All, Shape
  <2>3. DOMAIN heroes \subseteq Ids
    <3>1. heroes = <<>> \/ DOMAIN heroes = DOMAIN db.rows
      BY <2>1 DEF Carried, Holds
    <3>2. heroes = <<>> => DOMAIN heroes = {}
      OBVIOUS
    <3>3. QED
      BY <2>2, <3>1, <3>2
  <2>4. IF TableLocked THEN work.revision \in 0 .. HeadRevision ELSE work = NULL
    BY DEF RolloutInv, Migrating, Uncommitted, TableLocked, Sound
  <2>5. aborts + downgrades \in 0 .. MaxFaults
    BY FaultsAssumption DEF RolloutInv, Counts
  <2>6. QED
    BY <2>2, <2>3, <2>4, <2>5 DEF RolloutInv, Migrating, Plans, RolloutTypeOK
<1>2. QED
  BY <1>1, AlwaysRollout, RolloutIsLifespan, TypeCorrect, PTL

\* Whatever transactions ran, failed or were undone, the schema is that of its
\* revision, and at the head the model's.
THEOREM SchemaKept == RolloutSpec => []SchemaMatchesRevision
<1>1. RolloutInv => SchemaMatchesRevision
  BY ConsistentIsSound, HeadIsModel
     DEF RolloutInv, Migrating, Committed, SchemaMatchesRevision, Consistent
<1>2. QED
  BY <1>1, AlwaysRollout, PTL

\* A replica that migrates at startup serves only at the head, unless downgraded.
THEOREM ServesOnlyAtHead == RolloutSpec => []ServesAtHead
<1>1. RolloutInv => ServesAtHead
  BY WhoRuns DEF RolloutInv, Migrating, Committed, MigratedFirst, ServesAtHead, Serves
<1>2. QED
  BY <1>1, AlwaysRollout, PTL

\* Whatever clients have written is what the database has, whichever processes raced,
\* failed or died, for any fields, payloads and number of heroes: but for the fields
\* that a downgrade has no column for, and the heroes of one that leaves them no owner.
THEOREM HeroesKept == RolloutSpec => []HeroesSurvive
<1>1. RolloutInv => HeroesSurvive
  BY DEF RolloutInv, Migrating, Committed, Carried, HeroesSurvive
<1>2. QED
  BY <1>1, AlwaysRollout, PTL

\* Every row at the head has a valid v1 response.
THEOREM V1StaysValid == RolloutSpec => []V1ReadsValid
<1>1. RolloutInv => V1ReadsValid
  <2> SUFFICES ASSUME RolloutInv, db.revision = HeadRevision, NEW i \in DOMAIN db.rows
               PROVE  ValidV1(V2ToV1(db.rows[i]))
    BY DEF V1ReadsValid
  <2> DEFINE row == db.rows[i]
  <2>1. Consistent(db) /\ db.columns = HeroModel
    BY ConsistentIsSound, HeadIsModel DEF RolloutInv, Migrating, Committed, Consistent
  <2>2. ValueFits("name", row.name) /\ ValueFits("powers", row.powers)
    BY <2>1, ModelColumns DEF Consistent
  <2> HIDE DEF row
  <2>3. /\ row.name \in Names \union {NULL}
        /\ row.powers = NULL \/ row.powers[1] \in Powers
    BY <2>2 DEF ValueFits
  <2>4. QED
    BY <2>3 DEF V2ToV1, ValidV1, row
<1>2. QED
  BY <1>1, AlwaysRollout, PTL

\* No upgrade ever fails on its own account: from the empty database on, whichever
\* revision a consistent one is at, the next migration can be executed on it.
THEOREM UpgradesAlwaysWork ==
  /\ Consistent(Empty)
  /\ \A d : \A k \in 1 .. HeadRevision :
       Consistent(d) /\ d.revision = k - 1 =>
         \E x \in Migrated(d, k) : Consistent(x) /\ x.revision = k
<1>1. Consistent(Empty)
  BY EmptyIsSound, ConsistentIsSound
<1>2. ASSUME NEW d, NEW k \in 1 .. HeadRevision, Consistent(d), d.revision = k - 1
      PROVE  \E x \in Migrated(d, k) : Consistent(x) /\ x.revision = k
  BY <1>2, UpgradeSound, ConsistentIsSound
<1>3. QED
  BY <1>1, <1>2
=============================================================================
