------------------------------ MODULE Lifespan ------------------------------
(***************************************************************************)
(* The life of one process (app/main.py lifespan): what startup opens, the *)
(* run_invalidation task it starts, and the shutdown that must release     *)
(* everything whatever fails on the way.                                   *)
(*                                                                         *)
(* The lifespan coroutine and the invalidation task run on one event loop  *)
(* and interleave at their awaits. What the process does is settled by its *)
(* environment before it begins: an environment Settings refuses never     *)
(* gets here.                                                              *)
(***************************************************************************)
EXTENDS Settings, Naturals

CONSTANTS
  Failures,     \* lifespan steps that may raise
  Environments  \* environments the process may be given

ASSUME EnvironmentsAssumption == Environments \subseteq Environment

VARIABLES
  mock,       \* MODE=mock
  lapses,     \* what the process may do that its mode forbids, Tolerated aside
  migrates,   \* RUN_MIGRATIONS_ON_STARTUP, and MODE is not mock
  cache,      \* the stats cache: "off", "memory" or "redis"
  check,      \* the health registry has built its RedisCheck
  pc,         \* where the lifespan coroutine is
  task,       \* where run_invalidation is
  cancelled,  \* task.cancel() was called and is not delivered yet
  swallowed,  \* auxiliary: closing the stream raised while a cancel unwound it
  released    \* what shutdown has tried to release

\* The connection of the migrations a process runs at startup may be in the clear: no
\* validator and no setting reaches it.
Tolerated == {"migrations"}

settings == <<mock, lapses, migrates, cache>>
vars == <<settings, check, pc, task, cancelled, swallowed, released>>

Steps == {"migrate", "prefetch", "enter", "serve", "exit", "await", "cache", "health",
          "analytics", "engine", "end"}

\* closing: the stream is being closed after an error; unwinding: after a cancel.
TaskStates == {"none", "subscribing", "streaming", "closing", "unwinding", "sleeping", "ended"}

\* The type of every variable.
TypeOK ==
  /\ mock \in BOOLEAN /\ migrates \in BOOLEAN /\ cache \in {"off", "memory", "redis"}
  /\ check \in BOOLEAN /\ cancelled \in BOOLEAN /\ swallowed \in BOOLEAN
  /\ pc \in Steps /\ task \in TaskStates
  /\ released \subseteq {"cache", "health", "analytics", "engine"}
  /\ cancelled => task # "none"

Init ==
  /\ \E env \in Environments :
       /\ Starts(env)
       /\ mock = (env.mode = "mock")
       /\ lapses = Lapses(env) \ Tolerated
       /\ migrates = RunsMigrations(env)
       /\ cache = StatsCacheKind(env)
  /\ check = FALSE
  /\ pc = IF migrates THEN "migrate" ELSE "prefetch"
  /\ task = "none" /\ cancelled = FALSE /\ swallowed = FALSE
  /\ released = {}

-----------------------------------------------------------------------------
(* The lifespan coroutine *)

\* A step ends, or raises if it may.
Step(from, to, toOnError) ==
  /\ pc = from
  /\ \/ pc' = to
     \/ from \in Failures /\ pc' = toOnError

\* Migrations and the prefetch come before the try block: their failure ends it.
Migrate ==
  /\ Step("migrate", "prefetch", "end")
  /\ UNCHANGED <<settings, swallowed, check, task, cancelled, released>>

Prefetch ==
  /\ Step("prefetch", "enter", "end")
  /\ UNCHANGED <<settings, swallowed, check, task, cancelled, released>>

\* _stats_cache_invalidation creates the task; without an event source it raises.
EnterCache ==
  /\ Step("enter", "serve", "health")
  /\ task' = IF cache # "off" /\ pc' = "serve" THEN "subscribing" ELSE task
  /\ UNCHANGED <<settings, swallowed, check, cancelled, released>>

\* The first health request builds the registry, with a RedisCheck outside mock mode.
BuildHealthRegistry ==
  /\ pc = "serve" /\ check = FALSE /\ ~mock
  /\ check' = TRUE
  /\ UNCHANGED <<settings, swallowed, pc, task, cancelled, released>>

\* Mutant: the task is cancelled whether or not there is one.
ShutdownAlwaysCancels ==
  /\ pc = "serve"
  /\ pc' = "exit"
  /\ UNCHANGED <<settings, swallowed, check, task, cancelled, released>>

\* The server asks for shutdown, or throws into the lifespan.
Shutdown ==
  /\ pc = "serve"
  /\ pc' = IF task = "none" THEN "health" ELSE "exit"
  /\ UNCHANGED <<settings, swallowed, check, task, cancelled, released>>

\* Mutant: the task is awaited and not cancelled.
ForgetsCancel ==
  /\ pc = "exit"
  /\ pc' = "await"
  /\ UNCHANGED <<settings, swallowed, check, task, cancelled, released>>

CancelTask ==
  /\ pc = "exit"
  /\ cancelled' = TRUE
  /\ pc' = "await"
  /\ UNCHANGED <<settings, swallowed, check, task, released>>

\* Mutant: the task is cancelled and not awaited.
DoesNotAwait ==
  /\ pc = "await"
  /\ pc' = IF cache = "redis" THEN "cache" ELSE "health"
  /\ UNCHANGED <<settings, swallowed, check, task, cancelled, released>>

\* The task is awaited before its cache's client is closed.
AwaitTask ==
  /\ pc = "await" /\ task = "ended"
  /\ pc' = IF cache = "redis" THEN "cache" ELSE "health"
  /\ UNCHANGED <<settings, swallowed, check, task, cancelled, released>>

CloseCache ==
  /\ Step("cache", "health", "health")
  /\ released' = released \union {"cache"}
  /\ UNCHANGED <<settings, swallowed, check, task, cancelled>>

\* Mutant: no nested finally.
HealthErrorSkipsRest ==
  /\ Step("health", "analytics", "end")
  /\ released' = released \union {"health"}
  /\ UNCHANGED <<settings, swallowed, check, task, cancelled>>

\* close_health_checks closes the RedisCheck if one was built.
CloseHealthChecks ==
  /\ IF check THEN Step("health", "analytics", "analytics")
     ELSE pc = "health" /\ pc' = "analytics"
  /\ released' = released \union {"health"}
  /\ UNCHANGED <<settings, swallowed, check, task, cancelled>>

\* The final flush never raises.
AnalyticsShutdown ==
  /\ pc = "analytics"
  /\ pc' = "engine"
  /\ released' = released \union {"analytics"}
  /\ UNCHANGED <<settings, swallowed, check, task, cancelled>>

DisposeEngine ==
  /\ Step("engine", "end", "end")
  /\ released' = released \union {"engine"}
  /\ UNCHANGED <<settings, swallowed, check, task, cancelled>>

-----------------------------------------------------------------------------
(* run_invalidation *)

lifespanVars == <<settings, check, pc, released>>

\* Without a cancel: subscribe, consume, close a failed stream, sleep, try again.
\* Whatever the stream or its closing raises is logged.
TaskStep ==
  /\ ~cancelled
  /\ \/ task = "subscribing" /\ task' \in {"streaming", "sleeping"}
     \/ task = "streaming" /\ task' = "closing"
     \/ task = "closing" /\ task' = "sleeping"
     \/ task = "sleeping" /\ task' = "subscribing"
  /\ UNCHANGED <<lifespanVars, cancelled, swallowed>>

\* The cancel is delivered at the task's await; inside the stream it first
\* closes the stream.
DeliverCancel ==
  /\ cancelled /\ cancelled' = FALSE
  /\ task' = IF task = "streaming" THEN "unwinding" ELSE "ended"
  /\ UNCHANGED <<lifespanVars, swallowed>>

\* The stream is closed and the cancel goes on.
Unwound ==
  /\ task = "unwinding"
  /\ task' = "ended"
  /\ UNCHANGED <<lifespanVars, cancelled, swallowed>>

\* Closing the stream raises: the exception replaces the CancelledError and is
\* caught by except Exception.
UnwindRaises ==
  /\ task = "unwinding"
  /\ task' = "sleeping" /\ swallowed' = TRUE
  /\ UNCHANGED <<lifespanVars, cancelled>>

-----------------------------------------------------------------------------
Coroutine ==
  \/ Migrate \/ Prefetch \/ EnterCache \/ CancelTask \/ AwaitTask
  \/ CloseCache \/ CloseHealthChecks \/ AnalyticsShutdown \/ DisposeEngine

Task == TaskStep \/ DeliverCancel \/ Unwound \/ UnwindRaises

Ended == pc = "end" /\ UNCHANGED vars

Next == Coroutine \/ BuildHealthRegistry \/ Shutdown \/ Task \/ Ended

Spec == Init /\ [][Next]_vars

\* The event loop runs whatever is ready; nothing forces a shutdown to be asked for.
FairSpec == Spec /\ WF_vars(Coroutine) /\ WF_vars(Task)

-----------------------------------------------------------------------------
(* Properties *)

\* A process that has started does nothing its mode forbids, with one exception.
\* Under MODE=production it neither connects nor sends clients anywhere in the clear,
\* whichever variable a URL falls back to, and in any mode security.txt is never
\* served without a near Expires (the validators of app/config.py). The exception,
\* Tolerated, is the connection of the migrations it runs at startup: alembic makes an
\* engine of its own, without POSTGRES_SSLMODE (alembic/env.py).
KeepsToItsMode == lapses = {}

\* The cache's client is never closed, nor anything after it released, under a
\* running invalidation task (_stats_cache_invalidation: cancel and await first).
TaskEndsFirst ==
  pc \in {"cache", "health", "analytics", "engine", "end"} => task \in {"none", "ended"}

\* A lifespan that got past startup's first two steps and has ended released
\* everything, whichever steps raised: the health checks, the analytics queue,
\* the engine, and the cache's client if the task had been started.
AllReleased ==
  pc = "end" /\ (task # "none" \/ released # {}) =>
    /\ {"health", "analytics", "engine"} \subseteq released
    /\ cache = "redis" /\ task # "none" => "cache" \in released

\* A shutdown that has begun ends, unless closing the stream swallows its cancel,
\* whatever else raises and wherever the cancel meets the task: nothing it awaits
\* waits for it.
ShutdownEnds == (pc = "exit") ~> (pc = "end" \/ swallowed)

\* run_invalidation's docstring: "cancellation propagates": a cancelled task ends.
CancellationPropagates == cancelled ~> (task = "ended")
=============================================================================
