----------------------------- MODULE StatsCache -----------------------------
(***************************************************************************)
(* The shared cache of /stats and /predict bodies (app/cache.py), the      *)
(* requests that fill it, the writes that make it stale, and the           *)
(* run_invalidation task of every replica.                                 *)
(*                                                                         *)
(* One resource ("hero") is modelled: its Redis keys are pairs of an app   *)
(* version and a query key.  A body is the database version it was         *)
(* computed from and the app version (the response shape) that built it.   *)
(* Time is relative: Tick lets one second pass, entries carry the seconds  *)
(* they have left, and stale[v] counts the seconds since version v was     *)
(* superseded, up to AgeCap.                                               *)
(***************************************************************************)
EXTENDS Naturals, FiniteSets

CONSTANTS
  Replicas,    \* the processes serving the app
  VersionOf,   \* the APP_VERSION of each replica
  Keys,        \* hashed query keys of the resource
  Lanes,       \* concurrent requests for one key at one replica
  Writers,     \* concurrent requests that change the table
  TTL,         \* STATS_CACHE_TTL_SECONDS
  MaxFill,     \* longest time between a fill's query and its set
  ScanCount,   \* keys gathered before an UNLINK (_SCAN_COUNT)
  MaxWrites,   \* bound on the number of database versions
  MaxInbox     \* bound on the events queued for a replica

ASSUME TimeAssumption ==
  /\ TTL \in Nat \ {0} /\ MaxFill \in Nat /\ MaxWrites \in Nat
  /\ ScanCount \in Nat \ {0} /\ MaxInbox \in Nat \ {0}

Versions == {VersionOf[r] : r \in Replicas}
Slots == Versions \X Keys
Requests == Replicas \X Keys \X Lanes
AgeCap == TTL + MaxFill

VARIABLES
  db,      \* the committed version of the hero table
  stale,   \* stale[v]: seconds since v was superseded
  store,   \* Redis: the entry of every slot
  req,     \* the /stats requests: what each has read, and from which version
  wpc,     \* the writing requests
  ipc,     \* run_invalidation's place in its loop
  link,    \* the broker holds a live session for the replica
  inbox,   \* events delivered to the replica and not yet consumed
  todo,    \* slots the running SCAN has not visited yet
  batch,   \* keys the running SCAN returned and UNLINK has not removed
  failed   \* history: a replica with a session lost its last chance to invalidate

requestVars == <<store, req>>
writeVars == <<db, stale, wpc>>
invalidationVars == <<ipc, link, inbox, todo, batch, failed>>
vars == <<requestVars, writeVars, invalidationVars>>

Entry == [ver : 0..MaxWrites, by : Versions, left : 0..TTL, raced : BOOLEAN]

\* by is the shape of the last response; a fill in progress has read ver.
Request == [pc : {"idle", "fetched"},
            ver : 0..MaxWrites, by : Versions, age : 0..MaxFill]

\* The type of every variable.
TypeOK ==
  /\ db \in 0..MaxWrites
  /\ stale \in [0..MaxWrites -> 0..AgeCap]
  /\ store \in [Slots -> Entry]
  /\ req \in [Requests -> Request]
  /\ wpc \in [Writers -> {"idle", "committed", "published"}]
  /\ ipc \in [Replicas -> {"subscribing", "scanning", "listening", "sleeping"}]
  /\ link \in [Replicas -> BOOLEAN]
  /\ inbox \in [Replicas -> 0..MaxInbox]
  /\ todo \in [Replicas -> SUBSET Slots]
  /\ batch \in [Replicas -> SUBSET Slots]
  /\ failed \in [Replicas -> BOOLEAN]

-----------------------------------------------------------------------------
(* The Redis keyspace *)

Absent(s) == [ver |-> 0, by |-> s[1], left |-> 0, raced |-> FALSE]

Present(s) == store[s].left > 0

Without(S) == [s \in Slots |-> IF s \in S THEN Absent(s) ELSE store[s]]

\* Mutant: the version left out of the key.
SlotWithoutVersion(r, k) == <<CHOOSE v \in Versions : TRUE, k>>

\* RedisStatsCache._redis_key: keys are namespaced by the app version.
RedisKey(r, k) == <<VersionOf[r], k>>

\* Mutant: invalidate() looks only at its own version's keys.
OwnVersionSlots(r) == {s \in Slots : s[1] = VersionOf[r]}

\* The keys that match the pattern of invalidate(): those of every version.
MatchingSlots(r) == Slots

\* Mutant: SET without ex=, so the entry never expires.
NeverExpires(s) == store[s]

\* Redis drops a key once its time to live has passed.
AfterOneSecond(s) == IF store[s].left <= 1 THEN Absent(s) ELSE [store[s] EXCEPT !.left = @ - 1]

-----------------------------------------------------------------------------
Idle(q) == [pc |-> "idle", ver |-> 0, by |-> VersionOf[q[1]], age |-> 0]

Init ==
  /\ db = 0
  /\ stale = [v \in 0..MaxWrites |-> 0]
  /\ store = [s \in Slots |-> Absent(s)]
  /\ req = [q \in Requests |-> Idle(q)]
  /\ wpc = [w \in Writers |-> "idle"]
  /\ ipc = [r \in Replicas |-> "subscribing"]
  /\ link = [r \in Replicas |-> FALSE]
  /\ inbox = [r \in Replicas |-> 0]
  /\ todo = [r \in Replicas |-> {}]
  /\ batch = [r \in Replicas |-> {}]
  /\ failed = [r \in Replicas |-> FALSE]

-----------------------------------------------------------------------------
(* A /stats request at replica q[1] for key q[2]: get, else compute and set *)

SlotOf(q) == RedisKey(q[1], q[2])

\* get() returns the stored body; the request answers with it.
Hit(q) ==
  /\ req[q].pc = "idle"
  /\ Present(SlotOf(q))
  /\ req' = [req EXCEPT ![q].by = store[SlotOf(q)].by]
  /\ UNCHANGED <<store, writeVars, invalidationVars>>

\* get() returns None (no entry, or a RedisError, which can meet any call) and
\* the router computes the body from a snapshot of the table.
Miss(q) ==
  /\ req[q].pc = "idle"
  /\ req' = [req EXCEPT ![q] = [pc |-> "fetched", ver |-> db, by |-> VersionOf[q[1]], age |-> 0]]
  /\ UNCHANGED <<store, writeVars, invalidationVars>>

WriteUnderWay == \E w \in Writers : wpc[w] = "published"

\* Mutant: an entry that outlives the configured TTL.
FilledTooLong(q) == [ver |-> req[q].ver, by |-> VersionOf[q[1]], left |-> TTL + 1,
                     raced |-> req[q].ver < db \/ WriteUnderWay]

\* The entry set() writes.  raced is history: the fill overlapped a write.
Filled(q) == [ver |-> req[q].ver, by |-> VersionOf[q[1]], left |-> TTL,
              raced |-> req[q].ver < db \/ WriteUnderWay]

\* Mutant: the body is stored under the key of every version.
SetForAll(q) ==
  /\ req[q].pc = "fetched"
  /\ store' = [s \in Slots |-> IF s[2] = q[2] THEN Filled(q) ELSE store[s]]
  /\ req' = [req EXCEPT ![q] = Idle(q)]
  /\ UNCHANGED <<writeVars, invalidationVars>>

\* set() stores the body with ex=ttl; the request answers with it.
Set(q) ==
  /\ req[q].pc = "fetched"
  /\ store' = [store EXCEPT ![SlotOf(q)] = Filled(q)]
  /\ req' = [req EXCEPT ![q] = Idle(q)]
  /\ UNCHANGED <<writeVars, invalidationVars>>

\* set() meets a RedisError, which is logged; the request answers all the same.
SetFails(q) ==
  /\ req[q].pc = "fetched"
  /\ req' = [req EXCEPT ![q] = Idle(q)]
  /\ UNCHANGED <<store, writeVars, invalidationVars>>

-----------------------------------------------------------------------------
(* Writes.  The commit and the publication of its event are two steps of   *)
(* the library; nothing in the app fixes their order, so both are allowed. *)

NewVersion ==
  /\ db < MaxWrites
  /\ db' = db + 1
  /\ UNCHANGED stale

\* The event reaches every replica with a live session, or no one at all.
Deliver ==
  \/ /\ \A r \in Replicas : inbox[r] < MaxInbox
     /\ inbox' = [r \in Replicas |-> IF link[r] THEN inbox[r] + 1 ELSE inbox[r]]
     /\ UNCHANGED failed
  \/ /\ failed' = link
     /\ UNCHANGED inbox

Commit(w) ==
  /\ wpc[w] = "idle"
  /\ NewVersion
  /\ wpc' = [wpc EXCEPT ![w] = "committed"]
  /\ UNCHANGED <<requestVars, invalidationVars>>

Publish(w) ==
  /\ wpc[w] = "committed"
  /\ wpc' = [wpc EXCEPT ![w] = "idle"]
  /\ Deliver
  /\ UNCHANGED <<requestVars, db, stale, ipc, link, todo, batch>>

PublishFirst(w) ==
  /\ wpc[w] = "idle"
  /\ db < MaxWrites
  /\ wpc' = [wpc EXCEPT ![w] = "published"]
  /\ Deliver
  /\ UNCHANGED <<requestVars, db, stale, ipc, link, todo, batch>>

CommitLast(w) ==
  /\ wpc[w] = "published"
  /\ NewVersion
  /\ wpc' = [wpc EXCEPT ![w] = "idle"]
  /\ UNCHANGED <<requestVars, invalidationVars>>

Rollback(w) ==
  /\ wpc[w] = "published"
  /\ wpc' = [wpc EXCEPT ![w] = "idle"]
  /\ UNCHANGED <<requestVars, db, stale, invalidationVars>>

\* python -m app.maintenance deletes rows and publishes nothing.
PurgeArchived ==
  /\ NewVersion
  /\ failed' = link
  /\ UNCHANGED <<requestVars, wpc, ipc, link, inbox, todo, batch>>

-----------------------------------------------------------------------------
(* run_invalidation(cache, source, resource) of replica r *)

\* cache.invalidate(resource) begins its SCAN.
StartInvalidate(r) ==
  /\ ipc' = [ipc EXCEPT ![r] = "scanning"]
  /\ todo' = [todo EXCEPT ![r] = MatchingSlots(r)]
  /\ batch' = [batch EXCEPT ![r] = {}]
  /\ failed' = [failed EXCEPT ![r] = FALSE]

\* A transient subscription: a fresh session, and one invalidation at once.
Subscribe(r) ==
  /\ ipc[r] = "subscribing"
  /\ link' = [link EXCEPT ![r] = TRUE]
  /\ inbox' = [inbox EXCEPT ![r] = 0]
  /\ StartInvalidate(r)
  /\ UNCHANGED <<requestVars, writeVars>>

\* Every event, whatever it says, empties the resource.
HandleEvent(r) ==
  /\ ipc[r] = "listening"
  /\ inbox[r] > 0
  /\ inbox' = [inbox EXCEPT ![r] = @ - 1]
  /\ StartInvalidate(r)
  /\ UNCHANGED <<requestVars, writeVars, link>>

\* SCAN visits a slot, and returns its key if there is one.
Scan(r, s) ==
  /\ ipc[r] = "scanning"
  /\ s \in todo[r]
  /\ Cardinality(batch[r]) < ScanCount
  /\ todo' = [todo EXCEPT ![r] = @ \ {s}]
  /\ batch' = [batch EXCEPT ![r] = IF Present(s) THEN @ \union {s} ELSE @]
  /\ UNCHANGED <<requestVars, writeVars, ipc, link, inbox, failed>>

\* UNLINK of a full batch, or of what is left when the SCAN is over.
Unlink(r) ==
  /\ ipc[r] = "scanning"
  /\ batch[r] # {}
  /\ Cardinality(batch[r]) >= ScanCount \/ todo[r] = {}
  /\ store' = Without(batch[r])
  /\ batch' = [batch EXCEPT ![r] = {}]
  /\ UNCHANGED <<req, writeVars, ipc, link, inbox, todo, failed>>

\* The SCAN is over and nothing is left to remove.
InvalidateDone(r) ==
  /\ ipc[r] = "scanning"
  /\ todo[r] = {} /\ batch[r] = {}
  /\ ipc' = [ipc EXCEPT ![r] = "listening"]
  /\ UNCHANGED <<requestVars, writeVars, link, inbox, todo, batch, failed>>

\* A RedisError in SCAN or UNLINK (which may have been carried out) is logged;
\* invalidate() returns as if it had succeeded.
InvalidateFails(r) ==
  /\ ipc[r] = "scanning"
  /\ todo[r] \union batch[r] # {}
  /\ store' \in {store, Without(batch[r])}
  /\ ipc' = [ipc EXCEPT ![r] = "listening"]
  /\ todo' = [todo EXCEPT ![r] = {}]
  /\ batch' = [batch EXCEPT ![r] = {}]
  /\ failed' = [failed EXCEPT ![r] = link[r]]
  /\ UNCHANGED <<req, writeVars, link, inbox>>

\* The broker loses the session, and the replica has not noticed yet.
LinkDrop(r) ==
  /\ link[r]
  /\ link' = [link EXCEPT ![r] = FALSE]
  /\ failed' = [failed EXCEPT ![r] = FALSE]
  /\ UNCHANGED <<requestVars, writeVars, ipc, inbox, todo, batch>>

\* The iterator is closed: the session ends with what it had queued.
Unsubscribe(r, place) ==
  /\ ipc' = [ipc EXCEPT ![r] = place]
  /\ link' = [link EXCEPT ![r] = FALSE]
  /\ inbox' = [inbox EXCEPT ![r] = 0]
  /\ todo' = [todo EXCEPT ![r] = {}]
  /\ batch' = [batch EXCEPT ![r] = {}]
  /\ failed' = [failed EXCEPT ![r] = FALSE]

\* subscribe(), the stream or invalidate() raises, or the stream ends.
StreamFails(r) ==
  /\ ipc[r] # "sleeping"
  /\ Unsubscribe(r, "sleeping")
  /\ UNCHANGED <<requestVars, writeVars>>

\* asyncio.sleep(retry_seconds) is over.
Retry(r) ==
  /\ ipc[r] = "sleeping"
  /\ ipc' = [ipc EXCEPT ![r] = "subscribing"]
  /\ UNCHANGED <<requestVars, writeVars, link, inbox, todo, batch, failed>>

\* The replica dies, with its requests, and a new process takes its place.
Restart(r) ==
  /\ Unsubscribe(r, "subscribing")
  /\ req' = [q \in Requests |-> IF q[1] = r THEN Idle(q) ELSE req[q]]
  /\ UNCHANGED <<store, writeVars>>

-----------------------------------------------------------------------------
\* One second passes.  No fill takes longer than MaxFill.
Tick ==
  /\ \A q \in Requests : req[q].pc = "fetched" => req[q].age < MaxFill
  /\ store' = [s \in Slots |-> AfterOneSecond(s)]
  /\ stale' = [v \in 0..MaxWrites |->
                 IF v < db /\ stale[v] < AgeCap THEN stale[v] + 1 ELSE stale[v]]
  /\ req' = [q \in Requests |->
               IF req[q].pc = "fetched" THEN [req[q] EXCEPT !.age = @ + 1] ELSE req[q]]
  /\ UNCHANGED <<db, wpc, invalidationVars>>

Serve(q) == Hit(q) \/ Miss(q) \/ Set(q) \/ SetFails(q)

Write(w) == Commit(w) \/ Publish(w) \/ PublishFirst(w) \/ CommitLast(w) \/ Rollback(w)

Invalidate(r) ==
  \/ Subscribe(r) \/ HandleEvent(r) \/ Unlink(r) \/ InvalidateDone(r)
  \/ InvalidateFails(r) \/ LinkDrop(r) \/ StreamFails(r) \/ Retry(r) \/ Restart(r)
  \/ \E s \in Slots : Scan(r, s)

Next ==
  \/ \E q \in Requests : Serve(q)
  \/ \E w \in Writers : Write(w)
  \/ PurgeArchived
  \/ \E r \in Replicas : Invalidate(r)
  \/ Tick

Spec == Init /\ [][Next]_vars

-----------------------------------------------------------------------------
(* Properties *)

\* No entry, whatever failed, is served for longer than the TTL plus one fill
\* after the write that made it stale: the time to live runs from set(), and
\* only set() starts it.
StalenessBound ==
  \A s \in Slots : Present(s) => stale[store[s].ver] < TTL + MaxFill

\* What cache.py, the README and ADR-0023 say the bound is: the TTL alone.
TTLBoundsStaleness ==
  \A s \in Slots : Present(s) => stale[store[s].ver] <= TTL

\* Replica r is going to remove whatever slot s holds now.
Pending(r, s) ==
  \/ ~link[r]
  \/ inbox[r] > 0
  \/ s \in todo[r] \union batch[r]

\* Event-driven invalidation, for each replica on its own and for the entries
\* of every app version: an entry that a write made stale (or is about to),
\* and whose fill did not race that write, is due to be removed by replica r,
\* unless the event is still to be published or r's last chance failed.  A
\* resubscription and a later event both make good for a failure.
StaleIsPending ==
  \A s \in Slots, r \in Replicas :
    /\ Present(s) /\ ~store[s].raced
    /\ store[s].ver < db \/ WriteUnderWay
    => Pending(r, s) \/ failed[r] \/ \E w \in Writers : wpc[w] = "committed"

\* A response never has the shape of another app version's, in a canary
\* release where both versions share one Redis.
OwnShape ==
  \A q \in Requests : req[q].by = VersionOf[q[1]]

\* The bodies that a get() would return.
Held == {<<s, store[s].ver>> : s \in {x \in Slots : Present(x)}}

Contract == INSTANCE BoundedCache WITH
  LastWrite <- MaxWrites, Grace <- MaxFill, Limit <- TTL + MaxFill, age <- stale, held <- Held

\* Redis, the fills, the invalidations, the clock and all their failures
\* implement a cache of bounded staleness: no step ever brings a body back,
\* changes one in place, or stores one that was read too long ago.
KeepsContract == Contract!Spec
=============================================================================
