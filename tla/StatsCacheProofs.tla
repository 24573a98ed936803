-------------------------- MODULE StatsCacheProofs --------------------------
(***************************************************************************)
(* For every number of replicas, app versions, keys, requests and writers, *)
(* and every TTL: the type invariant, the staleness bound, the isolation   *)
(* of app versions, and that event-driven invalidation misses no entry     *)
(* that did not race a write.                                              *)
(***************************************************************************)
EXTENDS StatsCache, TLAPS

\* An entry's namespace is the version that built it.
KeyedByShape == \A s \in Slots : store[s].by = s[1]

\* A version that is still current has not begun to age.
CurrentIsNew == \A v \in 0..MaxWrites : v >= db => stale[v] = 0

\* A fill's body is not staler than the fill is old.
FillAge == \A q \in Requests : req[q].pc = "fetched" => stale[req[q].ver] <= req[q].age

\* The seconds an entry has been stale and the seconds it has left.
AgeBudget == \A s \in Slots : Present(s) => stale[store[s].ver] + store[s].left <= TTL + MaxFill

\* The inductive invariant.
Inv ==
  /\ TypeOK
  /\ KeyedByShape /\ OwnShape
  /\ CurrentIsNew /\ FillAge /\ AgeBudget
  /\ StaleIsPending

-----------------------------------------------------------------------------
\* The facts about the constants that the proofs of the actions use.
LEMMA Basics ==
  /\ TTL \in Nat /\ TTL > 0 /\ MaxFill \in Nat /\ MaxWrites \in Nat
  /\ MaxInbox \in Nat /\ MaxInbox > 0
  /\ AgeCap \in Nat
  /\ \A r \in Replicas : VersionOf[r] \in Versions
  /\ \A q \in Requests : /\ q[1] \in Replicas /\ q[2] \in Keys
                         /\ SlotOf(q) \in Slots /\ SlotOf(q)[1] = VersionOf[q[1]]
                         /\ Idle(q) \in Request
  /\ \A s \in Slots : Absent(s) \in Entry
  BY TimeAssumption DEF Versions, AgeCap, Requests, SlotOf, RedisKey, Slots, Idle, Request,
     Absent, Entry

\* An empty cache, no request and no write satisfies the invariant.
LEMMA InitInv == Init => Inv
  <1> SUFFICES ASSUME Init PROVE Inv
    OBVIOUS
  <1> USE Basics DEF Init
  <1>1. TypeOK
    BY DEF TypeOK
  <1>2. KeyedByShape /\ AgeBudget /\ StaleIsPending
    BY DEF KeyedByShape, AgeBudget, StaleIsPending, Present, Absent
  <1>3. OwnShape /\ FillAge
    BY DEF OwnShape, FillAge, Idle
  <1>4. CurrentIsNew
    BY DEF CurrentIsNew
  <1> QED
    BY <1>1, <1>2, <1>3, <1>4 DEF Inv

-----------------------------------------------------------------------------
\* The steps of a request keep the invariant.
LEMMA ServeInv ==
  ASSUME Inv, NEW q \in Requests, Serve(q)
  PROVE  Inv'
  <1> USE Basics
  <1>0. TypeOK /\ KeyedByShape /\ OwnShape /\ CurrentIsNew /\ FillAge /\ AgeBudget /\ StaleIsPending
    BY DEF Inv
  <1>1. CASE Hit(q)
    <2> USE <1>0, <1>1 DEF Hit, writeVars, invalidationVars
    <2>1. req' = [req EXCEPT ![q].by = VersionOf[q[1]]]
      BY DEF KeyedByShape
    <2>2. TypeOK'
      <3>1. [req[q] EXCEPT !.by = VersionOf[q[1]]] \in Request
        BY DEF TypeOK, Request
      <3>2. req' = [req EXCEPT ![q] = [req[q] EXCEPT !.by = VersionOf[q[1]]]]
        BY <2>1 DEF TypeOK
      <3> QED
        BY <3>1, <3>2 DEF TypeOK
    <2>3. OwnShape' /\ FillAge'
      BY <2>1 DEF TypeOK, Request, OwnShape, FillAge
    <2>4. KeyedByShape' /\ CurrentIsNew' /\ AgeBudget'
      BY DEF KeyedByShape, CurrentIsNew, AgeBudget, Present
    <2>5. StaleIsPending'
      BY DEF StaleIsPending, Present, Pending, WriteUnderWay
    <2> QED
      BY <2>2, <2>3, <2>4, <2>5 DEF Inv
  <1>2. CASE Miss(q)
    <2> USE <1>0, <1>2 DEF Miss, writeVars, invalidationVars
    <2> DEFINE filling == [pc |-> "fetched", ver |-> db, by |-> VersionOf[q[1]], age |-> 0]
    <2>1. /\ filling \in Request /\ req' = [req EXCEPT ![q] = filling]
          /\ filling.ver = db /\ filling.age \in Nat /\ filling.by = VersionOf[q[1]]
      BY DEF TypeOK, Request
    <2> HIDE DEF filling
    <2>2. TypeOK'
      BY <2>1 DEF TypeOK
    <2>3. OwnShape'
      BY <2>1 DEF TypeOK, OwnShape
    <2>4. FillAge'
      <3>1. stale[db] <= filling.age
        BY <2>1 DEF TypeOK, CurrentIsNew
      <3> QED
        BY <2>1, <3>1 DEF TypeOK, FillAge
    <2>5. KeyedByShape' /\ CurrentIsNew' /\ AgeBudget'
      BY DEF KeyedByShape, CurrentIsNew, AgeBudget, Present
    <2>6. StaleIsPending'
      BY DEF StaleIsPending, Present, Pending, WriteUnderWay
    <2> QED
      BY <2>2, <2>3, <2>4, <2>5, <2>6 DEF Inv
  <1>3. CASE Set(q)
    <2> USE <1>0, <1>3 DEF Set, writeVars, invalidationVars
    <2>1. Filled(q) \in Entry
      <3>1. req[q].ver \in 0..MaxWrites /\ VersionOf[q[1]] \in Versions /\ TTL \in 0..TTL
        BY DEF TypeOK, Request
      <3>2. (req[q].ver < db \/ WriteUnderWay) \in BOOLEAN
        BY DEF WriteUnderWay
      <3> HIDE DEF Set, WriteUnderWay
      <3> QED
        BY <3>1, <3>2 DEF Filled, Entry
    <2>2. TypeOK'
      BY <2>1 DEF TypeOK
    <2>3. OwnShape' /\ FillAge'
      BY DEF TypeOK, OwnShape, FillAge, Idle
    <2>4. KeyedByShape'
      BY DEF TypeOK, KeyedByShape, Filled
    <2>5. CurrentIsNew'
      BY DEF CurrentIsNew
    <2>6. AgeBudget'
      <3>1. /\ Filled(q).ver = req[q].ver /\ Filled(q).left = TTL
            /\ req[q].ver \in 0..MaxWrites /\ req[q].age \in 0..MaxFill
        BY DEF Filled, TypeOK, Request
      <3>2. stale[Filled(q).ver] + Filled(q).left <= TTL + MaxFill
        BY <3>1 DEF TypeOK, FillAge
      <3> QED
        BY <2>1, <3>2 DEF TypeOK, AgeBudget, Present
    <2>7. StaleIsPending'
      BY DEF TypeOK, StaleIsPending, Present, Pending, WriteUnderWay, Filled, Entry
    <2> QED
      BY <2>2, <2>3, <2>4, <2>5, <2>6, <2>7 DEF Inv
  <1>4. CASE SetFails(q)
    <2> USE <1>0, <1>4 DEF SetFails, writeVars, invalidationVars
    <2>1. TypeOK'
      BY DEF TypeOK
    <2>2. OwnShape' /\ FillAge'
      BY DEF TypeOK, OwnShape, FillAge, Idle
    <2>3. KeyedByShape' /\ CurrentIsNew' /\ AgeBudget'
      BY DEF KeyedByShape, CurrentIsNew, AgeBudget, Present
    <2>4. StaleIsPending'
      BY DEF StaleIsPending, Present, Pending, WriteUnderWay
    <2> QED
      BY <2>1, <2>2, <2>3, <2>4 DEF Inv
  <1> QED
    BY <1>1, <1>2, <1>3, <1>4 DEF Serve

-----------------------------------------------------------------------------
\* A write that leaves Redis and the requests alone keeps what is said of ages
\* and shapes, as long as the database version only grows.
LEMMA WriteAges ==
  ASSUME Inv, UNCHANGED <<store, req, stale>>, db' \in 0..MaxWrites, db' >= db
  PROVE  KeyedByShape' /\ OwnShape' /\ CurrentIsNew' /\ FillAge' /\ AgeBudget'
  <1> USE Basics DEF Inv, TypeOK
  <1>1. KeyedByShape' /\ OwnShape'
    BY DEF KeyedByShape, OwnShape
  <1>2. CurrentIsNew'
    BY DEF CurrentIsNew
  <1>3. FillAge' /\ AgeBudget'
    BY DEF FillAge, AgeBudget, Present
  <1> QED
    BY <1>1, <1>2, <1>3

\* The steps of a write keep the invariant, in either order of commit and event.
LEMMA WriteInv ==
  ASSUME Inv, NEW w \in Writers, Write(w)
  PROVE  Inv'
  <1> USE Basics
  <1>0. TypeOK /\ StaleIsPending
    BY DEF Inv
  <1>1. CASE Commit(w)
    <2> USE <1>0, <1>1 DEF Commit, NewVersion, requestVars, invalidationVars
    <2>1. TypeOK'
      BY DEF TypeOK
    <2>2. wpc'[w] = "committed"
      BY DEF TypeOK
    <2>3. StaleIsPending'
      BY <2>2 DEF StaleIsPending
    <2> QED
      BY <2>1, <2>3, WriteAges DEF Inv, TypeOK
  <1>2. ASSUME Deliver, UNCHANGED <<requestVars, db, stale, ipc, link, todo, batch>>
        PROVE  /\ inbox' \in [Replicas -> 0..MaxInbox] /\ failed' \in [Replicas -> BOOLEAN]
               /\ \A r \in Replicas, s \in Slots : (Pending(r, s) \/ failed[r])'
    <2>1. CASE inbox' = [r \in Replicas |-> IF link[r] THEN inbox[r] + 1 ELSE inbox[r]]
               /\ (\A r \in Replicas : inbox[r] < MaxInbox) /\ UNCHANGED failed
      <3>1. \A r \in Replicas : inbox'[r] \in 0..MaxInbox /\ (link[r] => inbox'[r] > 0)
        BY <1>0, <2>1 DEF TypeOK
      <3> QED
        BY <1>0, <1>2, <2>1, <3>1 DEF TypeOK, Pending
    <2>2. CASE failed' = link /\ UNCHANGED inbox
      BY <1>0, <1>2, <2>2 DEF TypeOK, Pending
    <2> QED
      BY <1>2, <2>1, <2>2 DEF Deliver
  <1>3. CASE Publish(w) \/ PublishFirst(w)
    <2> USE <1>0, <1>3 DEF Publish, PublishFirst, requestVars
    <2>0. Deliver /\ UNCHANGED <<requestVars, db, stale, ipc, link, todo, batch>>
      OBVIOUS
    <2>1. TypeOK'
      BY <1>2, <2>0 DEF TypeOK
    <2>2. StaleIsPending'
      BY <1>2, <2>0 DEF StaleIsPending
    <2> QED
      BY <2>1, <2>2, WriteAges DEF Inv, TypeOK
  <1>4. CASE CommitLast(w)
    <2> USE <1>0, <1>4 DEF CommitLast, NewVersion, requestVars, invalidationVars
    <2>1. TypeOK'
      BY DEF TypeOK
    <2>2. WriteUnderWay
      BY DEF WriteUnderWay
    <2>3. \A x \in Writers : wpc[x] = "committed" => wpc'[x] = "committed"
      BY DEF TypeOK
    <2>4. StaleIsPending'
      BY <2>2, <2>3 DEF StaleIsPending, Present, Pending
    <2> QED
      BY <2>1, <2>4, WriteAges DEF Inv, TypeOK
  <1>5. CASE Rollback(w)
    <2> USE <1>0, <1>5 DEF Rollback, requestVars, invalidationVars
    <2>1. TypeOK'
      BY DEF TypeOK
    <2>2. /\ \A x \in Writers : wpc[x] = "committed" => wpc'[x] = "committed"
          /\ WriteUnderWay' => WriteUnderWay
      BY DEF TypeOK, WriteUnderWay
    <2>3. StaleIsPending'
      BY <2>2 DEF StaleIsPending, Present, Pending
    <2> QED
      BY <2>1, <2>3, WriteAges DEF Inv, TypeOK
  <1> QED
    BY <1>1, <1>3, <1>4, <1>5 DEF Write

\* So does the maintenance job, which publishes nothing.
LEMMA PurgeInv == Inv /\ PurgeArchived => Inv'
  <1> SUFFICES ASSUME Inv, PurgeArchived PROVE Inv'
    OBVIOUS
  <1> USE Basics DEF PurgeArchived, NewVersion, requestVars
  <1>1. TypeOK'
    BY DEF Inv, TypeOK
  <1>2. StaleIsPending'
    BY DEF Inv, TypeOK, StaleIsPending, Pending
  <1> QED
    BY <1>1, <1>2, WriteAges DEF Inv, TypeOK

-----------------------------------------------------------------------------
\* Removing entries keeps what is said of ages and shapes.
LEMMA DropAges ==
  ASSUME Inv, NEW S \in SUBSET Slots, store' \in {store, Without(S)},
         UNCHANGED <<req, db, stale, wpc>>
  PROVE  /\ store' \in [Slots -> Entry]
         /\ KeyedByShape' /\ OwnShape' /\ CurrentIsNew' /\ FillAge' /\ AgeBudget'
         /\ \A s \in Slots : Present(s)' => store'[s] = store[s] /\ Present(s)
  <1>1. store' \in [Slots -> Entry]
    BY Basics DEF Inv, TypeOK, Without
  <1>2. \A s \in Slots : store'[s] = store[s] \/ store'[s] = Absent(s)
    BY DEF Without
  <1>a. \A s \in Slots : Absent(s).left = 0 /\ Absent(s).by = s[1]
    BY DEF Absent
  <1>3. \A s \in Slots : Present(s)' => store'[s] = store[s] /\ Present(s)
    BY <1>2, <1>a DEF Present
  <1>4. KeyedByShape'
    BY <1>2, <1>a DEF Inv, KeyedByShape
  <1>5. OwnShape' /\ CurrentIsNew' /\ FillAge'
    BY DEF Inv, OwnShape, CurrentIsNew, FillAge
  <1>6. AgeBudget'
    BY <1>3 DEF Inv, AgeBudget
  <1> QED
    BY <1>1, <1>3, <1>4, <1>5, <1>6

\* The steps of run_invalidation, the broker and a restart keep the invariant.
LEMMA InvalidateInv ==
  ASSUME Inv, NEW r \in Replicas, Invalidate(r)
  PROVE  Inv'
  <1> USE Basics
  <1>0. TypeOK /\ StaleIsPending
    BY DEF Inv
  <1>1. CASE Subscribe(r) \/ HandleEvent(r)
    <2> USE <1>0, <1>1 DEF Subscribe, HandleEvent, StartInvalidate, MatchingSlots, requestVars, writeVars
    <2>1. TypeOK'
      <3>1. CASE Subscribe(r)
        BY <3>1 DEF TypeOK
      <3>2. CASE HandleEvent(r)
        <4>1. inbox' \in [Replicas -> 0..MaxInbox]
          BY <3>2 DEF TypeOK
        <4> QED
          BY <3>2, <4>1 DEF TypeOK
      <3> QED
        BY <3>1, <3>2
    <2>2. StaleIsPending'
      <3> SUFFICES ASSUME NEW s \in Slots, NEW x \in Replicas,
                          (Present(s) /\ ~store[s].raced /\ (store[s].ver < db \/ WriteUnderWay))'
                   PROVE  (Pending(x, s) \/ failed[x] \/ \E w \in Writers : wpc[w] = "committed")'
        BY DEF StaleIsPending
      <3>1. CASE x = r
        BY <3>1 DEF TypeOK, Pending
      <3>2. CASE x # r
        BY <3>2 DEF TypeOK, Pending, StaleIsPending, Present, WriteUnderWay
      <3> QED
        BY <3>1, <3>2
    <2> QED
      BY <2>1, <2>2, DropAges DEF Inv
  <1>2. CASE \E s \in Slots : Scan(r, s)
    <2> PICK t \in Slots : Scan(r, t)
      BY <1>2
    <2> USE <1>0 DEF Scan, requestVars, writeVars
    <2>1. TypeOK'
      BY DEF TypeOK
    <2>2. StaleIsPending'
      BY DEF TypeOK, Pending, StaleIsPending, Present, WriteUnderWay
    <2> QED
      BY <2>1, <2>2, DropAges DEF Inv
  <1>3. CASE Unlink(r)
    <2> USE <1>0, <1>3 DEF Unlink, writeVars
    <2>0. batch[r] \in SUBSET Slots
      BY DEF TypeOK
    <2>1. /\ store' \in [Slots -> Entry]
          /\ KeyedByShape' /\ OwnShape' /\ CurrentIsNew' /\ FillAge' /\ AgeBudget'
          /\ \A s \in Slots : Present(s)' => store'[s] = store[s] /\ Present(s)
      BY <2>0, DropAges
    <2>2. TypeOK'
      BY <2>1 DEF TypeOK
    <2>3. \A s \in batch[r] : ~Present(s)'
      BY <2>0 DEF Present, Without, Absent
    <2>4. StaleIsPending'
      BY <2>1, <2>3 DEF TypeOK, Pending, StaleIsPending, WriteUnderWay
    <2> QED
      BY <2>1, <2>2, <2>4 DEF Inv
  <1>4. CASE InvalidateFails(r)
    <2> USE <1>0, <1>4 DEF InvalidateFails, writeVars
    <2>0. batch[r] \in SUBSET Slots
      BY DEF TypeOK
    <2>1. /\ store' \in [Slots -> Entry]
          /\ KeyedByShape' /\ OwnShape' /\ CurrentIsNew' /\ FillAge' /\ AgeBudget'
          /\ \A s \in Slots : Present(s)' => store'[s] = store[s] /\ Present(s)
      BY <2>0, DropAges
    <2>2. TypeOK'
      BY <2>1 DEF TypeOK
    <2>3. StaleIsPending'
      BY <2>1 DEF TypeOK, Pending, StaleIsPending, WriteUnderWay
    <2> QED
      BY <2>1, <2>2, <2>3 DEF Inv
  <1>5. CASE InvalidateDone(r) \/ Retry(r)
    <2> USE <1>0, <1>5 DEF InvalidateDone, Retry, requestVars, writeVars
    <2>1. TypeOK'
      BY DEF TypeOK
    <2>2. \A x \in Replicas, s \in Slots : Pending(x, s) => Pending(x, s)'
      BY DEF Pending
    <2>3. UNCHANGED <<store, db, wpc, failed>>
      OBVIOUS
    <2>4. StaleIsPending'
      BY <2>2, <2>3 DEF StaleIsPending, Present, WriteUnderWay
    <2> QED
      BY <2>1, <2>4, DropAges DEF Inv
  <1>6. CASE LinkDrop(r)
    <2> USE <1>0, <1>6 DEF LinkDrop, requestVars, writeVars
    <2>1. TypeOK'
      BY DEF TypeOK
    <2>2. StaleIsPending'
      BY DEF TypeOK, Pending, StaleIsPending, Present, WriteUnderWay
    <2> QED
      BY <2>1, <2>2, DropAges DEF Inv
  <1>7. CASE StreamFails(r)
    <2> USE <1>0, <1>7 DEF StreamFails, Unsubscribe, requestVars, writeVars
    <2>1. TypeOK'
      BY DEF TypeOK
    <2>2. StaleIsPending'
      BY DEF TypeOK, Pending, StaleIsPending, Present, WriteUnderWay
    <2> QED
      BY <2>1, <2>2, DropAges DEF Inv
  <1>8. CASE Restart(r)
    <2> USE <1>0, <1>8 DEF Restart, Unsubscribe, writeVars
    <2>1. TypeOK'
      BY DEF TypeOK
    <2>2. StaleIsPending'
      BY DEF TypeOK, Pending, StaleIsPending, Present, WriteUnderWay
    <2>3. OwnShape' /\ FillAge'
      BY DEF Inv, OwnShape, FillAge, Idle
    <2>4. KeyedByShape' /\ CurrentIsNew' /\ AgeBudget'
      BY DEF Inv, KeyedByShape, CurrentIsNew, AgeBudget, Present
    <2> QED
      BY <2>1, <2>2, <2>3, <2>4 DEF Inv
  <1> QED
    BY <1>1, <1>2, <1>3, <1>4, <1>5, <1>6, <1>7, <1>8 DEF Invalidate

-----------------------------------------------------------------------------
\* A second that passes takes from what an entry has left what it adds to its age.
LEMMA TickInv == Inv /\ Tick => Inv'
  <1> SUFFICES ASSUME Inv, Tick PROVE Inv'
    OBVIOUS
  <1> USE Basics DEF Tick, invalidationVars
  <1>0. TypeOK /\ KeyedByShape /\ OwnShape /\ CurrentIsNew /\ FillAge /\ AgeBudget /\ StaleIsPending
    BY DEF Inv
  <1>1. \A s \in Slots :
          /\ store'[s] \in Entry /\ store'[s].by = s[1]
          /\ Present(s)' => /\ Present(s) /\ store'[s].left + 1 = store[s].left
                            /\ store'[s].ver = store[s].ver /\ store'[s].raced = store[s].raced
    <2> TAKE s \in Slots
    <2>1. store[s] \in Entry /\ store[s].by = s[1] /\ store'[s] = AfterOneSecond(s)
      BY <1>0 DEF TypeOK, KeyedByShape
    <2>2. CASE store[s].left <= 1
      BY <2>1, <2>2 DEF AfterOneSecond, Absent, Present
    <2>3. CASE ~(store[s].left <= 1)
      <3>1. store'[s] = [ver |-> store[s].ver, by |-> store[s].by,
                         left |-> store[s].left - 1, raced |-> store[s].raced]
        BY <2>1, <2>3 DEF AfterOneSecond, Entry
      <3>2. store[s].left \in 0..TTL /\ store[s].left - 1 \in 0..TTL
        BY <2>1, <2>3 DEF Entry
      <3> QED
        BY <2>1, <2>3, <3>1, <3>2 DEF Entry, Present
    <2> QED
      BY <2>2, <2>3
  <1>2. \A v \in 0..MaxWrites :
          /\ stale'[v] \in 0..AgeCap /\ stale'[v] <= stale[v] + 1
          /\ v >= db => stale'[v] = stale[v]
    BY <1>0 DEF TypeOK, AgeCap
  <1>3. \A q \in Requests :
          /\ req'[q] \in Request /\ req'[q].by = req[q].by
          /\ req'[q].pc = "fetched" =>
               req[q].pc = "fetched" /\ req'[q].ver = req[q].ver /\ req'[q].age = req[q].age + 1
    <2> TAKE q \in Requests
    <2>1. req[q] \in Request
      BY <1>0 DEF TypeOK
    <2>2. CASE req[q].pc = "fetched"
      <3>1. req'[q] = [pc |-> req[q].pc, ver |-> req[q].ver, by |-> req[q].by,
                       age |-> req[q].age + 1]
        BY <2>1, <2>2 DEF Request
      <3> QED
        BY <2>1, <2>2, <3>1 DEF Request
    <2>3. CASE req[q].pc # "fetched"
      BY <2>1, <2>3
    <2> QED
      BY <2>2, <2>3
  <1>4. TypeOK'
    BY <1>0, <1>1, <1>2, <1>3 DEF TypeOK
  <1>5. KeyedByShape' /\ OwnShape'
    BY <1>0, <1>1, <1>3 DEF KeyedByShape, OwnShape
  <1>6. CurrentIsNew'
    BY <1>0, <1>2 DEF CurrentIsNew
  <1>7. FillAge'
    <2> SUFFICES ASSUME NEW q \in Requests, req'[q].pc = "fetched"
                 PROVE  stale'[req'[q].ver] <= req'[q].age
      BY DEF FillAge
    <2>1. /\ req[q].pc = "fetched" /\ req'[q].ver = req[q].ver /\ req'[q].age = req[q].age + 1
          /\ req[q] \in Request /\ stale \in [0..MaxWrites -> 0..AgeCap]
      BY <1>0, <1>3 DEF TypeOK
    <2>2. req[q].ver \in 0..MaxWrites /\ req[q].age \in Nat /\ stale[req[q].ver] \in Nat
      BY <2>1 DEF Request
    <2>3. stale[req[q].ver] <= req[q].age
      BY <1>0, <2>1 DEF FillAge
    <2>4. stale'[req[q].ver] \in Nat /\ stale'[req[q].ver] <= stale[req[q].ver] + 1
      BY <1>2, <2>2
    <2> HIDE DEF Tick
    <2> QED
      BY <2>1, <2>2, <2>3, <2>4
  <1>8. AgeBudget'
    <2> SUFFICES ASSUME NEW s \in Slots, Present(s)'
                 PROVE  stale'[store'[s].ver] + store'[s].left <= TTL + MaxFill
      BY DEF AgeBudget
    <2>1. /\ stale[store[s].ver] + store[s].left <= TTL + MaxFill
          /\ store'[s].left + 1 = store[s].left /\ store'[s].ver = store[s].ver
      BY <1>0, <1>1 DEF AgeBudget
    <2>2. /\ store[s].ver \in 0..MaxWrites /\ store[s].left \in Nat /\ store'[s].left \in Nat
      BY <1>0, <1>1 DEF TypeOK, Entry
    <2>3. stale[store[s].ver] \in Nat /\ stale'[store[s].ver] \in Nat
      BY <1>0, <1>2, <2>2 DEF TypeOK
    <2>4. stale'[store[s].ver] <= stale[store[s].ver] + 1
      BY <1>2, <2>2
    <2> HIDE DEF Tick
    <2> QED
      BY <2>1, <2>2, <2>3, <2>4
  <1>9. StaleIsPending'
    BY <1>0, <1>1 DEF StaleIsPending, Pending, WriteUnderWay
  <1> QED
    BY <1>4, <1>5, <1>6, <1>7, <1>8, <1>9 DEF Inv

-----------------------------------------------------------------------------
\* The invariant holds in every reachable state, of every instance.
THEOREM Invariance == Spec => []Inv
  <1>1. Inv /\ [Next]_vars => Inv'
    <2> SUFFICES ASSUME Inv, [Next]_vars PROVE Inv'
      OBVIOUS
    <2>1. CASE Next
      BY <2>1, ServeInv, WriteInv, PurgeInv, InvalidateInv, TickInv DEF Next
    <2>2. CASE UNCHANGED vars
      BY <2>2 DEF vars, requestVars, writeVars, invalidationVars, Inv, TypeOK, KeyedByShape, OwnShape,
         CurrentIsNew, FillAge, AgeBudget, StaleIsPending, Present, Pending, WriteUnderWay
    <2> QED
      BY <2>1, <2>2
  <1> QED
    BY InitInv, <1>1, PTL DEF Spec

\* Every variable keeps its type (app/cache.py, all operations).
THEOREM TypeCorrect == Spec => []TypeOK
  BY Invariance, PTL DEF Inv

\* RedisStatsCache and run_invalidation: no stale entry is forgotten, for any
\* number of replicas, versions, writers and requests.
THEOREM NoForgottenEntry == Spec => []StaleIsPending
  BY Invariance, PTL DEF Inv

\* RedisStatsCache._redis_key keeps the shapes of app versions apart.
THEOREM VersionIsolation == Spec => []OwnShape
  BY Invariance, PTL DEF Inv

\* RedisStatsCache.set: a body is stale for less than the TTL and one fill.
THEOREM BoundedStaleness == Spec => []StalenessBound
  <1>1. Inv => StalenessBound
    BY Basics DEF Inv, AgeBudget, StalenessBound, TypeOK, Entry, Present
  <1> QED
    BY Invariance, <1>1, PTL

-----------------------------------------------------------------------------
\* A step that only removes entries, or keeps them, forgets bodies at most.
LEMMA HeldShrinks ==
  ASSUME \A s \in Slots : Present(s)' => Present(s) /\ store'[s].ver = store[s].ver
  PROVE  Held' \in SUBSET Held
  BY DEF Held

\* DropAges, for the steps of run_invalidation that touch the store.
LEMMA RemovalShrinks ==
  ASSUME TypeOK, NEW S \in SUBSET Slots, store' \in {store, Without(S)}
  PROVE  Held' \in SUBSET Held
  <1>1. \A s \in Slots : Present(s)' => Present(s) /\ store'[s].ver = store[s].ver
    BY DEF Present, Without, Absent
  <1> QED
    BY <1>1, HeldShrinks

\* A fill has read a version that was committed.
FillsArePast == \A q \in Requests : req[q].pc = "fetched" => req[q].ver <= db

LEMMA PastFills == TypeOK /\ FillsArePast /\ [Next]_vars => FillsArePast'
  <1> SUFFICES ASSUME TypeOK, FillsArePast, [Next]_vars PROVE FillsArePast'
    OBVIOUS
  <1>0. /\ db \in 0..MaxWrites /\ MaxWrites \in Nat
        /\ req \in [Requests -> Request] /\ \A q \in Requests : req[q].ver \in 0..MaxWrites
    BY Basics DEF TypeOK, Request
  <1>1. ASSUME UNCHANGED req, db' \in {db, db + 1} PROVE FillsArePast'
    BY <1>0, <1>1 DEF FillsArePast
  <1>2. ASSUME UNCHANGED db,
               \A q \in Requests : req'[q].pc = "fetched" =>
                 \/ req'[q].ver = db
                 \/ req[q].pc = "fetched" /\ req'[q].ver = req[q].ver
        PROVE FillsArePast'
    BY <1>0, <1>2 DEF FillsArePast
  <1>3. ASSUME NEW q \in Requests, Serve(q) PROVE FillsArePast'
    <2>1. CASE Hit(q)
      BY <1>0, <1>2, <2>1 DEF Hit, writeVars, Request
    <2>2. CASE Miss(q)
      BY <1>0, <1>2, <2>2 DEF Miss, writeVars
    <2>3. CASE Set(q) \/ SetFails(q)
      BY <1>0, <1>2, <2>3 DEF Set, SetFails, Idle, writeVars
    <2> QED
      BY <1>3, <2>1, <2>2, <2>3 DEF Serve
  <1>4. ASSUME NEW w \in Writers, Write(w) PROVE FillsArePast'
    BY <1>1, <1>4 DEF Write, Commit, Publish, PublishFirst, CommitLast, Rollback, NewVersion,
       requestVars
  <1>5. CASE PurgeArchived
    BY <1>1, <1>5 DEF PurgeArchived, NewVersion, requestVars
  <1>6. ASSUME NEW r \in Replicas, Invalidate(r) PROVE FillsArePast'
    <2>1. CASE Restart(r)
      BY <1>0, <1>2, <2>1 DEF Restart, Idle, writeVars
    <2>2. CASE ~Restart(r)
      BY <1>1, <1>6, <2>2 DEF Invalidate, Subscribe, HandleEvent, Scan, Unlink, InvalidateDone,
         InvalidateFails, LinkDrop, StreamFails, Retry, requestVars, writeVars
    <2> QED
      BY <2>1, <2>2
  <1>7. CASE Tick
    <2>1. \A q \in Requests : req'[q].pc = "fetched" =>
            req[q].pc = "fetched" /\ req'[q].ver = req[q].ver
      BY <1>0, <1>7 DEF Tick, Request
    <2> QED
      BY <1>2, <1>7, <2>1 DEF Tick
  <1>8. CASE UNCHANGED vars
    BY <1>1, <1>8 DEF vars, requestVars, writeVars
  <1> QED
    BY <1>3, <1>4, <1>5, <1>6, <1>7, <1>8 DEF Next

\* set() is the contract's fill: its body is no older than the longest fill.
LEMMA SetFills ==
  ASSUME Inv, FillsArePast, NEW q \in Requests, Set(q)
  PROVE  \E s \in Slots, v \in 0..MaxWrites : Contract!Fill(s, v)
  <1> DEFINE s == SlotOf(q)
             v == req[q].ver
             body == Filled(q)
  <1>0. TypeOK /\ CurrentIsNew /\ FillAge
    BY DEF Inv
  <1>1. s \in Slots /\ v \in 0..MaxWrites /\ v <= db /\ stale[v] <= MaxFill
    <2>1. s \in Slots /\ req[q] \in Request /\ stale[v] <= req[q].age
      BY <1>0, Basics DEF Set, TypeOK, FillAge
    <2>2. v \in 0..MaxWrites /\ req[q].age \in 0..MaxFill /\ stale[v] \in 0..AgeCap
      BY <1>0, <2>1 DEF Request, TypeOK
    <2>3. v <= db
      BY DEF FillsArePast, Set
    <2> QED
      BY <2>1, <2>2, <2>3, Basics
  <1>2. store' = [store EXCEPT ![s] = body] /\ UNCHANGED <<db, stale>>
    BY DEF Set, writeVars
  <1>3. body.ver = v /\ body.left > 0
    BY Basics DEF Filled
  <1> HIDE DEF s, v, body
  <1>4. \A x \in Slots : /\ x = s => Present(x)' /\ store'[x].ver = v
                         /\ x # s => store'[x] = store[x] /\ Present(x)' = Present(x)
    BY <1>0, <1>2, <1>3 DEF TypeOK, Present
  <1>5. Held' = {h \in Held : h[1] # s} \union {<<s, v>>}
    BY <1>1, <1>4 DEF Held
  <1> QED
    BY <1>1, <1>2, <1>5 DEF Contract!Fill

\* The cache implements the contract: every step is one of the contract's
\* steps, or leaves what the contract sees as it is.
THEOREM ImplementsContract == Spec => KeepsContract
  <1> USE Basics
  <1>1. Init => Contract!Init
    BY DEF Init, Contract!Init, Held, Present, Absent
  <1>2. Inv /\ Inv' /\ FillsArePast /\ [Next]_vars => [Contract!Next]_(Contract!vars)
    <2> SUFFICES ASSUME Inv, Inv', FillsArePast, [Next]_vars
                 PROVE  Contract!Next \/ UNCHANGED Contract!vars
      BY DEF Contract!vars
    <2>0. TypeOK /\ TypeOK' /\ AgeBudget'
      BY DEF Inv
    <2>1. UNCHANGED <<db, stale, store>> => UNCHANGED Contract!vars
      BY DEF Contract!vars, Held, Present
    <2>2. UNCHANGED <<db, stale>> /\ Held' \in SUBSET Held => Contract!Forget
      BY DEF Contract!Forget
    <2>3. UNCHANGED <<stale, store>> /\ NewVersion => Contract!Write
      BY DEF NewVersion, Contract!Write, Held, Present
    <2>4. ASSUME NEW q \in Requests, Serve(q) PROVE Contract!Next \/ UNCHANGED Contract!vars
      <3>1. CASE Hit(q) \/ Miss(q) \/ SetFails(q)
        BY <3>1, <2>1 DEF Hit, Miss, SetFails, writeVars
      <3>2. CASE Set(q)
        BY <3>2, SetFills DEF Contract!Next
      <3> QED
        BY <2>4, <3>1, <3>2 DEF Serve
    <2>5. ASSUME NEW w \in Writers, Write(w) PROVE Contract!Next \/ UNCHANGED Contract!vars
      <3>1. CASE Commit(w) \/ CommitLast(w)
        BY <3>1, <2>3 DEF Commit, CommitLast, requestVars, NewVersion, Contract!Next
      <3>2. CASE Publish(w) \/ PublishFirst(w) \/ Rollback(w)
        BY <3>2, <2>1 DEF Publish, PublishFirst, Rollback, requestVars
      <3> QED
        BY <2>5, <3>1, <3>2 DEF Write
    <2>6. CASE PurgeArchived
      BY <2>6, <2>3 DEF PurgeArchived, requestVars, NewVersion, Contract!Next
    <2>7. ASSUME NEW r \in Replicas, Invalidate(r) PROVE Contract!Next \/ UNCHANGED Contract!vars
      <3>1. CASE Unlink(r) \/ InvalidateFails(r)
        <4>1. batch[r] \in SUBSET Slots /\ store' \in {store, Without(batch[r])}
          BY <3>1, <2>0 DEF Unlink, InvalidateFails, TypeOK
        <4>2. Held' \in SUBSET Held
          BY <4>1, <2>0, RemovalShrinks
        <4> QED
          BY <3>1, <4>2, <2>2 DEF Unlink, InvalidateFails, writeVars, Contract!Next
      <3>2. CASE ~(Unlink(r) \/ InvalidateFails(r))
        BY <2>7, <3>2, <2>1 DEF Invalidate, Subscribe, HandleEvent, Scan, InvalidateDone, LinkDrop,
           StreamFails, Retry, Restart, requestVars, writeVars
      <3> QED
        BY <3>1, <3>2
    <2>8. CASE Tick
      <3>1. \A s \in Slots : Present(s)' => Present(s) /\ store'[s].ver = store[s].ver
        BY <2>8, <2>0 DEF Tick, AfterOneSecond, Present, Absent, TypeOK, Entry
      <3>2. Held' \in SUBSET Held
        BY <3>1, HeldShrinks
      <3>3. \A h \in Held' : stale'[h[2]] < TTL + MaxFill
        <4>1. ASSUME NEW s \in Slots, Present(s)' PROVE stale'[store'[s].ver] < TTL + MaxFill
          <5>1. store'[s] \in Entry /\ stale' \in [0..MaxWrites -> 0..AgeCap]
            BY <2>0 DEF TypeOK
          <5>2. store'[s].left \in Nat /\ store'[s].left > 0 /\ stale'[store'[s].ver] \in Nat
            BY <5>1, <4>1 DEF Entry, Present
          <5>3. stale'[store'[s].ver] + store'[s].left <= TTL + MaxFill
            BY <2>0, <4>1 DEF AgeBudget
          <5> HIDE DEF AgeCap
          <5> QED
            BY <5>2, <5>3
        <4> QED
          BY <4>1 DEF Held
      <3>4. /\ stale' = [v \in 0..MaxWrites |->
                           IF v < db /\ stale[v] < AgeCap THEN stale[v] + 1 ELSE stale[v]]
            /\ UNCHANGED db
        BY <2>8 DEF Tick
      <3>5. Contract!Tick
        BY <3>2, <3>3, <3>4 DEF Contract!Tick
      <3> QED
        BY <3>5 DEF Contract!Next
    <2>9. CASE UNCHANGED vars
      BY <2>9, <2>1 DEF vars, requestVars, writeVars
    <2> QED
      BY <2>4, <2>5, <2>6, <2>7, <2>8, <2>9 DEF Next
  <1>3. Init => FillsArePast
    BY DEF Init, Idle, FillsArePast
  <1>4. Inv => TypeOK
    BY DEF Inv
  <1> QED
    BY <1>1, <1>2, <1>3, <1>4, PastFills, Invariance, PTL DEF Spec, KeepsContract, Contract!Spec
=============================================================================
