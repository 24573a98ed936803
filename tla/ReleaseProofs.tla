----------------------------- MODULE ReleaseProofs -----------------------------
(***************************************************************************)
(* For any number of runs, whatever they are asked for and wherever they   *)
(* fail: a version names one commit, packages match their release, and a   *)
(* release without packages has a run that will finish it.  The tag that   *)
(* Version computes plays no part: the argument holds for any tag.         *)
(***************************************************************************)
EXTENDS Release, TLAPS

\* Runs are records; what their tags are does not matter.
Run(T) == [pc : Places, job : Jobs, sha : Nat, ask : [bump : Bumps, channel : Channels],
           tag : T, tries : Nat]
Shape == head \in Nat /\ \E T : run \in [Runs -> Run(T)]

\* The concurrency group: one run of a tag releases at a time.
Exclusive ==
  \A q, r \in Runs :
    run[q].pc \in Releasing /\ run[r].pc \in Releasing /\ run[q].tag = run[r].tag => q = r

\* A tag is only made by a release (or restored for one).
TagsArePublished == tags \subseteq published

\* Releases are pairs of a tag and a commit.
Pairs == \A p \in published : p = Of(p.tag, p.sha)

\* A run that is about to release found no release of its tag, and since nobody
\* else is in its group, what is left of the tag is its own.
AboutToRelease(r) ==
  /\ run[r].pc \in {"finalize", "draft", "publish"} => ~Has(published, run[r].tag)
  /\ run[r].pc \in {"lookup", "finalize", "draft"} => ~Has(drafts, run[r].tag)
  /\ run[r].pc \in {"draft", "publish"} =>
       \A x \in manifests : x.tag = run[r].tag => x.sha = run[r].sha
  /\ run[r].pc = "publish" =>
       \A x \in drafts : x.tag = run[r].tag => x = Of(run[r].tag, run[r].sha)

\* What a re-run starts with says how far the run has come.
InOrder(r) ==
  /\ run[r].pc \in {"version", "build", "check", "packages", "verify"} => run[r].job = run[r].pc
  /\ run[r].pc \in {"enqueue", "waiting"} \union Releasing => run[r].job = "enqueue"
  /\ run[r].pc = "close" \/ run[r].job \in {"packages", "verify"} =>
       Of(run[r].tag, run[r].sha) \in published
  /\ run[r].job = "verify" => Has(packages, run[r].tag)

\* A run that is past its build and not over.
Bound(r, p) ==
  /\ Of(run[r].tag, run[r].sha) = p
  /\ run[r].job \in {"enqueue", "packages", "verify"}
  /\ run[r].pc \notin {"idle", "refused", "done"}

Completes == OptedIn => \A p \in published : Has(packages, p.tag) \/ \E r \in Runs : Bound(r, p)

\* The inductive invariant.
Inv ==
  /\ Shape
  /\ Exclusive
  /\ TagsArePublished
  /\ Pairs
  /\ \A r \in Runs : AboutToRelease(r) /\ InOrder(r)
  /\ OneCommitPerVersion
  /\ PackagesMatchRelease
  /\ Completes

-----------------------------------------------------------------------------
LEMMA InitInv == Init => Inv
<1> SUFFICES ASSUME Init PROVE Inv
  OBVIOUS
<1>1. Shape
  <2>1. run \in [Runs -> Run({NoTag})]
    BY DEF Init, Run, Fresh, Places, Jobs, Bumps, Channels
  <2> QED
    BY <2>1 DEF Init, Shape
<1>2. \A r \in Runs : run[r].pc = "idle" /\ run[r].job = "version"
  BY DEF Init, Fresh
<1>3. \A x \in tags : x.sha = 0
  BY DEF Init, Of
<1>4. Exclusive /\ \A r \in Runs : AboutToRelease(r) /\ InOrder(r)
  BY <1>2 DEF Exclusive, AboutToRelease, InOrder, Releasing
<1>5. TagsArePublished /\ Pairs /\ OneCommitPerVersion
  BY <1>3 DEF Init, TagsArePublished, Pairs, OneCommitPerVersion, Has, Of
<1>6. PackagesMatchRelease /\ Completes
  BY <1>3, ReleaseAssumption DEF Init, PackagesMatchRelease, Completes, Has
<1> QED
  BY <1>1, <1>4, <1>5, <1>6 DEF Inv

-----------------------------------------------------------------------------
\* A step of run r that leaves the hub alone, and does not put r where it has
\* to have done something first.
LEMMA MoveInv ==
  ASSUME Inv, Shape', UNCHANGED hub, NEW r \in Runs,
         \A q \in Runs \ {r} : run'[q] = run[q],
         AboutToRelease(r)', InOrder(r)',
         run'[r].pc \in Releasing =>
           run'[r].tag = run[r].tag /\ (run[r].pc \in Releasing \/ ~Held(r)),
         \A p \in published : OptedIn /\ Bound(r, p) => Bound(r, p)' \/ Has(packages, p.tag)
  PROVE  Inv'
<1>1. Exclusive'
  BY DEF Inv, Exclusive, Held, Group
<1>2. \A q \in Runs : AboutToRelease(q)' /\ InOrder(q)'
  <2> SUFFICES ASSUME NEW q \in Runs \ {r} PROVE AboutToRelease(q)' /\ InOrder(q)'
    OBVIOUS
  <2>1. AboutToRelease(q) /\ InOrder(q) /\ run'[q] = run[q]
    BY DEF Inv
  <2> QED
    BY <2>1 DEF AboutToRelease, InOrder, Has, hub
<1>3. Completes'
  BY DEF Inv, Completes, Bound, hub, Has
<1> QED
  BY <1>1, <1>2, <1>3 DEF Inv, TagsArePublished, Pairs, OneCommitPerVersion, PackagesMatchRelease, Has, hub

\* Up to enqueue a run has touched nothing.
LEMMA BeforeReleaseInv ==
  ASSUME Inv, NEW r \in Runs, Dispatch(r) \/ Version(r) \/ Build(r) \/ ReleaseCheck(r)
  PROVE  Inv'
<1>0. PICK T : run \in [Runs -> Run(T)]
  BY DEF Inv, Shape
<1>1. UNCHANGED hub /\ \A q \in Runs \ {r} : run'[q] = run[q]
  BY <1>0 DEF Dispatch, Version, Build, ReleaseCheck
<1>2. InOrder(r) /\ run[r] \in Run(T) /\ head \in Nat
  BY <1>0 DEF Inv, Shape
<1>3. CASE Dispatch(r)
  <2>1. PICK ask \in Inputs :
          run' = [run EXCEPT ![r] = [Fresh EXCEPT !.pc = "version", !.sha = head, !.ask = ask]]
    BY <1>3 DEF Dispatch
  <2>2. Fresh \in Run({NoTag}) /\ Fresh.job = "version"
    BY DEF Fresh, Run, Places, Jobs, Bumps, Channels
  <2>3. /\ run' \in [Runs -> Run(T \union {NoTag})]
        /\ run'[r].pc = "version" /\ run'[r].job = "version"
    BY <1>0, <1>2, <2>1, <2>2, ReleaseAssumption DEF Run, Places, Jobs
  <2>4. Shape'
    BY <2>3, <1>2, <1>3 DEF Shape, Dispatch
  <2>5. AboutToRelease(r)' /\ InOrder(r)'
    BY <2>3 DEF AboutToRelease, InOrder, Releasing
  <2>6. \A p : ~Bound(r, p)
    BY <1>3 DEF Dispatch, Bound
  <2> QED
    BY <1>1, <2>3, <2>4, <2>5, <2>6, MoveInv DEF Releasing
<1>4. CASE Version(r)
  <2>1. \E t : run' = [run EXCEPT ![r] = [@ EXCEPT !.pc = "failed"]]
               \/ run' = [run EXCEPT ![r] = [@ EXCEPT !.pc = "build", !.job = "build", !.tag = t]]
    BY <1>4 DEF Version
  <2>2. PICK t : run' = [run EXCEPT ![r] = [@ EXCEPT !.pc = "failed"]]
               \/ run' = [run EXCEPT ![r] = [@ EXCEPT !.pc = "build", !.job = "build", !.tag = t]]
    BY <2>1
  <2>3. run[r].job = "version"
    BY <1>2, <1>4 DEF InOrder, Version
  <2>4. /\ run' \in [Runs -> Run(T \union {t})]
        /\ \/ run'[r].pc = "failed" /\ run'[r].job = "version"
           \/ run'[r].pc = "build" /\ run'[r].job = "build"
    <3>1. CASE run' = [run EXCEPT ![r] = [@ EXCEPT !.pc = "failed"]]
      BY <1>0, <1>2, <2>3, <3>1 DEF Run, Places, Jobs
    <3>2. CASE run' = [run EXCEPT ![r] = [@ EXCEPT !.pc = "build", !.job = "build", !.tag = t]]
      BY <1>0, <1>2, <2>3, <3>2 DEF Run, Places, Jobs
    <3> QED
      BY <2>2, <3>1, <3>2
  <2>5. Shape'
    BY <2>4, <1>2, <1>4 DEF Shape, Version
  <2>6. AboutToRelease(r)' /\ InOrder(r)'
    BY <2>4 DEF AboutToRelease, InOrder, Releasing
  <2>7. \A p : ~Bound(r, p)
    BY <2>3 DEF Bound
  <2> QED
    BY <1>1, <2>4, <2>5, <2>6, <2>7, MoveInv DEF Releasing
<1>5. CASE Build(r) \/ ReleaseCheck(r)
  <2>1. /\ run' \in [Runs -> Run(T)]
        /\ \/ run'[r].pc = "check" /\ run'[r].job = "check"
           \/ run'[r].pc = "enqueue" /\ run'[r].job = "enqueue"
    <3>1. CASE Build(r)
      BY <1>0, <1>2, <3>1 DEF Build, Run, Places, Jobs
    <3>2. CASE ReleaseCheck(r)
      BY <1>0, <1>2, <3>2 DEF ReleaseCheck, Run, Places, Jobs
    <3> QED
      BY <1>5, <3>1, <3>2
  <2>2. Shape'
    BY <2>1, <1>2, <1>5 DEF Shape, Build, ReleaseCheck
  <2>3. AboutToRelease(r)' /\ InOrder(r)'
    BY <2>1 DEF AboutToRelease, InOrder, Releasing
  <2>4. run[r].job \in {"build", "check"}
    BY <1>2, <1>5 DEF InOrder, Build, ReleaseCheck
  <2>5. \A p : ~Bound(r, p)
    BY <2>4 DEF Bound
  <2> QED
    BY <1>1, <2>1, <2>2, <2>3, <2>5, MoveInv DEF Releasing
<1> QED
  BY <1>3, <1>4, <1>5

\* The concurrency group lets a run in when nobody of its tag is releasing.
LEMMA EnqueueInv ==
  ASSUME Inv, NEW r \in Runs, Enqueue(r) \/ StartWaiting(r)
  PROVE  Inv'
<1>0. PICK T : run \in [Runs -> Run(T)]
  BY DEF Inv, Shape
<1>1. UNCHANGED <<hub, head>>
  BY DEF Enqueue, StartWaiting
<1>2. InOrder(r) /\ run[r] \in Run(T) /\ head \in Nat
  BY <1>0 DEF Inv, Shape
<1>3. CASE run' = [run EXCEPT ![r].pc = "existing"] /\ ~Held(r) /\ run[r].pc \in {"enqueue", "waiting"}
  <2>1. run' \in [Runs -> Run(T)] /\ run'[r] = [run[r] EXCEPT !.pc = "existing"]
    BY <1>0, <1>2, <1>3 DEF Run, Places, Releasing
  <2>2. run'[r].pc = "existing" /\ run'[r].job = "enqueue" /\ run'[r].tag = run[r].tag
    BY <1>2, <1>3, <2>1 DEF Run, InOrder
  <2>3. run'[r].sha = run[r].sha
    BY <1>2, <2>1 DEF Run
  <2>4. Shape'
    BY <1>1, <1>2, <2>1 DEF Shape
  <2>5. AboutToRelease(r)' /\ InOrder(r)'
    BY <2>2 DEF AboutToRelease, InOrder, Releasing
  <2>6. \A p : Bound(r, p) => Bound(r, p)'
    BY <2>2, <2>3 DEF Bound
  <2>7. \A q \in Runs \ {r} : run'[q] = run[q]
    BY <1>0, <1>3
  <2> QED
    BY <1>1, <1>3, <2>2, <2>4, <2>5, <2>6, <2>7, MoveInv
<1>4. CASE /\ run[r].pc = "enqueue"
           /\ run' = [q \in Runs |-> IF q = r THEN [run[q] EXCEPT !.pc = "waiting"]
                                    ELSE IF q \in Waiting(r) THEN [run[q] EXCEPT !.pc = "failed"]
                                    ELSE run[q]]
  <2>1. run' \in [Runs -> Run(T)]
    BY <1>0, <1>4 DEF Run, Places
  <2>2. Shape'
    BY <1>1, <1>2, <2>1 DEF Shape
  <2>3. ASSUME NEW q \in Runs
        PROVE  \/ run'[q] = run[q]
               \/ /\ run[q].pc \in {"enqueue", "waiting"} /\ run'[q].pc \in {"waiting", "failed"}
                  /\ run'[q].job = run[q].job /\ run'[q].tag = run[q].tag /\ run'[q].sha = run[q].sha
    BY <1>0, <1>4 DEF Run, Waiting
  <2>4. ASSUME NEW q \in Runs PROVE AboutToRelease(q)' /\ InOrder(q)'
    <3>1. AboutToRelease(q) /\ InOrder(q)
      BY DEF Inv
    <3> QED
      BY <1>1, <2>3, <3>1 DEF AboutToRelease, InOrder, Releasing, Has, hub
  <2>5. Exclusive'
    BY <2>3 DEF Inv, Exclusive, Releasing
  <2>6. \A q \in Runs, p \in published : Bound(q, p) => Bound(q, p)'
    BY <2>3 DEF Bound
  <2>7. Completes'
    BY <1>1, <2>6 DEF Inv, Completes, Has, hub
  <2> QED
    BY <1>1, <2>2, <2>4, <2>5, <2>7
    DEF Inv, TagsArePublished, Pairs, OneCommitPerVersion, PackagesMatchRelease, Has, hub
<1> QED
  BY <1>3, <1>4 DEF Enqueue, StartWaiting

\* Steps of a releasing run, and of the jobs after it, that write nothing.
LEMMA PassInv ==
  ASSUME Inv, NEW r \in Runs,
         VerifyTag(r) \/ LookupFails(r) \/ CloseRelease(r) \/ VerifyPublished(r) \/ JobFails(r)
  PROVE  Inv'
<1>0. PICK T : run \in [Runs -> Run(T)]
  BY DEF Inv, Shape
<1>1. UNCHANGED <<hub, head>>
  BY DEF VerifyTag, LookupFails, CloseRelease, VerifyPublished, JobFails
<1>2. InOrder(r) /\ AboutToRelease(r) /\ run[r] \in Run(T) /\ head \in Nat
  BY <1>0 DEF Inv, Shape
<1>3. run' \in [Runs -> Run(T)] /\ \A q \in Runs \ {r} : run'[q] = run[q]
  <2>1. CASE VerifyTag(r)
    <3>1. PICK pc \in {"close", "refused", "failed"} : run' = [run EXCEPT ![r].pc = pc]
      BY <2>1 DEF VerifyTag, Goto
    <3>2. pc \in Places
      BY DEF Places, Releasing
    <3>3. [run[r] EXCEPT !.pc = pc] \in Run(T)
      BY <1>2, <3>2 DEF Run
    <3> QED
      BY <1>0, <3>1, <3>3
  <2>2. CASE LookupFails(r)
    <3>1. run[r].tries + 1 \in Nat
      BY <1>2 DEF Run
    <3>2. PICK pc \in {"lookup", "failed"}, n \in Nat : run' = [run EXCEPT ![r].tries = n, ![r].pc = pc]
      BY <2>2, <3>1 DEF LookupFails
    <3>3. pc \in Places
      BY DEF Places, Releasing
    <3> QED
      BY <1>0, <1>2, <3>2, <3>3 DEF Run
  <2>3. CASE CloseRelease(r)
    BY <1>0, <1>2, <2>3 DEF CloseRelease, Run, Places, Jobs
  <2>4. CASE VerifyPublished(r)
    BY <1>0, <1>2, <2>4 DEF VerifyPublished, Goto, Run, Places
  <2>5. CASE JobFails(r)
    BY <1>0, <1>2, <2>5 DEF JobFails, Goto, Run, Places
  <2> QED
    BY <2>1, <2>2, <2>3, <2>4, <2>5
<1>4. Shape'
  BY <1>1, <1>2, <1>3 DEF Shape
<1>5. run'[r].tag = run[r].tag /\ run'[r].sha = run[r].sha
  BY <1>0, <1>2 DEF VerifyTag, LookupFails, CloseRelease, VerifyPublished, JobFails, Goto, Run
<1>6. CASE VerifyTag(r)
  <2>1. run[r].pc = "lookup" /\ run[r].job = "enqueue" /\ run'[r].job = "enqueue"
    BY <1>0, <1>2, <1>6 DEF VerifyTag, Goto, Run, InOrder, Releasing
  <2>2. run'[r].pc = IF Of(run[r].tag, run[r].sha) \in tags THEN "close"
                    ELSE IF Has(tags, run[r].tag) THEN "refused" ELSE "failed"
    BY <1>0, <1>6 DEF VerifyTag, Goto, Run
  <2>3. InOrder(r)' /\ AboutToRelease(r)'
    BY <1>1, <1>5, <2>1, <2>2 DEF Inv, TagsArePublished, InOrder, AboutToRelease, Releasing, hub
  <2>4. ASSUME NEW p, Bound(r, p), p \in published PROVE run'[r].pc # "refused"
    <3>1. ASSUME NEW x \in tags, x.tag = run[r].tag PROVE x = Of(run[r].tag, run[r].sha)
      BY <2>4, <3>1 DEF Inv, TagsArePublished, Pairs, OneCommitPerVersion, Bound, Of
    <3> QED
      BY <2>2, <3>1 DEF Has
  <2>5. \A p \in published : Bound(r, p) => Bound(r, p)'
    BY <1>5, <2>1, <2>2, <2>4 DEF Bound
  <2> QED
    BY <1>1, <1>3, <1>4, <1>5, <2>1, <2>3, <2>5, MoveInv DEF Releasing
<1>7. CASE LookupFails(r) \/ JobFails(r)
  <2>1. /\ run[r].pc \notin {"idle", "refused", "done"} /\ run'[r].job = run[r].job
        /\ run'[r].pc \in {"lookup", "failed"} /\ (run'[r].pc = "lookup" => run[r].pc = "lookup")
    BY <1>0, <1>2, <1>7 DEF LookupFails, JobFails, Goto, Run, Jobs, Releasing
  <2>2. InOrder(r)' /\ AboutToRelease(r)'
    BY <1>1, <1>2, <1>5, <2>1 DEF InOrder, AboutToRelease, Releasing, Has, hub
  <2>3. \A p : Bound(r, p) => Bound(r, p)'
    BY <1>5, <2>1 DEF Bound
  <2> QED
    BY <1>1, <1>3, <1>4, <1>5, <2>1, <2>2, <2>3, MoveInv DEF Releasing
<1>8. CASE CloseRelease(r) \/ VerifyPublished(r)
  <2>1. \/ /\ OptedIn /\ run'[r].pc = "packages" /\ run'[r].job = "packages"
           /\ Of(run[r].tag, run[r].sha) \in published
        \/ /\ run'[r].pc = "done" /\ run'[r].job = run[r].job
           /\ OptedIn => Has(packages, run[r].tag)
    <3>1. CASE CloseRelease(r)
      BY <1>0, <1>2, <3>1, ReleaseAssumption DEF CloseRelease, Run, InOrder
    <3>2. CASE VerifyPublished(r)
      BY <1>0, <1>2, <3>2 DEF VerifyPublished, Goto, Run, InOrder
    <3> QED
      BY <1>8, <3>1, <3>2
  <2>2. InOrder(r)' /\ AboutToRelease(r)'
    BY <1>1, <1>2, <1>5, <2>1 DEF InOrder, AboutToRelease, Releasing, Has, hub
  <2>3. \A p \in published : OptedIn /\ Bound(r, p) => Bound(r, p)' \/ Has(packages, p.tag)
    BY <1>5, <2>1 DEF Bound, Of
  <2> QED
    BY <1>1, <1>3, <1>4, <1>5, <2>1, <2>2, <2>3, MoveInv DEF Releasing
<1> QED
  BY <1>6, <1>7, <1>8

\* The failed jobs are re-run: the run goes back to the first of them.
LEMMA RerunInv ==
  ASSUME Inv, NEW r \in Runs, RerunFailedJobs(r)
  PROVE  Inv'
<1>0. PICK T : run \in [Runs -> Run(T)]
  BY DEF Inv, Shape
<1>1. UNCHANGED <<hub, head>> /\ run[r].pc = "failed"
  BY DEF RerunFailedJobs
<1>2. InOrder(r) /\ run[r] \in Run(T) /\ head \in Nat
  BY <1>0 DEF Inv, Shape
<1>3. run' \in [Runs -> Run(T)] /\ \A q \in Runs \ {r} : run'[q] = run[q]
  BY <1>0, <1>2 DEF RerunFailedJobs, Goto, Run, Places
<1>4. /\ run'[r].pc = run[r].job /\ run'[r].job = run[r].job /\ run[r].job \in Jobs
      /\ run'[r].tag = run[r].tag /\ run'[r].sha = run[r].sha
  BY <1>0, <1>2 DEF RerunFailedJobs, Goto, Run
<1>5. Shape'
  BY <1>1, <1>2, <1>3 DEF Shape
<1>6. InOrder(r)' /\ AboutToRelease(r)'
  BY <1>1, <1>2, <1>4 DEF InOrder, AboutToRelease, Jobs, Releasing, Has, hub
<1>7. \A p : Bound(r, p) => Bound(r, p)'
  BY <1>4 DEF Bound, Jobs
<1> QED
  BY <1>1, <1>3, <1>4, <1>5, <1>6, <1>7, MoveInv DEF Jobs, Releasing

-----------------------------------------------------------------------------
\* What a releasing run writes is about its own tag, and nobody else with that
\* tag is releasing.
LEMMA OwnTag ==
  ASSUME Inv, NEW r \in Runs, run[r].pc \in Releasing,
         \A q \in Runs \ {r} : run'[q] = run[q],
         run'[r].tag = run[r].tag,
         published \subseteq published', UNCHANGED packages,
         \A x \in published' : x.tag # run[r].tag => x \in published,
         \A x \in drafts' : x.tag # run[r].tag => x \in drafts,
         \A x \in manifests' : x.tag # run[r].tag => x \in manifests,
         AboutToRelease(r)', InOrder(r)'
  PROVE  Exclusive' /\ \A q \in Runs : AboutToRelease(q)' /\ InOrder(q)'
<1>1. Exclusive'
  BY DEF Inv, Exclusive
<1>2. ASSUME NEW q \in Runs \ {r} PROVE AboutToRelease(q)' /\ InOrder(q)'
  <2>1. AboutToRelease(q) /\ InOrder(q) /\ run'[q] = run[q]
    BY DEF Inv
  <2>2. run[q].pc \in Releasing => run[q].tag # run[r].tag
    BY DEF Inv, Exclusive
  <2>3. InOrder(q)'
    BY <2>1 DEF InOrder, Has
  <2>4. AboutToRelease(q)'
    <3>1. CASE run[q].pc \in {"lookup", "finalize", "draft", "publish"}
      <4>1. run[q].tag # run[r].tag
        BY <2>2, <3>1 DEF Releasing
      <4>2. /\ Has(published', run[q].tag) => Has(published, run[q].tag)
            /\ Has(drafts', run[q].tag) => Has(drafts, run[q].tag)
        BY <4>1 DEF Has
      <4> QED
        BY <2>1, <4>1, <4>2 DEF AboutToRelease
    <3>2. CASE run[q].pc \notin {"lookup", "finalize", "draft", "publish"}
      BY <2>1, <3>2 DEF AboutToRelease
    <3> QED
      BY <3>1, <3>2
  <2> QED
    BY <2>3, <2>4
<1> QED
  BY <1>1, <1>2

LEMMA ExistingInv ==
  ASSUME Inv, NEW r \in Runs, Existing(r)
  PROVE  Inv'
<1>0. PICK T : run \in [Runs -> Run(T)]
  BY DEF Inv, Shape
<1>1. /\ UNCHANGED <<head, tags, published, manifests, packages>>
      /\ run[r].pc = "existing" /\ drafts' = Without(drafts, run[r].tag)
  BY DEF Existing
<1>2. InOrder(r) /\ run[r] \in Run(T) /\ head \in Nat
  BY <1>0 DEF Inv, Shape
<1>3. PICK pc \in {"lookup", "finalize"} :
        /\ run' = [run EXCEPT ![r].pc = pc, ![r].tries = 0]
        /\ pc = "finalize" => ~Has(published, run[r].tag)
  BY DEF Existing
<1>4. run' \in [Runs -> Run(T)] /\ \A q \in Runs \ {r} : run'[q] = run[q]
  BY <1>0, <1>2, <1>3 DEF Run, Places, Releasing
<1>5. /\ run'[r].pc = pc /\ run'[r].job = run[r].job
      /\ run'[r].tag = run[r].tag /\ run'[r].sha = run[r].sha
  BY <1>0, <1>2, <1>3 DEF Run
<1>6. Shape'
  BY <1>1, <1>2, <1>4 DEF Shape
<1>7. InOrder(r)' /\ AboutToRelease(r)'
  BY <1>1, <1>2, <1>3, <1>5 DEF InOrder, AboutToRelease, Releasing, Has, Without
<1>8. Exclusive' /\ \A q \in Runs : AboutToRelease(q)' /\ InOrder(q)'
  BY <1>1, <1>4, <1>5, <1>7, OwnTag DEF Releasing, Without
<1>9. OneCommitPerVersion'
  BY <1>1 DEF Inv, OneCommitPerVersion, Has, Without
<1>10. Completes'
  <2>1. \A q \in Runs, p \in published : Bound(q, p) => Bound(q, p)'
    BY <1>1, <1>3, <1>4, <1>5 DEF Bound
  <2> QED
    BY <1>1, <2>1 DEF Inv, Completes, Has
<1> QED
  BY <1>1, <1>6, <1>8, <1>9, <1>10 DEF Inv, TagsArePublished, Pairs, PackagesMatchRelease, Has

LEMMA FinalizeInv ==
  ASSUME Inv, NEW r \in Runs, Finalize(r) \/ CreateDraft(r)
  PROVE  Inv'
<1>0. PICK T : run \in [Runs -> Run(T)]
  BY DEF Inv, Shape
<1>1. UNCHANGED <<head, tags, published, packages>>
  BY DEF Finalize, CreateDraft
<1>2. InOrder(r) /\ AboutToRelease(r) /\ run[r] \in Run(T) /\ head \in Nat
  BY <1>0 DEF Inv, Shape
<1>3. \/ /\ run[r].pc = "finalize" /\ run' = [run EXCEPT ![r].pc = "draft"]
         /\ manifests' = Without(manifests, run[r].tag) \union {Of(run[r].tag, run[r].sha)}
         /\ UNCHANGED drafts
      \/ /\ run[r].pc = "draft" /\ run' = [run EXCEPT ![r].pc = "publish"]
         /\ drafts' = drafts \union {Of(run[r].tag, run[r].sha)}
         /\ UNCHANGED manifests
  BY DEF Finalize, CreateDraft, Goto
<1>4. run' \in [Runs -> Run(T)] /\ \A q \in Runs \ {r} : run'[q] = run[q]
  BY <1>0, <1>2, <1>3 DEF Run, Places, Releasing
<1>5. /\ run'[r].pc \in {"draft", "publish"} /\ (run'[r].pc = "draft" <=> run[r].pc = "finalize")
      /\ run'[r].job = run[r].job /\ run'[r].tag = run[r].tag /\ run'[r].sha = run[r].sha
  BY <1>0, <1>2, <1>3 DEF Run
<1>6. Shape'
  BY <1>1, <1>2, <1>4 DEF Shape
<1>7. InOrder(r)' /\ AboutToRelease(r)'
  BY <1>1, <1>2, <1>3, <1>5 DEF InOrder, AboutToRelease, Releasing, Has, Without, Of
<1>8. Exclusive' /\ \A q \in Runs : AboutToRelease(q)' /\ InOrder(q)'
  BY <1>1, <1>3, <1>4, <1>5, <1>7, OwnTag DEF Releasing, Without, Of
<1>9. OneCommitPerVersion'
  BY <1>1, <1>2, <1>3 DEF Inv, OneCommitPerVersion, AboutToRelease, Has, Without, Of
<1>10. Completes'
  <2>1. \A q \in Runs, p \in published : Bound(q, p) => Bound(q, p)'
    BY <1>1, <1>3, <1>4, <1>5 DEF Bound
  <2> QED
    BY <1>1, <2>1 DEF Inv, Completes, Has
<1> QED
  BY <1>1, <1>6, <1>8, <1>9, <1>10 DEF Inv, TagsArePublished, Pairs, PackagesMatchRelease, Has

LEMMA PublishInv ==
  ASSUME Inv, NEW r \in Runs, PublishRelease(r)
  PROVE  Inv'
<1>0. PICK T : run \in [Runs -> Run(T)]
  BY DEF Inv, Shape
<1> DEFINE new == Of(run[r].tag, run[r].sha)
<1>1. /\ UNCHANGED <<head, manifests, packages>> /\ run[r].pc = "publish"
      /\ drafts' = drafts \ {new} /\ published' = published \union {new}
      /\ tags' \subseteq tags \union {new}
      /\ run' = [run EXCEPT ![r].pc = "close"]
  BY DEF PublishRelease, Goto
<1>2. InOrder(r) /\ AboutToRelease(r) /\ run[r] \in Run(T) /\ head \in Nat
  BY <1>0 DEF Inv, Shape
<1>3. /\ ~Has(published, run[r].tag) /\ new.tag = run[r].tag /\ new.sha = run[r].sha
      /\ \A x \in drafts : x.tag = run[r].tag => x = new
      /\ \A x \in manifests : x.tag = run[r].tag => x.sha = run[r].sha
      /\ run[r].job = "enqueue"
  BY <1>1, <1>2 DEF AboutToRelease, InOrder, Releasing, Of
<1>4. run' \in [Runs -> Run(T)] /\ \A q \in Runs \ {r} : run'[q] = run[q]
  BY <1>0, <1>1, <1>2 DEF Run, Places, Releasing
<1>5. /\ run'[r].pc = "close" /\ run'[r].job = "enqueue"
      /\ run'[r].tag = run[r].tag /\ run'[r].sha = run[r].sha
  BY <1>0, <1>1, <1>2, <1>3 DEF Run
<1>6. Shape'
  BY <1>1, <1>2, <1>4 DEF Shape
<1>7. InOrder(r)' /\ AboutToRelease(r)'
  BY <1>1, <1>5 DEF InOrder, AboutToRelease, Releasing
<1>8. Exclusive' /\ \A q \in Runs : AboutToRelease(q)' /\ InOrder(q)'
  BY <1>1, <1>3, <1>4, <1>5, <1>7, OwnTag DEF Releasing
<1>9. TagsArePublished' /\ Pairs'
  BY <1>1, <1>3 DEF Inv, TagsArePublished, Pairs
<1>10. OneCommitPerVersion'
  <2>1. ASSUME NEW p \in published' PROVE ~Has(drafts, p.tag)'
    BY <1>1, <1>3 DEF Inv, OneCommitPerVersion, Has
  <2>2. ASSUME NEW p \in published', NEW x \in (published \union tags \union manifests)',
               x.tag = p.tag
        PROVE  x.sha = p.sha
    BY <1>1, <1>3, <2>2 DEF Inv, OneCommitPerVersion, TagsArePublished, Has
  <2> QED
    BY <2>1, <2>2 DEF OneCommitPerVersion
<1>11. PackagesMatchRelease'
  BY <1>1, <1>3 DEF Inv, PackagesMatchRelease, Has
<1>12. Completes'
  <2>1. \A q \in Runs, p \in published : Bound(q, p) => Bound(q, p)'
    BY <1>1, <1>4, <1>5 DEF Bound
  <2>2. Bound(r, new)'
    BY <1>5 DEF Bound
  <2> QED
    BY <1>1, <2>1, <2>2 DEF Inv, Completes, Has
<1> QED
  BY <1>6, <1>8, <1>9, <1>10, <1>11, <1>12 DEF Inv

LEMMA PackagesInv ==
  ASSUME Inv, NEW r \in Runs, PublishPackages(r)
  PROVE  Inv'
<1>0. PICK T : run \in [Runs -> Run(T)]
  BY DEF Inv, Shape
<1> DEFINE new == Of(run[r].tag, run[r].sha)
<1>1. /\ UNCHANGED <<head, tags, published, drafts, manifests>> /\ run[r].pc = "packages"
      /\ packages \subseteq packages' /\ packages' \subseteq packages \union {new}
      /\ Has(packages', run[r].tag)
      /\ run' = [run EXCEPT ![r].pc = "verify", ![r].job = "verify"]
  <2>1. CASE Has(packages, run[r].tag)
    BY <2>1 DEF PublishPackages
  <2>2. CASE ~Has(packages, run[r].tag)
    <3>1. packages' = packages \union {new} /\ new.tag = run[r].tag
      BY <2>2 DEF PublishPackages, Of
    <3>2. Has(packages', run[r].tag)
      BY <3>1 DEF Has
    <3> QED
      BY <3>1, <3>2 DEF PublishPackages
  <2> QED
    BY <2>1, <2>2
<1>2. InOrder(r) /\ run[r] \in Run(T) /\ head \in Nat
  BY <1>0 DEF Inv, Shape
<1>3. run' \in [Runs -> Run(T)] /\ \A q \in Runs \ {r} : run'[q] = run[q]
  BY <1>0, <1>1, <1>2 DEF Run, Places, Jobs
<1>4. /\ run'[r].pc = "verify" /\ run'[r].job = "verify"
      /\ run'[r].tag = run[r].tag /\ run'[r].sha = run[r].sha
  BY <1>0, <1>1, <1>2 DEF Run
<1>5. Shape'
  BY <1>1, <1>2, <1>3 DEF Shape
<1>6. new \in published
  BY <1>1, <1>2 DEF InOrder
<1>7. ASSUME NEW q \in Runs PROVE AboutToRelease(q)' /\ InOrder(q)'
  <2>1. CASE q = r
    <3>1. AboutToRelease(r)'
      BY <1>4 DEF AboutToRelease
    <3>2. Of(run'[r].tag, run'[r].sha) \in published' /\ Has(packages', run'[r].tag)
      BY <1>1, <1>4, <1>6
    <3>3. InOrder(r)'
      BY <1>4, <3>2 DEF InOrder, Releasing, Has
    <3> QED
      BY <2>1, <3>1, <3>3
  <2>2. CASE q # r
    <3>1. AboutToRelease(q) /\ InOrder(q) /\ run'[q] = run[q] /\ UNCHANGED <<published, drafts, manifests>>
      BY <1>1, <1>3, <2>2 DEF Inv
    <3>2. Has(packages, run[q].tag) => Has(packages', run[q].tag)
      BY <1>1 DEF Has
    <3>3. AboutToRelease(q)'
      BY <3>1 DEF AboutToRelease, Has
    <3>4. InOrder(q)'
      BY <3>1, <3>2 DEF InOrder, Has
    <3> QED
      BY <3>3, <3>4
  <2> QED
    BY <2>1, <2>2
<1>8. Exclusive'
  BY <1>3, <1>4 DEF Inv, Exclusive, Releasing
<1>9. OneCommitPerVersion' /\ TagsArePublished' /\ Pairs'
  BY <1>1 DEF Inv, OneCommitPerVersion, TagsArePublished, Pairs, Has
<1>10. PackagesMatchRelease'
  <2>1. \A p \in published : p.tag = new.tag => p.sha = new.sha
    BY <1>6 DEF Inv, OneCommitPerVersion
  <2> QED
    BY <1>1, <1>6, <2>1 DEF Inv, PackagesMatchRelease, Has
<1>11. Completes'
  <2>1. \A q \in Runs, p \in published : Bound(q, p) => Bound(q, p)'
    BY <1>1, <1>3, <1>4 DEF Bound
  <2> QED
    BY <1>1, <2>1 DEF Inv, Completes, Has
<1> QED
  BY <1>5, <1>7, <1>8, <1>9, <1>10, <1>11 DEF Inv

\* A tag of a published release goes and comes back; commits are pushed.
LEMMA OutsideInv == Inv /\ (Push \/ DeleteTag \/ RestoreTag) => Inv'
<1> SUFFICES ASSUME Inv, Push \/ DeleteTag \/ RestoreTag PROVE Inv'
  OBVIOUS
<1>1. /\ UNCHANGED <<run, published, drafts, manifests, packages>>
      /\ tags' \subseteq published /\ head' \in Nat
  BY DEF Inv, Shape, TagsArePublished, Push, DeleteTag, RestoreTag, hub
<1>2. Shape' /\ Exclusive' /\ TagsArePublished' /\ Pairs'
  BY <1>1 DEF Inv, Shape, Exclusive, TagsArePublished, Pairs
<1>3. \A r \in Runs : AboutToRelease(r)' /\ InOrder(r)'
  BY <1>1 DEF Inv, AboutToRelease, InOrder, Has
<1>4. OneCommitPerVersion'
  BY <1>1 DEF Inv, OneCommitPerVersion, Has
<1>5. PackagesMatchRelease' /\ Completes'
  BY <1>1 DEF Inv, PackagesMatchRelease, Completes, Bound, Has
<1> QED
  BY <1>2, <1>3, <1>4, <1>5 DEF Inv

LEMMA NextInv == Inv /\ [Next]_vars => Inv'
<1> SUFFICES ASSUME Inv, [Next]_vars PROVE Inv'
  OBVIOUS
<1>1. CASE Push \/ DeleteTag \/ RestoreTag
  BY <1>1, OutsideInv
<1>2. ASSUME NEW r \in Runs, RunStep(r) PROVE Inv'
  BY <1>2, BeforeReleaseInv, EnqueueInv, PassInv, RerunInv, ExistingInv, FinalizeInv, PublishInv,
     PackagesInv DEF RunStep
<1>3. CASE UNCHANGED vars
  BY <1>3 DEF vars, hub, Inv, Shape, Exclusive, TagsArePublished, Pairs, AboutToRelease, InOrder,
     OneCommitPerVersion, PackagesMatchRelease, Completes, Bound, Has
<1> QED
  BY <1>1, <1>2, <1>3 DEF Next

LEMMA AlwaysInv == Spec => []Inv
BY InitInv, NextInv, PTL DEF Spec

-----------------------------------------------------------------------------
\* A published version, its tag and its manifest list are of one commit, with no
\* draft beside it, whichever runs computed the same tag.
THEOREM OneCommit == Spec => []OneCommitPerVersion
<1>1. Inv => OneCommitPerVersion
  BY DEF Inv
<1> QED
  BY <1>1, AlwaysInv, PTL

\* Nothing is in a registry that was not released, from the released commit.
THEOREM PackagesMatch == Spec => []PackagesMatchRelease
<1>1. Inv => PackagesMatchRelease
  BY DEF Inv
<1> QED
  BY <1>1, AlwaysInv, PTL

\* Whatever failed after a release can be finished by re-running its failed jobs.
THEOREM NoOrphan == Spec => []NoOrphanRelease
<1>1. Inv => NoOrphanRelease
  BY DEF Inv, Completes, Bound, NoOrphanRelease
<1> QED
  BY <1>1, AlwaysInv, PTL
=============================================================================
