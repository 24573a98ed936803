------------------------------- MODULE Release -------------------------------
(***************************************************************************)
(* The release workflow (.github/workflows/release.yml): dispatched runs   *)
(* compute a version from the tags they see, build, check, and release     *)
(* under that tag, in any interleaving, failing and being re-run anywhere. *)
(*                                                                         *)
(* What a run builds is known by its commit.  The per-arch images pushed   *)
(* by the build job are left out: the manifest list of make finalize names *)
(* the digests recorded in the run's own dist/, not the pushed tags.       *)
(***************************************************************************)
EXTENDS Versions

CONSTANTS
  OptedIn,      \* a *_PUBLISH variable is set
  MaxRuns,      \* workflow runs
  Inputs,       \* [bump, channel] pairs a dispatch may ask for
  Histories,    \* sets of tags released before
  Attempts,     \* TAG_LOOKUP_ATTEMPTS
  MaxHead,      \* commits of the default branch
  MaxFaults     \* job failures and deleted tags

ASSUME ReleaseAssumption ==
  /\ Inputs \subseteq [bump : Bumps, channel : Channels]
  /\ Attempts \in Nat \ {0} /\ MaxRuns \in Nat /\ OptedIn \in BOOLEAN
  /\ MaxHead \in Nat /\ MaxFaults \in Nat

VARIABLES
  head,         \* tip of the default branch
  run,          \* the workflow runs
  tags,         \* the repository's tags, each with its commit
  published,    \* published releases, with the commit their assets were built from
  drafts,       \* draft releases
  manifests,    \* the multi-arch manifest lists make finalize wrote
  packages,     \* packages in the registries
  faults

\* Runs are numbered as they are dispatched.
Runs == 1..MaxRuns

hub == <<tags, published, drafts, manifests, packages>>
vars == <<head, run, hub, faults>>

\* Things known by a tag: at most one of each kind should exist.
Of(tag, sha) == [tag |-> tag, sha |-> sha]
Has(things, tag) == \E x \in things : x.tag = tag
Without(things, tag) == {x \in things : x.tag # tag}
Names(things) == {x.tag : x \in things}

\* The steps of the release job, after it got its concurrency group.
Releasing == {"existing", "lookup", "finalize", "draft", "publish", "close"}
Jobs == {"version", "build", "check", "enqueue", "packages", "verify"}
Places == {"idle", "waiting", "failed", "refused", "done"} \union Jobs \union Releasing

\* A run: where it is, the job a re-run starts with, its commit, what was asked
\* for, the tag it computed and the tag lookups it made.
NoTag == Tag(Zero, "full", 0)
Fresh == [pc |-> "idle", job |-> "version", sha |-> 0,
          ask |-> [bump |-> "none", channel |-> "full"], tag |-> NoTag, tries |-> 0]

\* The type of every variable.
TypeOK ==
  /\ head \in 0..MaxHead /\ faults \in 0..MaxFaults
  /\ \A r \in Runs :
       /\ run[r].pc \in Places /\ run[r].job \in Jobs
       /\ run[r].sha \in 0..head /\ run[r].tries \in 0..Attempts
  /\ \A things \in {tags, published, drafts, manifests, packages} :
       \A x \in things : x.sha \in 0..head

Init ==
  /\ head = 0 /\ faults = 0
  /\ run = [r \in Runs |-> Fresh]
  /\ \E history \in Histories : tags = {Of(t, 0) : t \in history}
  /\ published = tags /\ manifests = tags /\ drafts = {}
  /\ packages = IF OptedIn THEN tags ELSE {}

-----------------------------------------------------------------------------
(* version, build, release-check *)

Goto(r, pc) == run' = [run EXCEPT ![r].pc = pc]

\* Somebody pushes to the default branch.
Push ==
  /\ head < MaxHead
  /\ head' = head + 1
  /\ UNCHANGED <<run, hub, faults>>

\* The workflow is dispatched on the default branch's tip.
Dispatch(r) ==
  /\ run[r].pc = "idle" /\ \A q \in 1..(r - 1) : run[q].pc # "idle"
  /\ \E ask \in Inputs :
       run' = [run EXCEPT ![r] = [Fresh EXCEPT !.pc = "version", !.sha = head, !.ask = ask]]
  /\ UNCHANGED <<head, hub, faults>>

\* The tag is computed from the tags visible now.  A full release whose tag
\* exists is an error.
Version(r) ==
  /\ run[r].pc = "version"
  /\ LET next == NextTag(Names(tags), run[r].ask.bump, run[r].ask.channel) IN
     run' = [run EXCEPT ![r] =
       IF next.channel = "full" /\ next \in Names(tags) THEN [@ EXCEPT !.pc = "failed"]
       ELSE [@ EXCEPT !.pc = "build", !.job = "build", !.tag = next]]
  /\ UNCHANGED <<head, hub, faults>>

\* The build legs, then release-check with the assembled dist/.
Build(r) ==
  /\ run[r].pc = "build"
  /\ run' = [run EXCEPT ![r].pc = "check", ![r].job = "check"]
  /\ UNCHANGED <<head, hub, faults>>

ReleaseCheck(r) ==
  /\ run[r].pc = "check"
  /\ run' = [run EXCEPT ![r].pc = "enqueue", ![r].job = "enqueue"]
  /\ UNCHANGED <<head, hub, faults>>

-----------------------------------------------------------------------------
(* The concurrency group release-<tag> *)

Group(r) == {q \in Runs \ {r} : run[q].tag = run[r].tag}
Held(r) == \E q \in Group(r) : run[q].pc \in Releasing
Waiting(r) == {q \in Group(r) : run[q].pc = "waiting"}

\* Mutant: no concurrency group.
NoGroup(r) ==
  /\ run[r].pc = "enqueue"
  /\ run' = [run EXCEPT ![r].pc = "existing"]
  /\ UNCHANGED <<head, hub, faults>>

\* The group is free and the job starts, or it waits in the place of any other
\* waiting run, which is cancelled.
Enqueue(r) ==
  /\ run[r].pc = "enqueue"
  /\ \/ /\ ~Held(r) /\ Waiting(r) = {}
        /\ run' = [run EXCEPT ![r].pc = "existing"]
     \/ /\ Held(r)
        /\ run' = [q \in Runs |->
             IF q = r THEN [run[q] EXCEPT !.pc = "waiting"]
             ELSE IF q \in Waiting(r) THEN [run[q] EXCEPT !.pc = "failed"] ELSE run[q]]
  /\ UNCHANGED <<head, hub, faults>>

StartWaiting(r) ==
  /\ run[r].pc = "waiting" /\ ~Held(r)
  /\ run' = [run EXCEPT ![r].pc = "existing"]
  /\ UNCHANGED <<head, hub, faults>>

-----------------------------------------------------------------------------
(* release *)

\* Leftover drafts are deleted; a published release is not created again.
Existing(r) ==
  /\ run[r].pc = "existing"
  /\ drafts' = Without(drafts, run[r].tag)
  /\ run' = [run EXCEPT ![r].pc = IF Has(published, run[r].tag) THEN "lookup" ELSE "finalize",
                        ![r].tries = 0]
  /\ UNCHANGED <<head, tags, published, manifests, packages, faults>>

\* Mutant: a release that exists is taken for this run's own.
TrustsExisting(r) ==
  /\ run[r].pc = "lookup"
  /\ Goto(r, "close")
  /\ UNCHANGED <<head, hub, faults>>

\* verify_release_tag.sh: the tag must resolve to this run's commit.  A tag of
\* another commit is final (a new run gets the next version); one that does not
\* resolve is an error, and the job may be re-run once it does.
VerifyTag(r) ==
  /\ run[r].pc = "lookup"
  /\ Goto(r, IF Of(run[r].tag, run[r].sha) \in tags THEN "close"
             ELSE IF Has(tags, run[r].tag) THEN "refused" ELSE "failed")
  /\ UNCHANGED <<head, hub, faults>>

\* A lookup fails for a transient reason: it is retried, up to Attempts times.
LookupFails(r) ==
  /\ run[r].pc = "lookup"
  /\ run' = [run EXCEPT ![r].tries = @ + 1,
                        ![r].pc = IF run[r].tries + 1 = Attempts THEN "failed" ELSE "lookup"]
  /\ UNCHANGED <<head, hub, faults>>

Finalize(r) ==
  /\ run[r].pc = "finalize"
  /\ manifests' = Without(manifests, run[r].tag) \union {Of(run[r].tag, run[r].sha)}
  /\ Goto(r, "draft")
  /\ UNCHANGED <<head, tags, published, drafts, packages, faults>>

\* gh release create: a draft is made and the assets are attached, ...
CreateDraft(r) ==
  /\ run[r].pc = "draft"
  /\ drafts' = drafts \union {Of(run[r].tag, run[r].sha)}
  /\ Goto(r, "publish")
  /\ UNCHANGED <<head, tags, published, manifests, packages, faults>>

\* ... then it is published, which makes the tag unless it exists.
PublishRelease(r) ==
  /\ run[r].pc = "publish"
  /\ drafts' = drafts \ {Of(run[r].tag, run[r].sha)}
  /\ published' = published \union {Of(run[r].tag, run[r].sha)}
  /\ tags' = IF Has(tags, run[r].tag) THEN tags ELSE tags \union {Of(run[r].tag, run[r].sha)}
  /\ Goto(r, "close")
  /\ UNCHANGED <<head, manifests, packages, faults>>

\* The release job ends and its group is free.
CloseRelease(r) ==
  /\ run[r].pc = "close"
  /\ run' = [run EXCEPT ![r].pc = IF OptedIn THEN "packages" ELSE "done",
                        ![r].job = IF OptedIn THEN "packages" ELSE @]
  /\ UNCHANGED <<head, hub, faults>>

-----------------------------------------------------------------------------
(* publish-packages, verify-published, failures *)

\* A version the registry already has is skipped.
PublishPackages(r) ==
  /\ run[r].pc = "packages"
  /\ packages' = IF Has(packages, run[r].tag) THEN packages
                 ELSE packages \union {Of(run[r].tag, run[r].sha)}
  /\ run' = [run EXCEPT ![r].pc = "verify", ![r].job = "verify"]
  /\ UNCHANGED <<head, tags, published, drafts, manifests, faults>>

VerifyPublished(r) ==
  /\ run[r].pc = "verify"
  /\ Goto(r, "done")
  /\ UNCHANGED <<head, hub, faults>>

\* A step fails, the runner is lost or the job is cancelled, wherever it stands.
JobFails(r) ==
  /\ run[r].pc \in (Jobs \ {"enqueue"}) \union Releasing
  /\ faults < MaxFaults /\ faults' = faults + 1
  /\ Goto(r, "failed")
  /\ UNCHANGED <<head, hub>>

\* Mutant: the re-run computes the version again.
RerunsAll(r) ==
  /\ run[r].pc = "failed"
  /\ Goto(r, "version")
  /\ UNCHANGED <<head, hub, faults>>

\* The failed jobs are re-run, with the outputs of the jobs that had ended.
RerunFailedJobs(r) ==
  /\ run[r].pc = "failed"
  /\ Goto(r, run[r].job)
  /\ UNCHANGED <<head, hub, faults>>

\* The tag of a published release is deleted by hand, and restored.
DeleteTag ==
  /\ faults < MaxFaults /\ faults' = faults + 1
  /\ \E t \in tags : tags' = tags \ {t}
  /\ UNCHANGED <<head, run, published, drafts, manifests, packages>>

RestoreTag ==
  /\ \E p \in published : ~Has(tags, p.tag) /\ tags' = tags \union {p}
  /\ UNCHANGED <<head, run, published, drafts, manifests, packages, faults>>

-----------------------------------------------------------------------------
RunStep(r) ==
  \/ Dispatch(r) \/ Version(r) \/ Build(r) \/ ReleaseCheck(r) \/ Enqueue(r) \/ StartWaiting(r)
  \/ Existing(r) \/ VerifyTag(r) \/ Finalize(r) \/ CreateDraft(r) \/ PublishRelease(r)
  \/ CloseRelease(r) \/ PublishPackages(r) \/ VerifyPublished(r)
  \/ LookupFails(r) \/ JobFails(r) \/ RerunFailedJobs(r)

Next == Push \/ DeleteTag \/ RestoreTag \/ \E r \in Runs : RunStep(r)

Spec == Init /\ [][Next]_vars

-----------------------------------------------------------------------------
(* Properties *)

\* A version names one commit: a published release, its tag and its manifest
\* list come from the same one, and there is no second release nor a draft beside
\* it, whichever runs computed the same tag and wherever they failed and were re-run
\* (the concurrency group, the check for an existing release and for leftover
\* drafts, verify_release_tag.sh).
OneCommitPerVersion ==
  \A p \in published :
    /\ \A x \in published \union tags \union manifests : x.tag = p.tag => x.sha = p.sha
    /\ ~Has(drafts, p.tag)

\* Packages are out only for a version that was released, from its commit
\* (publish-packages needs release; the existing-release check fails closed).
PackagesMatchRelease ==
  \A k \in packages : Has(published, k.tag) /\ \A p \in published : p.tag = k.tag => p.sha = k.sha

\* The version a run goes on with was new when it was computed, and advances
\* what it continues (compute_next_version.py).
VersionAdvances ==
  [][\A r \in Runs :
       run[r].pc = "version" /\ run'[r].pc = "build" =>
         Advances(Names(tags), run[r].ask.bump, run'[r].tag)]_vars

\* docs/TEMPLATE.md: "A release that exists on GitHub counts as complete: whatever
\* failed after it is finished by re-running the failed jobs": while its packages
\* are missing, some run that is not over is still bound to that tag and commit.
NoOrphanRelease ==
  OptedIn => \A p \in published :
    Has(packages, p.tag) \/ \E r \in Runs : /\ Of(run[r].tag, run[r].sha) = p
                                          /\ run[r].pc \notin {"idle", "refused", "done"}
=============================================================================
