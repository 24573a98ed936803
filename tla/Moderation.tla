----------------------------- MODULE Moderation -----------------------------
(***************************************************************************)
(* The issue moderation pipeline (.github/workflows/moderate-*.yml and the *)
(* moderate_*.sh scripts) for one issue of one kind, bug or feature: the   *)
(* two kinds run the same scripts with other names.                        *)
(*                                                                         *)
(* Four workflows share the issue's concurrency group: triage, build (fix  *)
(* or build), cleanup, and "other", the triage workflow of the other kind, *)
(* which starts on every opened or reopened issue and skips its jobs.  The *)
(* group runs one job list at a time and keeps one pending run.            *)
(*                                                                         *)
(* A branch is the sequence of its commits, <<>> when it does not exist;   *)
(* Root is the default branch's head.  Labels are named for their stage:   *)
(* ready is bug:repro-ready or enhancement:plan-ready, done is bug:fixed   *)
(* or enhancement:built, info is bug:needs-info or enhancement:not-a-fit.  *)
(***************************************************************************)
EXTENDS Naturals, Sequences, SequencesExt

CONSTANTS
  MaxEvents,   \* bound on what people do to the issue
  MaxCommits,  \* bound on the commits made after Root
  Faults       \* what may go wrong: a subset of {"crash", "push", "delete"}

ASSUME ModerationAssumption ==
  MaxEvents \in Nat /\ MaxCommits \in Nat /\ Faults \subseteq {"crash", "push", "delete"}

VARIABLES
  enabled,    \* the API key is set and the issue is trusted
  open,       \* the issue is open
  labels,     \* the stage labels on it
  tip,        \* the issue's branch on the remote
  pr,         \* an open pull request for the branch exists
  onDefault,  \* the commits merged into the default branch
  group,      \* the concurrency group: run, pending, and history of lost runs
  offered,    \* history: a pull request was offered since the last (re)open
  deleted,    \* history: somebody else deleted the branch
  commits,    \* number of commits made
  events      \* number of people's actions

people == <<open, events>>
repo == <<tip, pr, onDefault, commits>>
history == <<offered, deleted>>
vars == <<enabled, people, labels, repo, group, history>>

StageLabels == {"info", "ready", "confirm", "done", "needs-human"}
Tasks == {"triage", "build", "cleanup"}
Commits == [id : 0..MaxCommits, by : {"bot", "human"}]
Root == [id |-> 0, by |-> "human"]

None == [wf |-> "none", phase |-> "gate", result |-> "none", reopened |-> FALSE,
         ready |-> FALSE, base |-> <<>>, seen |-> <<>>]

\* A run: what its event carried (reopened, ready) and what it has found
\* out since.
IsRun(j) ==
  /\ j.wf \in Tasks \union {"other", "none"}
  /\ j.phase \in {"gate", "claude", "strip", "closePR", "deleteBranch", "apply",
                  "read", "push", "openPR", "label"}
  /\ j.result \in {"none", "branch", "info", "human", "failed", "missing", "built", "notbuilt"}
  /\ j.reopened \in BOOLEAN /\ j.ready \in BOOLEAN
  /\ Range(j.base) \union Range(j.seen) \subseteq Commits

\* The type of every variable.
TypeOK ==
  /\ {enabled, open, pr, offered, deleted} \subseteq BOOLEAN
  /\ labels \subseteq StageLabels
  /\ Range(tip) \union onDefault \subseteq Commits
  /\ IsRun(group.run) /\ IsRun(group.pending) /\ group.lost \subseteq Tasks
  /\ group.pending # None => group.run # None
  /\ commits \in 0..MaxCommits /\ events \in 0..MaxEvents

-----------------------------------------------------------------------------
(* The concurrency group *)

Run(wf, reopened) ==
  [None EXCEPT !.wf = wf, !.reopened = reopened, !.ready = "ready" \in labels,
               !.phase = IF wf = "cleanup" THEN "closePR" ELSE "gate"]

\* A newer pending run takes the place of an older one.  lost remembers the
\* tasks whose latest event was displaced, or died, without having its effect.
Arrive(g, j) ==
  IF g.run = None
  THEN [g EXCEPT !.run = j, !.lost = @ \ {j.wf}]
  ELSE [g EXCEPT !.pending = j,
                 !.lost = ((@ \union {g.pending.wf}) \ {j.wf}) \intersect Tasks]

\* Mutant: the group starts nothing when a run ends.
EndsWithoutSuccessor(g) == [g EXCEPT !.run = None]

\* The run ends and the pending one starts.
Ended(g) == [g EXCEPT !.run = g.pending, !.pending = None]

run == group.run
Idle == run = None

At(wf, phase) == run.wf = wf /\ run.phase = phase
Continue(j) == group' = [group EXCEPT !.run = j]
Finish == group' = Ended(group)

Init ==
  /\ enabled \in BOOLEAN
  /\ open = TRUE /\ labels = {}
  /\ tip = <<>> /\ pr = FALSE /\ onDefault = {Root}
  /\ offered = FALSE /\ deleted = FALSE
  /\ commits = 0 /\ events = 0
  /\ LET new(a, b) == Arrive(Arrive([run |-> None, pending |-> None, lost |-> {}],
                                    Run(a, FALSE)), Run(b, FALSE))
     IN  group \in {new("triage", "other"), new("other", "triage")}

-----------------------------------------------------------------------------
(* What people do *)

Event == events < MaxEvents /\ events' = events + 1

\* An issue is closed: moderate-cleanup.yml starts.
CloseIssue ==
  /\ Event /\ open
  /\ open' = FALSE
  /\ group' = Arrive(group, Run("cleanup", FALSE))
  /\ UNCHANGED <<enabled, labels, repo, history>>

\* An issue is reopened: both triage workflows start, in either order.
ReopenIssue ==
  /\ Event /\ ~open
  /\ open' = TRUE
  /\ group' \in {Arrive(Arrive(group, Run("triage", TRUE)), Run("other", TRUE)),
                 Arrive(Arrive(group, Run("other", TRUE)), Run("triage", TRUE))}
  /\ offered' = FALSE
  /\ UNCHANGED <<enabled, labels, repo, deleted>>

\* A maintainer adds the confirm label.
Confirm ==
  /\ Event /\ "confirm" \notin labels
  /\ labels' = labels \union {"confirm"}
  /\ group' = Arrive(group, Run("build", FALSE))
  /\ UNCHANGED <<enabled, open, repo, history>>

\* A maintainer takes the confirm label off again; a queued run stays queued.
Retract ==
  /\ Event /\ "confirm" \in labels
  /\ labels' = labels \ {"confirm"}
  /\ UNCHANGED <<enabled, open, repo, group, history>>

NewCommit(who) == [id |-> commits + 1, by |-> who]
Commit == commits < MaxCommits /\ commits' = commits + 1

\* Somebody pushes to the branch: on top of it, or a line of their own.
ForeignPush ==
  /\ "push" \in Faults
  /\ Event /\ Commit
  /\ tip # <<>>
  /\ tip' \in {Append(tip, NewCommit("human")), <<NewCommit("human")>>}
  /\ UNCHANGED <<enabled, open, labels, pr, onDefault, group, history>>

\* Somebody deletes the branch, which closes its pull request.
ForeignDelete ==
  /\ "delete" \in Faults
  /\ Event
  /\ tip # <<>>
  /\ tip' = <<>> /\ pr' = FALSE /\ deleted' = TRUE
  /\ UNCHANGED <<enabled, open, labels, onDefault, group, commits, offered>>

\* A maintainer merges the pull request, which closes the issue it fixes, or
\* closes it unmerged.
MergePR ==
  /\ Event /\ pr
  /\ pr' = FALSE
  /\ onDefault' = onDefault \union Range(tip)
  /\ open' = FALSE
  /\ group' = IF open THEN Arrive(group, Run("cleanup", FALSE)) ELSE group
  /\ UNCHANGED <<enabled, labels, tip, commits, history>>

ClosePR ==
  /\ Event /\ pr
  /\ pr' = FALSE
  /\ UNCHANGED <<enabled, open, labels, tip, onDefault, commits, group, history>>

-----------------------------------------------------------------------------
(* Cleanup, alone or as the reset of a reopened issue *)

\* moderate_cleanup.sh closes the branch's open pull request ...
CleanupPR ==
  /\ run.phase = "closePR"
  /\ pr' = FALSE
  /\ Continue([run EXCEPT !.phase = "deleteBranch"])
  /\ UNCHANGED <<enabled, people, labels, tip, onDefault, commits, history>>

\* Mutant: the branch is left for somebody else to delete.
CleanupKeepsBranch ==
  /\ run.phase = "deleteBranch"
  /\ IF run.wf = "cleanup" THEN Finish ELSE Continue([run EXCEPT !.phase = "apply"])
  /\ UNCHANGED <<enabled, people, labels, repo, history>>

\* ... and deletes the branch.
CleanupBranch ==
  /\ run.phase = "deleteBranch"
  /\ tip' = <<>> /\ pr' = FALSE
  /\ IF run.wf = "cleanup" THEN Finish ELSE Continue([run EXCEPT !.phase = "apply"])
  /\ UNCHANGED <<enabled, people, labels, onDefault, commits, history>>

-----------------------------------------------------------------------------
(* Triage *)

\* The triage workflow of the other kind: its gate runs, the rest is skipped.
OtherTriage ==
  /\ run.wf = "other"
  /\ Finish
  /\ UNCHANGED <<enabled, people, labels, repo, history>>

TriageGate ==
  /\ At("triage", "gate")
  /\ IF enabled THEN Continue([run EXCEPT !.phase = "claude", !.base = <<Root>>]) ELSE Finish
  /\ UNCHANGED <<enabled, people, labels, repo, history>>

\* The Claude job ends, in time or not, and packages an action, or dies before
\* it can; the apply job downloads what there is.
Triage ==
  /\ At("triage", "claude")
  /\ \E r \in {"branch", "info", "human", "failed", "missing"} :
       Continue([run EXCEPT !.result = r, !.phase = IF run.reopened THEN "strip" ELSE "apply"])
  /\ UNCHANGED <<enabled, people, labels, repo, history>>

\* Mutant: reset_issue_state.sh's list misses a label.
ForgetsDone ==
  /\ At("triage", "strip")
  /\ labels' = labels \intersect {"done"}
  /\ Continue([run EXCEPT !.phase = "closePR"])
  /\ UNCHANGED <<enabled, people, repo, history>>

\* reset_issue_state.sh strips every stage label.
ResetLabels ==
  /\ At("triage", "strip")
  /\ labels' = labels \ StageLabels
  /\ Continue([run EXCEPT !.phase = "closePR"])
  /\ UNCHANGED <<enabled, people, repo, history>>

\* Each removal is best effort: some labels may stay.
ResetLabelsFails ==
  /\ "crash" \in Faults
  /\ At("triage", "strip")
  /\ labels' \in SUBSET labels \ {{}}
  /\ group' = [group EXCEPT !.run.phase = "closePR", !.lost = @ \union {"triage"}]
  /\ UNCHANGED <<enabled, people, repo, history>>

\* No patch to apply: an answer or a needs-human note is posted and labelled;
\* a failing comment or label call ends in needs-human as well.
TriageAnswer ==
  /\ At("triage", "apply") /\ run.result \in {"info", "human", "failed"}
  /\ \E l \in {"needs-human"} \union (IF run.result = "info" THEN {"info"} ELSE {}) :
       labels' = labels \union {l}
  /\ Finish
  /\ UNCHANGED <<enabled, people, repo, history>>

TriageBranch ==
  /\ At("triage", "apply") /\ run.result = "branch"
  /\ Continue([run EXCEPT !.phase = "read"])
  /\ UNCHANGED <<enabled, people, labels, repo, history>>

-----------------------------------------------------------------------------
(* Build *)

\* Mutant: the label is consumed only by a run that goes on.
ConsumesOnlyWhenBuilding ==
  /\ At("build", "gate")
  /\ IF enabled /\ tip # <<>> /\ run.ready
     THEN Continue([run EXCEPT !.phase = "claude", !.base = tip]) /\ labels' = labels \ {"confirm"}
     ELSE Finish /\ UNCHANGED labels
  /\ UNCHANGED <<enabled, people, repo, history>>

\* The gate consumes the confirm label and pins the branch's tip; the rest is
\* skipped without a branch, a key, trust, or the ready label in the event.
BuildGate ==
  /\ At("build", "gate")
  /\ labels' = labels \ {"confirm"}
  /\ IF enabled /\ tip # <<>> /\ run.ready
     THEN Continue([run EXCEPT !.phase = "claude", !.base = tip])
     ELSE Finish
  /\ UNCHANGED <<enabled, people, repo, history>>

\* The Claude job ends with commits, without, or without an artifact.
Build ==
  /\ At("build", "claude")
  /\ \E r \in {"built", "notbuilt", "missing"} :
       Continue([run EXCEPT !.result = r, !.phase = "apply"])
  /\ UNCHANGED <<enabled, people, labels, repo, history>>

\* The apply job looks at the labels again: without ready there is nothing to do.
AlreadyProcessed ==
  /\ At("build", "apply") /\ run.result # "missing" /\ "ready" \notin labels
  /\ Finish
  /\ UNCHANGED <<enabled, people, labels, repo, history>>

NotBuilt ==
  /\ At("build", "apply") /\ run.result = "notbuilt" /\ "ready" \in labels
  /\ labels' = labels \union {"needs-human"}
  /\ Finish
  /\ UNCHANGED <<enabled, people, repo, history>>

Built ==
  /\ At("build", "apply") /\ run.result = "built" /\ "ready" \in labels
  /\ Continue([run EXCEPT !.phase = "read"])
  /\ UNCHANGED <<enabled, people, labels, repo, history>>

\* An open pull request is reused, otherwise one is created.
OpenPR ==
  /\ At("build", "openPR") /\ tip # <<>>
  /\ pr' = TRUE /\ offered' = TRUE
  /\ Continue([run EXCEPT !.phase = "label"])
  /\ UNCHANGED <<enabled, people, labels, tip, onDefault, commits, deleted>>

-----------------------------------------------------------------------------
(* The apply jobs of triage and build *)

ReportNoResult ==
  /\ run.phase = "apply" /\ run.result = "missing"
  /\ labels' = labels \union {"needs-human"}
  /\ Finish
  /\ UNCHANGED <<enabled, people, repo, history>>

\* The base may be built on: it is part of the branch, or, without a branch,
\* of the default branch.
IsAncestor(base) == IF tip # <<>> THEN IsPrefix(base, tip) ELSE Range(base) \subseteq onDefault

\* git ls-remote reads the tip the push's lease will name.
ReadTip ==
  /\ run.phase = "read" /\ IsAncestor(run.base)
  /\ Continue([run EXCEPT !.phase = "push", !.seen = tip])
  /\ UNCHANGED <<enabled, people, labels, repo, history>>

AfterPush == IF run.wf = "triage" THEN "label" ELSE "openPR"

\* Mutant: git push --force, with no lease.
PushAnyway ==
  /\ run.phase = "push"
  /\ Commit
  /\ tip' = Append(run.base, NewCommit("bot"))
  /\ Continue([run EXCEPT !.phase = AfterPush])
  /\ UNCHANGED <<enabled, people, labels, pr, onDefault, history>>

\* git am on the base, the path check, and git push --force-with-lease.
Push ==
  /\ run.phase = "push" /\ tip = run.seen
  /\ Commit
  /\ tip' = Append(run.base, NewCommit("bot"))
  /\ Continue([run EXCEPT !.phase = AfterPush])
  /\ UNCHANGED <<enabled, people, labels, pr, onDefault, history>>

\* The stage label moves on in one edit.
Relabel ==
  /\ run.phase = "label"
  /\ labels' = IF run.wf = "triage" THEN labels \union {"ready"}
               ELSE (labels \ {"ready", "needs-human"}) \union {"done"}
  /\ Finish
  /\ UNCHANGED <<enabled, people, repo, history>>

\* Any git or gh call of these phases may fail: a patch that does not apply, a
\* path that is not allowed, a lease that no longer holds, a refused call.
ApplyFails ==
  /\ run.phase \in {"read", "push", "openPR", "label"}
  /\ labels' = labels \union {"needs-human"}
  /\ Finish
  /\ UNCHANGED <<enabled, people, repo, history>>

\* The runner dies, a job hits its time limit, or a call that is not guarded
\* fails: the run ends where it stands.
Crash ==
  /\ "crash" \in Faults
  /\ run.wf \in Tasks
  /\ group' = [Ended(group) EXCEPT !.lost = @ \union {run.wf}]
  /\ UNCHANGED <<enabled, people, labels, repo, history>>

-----------------------------------------------------------------------------
Automation ==
  \/ OtherTriage \/ TriageGate \/ Triage \/ ResetLabels \/ TriageAnswer \/ TriageBranch
  \/ CleanupPR \/ CleanupBranch
  \/ BuildGate \/ Build \/ AlreadyProcessed \/ NotBuilt \/ Built \/ OpenPR
  \/ ReportNoResult \/ ReadTip \/ Push \/ Relabel \/ ApplyFails

People == CloseIssue \/ ReopenIssue \/ Confirm \/ Retract \/ MergePR \/ ClosePR

Next == Automation \/ People \/ ForeignPush \/ ForeignDelete \/ Crash \/ ResetLabelsFails

Spec == Init /\ [][Next]_vars

\* Every job has a time limit, so a run that can go on does.
FairSpec == Spec /\ WF_vars(Automation)

-----------------------------------------------------------------------------
(* Properties *)

Staged == labels \intersect {"info", "ready", "done", "needs-human"} # {}

\* The labels are backed by work: a ready branch exists, a done issue got a
\* pull request since it was last opened.
Backed ==
  /\ "ready" \in labels => tip # <<>> \/ deleted
  /\ "done" \in labels => offered

\* Once its triage has run and the group is at rest, an open issue is never left
\* silently stuck (triage and apply jobs: every outcome ends in a label), and
\* what its labels announce exists, whatever was closed, reopened, confirmed,
\* pushed or cancelled in between.
OpenIssueSettles ==
  Idle /\ open /\ enabled /\ "triage" \notin group.lost => Staged /\ Backed

\* Once its cleanup has run and the group is at rest, a closed issue has no
\* branch and no open pull request (moderate_cleanup.sh), even when a triage or
\* a build was about to push when it was closed.
ClosedIssueIsClean ==
  Idle /\ ~open /\ "cleanup" \notin group.lost => tip = <<>> /\ ~pr

\* The apply scripts never discard somebody's commit unless it lay on top of the
\* commit the run built on and was there when the script read the tip: later
\* pushes and lines of foreign work survive (the lease and is_ancestor).
KeepsForeignWork ==
  [][\A c \in Range(tip) \ Range(tip') :
       c.by = "human" /\ tip' # <<>> /\ Last(tip').by = "bot"
         => /\ IsPrefix(run.base, tip)
            /\ c \in Range(run.seen)]_vars

\* A confirm label is in the end consumed, also by a run that fails or has nothing
\* to build (the gate takes it first), unless the run it queued was displaced or
\* died: no run waits in the group for ever.
ConfirmConsumed == ("confirm" \in labels) ~> ("confirm" \notin labels \/ "build" \in group.lost)

\* workflows/README.md: "Reopening restarts triage from scratch", "rather than
\* resuming stale state", whatever the group is doing when the issue is
\* reopened: at rest, no stage label outlives the work it stood for.
ReopeningRestartsTriage == Idle /\ open /\ enabled => Backed
=============================================================================
