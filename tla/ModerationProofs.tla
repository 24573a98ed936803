--------------------------- MODULE ModerationProofs ---------------------------
(***************************************************************************)
(* For any number of events, commits and faults: at rest, a closed issue   *)
(* whose cleanup was not lost has no branch and no pull request, an open   *)
(* one whose triage was not lost is labelled and backed by what its labels *)
(* announce, and no push of the automation discards foreign work it had    *)
(* not seen.                                                               *)
(***************************************************************************)
EXTENDS Moderation, SequenceTheorems, TLAPS

Phases == {"gate", "claude", "strip", "closePR", "deleteBranch", "apply",
           "read", "push", "openPR", "label"}
Results == {"none", "branch", "info", "human", "failed", "missing", "built", "notbuilt"}
Jobs == [wf : Tasks \union {"other", "none"}, phase : Phases, result : Results,
         reopened : BOOLEAN, ready : BOOLEAN, base : Seq(Commits), seen : Seq(Commits)]
Group == [run : Jobs, pending : Jobs, lost : SUBSET Tasks]

Typed ==
  /\ enabled \in BOOLEAN /\ open \in BOOLEAN /\ pr \in BOOLEAN
  /\ offered \in BOOLEAN /\ deleted \in BOOLEAN
  /\ labels \in SUBSET StageLabels
  /\ tip \in Seq(Commits) /\ onDefault \in SUBSET Commits
  /\ group \in Group
  /\ commits \in 0..MaxCommits /\ events \in 0..MaxEvents

pending == group.pending

\* A place of the group is empty or holds a run of a workflow; a pending run has
\* not begun, and is there only while another one goes on.
Places ==
  /\ run.wf = "none" => run = None
  /\ pending.wf = "none" => pending = None
  /\ run = None => pending = None
  /\ pending.wf = "cleanup" => pending.phase = "closePR"
  /\ pending.wf # "cleanup" => pending.phase = "gate"

\* The phases each workflow goes through.
Phased ==
  /\ run.wf = "cleanup" => run.phase \in {"closePR", "deleteBranch"}
  /\ run.wf = "other" => run.phase = "gate"
  /\ run.wf = "triage" => run.phase # "openPR"
  /\ run.wf = "build" => run.phase \notin {"strip", "closePR", "deleteBranch"}

\* The tip a push will replace continues its base, or there was none.
LeaseOnAncestor == run.phase = "push" => run.seen = <<>> \/ IsPrefix(run.base, run.seen)

\* Since an issue was closed: its cleanup waits, or goes on with nothing but a
\* build behind it, or has ended, and a build finds no branch at its gate.
ClosedStage ==
  ~open /\ "cleanup" \notin group.lost =>
    \/ pending.wf = "cleanup"
    \/ run.wf = "cleanup" /\ pending.wf \in {"none", "build"}
    \/ /\ run.wf \in {"none", "build"} /\ run.phase = "gate" /\ pending.wf \in {"none", "build"}
       /\ tip = <<>> /\ ~pr

Unlabelled == labels \subseteq {"confirm"}

\* A triage that goes on has stripped the labels, or will, or found none.
TriageStage ==
  /\ run.phase \in {"gate", "claude"} => run.reopened \/ Unlabelled
  /\ run.phase \notin {"gate", "claude", "strip"} => Unlabelled
  /\ run.phase = "label" => tip # <<>> \/ deleted

\* Since an issue was opened: its triage waits, or goes on, or has ended with
\* labels that builds keep true.
OpenStage ==
  open /\ enabled /\ "triage" \notin group.lost =>
    \/ /\ pending.wf = "triage"
       /\ pending.reopened \/ (run.wf = "other" /\ Unlabelled)
    \/ /\ run.wf = "triage" /\ pending.wf \in {"none", "other", "build"}
       /\ TriageStage
    \/ /\ run.wf \in {"none", "other", "build"} /\ pending.wf \in {"none", "other", "build"}
       /\ Staged /\ Backed
       /\ run.wf = "build" /\ run.phase = "label" => offered

\* The inductive invariant.
Inv ==
  /\ Typed
  /\ Places
  /\ Phased
  /\ LeaseOnAncestor
  /\ ClosedStage
  /\ OpenStage

-----------------------------------------------------------------------------
(* Runs and the group *)

LEMMA NoneFields ==
  /\ None \in Jobs /\ None.wf = "none" /\ None.phase = "gate"
  /\ None.base = <<>> /\ None.seen = <<>> /\ ~None.reopened
BY DEF None, Jobs, Phases, Results

LEMMA RunFields ==
  ASSUME NEW wf \in Tasks \union {"other"}, NEW reopened \in BOOLEAN
  PROVE  /\ Run(wf, reopened) \in Jobs
         /\ Run(wf, reopened).wf = wf /\ Run(wf, reopened).reopened = reopened
         /\ Run(wf, reopened).phase = IF wf = "cleanup" THEN "closePR" ELSE "gate"
<1>1. ("ready" \in labels) \in BOOLEAN
  OBVIOUS
<1>2. (IF wf = "cleanup" THEN "closePR" ELSE "gate") \in Phases
  BY DEF Phases
<1> QED
  BY <1>1, <1>2, NoneFields DEF Run, Jobs

\* What an arrival does to a group.
LEMMA ArriveFields ==
  ASSUME NEW g \in Group, NEW j \in Jobs, j.wf # "none"
  PROVE  LET h == Arrive(g, j)
         IN /\ h \in Group
            /\ g.run = None => h.run = j /\ h.pending = g.pending
            /\ g.run # None => h.run = g.run /\ h.pending = j
            /\ j.wf \notin h.lost
            /\ g.lost \ {j.wf} \subseteq h.lost
            /\ g.run # None /\ g.pending.wf \in Tasks /\ g.pending.wf # j.wf => g.pending.wf \in h.lost
<1>1. CASE g.run = None
  <2>1. Arrive(g, j) = [run |-> j, pending |-> g.pending, lost |-> g.lost \ {j.wf}]
    BY <1>1 DEF Arrive, Group
  <2> QED
    BY <1>1, <2>1 DEF Group
<1>2. CASE g.run # None
  <2>1. Arrive(g, j) = [run |-> g.run, pending |-> j,
                        lost |-> ((g.lost \union {g.pending.wf}) \ {j.wf}) \intersect Tasks]
    BY <1>2 DEF Arrive, Group
  <2>2. g.lost \subseteq Tasks
    BY DEF Group
  <2> QED
    BY <1>2, <2>1, <2>2 DEF Group
<1> QED
  BY <1>1, <1>2

LEMMA EndedFields ==
  ASSUME NEW g \in Group
  PROVE  /\ Ended(g) \in Group
         /\ Ended(g).run = g.pending /\ Ended(g).pending = None /\ Ended(g).lost = g.lost
BY NoneFields DEF Ended, Group

-----------------------------------------------------------------------------
LEMMA InitInv == Init => Inv
<1> SUFFICES ASSUME Init PROVE Inv
  OBVIOUS
<1> DEFINE empty == [run |-> None, pending |-> None, lost |-> {}]
           t == Run("triage", FALSE)
           o == Run("other", FALSE)
<1>1. empty \in Group /\ empty.run = None /\ empty.pending = None /\ empty.lost = {}
  BY NoneFields DEF Group
<1>2. /\ t \in Jobs /\ t.wf = "triage" /\ t.phase = "gate"
      /\ o \in Jobs /\ o.wf = "other" /\ o.phase = "gate"
  BY RunFields DEF Tasks
<1> HIDE DEF empty, t, o
<1>3. PICK a \in {t, o}, b \in {t, o} : a # b /\ group = Arrive(Arrive(empty, a), b)
  BY <1>2 DEF Init, empty, t, o
<1>4. a \in Jobs /\ b \in Jobs /\ a.wf # "none" /\ b.wf # "none" /\ a # None
  BY <1>2, NoneFields
<1>5. Arrive(empty, a) \in Group /\ Arrive(empty, a).run = a /\ Arrive(empty, a).pending = None
  BY <1>1, <1>4, ArriveFields
<1>6. group \in Group /\ group.run = a /\ group.pending = b
  BY <1>3, <1>4, <1>5, ArriveFields
<1>7. Typed
  <2>1. Root \in Commits /\ 0 \in 0..MaxEvents /\ 0 \in 0..MaxCommits
    BY ModerationAssumption DEF Commits, Root
  <2>2. tip \in Seq(Commits) /\ onDefault \in SUBSET Commits /\ labels \in SUBSET StageLabels
    BY <2>1 DEF Init
  <2>3. /\ enabled \in BOOLEAN /\ open \in BOOLEAN /\ pr \in BOOLEAN
        /\ offered \in BOOLEAN /\ deleted \in BOOLEAN
    BY DEF Init
  <2>4. commits \in 0..MaxCommits /\ events \in 0..MaxEvents
    BY <2>1 DEF Init
  <2> QED
    BY <1>6, <2>2, <2>3, <2>4 DEF Typed
<1>8. Places /\ Phased /\ LeaseOnAncestor
  BY <1>2, <1>4, <1>6 DEF Places, Phased, LeaseOnAncestor, run, pending
<1>9. ClosedStage /\ OpenStage
  <2>1. open /\ Unlabelled
    BY DEF Init, Unlabelled
  <2>2. CASE a = t /\ b = o
    BY <1>2, <1>6, <2>1, <2>2 DEF ClosedStage, OpenStage, TriageStage, run, pending
  <2>3. CASE a = o /\ b = t
    BY <1>2, <1>6, <2>1, <2>3 DEF ClosedStage, OpenStage, run, pending
  <2> QED
    BY <1>3, <2>2, <2>3
<1> QED
  BY <1>7, <1>8, <1>9 DEF Inv

-----------------------------------------------------------------------------
\* A run goes on.  A build past its gate shows that the issue's cleanup is not over.
LEMMA GoOnInv ==
  ASSUME Inv, NEW j \in Jobs, Continue(j), j.wf = run.wf, run.wf \in Tasks,
         Typed', UNCHANGED <<enabled, people>>, Phased', LeaseOnAncestor',
         j.reopened = run.reopened,
         run.wf = "build" => run.phase # "gate" \/ tip # <<>>,
         run.wf = "triage" /\ TriageStage => TriageStage',
         run.wf = "build" /\ Staged /\ Backed => Staged' /\ Backed' /\ (j.phase = "label" => offered')
  PROVE  Inv'
<1>1. /\ run' = j /\ pending' = pending /\ group'.lost = group.lost
  BY DEF Inv, Typed, Group, Continue, run, pending
<1>2. Places'
  BY <1>1, NoneFields DEF Inv, Places, Tasks
<1>3. ClosedStage'
  BY <1>1 DEF Inv, ClosedStage, people, Tasks
<1>4. OpenStage'
  BY <1>1 DEF Inv, OpenStage, people, Tasks
<1> QED
  BY <1>2, <1>3, <1>4 DEF Inv

\* A run ends and the pending one takes its place; lost may grow by its task.
LEMMA EndInv ==
  ASSUME Inv, run.wf # "none",
         group'.run = pending, group'.pending = None, group' \in Group,
         group'.lost = group.lost \/ group'.lost = group.lost \union {run.wf},
         labels' \in SUBSET StageLabels, tip' \in Seq(Commits), pr' \in BOOLEAN,
         UNCHANGED <<enabled, people, onDefault, commits, history>>,
         run.wf # "cleanup" => UNCHANGED <<tip, pr>>,
         run.wf = "cleanup" /\ "cleanup" \notin group'.lost => tip' = <<>> /\ ~pr',
         run.wf = "other" => UNCHANGED labels,
         run.wf = "triage" /\ "triage" \notin group'.lost /\ enabled /\ TriageStage =>
           Staged' /\ Backed',
         run.wf = "build" /\ Staged /\ Backed /\ (run.phase = "label" => offered) =>
           Staged' /\ Backed'
  PROVE  Inv'
<1>1. run' = pending /\ pending' = None /\ group.lost \subseteq group'.lost
  BY DEF run, pending
<1>2. Typed'
  BY DEF Inv, Typed, people, history
<1>3. run'.wf = "none" => run' = None
  BY <1>1 DEF Inv, Places
<1>4. /\ run'.wf = "cleanup" => run'.phase = "closePR"
      /\ run'.wf # "cleanup" => run'.phase = "gate"
  BY <1>1 DEF Inv, Places
<1>5. Places'
  BY <1>1, <1>3, NoneFields DEF Places
<1>6. Phased' /\ LeaseOnAncestor'
  BY <1>4 DEF Phased, LeaseOnAncestor
<1>7. run.wf \in {"triage", "build", "cleanup", "other"} /\ pending.wf \in Tasks \union {"other", "none"}
  BY DEF Inv, Typed, Group, Jobs, run, pending, Tasks
<1>8. ClosedStage'
  <2> SUFFICES ASSUME ~open, "cleanup" \notin group'.lost PROVE ClosedStage'
    BY DEF ClosedStage, people
  <2>1. "cleanup" \notin group.lost /\ pending'.wf = "none"
    BY <1>1, NoneFields
  <2>2. CASE pending.wf = "cleanup"
    BY <1>1, <2>1, <2>2 DEF ClosedStage
  <2>3. CASE run.wf = "cleanup" /\ pending.wf \in {"none", "build"}
    BY <1>1, <1>4, <2>1, <2>3 DEF ClosedStage
  <2>4. CASE /\ run.wf \in {"none", "build"} /\ pending.wf \in {"none", "build"}
             /\ tip = <<>> /\ ~pr
    BY <1>1, <1>4, <1>7, <2>1, <2>4 DEF ClosedStage
  <2> QED
    BY <2>1, <2>2, <2>3, <2>4 DEF Inv, ClosedStage
<1>9. OpenStage'
  <2> SUFFICES ASSUME open, enabled, "triage" \notin group'.lost PROVE OpenStage'
    BY DEF OpenStage, people
  <2>1. "triage" \notin group.lost /\ pending'.wf = "none"
    BY <1>1, NoneFields
  <2>2. CASE pending.wf = "triage"
    <3>1. pending.reopened \/ (run.wf = "other" /\ Unlabelled)
      BY <2>1, <2>2 DEF Inv, OpenStage
    <3>2. run'.reopened \/ Unlabelled'
      BY <1>1, <3>1 DEF Unlabelled
    <3> QED
      BY <1>1, <1>4, <2>1, <2>2, <3>2 DEF OpenStage, TriageStage
  <2>3. CASE run.wf = "triage" /\ pending.wf \in {"none", "other", "build"} /\ TriageStage
    BY <1>1, <1>4, <2>1, <2>3 DEF OpenStage
  <2>4. CASE /\ run.wf \in {"none", "other", "build"} /\ pending.wf \in {"none", "other", "build"}
             /\ Staged /\ Backed /\ (run.wf = "build" /\ run.phase = "label" => offered)
    <3>1. Staged' /\ Backed'
      <4>1. CASE run.wf = "other"
        BY <2>4, <4>1 DEF Staged, Backed, history
      <4>2. CASE run.wf = "build"
        BY <2>4, <4>2
      <4> QED
        BY <2>4, <4>1, <4>2
    <3> QED
      BY <1>1, <1>4, <2>1, <2>4, <3>1 DEF OpenStage
  <2> QED
    BY <2>1, <2>2, <2>3, <2>4 DEF Inv, OpenStage
<1> QED
  BY <1>2, <1>5, <1>6, <1>8, <1>9 DEF Inv

LEMMA Typing ==
  ASSUME Inv
  PROVE  /\ run \in Jobs /\ pending \in Jobs /\ group \in Group
         /\ run.wf = "none" => run.phase = "gate"
         /\ labels \in SUBSET StageLabels /\ tip \in Seq(Commits) /\ pr \in BOOLEAN
         /\ Finish => /\ group' \in Group /\ group'.run = pending /\ group'.pending = None
                      /\ group'.lost = group.lost
<1>1. group \in Group
  BY DEF Inv, Typed
<1>2. Finish => /\ group' \in Group /\ group'.run = pending /\ group'.pending = None
                /\ group'.lost = group.lost
  BY <1>1, EndedFields DEF Finish, pending
<1>3. run.wf = "none" => run.phase = "gate"
  BY NoneFields DEF Inv, Places
<1> QED
  BY <1>1, <1>2, <1>3 DEF Inv, Typed, Group, run, pending

LEMMA OtherTriageInv == Inv /\ OtherTriage => Inv'
<1> SUFFICES ASSUME Inv, OtherTriage PROVE Inv'
  OBVIOUS
<1> QED
  BY Typing, EndInv DEF OtherTriage, repo

\* A run that goes on keeps its workflow.
LEMMA GoneOn ==
  ASSUME Inv, NEW j \in Jobs, Continue(j),
         UNCHANGED <<enabled, people>>, labels' \in SUBSET StageLabels, tip' \in Seq(Commits),
         pr' \in BOOLEAN, offered' \in BOOLEAN, UNCHANGED <<onDefault, deleted>>,
         commits' \in 0..MaxCommits
  PROVE  Typed' /\ run' = j
BY DEF Inv, Typed, Continue, Group, people, run

LEMMA TriageGateInv == Inv /\ TriageGate => Inv'
<1> SUFFICES ASSUME Inv, TriageGate PROVE Inv'
  OBVIOUS
<1>1. CASE ~enabled
  BY <1>1, Typing, EndInv DEF TriageGate, At, repo
<1>2. CASE enabled
  <2> DEFINE j == [run EXCEPT !.phase = "claude", !.base = <<Root>>]
  <2>1. <<Root>> \in Seq(Commits) /\ "claude" \in Phases
    BY ModerationAssumption DEF Root, Commits, Phases
  <2>2. /\ j \in Jobs /\ j.wf = run.wf /\ j.phase = "claude" /\ j.reopened = run.reopened
    BY <2>1, Typing DEF Jobs
  <2>3. Continue(j) /\ run.wf = "triage" /\ run.phase = "gate"
    BY <1>2 DEF TriageGate, At
  <2> HIDE DEF j
  <2>4. Typed' /\ run' = j
    BY <2>2, <2>3, GoneOn, Typing DEF Inv, Typed, TriageGate, repo, history
  <2>5. Phased' /\ LeaseOnAncestor' /\ (TriageStage => TriageStage')
    BY <2>2, <2>3, <2>4 DEF TriageGate, Phased, LeaseOnAncestor, TriageStage, Unlabelled
  <2> QED
    BY <2>2, <2>3, <2>4, <2>5, GoOnInv DEF TriageGate, Tasks
<1> QED
  BY <1>1, <1>2 DEF Inv, Typed

LEMMA TriageInv == Inv /\ (Triage \/ ResetLabels \/ TriageBranch) => Inv'
<1> SUFFICES ASSUME Inv, Triage \/ ResetLabels \/ TriageBranch PROVE Inv'
  OBVIOUS
<1>1. PICK ph \in {"strip", "apply", "closePR", "read"}, res \in Results :
        /\ run.wf = "triage" /\ Continue([run EXCEPT !.phase = ph, !.result = res])
        /\ ph = "strip" => run.phase = "claude" /\ run.reopened
        /\ ph = "apply" => run.phase = "claude" /\ ~run.reopened
        /\ ph = "closePR" => run.phase = "strip" /\ labels' = labels \ StageLabels
        /\ ph = "read" => run.phase = "apply"
        /\ ph # "closePR" => UNCHANGED labels
        /\ UNCHANGED <<enabled, people, repo, history>>
  <2>1. CASE Triage
    <3>1. PICK r \in {"branch", "info", "human", "failed", "missing"} :
            Continue([run EXCEPT !.result = r, !.phase = IF run.reopened THEN "strip" ELSE "apply"])
      BY <2>1 DEF Triage
    <3>2. r \in Results /\ run \in Jobs
      BY Typing DEF Results
    <3>3. [run EXCEPT !.result = r, !.phase = IF run.reopened THEN "strip" ELSE "apply"]
            = [run EXCEPT !.phase = IF run.reopened THEN "strip" ELSE "apply", !.result = r]
      BY <3>2 DEF Jobs
    <3>4. CASE run.reopened
      BY <2>1, <3>1, <3>2, <3>3, <3>4 DEF Triage, At
    <3>5. CASE ~run.reopened
      BY <2>1, <3>1, <3>2, <3>3, <3>5 DEF Triage, At
    <3> QED
      BY <3>4, <3>5
  <2>2. run \in Jobs /\ run.result \in Results
    BY Typing DEF Jobs
  <2>3. \A ph \in Phases : [run EXCEPT !.phase = ph] = [run EXCEPT !.phase = ph, !.result = run.result]
    BY <2>2 DEF Jobs
  <2>4. CASE ResetLabels
    BY <2>2, <2>3, <2>4 DEF ResetLabels, At, Phases
  <2>5. CASE TriageBranch
    BY <2>2, <2>3, <2>5 DEF TriageBranch, At, Phases
  <2> QED
    BY <2>1, <2>4, <2>5
<1> DEFINE j == [run EXCEPT !.phase = ph, !.result = res]
<1>2. /\ j \in Jobs /\ j.wf = run.wf /\ j.phase = ph /\ j.reopened = run.reopened
  BY Typing DEF Jobs, Phases
<1>3. Continue(j)
  BY <1>1
<1> HIDE DEF j
<1>4. Typed' /\ run' = j
  BY <1>1, <1>2, <1>3, GoneOn, Typing DEF Inv, Typed, repo, history
<1>5. Phased' /\ LeaseOnAncestor'
  BY <1>1, <1>2, <1>4 DEF Phased, LeaseOnAncestor
<1>6. TriageStage => TriageStage'
  BY <1>1, <1>2, <1>4, Typing DEF TriageStage, Unlabelled
<1> QED
  BY <1>1, <1>2, <1>3, <1>4, <1>5, <1>6, GoOnInv DEF Tasks

LEMMA ResetLabelsFailsInv == Inv /\ ResetLabelsFails => Inv'
<1> SUFFICES ASSUME Inv, ResetLabelsFails PROVE Inv'
  OBVIOUS
<1>1. /\ run.wf = "triage" /\ run \in Jobs /\ group \in Group
      /\ labels' \in SUBSET StageLabels
      /\ group' = [group EXCEPT !.run = [run EXCEPT !.phase = "closePR"], !.lost = @ \union {"triage"}]
  BY Typing DEF ResetLabelsFails, At, run
<1>2. /\ group' \in Group /\ group'.pending = pending
      /\ group'.lost = group.lost \union {"triage"}
      /\ group'.run \in Jobs /\ group'.run.phase = "closePR" /\ group'.run.wf = "triage"
  BY <1>1 DEF Group, Jobs, Phases, Tasks, pending
<1>3. Typed'
  BY <1>1, <1>2 DEF Inv, Typed, ResetLabelsFails, people, repo, history
<1>4. Places' /\ Phased' /\ LeaseOnAncestor'
  BY <1>1, <1>2, NoneFields DEF Inv, Places, Phased, LeaseOnAncestor, run, pending
<1>5. ClosedStage'
  BY <1>1, <1>2 DEF Inv, ClosedStage, ResetLabelsFails, people, repo, run, pending
<1>6. OpenStage'
  BY <1>2 DEF OpenStage
<1> QED
  BY <1>3, <1>4, <1>5, <1>6 DEF Inv

\* Whatever ends a triage before its branch, it leaves a label.
LEMMA TriageAnswerInv == Inv /\ TriageAnswer => Inv'
<1> SUFFICES ASSUME Inv, TriageAnswer PROVE Inv'
  OBVIOUS
<1>1. /\ run.wf = "triage" /\ run.phase = "apply" /\ Finish
      /\ UNCHANGED <<enabled, people, repo, history>>
  BY DEF TriageAnswer, At
<1>2. PICK l \in {"needs-human", "info"} : labels' = labels \union {l}
  BY DEF TriageAnswer
<1>3. labels' \in SUBSET StageLabels
  BY <1>2, Typing DEF StageLabels
<1>4. TriageStage => Staged' /\ Backed'
  BY <1>1, <1>2 DEF TriageStage, Unlabelled, Staged, Backed
<1> QED
  BY <1>1, <1>3, <1>4, Typing, EndInv DEF repo

LEMMA CleanupPRInv == Inv /\ CleanupPR => Inv'
<1> SUFFICES ASSUME Inv, CleanupPR PROVE Inv'
  OBVIOUS
<1> DEFINE j == [run EXCEPT !.phase = "deleteBranch"]
<1>1. /\ j \in Jobs /\ j.wf = run.wf /\ j.phase = "deleteBranch" /\ j.reopened = run.reopened
  BY Typing DEF Jobs, Phases
<1>2. Continue(j) /\ run.phase = "closePR" /\ ~pr'
      /\ UNCHANGED <<enabled, people, labels, tip, onDefault, commits, history>>
  BY DEF CleanupPR
<1>3. run.wf \in {"triage", "cleanup"}
  BY <1>2, Typing DEF Inv, Phased, Jobs, Tasks
<1> HIDE DEF j
<1>4. Typed' /\ run' = j
  BY <1>1, <1>2, GoneOn, Typing DEF Inv, Typed, CleanupPR, history
<1>5. Phased' /\ LeaseOnAncestor' /\ (TriageStage => TriageStage')
  BY <1>1, <1>2, <1>3, <1>4 DEF Phased, LeaseOnAncestor, TriageStage, Unlabelled
<1> QED
  BY <1>1, <1>2, <1>3, <1>4, <1>5, GoOnInv DEF Tasks

LEMMA CleanupBranchInv == Inv /\ CleanupBranch => Inv'
<1> SUFFICES ASSUME Inv, CleanupBranch PROVE Inv'
  OBVIOUS
<1>1. /\ run.phase = "deleteBranch" /\ tip' = <<>> /\ ~pr'
      /\ UNCHANGED <<enabled, people, labels, onDefault, commits, history>>
  BY DEF CleanupBranch
<1>1a. tip' \in Seq(Commits) /\ pr' \in BOOLEAN
  <2>1. tip' \in Seq(Commits)
    BY <1>1
  <2>2. pr' \in BOOLEAN
    BY DEF CleanupBranch
  <2> QED
    BY <2>1, <2>2
<1>2. run.wf \in {"triage", "cleanup"}
  BY <1>1, Typing DEF Inv, Phased, Jobs, Tasks
<1>3. CASE run.wf = "cleanup"
  BY <1>1, <1>1a, <1>3, Typing, EndInv DEF CleanupBranch
<1>4. CASE run.wf = "triage"
  <2> DEFINE j == [run EXCEPT !.phase = "apply"]
  <2>1. /\ j \in Jobs /\ j.wf = run.wf /\ j.phase = "apply" /\ j.reopened = run.reopened
    BY Typing DEF Jobs, Phases
  <2>2. Continue(j)
    BY <1>4 DEF CleanupBranch
  <2> HIDE DEF j
  <2>3. Typed' /\ run' = j
    BY <1>1, <1>1a, <2>1, <2>2, GoneOn, Typing DEF Inv, Typed, history
  <2>4. Phased' /\ LeaseOnAncestor' /\ (TriageStage => TriageStage')
    BY <1>1, <1>4, <2>1, <2>3 DEF Phased, LeaseOnAncestor, TriageStage, Unlabelled
  <2> QED
    BY <1>1, <1>4, <2>1, <2>2, <2>3, <2>4, GoOnInv DEF Tasks
<1> QED
  BY <1>2, <1>3, <1>4

-----------------------------------------------------------------------------
(* Build *)

LEMMA BuildGateInv == Inv /\ BuildGate => Inv'
<1> SUFFICES ASSUME Inv, BuildGate PROVE Inv'
  OBVIOUS
<1>1. /\ run.wf = "build" /\ run.phase = "gate" /\ labels' = labels \ {"confirm"}
      /\ UNCHANGED <<enabled, people, repo, history>>
      /\ labels' \in SUBSET StageLabels
  BY Typing DEF BuildGate, At
<1>2. Staged /\ Backed => Staged' /\ Backed'
  BY <1>1 DEF Staged, Backed, repo, history
<1>3. CASE enabled /\ tip # <<>> /\ run.ready
  <2> DEFINE j == [run EXCEPT !.phase = "claude", !.base = tip]
  <2>1. /\ j \in Jobs /\ j.wf = run.wf /\ j.phase = "claude" /\ j.reopened = run.reopened
    BY Typing DEF Jobs, Phases
  <2>2. Continue(j)
    BY <1>3 DEF BuildGate
  <2> HIDE DEF j
  <2>3. Typed' /\ run' = j
    BY <1>1, <2>1, <2>2, GoneOn, Typing DEF Inv, Typed, repo, history
  <2>4. Phased' /\ LeaseOnAncestor'
    BY <1>1, <2>1, <2>3 DEF Phased, LeaseOnAncestor
  <2> QED
    BY <1>1, <1>2, <1>3, <2>1, <2>2, <2>3, <2>4, GoOnInv DEF Tasks
<1>4. CASE ~(enabled /\ tip # <<>> /\ run.ready)
  <2>1. Finish
    BY <1>4 DEF BuildGate
  <2> QED
    BY <1>1, <1>2, <2>1, Typing, EndInv DEF repo
<1> QED
  BY <1>3, <1>4

LEMMA BuildInv == Inv /\ (Build \/ Built \/ OpenPR) => Inv'
<1> SUFFICES ASSUME Inv, Build \/ Built \/ OpenPR PROVE Inv'
  OBVIOUS
<1>1. PICK ph \in {"apply", "read", "label"}, res \in Results :
        /\ run.wf = "build" /\ run.phase # "gate"
        /\ Continue([run EXCEPT !.phase = ph, !.result = res])
        /\ ph = "label" => pr' = TRUE /\ offered' = TRUE /\ UNCHANGED deleted
        /\ ph # "label" => UNCHANGED <<pr, history>>
        /\ UNCHANGED <<enabled, people, labels, tip, onDefault, commits>>
  <2>1. CASE Build
    <3>1. PICK r \in {"built", "notbuilt", "missing"} :
            Continue([run EXCEPT !.result = r, !.phase = "apply"])
      BY <2>1 DEF Build
    <3>2. r \in Results /\ run \in Jobs
      BY Typing DEF Results
    <3>3. [run EXCEPT !.result = r, !.phase = "apply"] = [run EXCEPT !.phase = "apply", !.result = r]
      BY <3>2 DEF Jobs
    <3> QED
      BY <2>1, <3>1, <3>2, <3>3 DEF Build, At, repo
  <2>2. run \in Jobs /\ run.result \in Results
    BY Typing DEF Jobs
  <2>3. \A ph \in Phases : [run EXCEPT !.phase = ph] = [run EXCEPT !.phase = ph, !.result = run.result]
    BY <2>2 DEF Jobs
  <2>4. CASE Built
    BY <2>2, <2>3, <2>4 DEF Built, At, Phases, repo
  <2>5. CASE OpenPR
    BY <2>2, <2>3, <2>5 DEF OpenPR, At, Phases
  <2> QED
    BY <2>1, <2>4, <2>5
<1> DEFINE j == [run EXCEPT !.phase = ph, !.result = res]
<1>2. /\ j \in Jobs /\ j.wf = run.wf /\ j.phase = ph /\ j.reopened = run.reopened
  BY Typing DEF Jobs, Phases
<1>3. Continue(j)
  BY <1>1
<1> HIDE DEF j
<1>4. pr' \in BOOLEAN /\ offered' \in BOOLEAN /\ UNCHANGED deleted
  BY <1>1 DEF Inv, Typed, history
<1>5. Typed' /\ run' = j
  BY <1>1, <1>2, <1>3, <1>4, GoneOn, Typing DEF Inv, Typed
<1>6. Phased' /\ LeaseOnAncestor'
  BY <1>1, <1>2, <1>5 DEF Phased, LeaseOnAncestor
<1>7. Staged /\ Backed => Staged' /\ Backed' /\ (j.phase = "label" => offered')
  BY <1>1, <1>2 DEF Staged, Backed, history
<1> QED
  BY <1>1, <1>2, <1>3, <1>5, <1>6, <1>7, GoOnInv DEF Tasks

\* A build that ends leaves labels that are still backed.
LEMMA BuildEndsInv == Inv /\ (AlreadyProcessed \/ NotBuilt) => Inv'
<1> SUFFICES ASSUME Inv, AlreadyProcessed \/ NotBuilt PROVE Inv'
  OBVIOUS
<1>1. /\ run.wf = "build" /\ run.phase = "apply" /\ Finish
      /\ labels' = labels \/ labels' = labels \union {"needs-human"}
      /\ UNCHANGED <<enabled, people, repo, history>>
  BY DEF AlreadyProcessed, NotBuilt, At
<1>2. labels' \in SUBSET StageLabels
  BY <1>1, Typing DEF StageLabels
<1>3. Staged /\ Backed => Staged' /\ Backed'
  BY <1>1 DEF Staged, Backed, repo, history
<1> QED
  BY <1>1, <1>2, <1>3, Typing, EndInv DEF repo

-----------------------------------------------------------------------------
(* The apply jobs *)

\* Whatever ends an apply job, it leaves a label.
LEMMA ApplyEndsInv == Inv /\ (ReportNoResult \/ ApplyFails \/ Relabel) => Inv'
<1> SUFFICES ASSUME Inv, ReportNoResult \/ ApplyFails \/ Relabel PROVE Inv'
  OBVIOUS
<1>1. /\ run.phase \in {"apply", "read", "push", "openPR", "label"} /\ Finish
      /\ UNCHANGED <<enabled, people, repo, history>>
      /\ \/ labels' = labels \union {"needs-human"}
         \/ run.phase = "label" /\ run.wf = "triage" /\ labels' = labels \union {"ready"}
         \/ run.phase = "label" /\ run.wf # "triage"
            /\ labels' = (labels \ {"ready", "needs-human"}) \union {"done"}
  BY DEF ReportNoResult, ApplyFails, Relabel
<1>2. run.wf \in {"triage", "build"}
  BY <1>1, Typing DEF Inv, Phased, Jobs, Tasks
<1>3. labels' \in SUBSET StageLabels
  BY <1>1, Typing DEF StageLabels
<1>4. ASSUME run.wf = "triage", TriageStage PROVE Staged' /\ Backed'
  BY <1>1, <1>4 DEF TriageStage, Unlabelled, Staged, Backed, repo, history
<1>5. ASSUME run.wf = "build", Staged, Backed, run.phase = "label" => offered
      PROVE  Staged' /\ Backed'
  BY <1>1, <1>5 DEF Staged, Backed, repo, history
<1> QED
  BY <1>1, <1>2, <1>3, <1>4, <1>5, Typing, EndInv DEF repo

LEMMA ReadTipInv == Inv /\ ReadTip => Inv'
<1> SUFFICES ASSUME Inv, ReadTip PROVE Inv'
  OBVIOUS
<1> DEFINE j == [run EXCEPT !.phase = "push", !.seen = tip]
<1>1. /\ j \in Jobs /\ j.wf = run.wf /\ j.phase = "push" /\ j.reopened = run.reopened
      /\ j.seen = tip /\ j.base = run.base
  BY Typing DEF Jobs, Phases
<1>2. /\ Continue(j) /\ run.phase = "read" /\ IsAncestor(run.base)
      /\ UNCHANGED <<enabled, people, labels, repo, history>>
  BY DEF ReadTip
<1>3. run.wf \in {"triage", "build"}
  BY <1>2, Typing DEF Inv, Phased, Jobs, Tasks
<1>4. tip = <<>> \/ IsPrefix(run.base, tip)
  BY <1>2 DEF IsAncestor
<1> HIDE DEF j
<1>5. Typed' /\ run' = j
  BY <1>1, <1>2, GoneOn, Typing DEF Inv, Typed, repo, history
<1>6. Phased' /\ LeaseOnAncestor'
  BY <1>1, <1>2, <1>3, <1>4, <1>5 DEF Phased, LeaseOnAncestor
<1>7. TriageStage => TriageStage'
  BY <1>1, <1>2, <1>5 DEF TriageStage, Unlabelled
<1>8. Staged /\ Backed => Staged' /\ Backed'
  BY <1>2 DEF Staged, Backed, repo, history
<1> QED
  BY <1>1, <1>2, <1>3, <1>5, <1>6, <1>7, <1>8, GoOnInv DEF Tasks

LEMMA PushInv == Inv /\ Push => Inv'
<1> SUFFICES ASSUME Inv, Push PROVE Inv'
  OBVIOUS
<1> DEFINE j == [run EXCEPT !.phase = AfterPush]
<1>1. /\ Continue(j) /\ run.phase = "push" /\ tip' = Append(run.base, NewCommit("bot"))
      /\ commits < MaxCommits /\ commits' = commits + 1
      /\ UNCHANGED <<enabled, people, labels, pr, onDefault, history>>
  BY DEF Push, Commit
<1>2. run.wf \in {"triage", "build"}
  BY <1>1, Typing DEF Inv, Phased, Jobs, Tasks
<1>3. /\ j \in Jobs /\ j.wf = run.wf /\ j.reopened = run.reopened
      /\ j.phase = IF run.wf = "triage" THEN "label" ELSE "openPR"
  BY Typing DEF Jobs, Phases, AfterPush
<1>4. tip' \in Seq(Commits) /\ tip' # <<>> /\ commits' \in 0..MaxCommits
  <2>1. commits \in 0..MaxCommits /\ run.base \in Seq(Commits)
    BY Typing DEF Inv, Typed, Jobs
  <2>2. NewCommit("bot") \in Commits /\ commits' \in 0..MaxCommits
    BY <1>1, <2>1, ModerationAssumption DEF NewCommit, Commits
  <2> QED
    BY <1>1, <2>1, <2>2
<1> HIDE DEF j
<1>5. Typed' /\ run' = j
  BY <1>1, <1>3, <1>4, GoneOn, Typing DEF Inv, Typed, history
<1>6. Phased' /\ LeaseOnAncestor'
  BY <1>2, <1>3, <1>5 DEF Phased, LeaseOnAncestor
<1>7. TriageStage => TriageStage'
  BY <1>1, <1>3, <1>4, <1>5 DEF TriageStage, Unlabelled
<1>8. Staged /\ Backed => Staged' /\ Backed'
  BY <1>1, <1>4 DEF Staged, Backed, history
<1> QED
  BY <1>1, <1>2, <1>3, <1>5, <1>6, <1>7, <1>8, GoOnInv DEF Tasks

LEMMA CrashInv == Inv /\ Crash => Inv'
<1> SUFFICES ASSUME Inv, Crash PROVE Inv'
  OBVIOUS
<1>1. /\ run.wf \in Tasks /\ UNCHANGED <<enabled, people, labels, repo, history>>
      /\ group' = [Ended(group) EXCEPT !.lost = @ \union {run.wf}]
  BY DEF Crash
<1>2. /\ Ended(group) \in Group /\ Ended(group).run = pending /\ Ended(group).pending = None
      /\ Ended(group).lost = group.lost
  BY Typing, EndedFields DEF pending
<1>3. /\ group' \in Group /\ group'.run = pending /\ group'.pending = None
      /\ group'.lost = group.lost \union {run.wf}
  BY <1>1, <1>2 DEF Group
<1>4. Staged /\ Backed => Staged' /\ Backed'
  BY <1>1 DEF Staged, Backed, repo, history
<1> QED
  BY <1>1, <1>3, <1>4, Typing, EndInv DEF Tasks, repo

-----------------------------------------------------------------------------
(* What people do *)

\* Nothing arrives in the group.
LEMMA KeptInv ==
  ASSUME Inv, Typed', UNCHANGED <<enabled, open, group>>,
         tip = <<>> /\ ~pr => tip' = <<>> /\ ~pr',
         Unlabelled => Unlabelled', TriageStage => TriageStage',
         Staged => Staged', Backed => Backed', offered => offered'
  PROVE  Inv'
<1>1. Places' /\ Phased' /\ LeaseOnAncestor'
  BY DEF Inv, Places, Phased, LeaseOnAncestor, run, pending
<1>2. ClosedStage'
  BY DEF Inv, ClosedStage, run, pending
<1>3. OpenStage'
  BY DEF Inv, OpenStage, run, pending
<1> QED
  BY <1>1, <1>2, <1>3 DEF Inv

\* A run that arrives keeps the group in order.
LEMMA ArrivedInv ==
  ASSUME Inv, NEW j \in Jobs, j.wf \in Tasks \union {"other"},
         j.phase = (IF j.wf = "cleanup" THEN "closePR" ELSE "gate"),
         group' = Arrive(group, j)
  PROVE  /\ group' \in Group /\ Places' /\ Phased' /\ LeaseOnAncestor'
         /\ run = None => run' = j /\ pending' = None
         /\ run # None => run' = run /\ pending' = j
         /\ group.lost \ {j.wf} \subseteq group'.lost
         /\ run # None /\ pending.wf \in Tasks /\ pending.wf # j.wf => pending.wf \in group'.lost
<1>1. j.wf # "none" /\ j # None
  BY NoneFields DEF Tasks
<1>2. /\ group' \in Group
      /\ run = None => run' = j /\ pending' = None
      /\ run # None => run' = run /\ pending' = j
      /\ group.lost \ {j.wf} \subseteq group'.lost
      /\ run # None /\ pending.wf \in Tasks /\ pending.wf # j.wf => pending.wf \in group'.lost
  BY <1>1, Typing, ArriveFields DEF Inv, Places, run, pending
<1>3. Places'
  BY <1>1, <1>2, NoneFields DEF Inv, Places
<1>4. Phased' /\ LeaseOnAncestor'
  BY <1>2 DEF Inv, Phased, LeaseOnAncestor
<1> QED
  BY <1>2, <1>3, <1>4

LEMMA EventCounted == Inv /\ Event => events' \in 0..MaxEvents
BY ModerationAssumption DEF Inv, Typed, Event

\* A closed issue's cleanup starts or waits.
LEMMA ClosedInv ==
  ASSUME Inv, ~open', group' = Arrive(group, Run("cleanup", FALSE)),
         UNCHANGED <<enabled, labels, tip, commits, history>>,
         pr' \in BOOLEAN, open' \in BOOLEAN, onDefault' \in SUBSET Commits, events' \in 0..MaxEvents
  PROVE  Inv'
<1> DEFINE j == Run("cleanup", FALSE)
<1>1. j \in Jobs /\ j.wf = "cleanup" /\ j.phase = "closePR"
  BY RunFields DEF Tasks
<1> HIDE DEF j
<1>2. /\ group' \in Group /\ Places' /\ Phased' /\ LeaseOnAncestor'
      /\ (run' = j /\ pending' = None) \/ pending' = j
  BY <1>1, ArrivedInv DEF Tasks, j
<1>3. Typed'
  BY <1>2 DEF Inv, Typed, history
<1>4. ClosedStage' /\ OpenStage'
  BY <1>1, <1>2, NoneFields DEF ClosedStage, OpenStage
<1> QED
  BY <1>2, <1>3, <1>4 DEF Inv

LEMMA CloseIssueInv == Inv /\ CloseIssue => Inv'
BY EventCounted, ClosedInv DEF CloseIssue, repo, Inv, Typed

LEMMA MergePRInv == Inv /\ MergePR => Inv'
<1> SUFFICES ASSUME Inv, MergePR PROVE Inv'
  OBVIOUS
<1>1. /\ pr /\ ~pr' /\ ~open' /\ events' \in 0..MaxEvents
      /\ UNCHANGED <<enabled, labels, tip, commits, history>>
  BY EventCounted DEF MergePR
<1>2. pr' \in BOOLEAN /\ open' \in BOOLEAN
  BY DEF MergePR
<1>3. onDefault' \in SUBSET Commits
  BY DEF Inv, Typed, MergePR, Range
<1>4. CASE open
  BY <1>1, <1>2, <1>3, <1>4, ClosedInv DEF MergePR
<1>5. CASE ~open
  <2>1. UNCHANGED <<open, group>>
    BY <1>1, <1>2, <1>5 DEF MergePR, Inv, Typed
  <2>2. Typed'
    BY <1>1, <1>2, <1>3, <2>1 DEF Inv, Typed, history
  <2>3. /\ Unlabelled => Unlabelled'
        /\ TriageStage => TriageStage'
        /\ Staged => Staged'
        /\ Backed => Backed'
    BY <1>1, <2>1 DEF Unlabelled, TriageStage, Staged, Backed, run, history
  <2> QED
    BY <1>1, <2>1, <2>2, <2>3, KeptInv DEF history
<1> QED
  BY <1>4, <1>5 DEF Inv, Typed

LEMMA ReopenIssueInv == Inv /\ ReopenIssue => Inv'
<1> SUFFICES ASSUME Inv, ReopenIssue PROVE Inv'
  OBVIOUS
<1> DEFINE t == Run("triage", TRUE)
           o == Run("other", TRUE)
<1>1. /\ t \in Jobs /\ t.wf = "triage" /\ t.phase = "gate" /\ t.reopened
      /\ o \in Jobs /\ o.wf = "other" /\ o.phase = "gate" /\ t # o
  BY RunFields DEF Tasks
<1> HIDE DEF t, o
<1>2. PICK a \in {t, o}, b \in {t, o} : a # b /\ group' = Arrive(Arrive(group, a), b)
  BY <1>1 DEF ReopenIssue, t, o
<1> DEFINE g == Arrive(group, a)
<1>3. a \in Jobs /\ b \in Jobs /\ a.wf # "none" /\ b.wf # "none" /\ a # None
  BY <1>1, NoneFields
<1>4. /\ g \in Group
      /\ run = None => g.run = a /\ g.pending = None
      /\ run # None => g.run = run /\ g.pending = a
  BY <1>3, Typing, ArriveFields DEF Inv, Places, run, pending
<1> HIDE DEF g
<1>5. /\ group' \in Group
      /\ run = None => run' = a /\ pending' = b
      /\ run # None => run' = run /\ pending' = b /\ (a.wf \in Tasks => a.wf \in group'.lost)
  <2>1. group' = Arrive(g, b)
    BY <1>2 DEF g
  <2>2. a.wf # b.wf
    BY <1>1, <1>2
  <2> QED
    BY <1>3, <1>4, <2>1, <2>2, ArriveFields DEF run, pending
<1>6. Typed'
  BY <1>5, EventCounted DEF Inv, Typed, ReopenIssue, repo
<1>7. Places'
  BY <1>1, <1>3, <1>5, NoneFields DEF Inv, Places
<1>8. Phased' /\ LeaseOnAncestor'
  BY <1>1, <1>2, <1>5 DEF Inv, Phased, LeaseOnAncestor
<1>9. ClosedStage'
  BY DEF ReopenIssue, ClosedStage
<1>10. OpenStage'
  <2>1. CASE b = t
    BY <1>1, <1>5, <2>1 DEF OpenStage
  <2>2. CASE a = t /\ b = o /\ run = None
    BY <1>1, <1>5, <2>2 DEF OpenStage, TriageStage
  <2>3. CASE a = t /\ b = o /\ run # None
    BY <1>1, <1>5, <2>3 DEF OpenStage, Tasks
  <2> QED
    BY <1>2, <2>1, <2>2, <2>3
<1> QED
  BY <1>6, <1>7, <1>8, <1>9, <1>10 DEF Inv

LEMMA ConfirmInv == Inv /\ Confirm => Inv'
<1> SUFFICES ASSUME Inv, Confirm PROVE Inv'
  OBVIOUS
<1> DEFINE j == Run("build", FALSE)
<1>1. j \in Jobs /\ j.wf = "build" /\ j.phase = "gate"
  BY RunFields DEF Tasks
<1> HIDE DEF j
<1>2. /\ group' \in Group /\ Places' /\ Phased' /\ LeaseOnAncestor'
      /\ run = None => run' = j /\ pending' = None
      /\ run # None => run' = run /\ pending' = j
      /\ group.lost \ {"build"} \subseteq group'.lost
      /\ run # None /\ pending.wf \in {"triage", "cleanup"} => pending.wf \in group'.lost
  BY <1>1, ArrivedInv DEF Tasks, j, Confirm
<1>3. /\ labels' = labels \union {"confirm"} /\ labels' \in SUBSET StageLabels
      /\ UNCHANGED <<enabled, open, repo, history>>
  BY Typing DEF Confirm, StageLabels
<1>4. Typed'
  BY <1>2, <1>3, EventCounted DEF Inv, Typed, Confirm, repo, history
<1>5. run = None => run.wf = "none" /\ pending.wf = "none"
  BY NoneFields DEF Inv, Places
<1>6. ClosedStage'
  BY <1>1, <1>2, <1>3, <1>5, NoneFields DEF Inv, ClosedStage, repo
<1>7. /\ Unlabelled => Unlabelled'
      /\ Staged /\ Backed => Staged' /\ Backed'
      /\ run' = run /\ TriageStage => TriageStage'
  BY <1>3 DEF Unlabelled, Staged, Backed, TriageStage, repo, history
<1>8. OpenStage'
  BY <1>1, <1>2, <1>3, <1>5, <1>7, NoneFields DEF Inv, OpenStage, history
<1> QED
  BY <1>2, <1>4, <1>6, <1>8 DEF Inv

LEMMA RetractInv == Inv /\ Retract => Inv'
<1> SUFFICES ASSUME Inv, Retract PROVE Inv'
  OBVIOUS
<1>1. /\ labels' = labels \ {"confirm"} /\ labels' \in SUBSET StageLabels
      /\ UNCHANGED <<enabled, open, repo, group, history>>
  BY Typing DEF Retract
<1>2. Typed'
  BY <1>1, EventCounted DEF Inv, Typed, Retract, repo, history
<1>3. /\ Unlabelled => Unlabelled'
      /\ TriageStage => TriageStage'
      /\ Staged => Staged'
      /\ Backed => Backed'
  BY <1>1 DEF Unlabelled, Staged, Backed, TriageStage, repo, history, run
<1> QED
  BY <1>1, <1>2, <1>3, KeptInv DEF repo, history

\* What others do to the branch or its pull request.
LEMMA BranchInv == Inv /\ (ForeignPush \/ ForeignDelete \/ ClosePR) => Inv'
<1> SUFFICES ASSUME Inv, ForeignPush \/ ForeignDelete \/ ClosePR PROVE Inv'
  OBVIOUS
<1>1. /\ UNCHANGED <<enabled, open, labels, onDefault, group, offered>>
      /\ events' \in 0..MaxEvents
      /\ tip # <<>> \/ pr
  BY EventCounted DEF ForeignPush, ForeignDelete, ClosePR, history
<1>2. /\ tip' \in Seq(Commits) /\ commits' \in 0..MaxCommits
      /\ tip # <<>> => tip' # <<>> \/ deleted'
      /\ deleted => deleted'
      /\ pr' \in BOOLEAN /\ deleted' \in BOOLEAN
  <2>1. CASE ForeignPush
    <3>1. NewCommit("human") \in Commits /\ commits' \in 0..MaxCommits
      BY <2>1, ModerationAssumption DEF Inv, Typed, ForeignPush, Commit, NewCommit, Commits
    <3>2. tip' \in Seq(Commits) /\ tip' # <<>>
      <4> DEFINE c == NewCommit("human")
      <4>1. c \in Commits /\ tip \in Seq(Commits)
        BY <3>1 DEF Inv, Typed
      <4>2. tip' = Append(tip, c) \/ tip' = <<c>>
        BY <2>1 DEF ForeignPush
      <4> HIDE DEF c
      <4>3. Append(tip, c) \in Seq(Commits) /\ Append(tip, c) # <<>>
        <5>1. Append(tip, c) \in Seq(Commits) /\ Len(Append(tip, c)) = Len(tip) + 1 /\ Len(tip) \in Nat
          BY <4>1, AppendProperties, LenProperties
        <5>2. Len(<<>>) = 0
          OBVIOUS
        <5> QED
          BY <5>1, <5>2
      <4>4. <<c>> \in Seq(Commits) /\ <<c>> # <<>>
        <5>1. <<c>> \in Seq(Commits)
          BY <4>1
        <5>2. Len(<<c>>) = 1 /\ Len(<<>>) = 0
          OBVIOUS
        <5> QED
          BY <5>1, <5>2
      <4> QED
        BY <4>2, <4>3, <4>4
    <3>3. UNCHANGED <<pr, deleted>>
      BY <2>1 DEF ForeignPush, history
    <3>4. pr \in BOOLEAN /\ deleted \in BOOLEAN
      BY DEF Inv, Typed
    <3> QED
      BY <3>1, <3>2, <3>3, <3>4
  <2>2. CASE ForeignDelete
    <3>1. tip' = <<>> /\ UNCHANGED commits
      BY <2>2 DEF ForeignDelete
    <3>2. deleted' /\ pr' \in BOOLEAN /\ deleted' \in BOOLEAN
      BY <2>2 DEF ForeignDelete
    <3>3. commits' \in 0..MaxCommits
      BY <3>1 DEF Inv, Typed
    <3> QED
      BY <3>1, <3>2, <3>3
  <2>3. CASE ClosePR
    BY <2>3 DEF Inv, Typed, ClosePR, history
  <2> QED
    BY <2>1, <2>2, <2>3
<1>3. Typed'
  BY <1>1, <1>2 DEF Inv, Typed
<1>4. /\ Unlabelled => Unlabelled'
      /\ TriageStage => TriageStage'
      /\ Staged => Staged'
      /\ Backed => Backed'
  BY <1>1, <1>2 DEF Unlabelled, Staged, Backed, TriageStage, run
<1> QED
  BY <1>1, <1>3, <1>4, KeptInv

-----------------------------------------------------------------------------
LEMMA NextInv == Inv /\ [Next]_vars => Inv'
<1> SUFFICES ASSUME Inv, [Next]_vars PROVE Inv'
  OBVIOUS
<1>1. CASE Automation
  BY <1>1, OtherTriageInv, TriageGateInv, TriageInv, TriageAnswerInv, CleanupPRInv,
     CleanupBranchInv, BuildGateInv, BuildInv, BuildEndsInv, ApplyEndsInv, ReadTipInv, PushInv
     DEF Automation
<1>2. CASE People
  BY <1>2, CloseIssueInv, ReopenIssueInv, ConfirmInv, RetractInv, MergePRInv, BranchInv DEF People
<1>3. CASE ForeignPush \/ ForeignDelete
  BY <1>3, BranchInv
<1>4. CASE Crash \/ ResetLabelsFails
  BY <1>4, CrashInv, ResetLabelsFailsInv
<1>5. CASE UNCHANGED vars
  BY <1>5 DEF vars, people, repo, history, Inv, Typed, Places, Phased, LeaseOnAncestor,
     ClosedStage, OpenStage, TriageStage, Unlabelled, Staged, Backed, run, pending
<1> QED
  BY <1>1, <1>2, <1>3, <1>4, <1>5 DEF Next

LEMMA AlwaysInv == Spec => []Inv
BY InitInv, NextInv, PTL DEF Spec

\* Types: every variable keeps its type, and nothing waits behind an empty group.
THEOREM TypeCorrect == Spec => []TypeOK
<1>1. Inv => TypeOK
  <2> SUFFICES ASSUME Inv PROVE TypeOK
    OBVIOUS
  <2>1. run \in Jobs /\ pending \in Jobs /\ group.lost \subseteq Tasks
    BY DEF Inv, Typed, Group, run, pending
  <2>2. \A j \in Jobs : IsRun(j)
    BY DEF Jobs, Phases, Results, IsRun, Range
  <2>3. Range(tip) \union onDefault \subseteq Commits
    BY DEF Inv, Typed, Range
  <2> QED
    BY <2>1, <2>2, <2>3 DEF Inv, Typed, Places, TypeOK, run, pending
<1> QED
  BY <1>1, AlwaysInv, PTL

\* A closed issue (moderate_cleanup.sh): at rest, unless its cleanup was lost, it
\* has neither a branch nor an open pull request.
THEOREM ClosedClean == Spec => []ClosedIssueIsClean
<1>1. Inv => ClosedIssueIsClean
  BY NoneFields DEF Inv, Places, ClosedStage, ClosedIssueIsClean, Idle
<1> QED
  BY <1>1, AlwaysInv, PTL

\* An open issue: at rest, unless its triage was lost, it bears a stage label, and
\* what its labels announce exists.
THEOREM OpenSettles == Spec => []OpenIssueSettles
<1>1. Inv => OpenIssueSettles
  BY NoneFields DEF Inv, Places, OpenStage, OpenIssueSettles, Idle
<1> QED
  BY <1>1, AlwaysInv, PTL

\* Pushes (the lease and is_ancestor): what a push of the automation discards of
\* other people's work lay on its base and was there when it read the tip.
THEOREM ForeignWorkKept == Spec => KeepsForeignWork
<1> DEFINE Kept == \A c \in Range(tip) \ Range(tip') :
                     c.by = "human" /\ tip' # <<>> /\ Last(tip').by = "bot"
                       => /\ IsPrefix(run.base, tip)
                          /\ c \in Range(run.seen)
<1>1. Inv /\ [Next]_vars => [Kept]_vars
  <2> SUFFICES ASSUME Inv, Next,
                      NEW c \in Range(tip) \ Range(tip'), tip' # <<>>, Last(tip').by = "bot"
               PROVE  IsPrefix(run.base, tip) /\ c \in Range(run.seen)
    OBVIOUS
  <2>1. tip # tip'
    OBVIOUS
  <2>2. tip # <<>>
    BY DEF Range
  <2>3. CASE Push
    BY <2>2, <2>3 DEF Push, Inv, LeaseOnAncestor
  <2>4. CASE ForeignPush
    <3>1. Last(tip') = NewCommit("human")
      BY <2>4 DEF ForeignPush, Last, Inv, Typed
    <3> QED
      BY <3>1 DEF NewCommit
  <2> QED
    BY <2>1, <2>3, <2>4 DEF Next, Automation, People, OtherTriage, TriageGate, Triage, ResetLabels,
       TriageAnswer, TriageBranch, CleanupPR, CleanupBranch, BuildGate, Build, AlreadyProcessed,
       NotBuilt, Built, OpenPR, ReportNoResult, ReadTip, Relabel, ApplyFails, CloseIssue,
       ReopenIssue, Confirm, Retract, MergePR, ClosePR, ForeignDelete, Crash, ResetLabelsFails, repo
<1>2. Inv /\ [Next]_vars => [\A c \in Range(tip) \ Range(tip') :
                     c.by = "human" /\ tip' # <<>> /\ Last(tip').by = "bot"
                       => /\ IsPrefix(run.base, tip)
                          /\ c \in Range(run.seen)]_vars
  BY <1>1
<1> HIDE DEF Kept
<1> QED
  BY <1>2, AlwaysInv, PTL DEF Spec, KeepsForeignWork
=============================================================================
