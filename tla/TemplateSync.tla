---------------------------- MODULE TemplateSync ----------------------------
(***************************************************************************)
(* Template sync in an instance repository: template-sync.yml and the      *)
(* scripts it calls, template_sync.py and template_sync_manifest.py.       *)
(*                                                                         *)
(* A run checks out main, applies the new tag's replace and merge tiers to *)
(* that copy and pushes it as a pull request; the state file travels with  *)
(* the files.  Meanwhile people edit main and handle the pull requests, and *)
(* the template goes on releasing.  Runs are not serialised.               *)
(*                                                                         *)
(* A file's text is the set of its lines, so that a three-way merge is set *)
(* arithmetic; git decides whether two changes also collide.               *)
(***************************************************************************)
EXTENDS Naturals, FiniteSets

CONSTANTS
  Runs,      \* workflow runs that may overlap
  Paths,     \* paths of the template and of the instance
  Tags,      \* tags the template may release
  Parsed,    \* parse_tag of each tag: [base, rank, num], or rank 4 if it is no version
  Template,  \* Template[t][p]: the template's file at a tag; a link there leads nowhere
  Manifest,  \* Manifest[t][p]: the tiers whose patterns match a path at a tag
  Binary,    \* paths with a NUL byte in their first 8000 bytes
  Inside,    \* pairs <<d, p>>: the path d is a directory of the path p
  Behind,    \* Behind[p]: where p leads once the instance links a directory of p,
             \* a path of its own, and the other way round
  Lines,     \* lines of the template's files
  Edited,    \* paths that the instance edits
  Own,       \* a line that only the instance writes
  Marker,    \* a line of conflict markers
  Origin,    \* the tag the instance was created from
  Unsynced,  \* no state file
  MaxEdits   \* bound on the instance's own edits

VARIABLES
  released,  \* the template's tags
  channel,   \* TEMPLATE_SYNC_CHANNEL
  main,      \* the instance's default branch
  prs,       \* the sync branch of every tag, and its pull request
  runs,      \* the workflow runs
  edits,     \* own edits so far
  touched,   \* history: paths the instance changed since the last sync overwrote them
  own,       \* history: paths whose file holds the instance's own line
  astray     \* history: paths the instance deleted or linked or the template
             \* dropped, until a sync restores them

vars == <<released, channel, main, prs, runs, edits, touched, own, astray>>

Empty(kind) == [kind |-> kind, text |-> {}, exec |-> FALSE]
NoFile == Empty("none")
Link == Empty("link")
File == {NoFile, Link} \union
  [kind : {"file"}, text : SUBSET (Lines \union {Own, Marker}), exec : BOOLEAN]
Marked(f) == Marker \in f.text
WithText(f, text) == [kind |-> f.kind, text |-> text, exec |-> f.exec]
\* What the synchronisation sees of the template is free of the instance's line
\* and of markers; the tags are finitely many, and no two of a channel are one version.
ASSUME TemplateAssumption ==
  Template \in [Tags -> [Paths -> {f \in File : Own \notin f.text /\ ~Marked(f)}]]
ASSUME TagsAssumption ==
  /\ IsFiniteSet(Tags) /\ Origin \in Tags /\ Unsynced \notin Tags
  /\ Parsed \in [Tags -> [base : Nat, rank : 0..4, num : Nat]]
  /\ \A t, u \in Tags : Parsed[t] = Parsed[u] /\ Parsed[t].rank # 4 => t = u
ASSUME EditsAssumption == Edited \subseteq Paths /\ MaxEdits \in Nat
ASSUME MarkerAssumption == Own # Marker
ASSUME BehindAssumption ==
  /\ Behind \in [Paths -> Paths] /\ \A p \in Paths : Behind[Behind[p]] = p
  /\ Inside \subseteq Paths \X Paths
  /\ \A e \in Inside : /\ Behind[e[2]] # e[2] /\ (Behind[e[2]] \in Binary <=> e[2] \in Binary)
                       /\ \A t \in Tags : Template[t][Behind[e[2]]] = NoFile

Snapshot == [tree : [Paths -> File], state : Tags \union {Unsynced}]
Blank == [tree |-> [p \in Paths |-> NoFile], state |-> Unsynced]

PR(status, base, head, listed) ==
  [status |-> status, base |-> base, head |-> head, listed |-> listed]
NoPR == PR("none", Blank, Blank, {})

Run(pc, base, work, new, conflicts) ==
  [pc |-> pc, base |-> base, work |-> work, new |-> new, conflicts |-> conflicts]
IdleRun == Run("idle", Blank, Blank, Unsynced, {})

\* The type of every variable.
TypeOK ==
  /\ released \subseteq Tags /\ channel \in {"stable", "alpha", "beta", "rc"}
  /\ main \in Snapshot
  /\ prs \in [Tags -> [status : {"none", "pushed", "open"}, base : Snapshot, head : Snapshot,
                       listed : SUBSET Paths]]
  /\ runs \in [Runs -> [pc : {"idle", "select", "apply", "push", "open"},
                        base : Snapshot, work : Snapshot, new : Tags \union {Unsynced},
                        conflicts : SUBSET Paths]]
  /\ edits \in 0..MaxEdits
  /\ touched \subseteq Paths /\ own \subseteq Paths /\ astray \subseteq Paths

Rank == [alpha |-> 0, beta |-> 1, rc |-> 2, stable |-> 3]

\* Tags that are no version or of another channel are never selected: when they
\* are released makes no difference, and they are there from the start.
Init ==
  /\ channel \in {"stable", "rc"}
  /\ released = {Origin} \union {t \in Tags : Parsed[t].rank # Rank[channel]}
  /\ main = [tree |-> Template[Origin], state |-> Unsynced]
  /\ prs = [t \in Tags |-> NoPR]
  /\ runs = [r \in Runs |-> IdleRun]
  /\ edits = 0 /\ touched = {} /\ own = {} /\ astray = {}

-----------------------------------------------------------------------------
(* select-tag *)

\* sort_key: a full release ranks above every pre-release of the same base.
Below(a, b) ==
  \/ a.base < b.base
  \/ a.base = b.base /\ a.rank < b.rank
  \/ a.base = b.base /\ a.rank = b.rank /\ a.num < b.num

\* Mutant: tags are compared as text, and "v10" sorts before "v9".
AsText(n) == IF n < 10 THEN 11 * n ELSE 11 * (n \div 10) + (n % 10) + 1
NewestAsText(S) ==
  CHOOSE t \in S : \A u \in S : AsText(Parsed[u].base) <= AsText(Parsed[t].base)

Newest(S) == CHOOSE t \in S : \A u \in S : ~Below(Parsed[t], Parsed[u])

\* latest_tag_for_channel; no tag of the channel fails the job.
Candidates(S) == {t \in S : Parsed[t].rank = Rank[channel]}

-----------------------------------------------------------------------------
(* apply: the tiers of the new tag's manifest over both template checkouts *)

\* Mutant: a path that two tiers match counts for both.
AnyTier(t, p, tier) == tier \in Manifest[t][p]

\* classify: the manifest puts the path in this tier and no other.
InTier(t, p, tier) == Manifest[t][p] = {tier}

\* tier_paths of both checkouts, by the new tag's manifest.
TierPaths(old, new, tier) ==
  {p \in Paths : /\ InTier(new, p, tier)
                 /\ Template[old][p].kind = "file" \/ Template[new][p].kind = "file"}

\* What the synchronisation sees of the template: its regular files.
FileOf(t, p) == IF Template[t][p].kind = "file" THEN Template[t][p] ELSE NoFile

SameContent(f, g) == f.kind = g.kind /\ f.text = g.text

\* is_symlink looks at the last name of a path only: a directory of it that the
\* instance made a link is followed, to the path behind (or out of the checkout).
Linked(tree, p) == \E e \in Inside : e[2] = p /\ tree[e[1]].kind = "link"

\* The path that a template path reaches in the tree; and the template path, if
\* any, that reaches a path of the tree.
Where(tree, p) == IF Linked(tree, p) \/ Linked(tree, Behind[p]) THEN Behind[p] ELSE p

\* copy2, or sync_executable_bit when the content is the same already.
CopyOver(src, dst) ==
  IF SameContent(src, dst) THEN [kind |-> dst.kind, text |-> dst.text, exec |-> src.exec]
  ELSE src

\* Mutant: a file that the template dropped is unlinked halfway.
HalfRemoved(src, dst) ==
  IF dst.kind = "link" THEN dst
  ELSE IF src.kind = "file" THEN CopyOver(src, dst) ELSE [dst EXCEPT !.kind = "none"]

\* apply_replace at one path: a link stays, a file the template dropped goes.
Replace(src, dst) ==
  IF dst.kind = "link" THEN dst
  ELSE IF src.kind = "file" THEN CopyOver(src, dst) ELSE NoFile

\* git merge-file without a collision: both sides' changes to the base.
ThreeWay(f, base, theirs) ==
  WithText(f, (f.text \ (base.text \ theirs.text)) \union (theirs.text \ base.text))

\* Mutant: a file that has the new version already is merged again.
ForgetsDone(f, base, theirs) ==
  theirs.kind # "file" \/ f.kind = "link" \/ (f.kind = "file" /\ theirs.text = base.text)

\* What apply_merge decides before it merges: the file is left alone ...
LeftAlone(f, base, theirs) ==
  \/ theirs.kind # "file" \/ f.kind = "link"
  \/ f.kind = "file" /\ (theirs.text = base.text \/ SameContent(f, theirs))

\* Mutant: the new version replaces whatever the instance has.
AlwaysTaken(f, base, theirs) == ~LeftAlone(f, base, theirs)

\* ... or the new version is taken outright.
TakenOutright(f, base, theirs) ==
  ~LeftAlone(f, base, theirs) /\ (f.kind = "none" \/ SameContent(f, base))

\* Paths that reach merge_file.
Merging(old, new, tree) ==
  {p \in TierPaths(old, new, "merge") :
     LET f == tree[Where(tree, p)]
     IN /\ ~LeftAlone(f, Template[old][p], Template[new][p])
        /\ ~TakenOutright(f, Template[old][p], Template[new][p])}

\* Mutant: a binary file is handed to git merge-file, which leaves it alone.
BinaryIsClean(old, new, tree) == {}

\* merge_file declines a binary file: a conflict without markers.
Declined(old, new, tree) == Merging(old, new, tree) \intersect Binary

\* Text that git may find in conflict: unless one side has the other's changes.
MayCollide(old, new, tree) ==
  {p \in Merging(old, new, tree) \ Binary :
     LET f == tree[Where(tree, p)]
         merged == ThreeWay(f, Template[old][p], Template[new][p])
     IN merged # f /\ merged.text # Template[new][p].text}

\* apply_merge at one path, given the paths where git finds a conflict.
Merge(p, old, new, f, collided) ==
  LET base == Template[old][p]
      theirs == Template[new][p]
  IN IF LeftAlone(f, base, theirs) THEN f
     ELSE IF TakenOutright(f, base, theirs) THEN CopyOver(theirs, f)
     ELSE IF p \in Binary THEN f
     ELSE LET merged == ThreeWay(f, base, theirs)
          IN IF p \in collided THEN WithText(merged, merged.text \union {Marker}) ELSE merged

ReplaceTier(old, new, tree) ==
  LET tier == TierPaths(old, new, "replace")
  IN [q \in Paths |-> LET p == Where(tree, q)
                      IN IF p \in tier THEN Replace(Template[new][p], tree[q]) ELSE tree[q]]

MergeTier(old, new, tree, collided) ==
  LET tier == TierPaths(old, new, "merge")
  IN [q \in Paths |-> LET p == Where(tree, q)
                      IN IF p \in tier THEN Merge(p, old, new, tree[q], collided) ELSE tree[q]]

\* The merge tier leaves what the template did not change.
Rewritten(old, new) ==
  TierPaths(old, new, "replace") \union
  {p \in TierPaths(old, new, "merge") : /\ Template[new][p].kind = "file"
                                        /\ Template[new][p].text # Template[old][p].text}

\* What makes apply raise, removals coming last: a file where a directory has to
\* be made (mkdir), a file that the template made a directory (copy2 and
\* read_bytes), a directory of the instance's at a path to write or to unlink.
Obstructed(old, new, tree) ==
  \E e \in Inside :
    LET d == e[1]
        p == e[2]
        tiers == TierPaths(old, new, "replace") \union TierPaths(old, new, "merge")
    IN \/ p \in tiers /\ Template[new][p].kind = "file" /\ tree[d].kind = "file"
       \/ d \in tiers /\ Template[new][p].kind # "none" /\ tree[d].kind # "link"
       \/ d \in Rewritten(old, new) /\ tree[p].kind # "none"

-----------------------------------------------------------------------------
(* A run of the workflow *)

Become(r, run) == runs' = [runs EXCEPT ![r] = run]

\* The run ends: nothing of it is kept but what it pushed.
Leave(r) == Become(r, IdleRun)

world == <<released, channel, main, edits, touched, own, astray>>

\* Check out main and read the state file; without one the run does nothing.
\* The monthly cadence only decides which weeks have a run.
CheckOut(r) ==
  /\ runs[r].pc = "idle" /\ main.state # Unsynced
  /\ Become(r, Run("select", main, Blank, Unsynced, {}))
  /\ UNCHANGED <<world, prs>>

\* The manual bootstrap: a branch that adds the state file alone.
Bootstrap(r) ==
  /\ runs[r].pc = "idle" /\ main.state = Unsynced
  /\ Become(r, Run("push", main, [main EXCEPT !.state = Origin], Origin, {}))
  /\ UNCHANGED <<world, prs>>

\* The newest tag of the channel; the run ends if there is none or it is synced.
SelectTag(r) ==
  /\ runs[r].pc = "select"
  /\ LET tags == Candidates(released)
     IN IF tags = {} \/ Newest(tags) = runs[r].base.state THEN Leave(r)
        ELSE Become(r, Run("apply", runs[r].base, Blank, Newest(tags), {}))
  /\ UNCHANGED <<world, prs>>

\* Both tiers applied: the summary is printed, and the exit status is 0, or 1
\* with conflicts.
Applied(old, new, before) ==
  LET tree == ReplaceTier(old, new, before)
  IN {[rc |-> IF conflicts = {} THEN 0 ELSE 1, printed |-> TRUE, conflicts |-> conflicts,
       tree |-> MergeTier(old, new, tree, conflicts \ Declined(old, new, tree))] :
      conflicts \in {collided \union Declined(old, new, tree) :
                      collided \in SUBSET MayCollide(old, new, tree)}}

\* Exit 2 from the handler, 1 from a crash before it (a kill, 137, is treated
\* as 2): no summary, and the replace tier may have been written.
Failed(old, new, before) ==
  {[rc |-> rc, printed |-> FALSE, conflicts |-> {}, tree |-> tree] :
     rc \in {1, 2}, tree \in {before, ReplaceTier(old, new, before)}}

\* Mutant: check-apply trusts the exit status.
StatusAlone(out) == out.rc \in {0, 1}

\* check-apply: 0 or 1, and a summary that agrees.
Trusted(out) ==
  out.rc \in {0, 1} /\ out.printed /\ (out.conflicts # {} <=> out.rc = 1)

\* The apply step and the next: apply, check-apply, and write-state if it is trusted.
Apply(r) ==
  LET old == runs[r].base.state
      new == runs[r].new
      before == runs[r].base.tree
  IN /\ runs[r].pc = "apply"
     /\ \E out \in Failed(old, new, before)
                   \union (IF Obstructed(old, new, before) THEN {} ELSE Applied(old, new, before)) :
          IF Trusted(out)
          THEN Become(r, Run("push", runs[r].base, [tree |-> out.tree, state |-> new], new,
                             out.conflicts))
          ELSE Leave(r)
     /\ UNCHANGED <<world, prs>>

\* A push that is not a fast-forward is refused: the branch must not exist.
\* Without a change there is nothing to push.
Push(r) ==
  /\ runs[r].pc = "push"
  /\ IF runs[r].work = runs[r].base \/ prs[runs[r].new].status # "none"
     THEN Leave(r) /\ UNCHANGED prs
     ELSE /\ prs' = [prs EXCEPT ![runs[r].new] = PR("pushed", runs[r].base, runs[r].work, {})]
          /\ Become(r, Run("open", runs[r].base, runs[r].work, runs[r].new, runs[r].conflicts))
  /\ UNCHANGED world

\* gh pr create, with the conflicts listed in pr_body.
OpenPR(r) ==
  /\ runs[r].pc = "open"
  /\ prs' = [prs EXCEPT ![runs[r].new] = PR("open", @.base, @.head, runs[r].conflicts)]
  /\ Leave(r)
  /\ UNCHANGED world

\* The runner dies, a clone or a call fails.
RunFails(r) ==
  /\ runs[r].pc \in {"select", "push", "open"}
  /\ Leave(r)
  /\ UNCHANGED <<world, prs>>

-----------------------------------------------------------------------------
(* The maintainers, and the template *)

\* The manifest check of the template's own pipeline: every file has one tier.
Checked(t) == \A p \in Paths : Template[t][p].kind = "file" => Cardinality(Manifest[t][p]) = 1

Release(t) ==
  /\ t \notin released /\ Checked(t)
  /\ released' = released \union {t}
  /\ UNCHANGED <<channel, main, prs, runs, edits, touched, own, astray>>

\* No path above or below this one is there.
Room(tree, p) ==
  \A e \in Inside : (e[1] = p => tree[e[2]] = NoFile) /\ (e[2] = p => tree[e[1]] = NoFile)

\* The instance adds its line to a file (or makes one), deletes a file, or puts a
\* link in its place or where nothing was.
Edit(p) ==
  /\ edits < MaxEdits /\ edits' = edits + 1
  /\ main.tree[p].kind # "link" /\ Room(main.tree, p)
  /\ \/ /\ Own \notin main.tree[p].text
        /\ main' = [main EXCEPT !.tree[p] =
                     [kind |-> "file", text |-> @.text \union {Own}, exec |-> @.exec]]
        /\ own' = own \union {p} /\ UNCHANGED astray
     \/ /\ main' \in {[main EXCEPT !.tree[p] = NoFile], [main EXCEPT !.tree[p] = Link]}
        /\ main' # main
        /\ own' = own \ {p} /\ astray' = astray \union {p}
  /\ touched' = touched \union {p}
  /\ UNCHANGED <<released, channel, prs, runs>>

Unmarked(snapshot) ==
  [tree |-> [p \in Paths |-> WithText(snapshot.tree[p], snapshot.tree[p].text \ {Marker})],
   state |-> snapshot.state]

\* A maintainer resolves the marked conflicts on the branch, keeping both sides.
Resolve(t) ==
  /\ prs[t].status = "open"
  /\ \E p \in Paths : Marked(prs[t].head.tree[p])
  /\ prs' = [prs EXCEPT ![t] = PR("open", @.base, Unmarked(@.head), @.listed)]
  /\ UNCHANGED <<world, runs>>

\* git merges a path of which one side is unchanged, and text changed by both.
Mergeable(base, ours, theirs, p) ==
  \/ ours = base \/ theirs = base \/ ours = theirs
  \/ /\ base.kind = "file" /\ ours.kind = "file" /\ theirs.kind = "file" /\ p \notin Binary

GitMerge(base, ours, theirs) ==
  IF ours = base THEN theirs
  ELSE IF theirs = base \/ ours = theirs THEN ours
  ELSE [kind |-> "file", text |-> ThreeWay(ours, base, theirs).text,
        exec |-> IF ours.exec = base.exec THEN theirs.exec ELSE ours.exec]

\* No path is there both by itself and as a directory of another.
Tidy(tree) == \A e \in Inside : tree[e[1]].kind = "none" \/ tree[e[2]].kind = "none"

\* A pull request without markers is merged if git can: the state file's two
\* versions conflict like any other file's.  The histories follow a merge that
\* moves main to another tag.
MergePR(t) ==
  LET base == prs[t].base
      head == prs[t].head
      merged == [p \in Paths |-> GitMerge(base.tree[p], main.tree[p], head.tree[p])]
  IN /\ prs[t].status = "open"
     /\ {p \in Paths : \/ Marked(head.tree[p])
                        \/ ~Mergeable(base.tree[p], main.tree[p], head.tree[p], p)} = {}
     /\ Tidy(merged) /\ main.state \in {base.state, head.state}
     /\ main' = [tree |-> merged, state |-> head.state]
     /\ IF base.state = Unsynced \/ main.state = head.state THEN UNCHANGED <<touched, astray>>
        ELSE /\ touched' = {p \in touched : \/ main.tree[p] # base.tree[p]
                                            \/ p \notin TierPaths(base.state, head.state, "replace")}
             /\ astray' = {p \in astray : main.tree[p] # NoFile \/ merged[p].kind # "file"} \union
                          {p \in Paths : /\ merged[p].kind = "file"
                                         /\ Template[base.state][p].kind = "file"
                                         /\ Template[head.state][p].kind # "file"}
     /\ prs' = [prs EXCEPT ![t] = NoPR]
     /\ UNCHANGED <<released, channel, runs, edits, own>>

\* A pull request is closed; its branch stays until somebody deletes it.
ClosePR(t) ==
  /\ prs[t].status = "open"
  /\ prs' = [prs EXCEPT ![t] = PR("pushed", @.base, @.head, {})]
  /\ UNCHANGED <<world, runs>>

DeleteBranch(t) ==
  /\ prs[t].status = "pushed"
  /\ \A r \in Runs : runs[r].pc = "open" => runs[r].new # t
  /\ prs' = [prs EXCEPT ![t] = NoPR]
  /\ UNCHANGED <<world, runs>>

-----------------------------------------------------------------------------
Step(r) ==
  \/ CheckOut(r) \/ Bootstrap(r) \/ SelectTag(r) \/ Apply(r)
  \/ Push(r) \/ OpenPR(r) \/ RunFails(r)

Maintain(t) == Resolve(t) \/ MergePR(t) \/ ClosePR(t) \/ DeleteBranch(t)

Next ==
  \/ \E r \in Runs : Step(r)
  \/ \E t \in Tags : Release(t) \/ Maintain(t)
  \/ \E p \in Edited : Edit(p)

Spec == Init /\ [][Next]_vars

-----------------------------------------------------------------------------
(* Properties *)

Steady(p, tier) == \A t \in Tags : InTier(t, p, tier)

\* The path is a link, or reached through one: the template's file went to the
\* path behind, or came from there.
Astride(tree, p) == tree[p].kind = "link" \/ Where(tree, p) # p

\* Whatever failed, overlapped or was merged late, the state file tells the
\* truth: a path that is always of the replace tier is the synced tag's file, bit
\* for bit, or absent with it, unless the instance links it or a directory of
\* it, or changed it since.  (Through a linked directory apply writes to the
\* path behind, and the state file moves on without the path itself.)
ReplaceInSync ==
  main.state # Unsynced =>
    \A p \in Paths : Steady(p, "replace") =>
      main.tree[p] = FileOf(main.state, p) \/ Astride(main.tree, p) \/ p \in touched

\* A merge-tier text is the synced tag's with the instance's own lines, no more
\* and no less: no edit is lost and no change of the template is left out.
\* Except where the instance links it or a directory of it, after it deleted it
\* until a sync restores it, and after the template dropped it.
MergeInSync ==
  main.state # Unsynced =>
    \A p \in {q \in Paths \ Binary : Steady(q, "merge") /\ ~Astride(main.tree, q)} :
     main.tree[p].kind = "file" /\ p \notin astray =>
       main.tree[p].text = Template[main.state][p].text \union (IF p \in own THEN {Own} ELSE {})

Syncing(t) == prs[t].status = "open" /\ prs[t].base.state # Unsynced

\* A pull request never hides what it did not merge: a path that has markers,
\* or lacks a line the template added, is listed in its body; a path behind a
\* link is listed by the template's name for it.
ConflictsAnnounced ==
  \A t \in Tags : Syncing(t) =>
    \A p \in TierPaths(prs[t].base.state, t, "merge") :
      LET head == prs[t].head.tree[Where(prs[t].base.tree, p)]
          added == Template[t][p].text \ Template[prs[t].base.state][p].text
      IN Marked(head) \/ (head.kind = "file" /\ ~(added \subseteq head.text)) => p \in prs[t].listed

\* A sync changes no path but those the new manifest puts in exactly one of its
\* two tiers and, where the instance linked a directory of one, the path behind;
\* it replaces no link, and deletes nothing for the merge tier.
StaysInItsTiers ==
  \A t \in Tags : Syncing(t) =>
    \A q \in Paths : prs[t].head.tree[q] # prs[t].base.tree[q] =>
      LET tiers == Manifest[t][Where(prs[t].base.tree, q)]
      IN /\ tiers \in {{"replace"}, {"merge"}}
         /\ prs[t].base.tree[q].kind # "link"
         /\ tiers = {"merge"} => prs[t].head.tree[q].kind = "file"

\* Applying a step again to what it produced finds nothing to do, but for the
\* conflicts (apply_merge's docstring).
RerunIsQuiet ==
  \A r \in Runs : runs[r].pc = "push" /\ runs[r].base.state # Unsynced =>
    LET old == runs[r].base.state
        new == runs[r].new
        tree == runs[r].work.tree
    IN /\ ReplaceTier(old, new, tree) = tree
       /\ Merging(old, new, tree) \intersect (MayCollide(old, new, tree) \union Binary)
            \subseteq runs[r].conflicts
       /\ \A q \in Paths : Where(tree, q) \in runs[r].conflicts
                             \/ MergeTier(old, new, tree, {})[q] = tree[q]

\* main never goes back to an older tag of the channel, however late a pull
\* request is merged.  (From a tag of another channel it goes to whatever is the
\* newest of its own.)
NeverBackwards ==
  [][main.state # Unsynced /\ main'.state # main.state =>
       /\ main'.state # Unsynced
       /\ main.state \in Candidates(Tags) => Below(Parsed[main.state], Parsed[main'.state])]_vars
=============================================================================
