---------------------------- MODULE AssembleDist ----------------------------
(***************************************************************************)
(* assemble_dist.py: the tarballs of the build legs are merged, one arch   *)
(* after the other, into a stage that becomes dist/.  Each member is       *)
(* claimed for its arch before it is extracted; leaves and dirs remember   *)
(* one arch per path.                                                      *)
(*                                                                         *)
(* A path is known by the directories above it.  A tarball's members are   *)
(* any sequence of files (or links) and directories.                       *)
(***************************************************************************)
CONSTANTS
  Arches,      \* ARCHES_JSON
  Paths,
  Above,       \* _parents: the directories above a path
  None         \* no arch

ASSUME AssembleAssumption ==
  /\ Arches # {} /\ None \notin Arches
  /\ Above \in [Paths -> SUBSET Paths]

VARIABLES
  pc,          \* where assemble() is
  arch,        \* the arch whose tarball is being extracted
  left,        \* arches whose tarballs are still to come
  leaves,      \* the arch that a non-directory path is recorded for
  dirs,        \* the arch that a directory, explicit or implied, is recorded for
  staged,      \* what was extracted into the stage: [arch, path, dir]
  stage,       \* the stage directory exists
  dist,        \* dist/: absent, empty, in use, or the staged members
  before,      \* auxiliary: what dist/ was when assemble() began
  refused      \* the member that _claim refused

vars == <<pc, arch, left, leaves, dirs, staged, stage, dist, before, refused>>

Members == [arch : Arches, path : Paths, dir : BOOLEAN]
NoMember == [arch |-> None, path |-> None, dir |-> FALSE]

\* What a member needs to be a directory.
Implied(m) == Above[m.path] \union (IF m.dir THEN {m.path} ELSE {})

\* The type of every variable.
TypeOK ==
  /\ pc \in {"check", "extract", "rmdir", "rename", "renamed", "clean", "done",
             "failed"}
  /\ arch \in Arches \union {None} /\ left \subseteq Arches
  /\ leaves \in [Paths -> Arches \union {None}]
  /\ dirs \in [Paths -> Arches \union {None}]
  /\ staged \subseteq Members /\ stage \in BOOLEAN
  /\ before \in {"absent", "empty", "used"} /\ dist \in {"assembled", "absent", "empty", "used"}
  /\ refused \in Members \union {NoMember}

Init ==
  /\ pc = "check" /\ arch = None /\ left = Arches
  /\ leaves = [p \in Paths |-> None] /\ dirs = [p \in Paths |-> None]
  /\ staged = {} /\ stage = FALSE /\ refused = NoMember
  /\ before \in {"absent", "empty", "used"} /\ dist = before

-----------------------------------------------------------------------------
\* Invalid arch names, a missing tarball, or a dist/ that is in use.
CheckFails ==
  /\ pc = "check"
  /\ pc' = "failed"
  /\ UNCHANGED <<arch, left, leaves, dirs, staged, stage, dist, before, refused>>

MakeStage ==
  /\ pc = "check" /\ dist # "used"
  /\ pc' = "extract" /\ stage' = TRUE
  /\ UNCHANGED <<arch, left, leaves, dirs, staged, dist, before, refused>>

\* The next arch's tarball is opened.
OpenTarball ==
  /\ pc = "extract" /\ arch = None
  /\ \E a \in left : arch' = a /\ left' = left \ {a}
  /\ UNCHANGED <<pc, leaves, dirs, staged, stage, dist, before, refused>>

Taken(owner, p) == owner[p] # None /\ owner[p] # arch

\* Mutant: any path some arch has is refused, directories included.
ClaimableOnce(m) ==
  /\ \A d \in Implied(m) : ~Taken(leaves, d) /\ ~Taken(dirs, d)
  /\ m.dir \/ ~(Taken(leaves, m.path) \/ Taken(dirs, m.path))

\* _claim raises when a directory of the member is another arch's file, or its
\* file is another arch's file or directory.  (leaves.get(path) or
\* dirs.get(path): the latter counts only without the former.)
Claimable(m) ==
  /\ \A d \in Implied(m) : ~Taken(leaves, d)
  /\ m.dir \/ IF leaves[m.path] # None THEN leaves[m.path] = arch ELSE ~Taken(dirs, m.path)

\* Mutant: a later arch takes a directory over.
DirsLastArch(m) == [p \in Paths |-> IF p \in Implied(m) THEN arch ELSE dirs[p]]

\* dirs.setdefault keeps the first arch.
DirsAfter(m) ==
  [p \in Paths |-> IF p \in Implied(m) /\ dirs[p] = None THEN arch ELSE dirs[p]]

\* A member is claimed and extracted.
ExtractMember(m) ==
  /\ pc = "extract" /\ m.arch = arch /\ Claimable(m)
  /\ dirs' = DirsAfter(m)
  /\ leaves' = IF m.dir THEN leaves ELSE [leaves EXCEPT ![m.path] = arch]
  /\ staged' = staged \union {m}
  /\ UNCHANGED <<pc, arch, left, stage, dist, before, refused>>

RefuseMember(m) ==
  /\ pc = "extract" /\ m.arch = arch /\ ~Claimable(m)
  /\ pc' = "clean" /\ refused' = m
  /\ UNCHANGED <<arch, left, leaves, dirs, staged, stage, dist, before>>

\* A path that escapes dist/, a link the filter refuses, a corrupt tarball, a
\* full disk.
ExtractFails ==
  /\ pc = "extract" /\ arch # None
  /\ pc' = "clean"
  /\ UNCHANGED <<arch, left, leaves, dirs, staged, stage, dist, before, refused>>

CloseTarball ==
  /\ pc = "extract" /\ arch # None
  /\ arch' = None
  /\ UNCHANGED <<pc, left, leaves, dirs, staged, stage, dist, before, refused>>

\* Every leg is extracted: an empty dist/ makes way for the stage.
AllExtracted ==
  /\ pc = "extract" /\ arch = None /\ left = {}
  /\ pc' = "rmdir"
  /\ UNCHANGED <<arch, left, leaves, dirs, staged, stage, dist, before, refused>>

RemoveEmptyDist ==
  /\ pc = "rmdir"
  /\ \/ pc' = "rename" /\ dist' = "absent"
     \/ pc' = "clean" /\ UNCHANGED dist
  /\ UNCHANGED <<arch, left, leaves, dirs, staged, stage, before, refused>>

\* Mutant: each leg is moved to dist/ as it is extracted.
RenameEarly ==
  /\ pc \in {"extract", "rename"} /\ stage
  /\ \/ dist' = "assembled" /\ stage' = FALSE /\ pc' = "renamed"
     \/ pc' = "clean" /\ UNCHANGED <<dist, stage>>
  /\ UNCHANGED <<arch, left, leaves, dirs, staged, before, refused>>

RenameStage ==
  /\ pc = "rename"
  /\ \/ dist' = "assembled" /\ stage' = FALSE /\ pc' = "renamed"
     \/ pc' = "clean" /\ UNCHANGED <<dist, stage>>
  /\ UNCHANGED <<arch, left, leaves, dirs, staged, before, refused>>

\* The finally clause removes the stage if it is still there, or what it can of it:
\* rmtree ignores errors.
Clean ==
  /\ pc \in {"clean", "renamed"}
  /\ stage' \in {FALSE, stage}
  /\ pc' = IF pc = "renamed" THEN "done" ELSE "failed"
  /\ UNCHANGED <<arch, left, leaves, dirs, staged, dist, before, refused>>

Ended == pc \in {"done", "failed"} /\ UNCHANGED vars

Next ==
  \/ CheckFails \/ MakeStage \/ OpenTarball \/ ExtractFails \/ CloseTarball
  \/ AllExtracted \/ RemoveEmptyDist \/ RenameStage \/ Clean \/ Ended
  \/ \E m \in Members : ExtractMember(m) \/ RefuseMember(m)

Spec == Init /\ [][Next]_vars

-----------------------------------------------------------------------------
(* Properties *)

\* Extracting both members would overwrite or half-fail: a file of one is a file
\* or a directory of the other.
Clash(m, n) ==
  \/ ~m.dir /\ m.path \in Implied(n) \union {n.path}
  \/ ~n.dir /\ n.path \in Implied(m) \union {m.path}

\* No two legs' members in the stage clash, although leaves and dirs keep one
\* arch per path and directories may be shared (_claim).
NoClash == \A m, n \in staged : m.arch # n.arch => ~Clash(m, n)

\* What _claim refuses really clashes with another leg: shared directories and a
\* leg's own repeated members are accepted.
RefusalsAreClashes ==
  refused # NoMember => \E m \in staged : m.arch # refused.arch /\ Clash(m, refused)

\* What assemble may leave of an empty dist/: nothing, when the rename fails after the
\* rmdir. By then every leg has been extracted.
Vanished == before = "empty" /\ dist = "absent" /\ left = {} /\ arch = None /\ refused = NoMember

\* dist/ is never a partial merge. It holds every leg once assemble has succeeded, and
\* no earlier than the rename; until then, and for good if assemble fails, it is what
\* it was. One failure is an exception: an empty dist/ may be gone if the rename fails
\* (assemble_dist.py's docstrings and .github/scripts/README.md say that any failure
\* leaves dist/ untouched).
AllOrNothing ==
  /\ dist = "assembled" => left = {} /\ arch = None /\ refused = NoMember
  /\ IF pc \in {"renamed", "done"} THEN dist = "assembled" ELSE dist = before \/ Vanished
=============================================================================
