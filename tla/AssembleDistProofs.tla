------------------------- MODULE AssembleDistProofs -------------------------
(***************************************************************************)
(* What AssembleDist guarantees for any set of legs, any tree of paths and *)
(* tarballs of any length.                                                 *)
(*                                                                         *)
(* leaves and dirs keep one arch per path, so they do not say who else     *)
(* claimed a directory.  The argument is Recorded: what was extracted is   *)
(* on record, and a directory on record for the arch being extracted has   *)
(* no other claimant, because the legs come one after the other and the    *)
(* first claimant stays.                                                   *)
(***************************************************************************)
EXTENDS AssembleDist, TLAPS

\* A recorded arch stands for a member that was extracted.
FilesOnRecord ==
  /\ \A m \in staged : ~m.dir => leaves[m.path] = m.arch
  /\ \A p \in Paths : leaves[p] # None =>
       \E m \in staged : m.arch = leaves[p] /\ ~m.dir /\ m.path = p

DirsOnRecord ==
  /\ \A m \in staged : \A p \in Implied(m) : dirs[p] # None
  /\ \A p \in Paths : dirs[p] # None => \E m \in staged : m.arch = dirs[p] /\ p \in Implied(m)

\* The legs are extracted one after the other, ...
InTurn == arch \notin left /\ \A m \in staged : m.arch \notin left

\* ... so a directory of the current arch was claimed by no other.
FirstClaimant ==
  \A p \in Paths : arch # None /\ dirs[p] = arch =>
    \A m \in staged : p \in Implied(m) => m.arch = arch

Recorded == FilesOnRecord /\ DirsOnRecord /\ InTurn /\ FirstClaimant

\* How far assemble() is, and what dist/ is then.
Phases ==
  /\ pc \in {"check", "extract", "rmdir", "rename"} => refused = NoMember
  /\ pc \in {"check", "extract", "rmdir"} => dist = before
  /\ pc \in {"extract", "rmdir"} => before # "used"
  /\ pc \in {"rmdir", "rename"} => left = {} /\ arch = None
  /\ pc = "rename" => before # "used" /\ dist = "absent"
  /\ AllOrNothing

Inv == TypeOK /\ Recorded /\ NoClash /\ RefusalsAreClashes /\ Phases

-----------------------------------------------------------------------------
\* The directories of a member are paths.
LEMMA ImpliedPaths == ASSUME NEW m \in Members PROVE Implied(m) \subseteq Paths /\ m.path \in Paths
  BY AssembleAssumption DEF Implied, Members

\* Nothing is on record when assemble() starts.
LEMMA InitInv == Init => Inv
  <1> SUFFICES ASSUME Init PROVE Inv
    OBVIOUS
  <1>1. TypeOK
    BY DEF Init, TypeOK
  <1>2. Recorded
    BY AssembleAssumption DEF Init, Recorded, FilesOnRecord, DirsOnRecord, InTurn, FirstClaimant
  <1>3. NoClash /\ RefusalsAreClashes /\ Phases
    BY DEF Init, NoClash, RefusalsAreClashes, Phases, AllOrNothing
  <1> QED BY <1>1, <1>2, <1>3 DEF Inv

\* A claimed member clashes with nothing of another leg (_claim).
LEMMA ClaimedIsFree ==
  ASSUME Inv, NEW m \in Members, m.arch = arch, Claimable(m),
         NEW n \in staged, n.arch # arch
  PROVE  ~Clash(m, n)
  <1>1. n \in Members /\ m.arch \in Arches /\ arch # None
    BY AssembleAssumption DEF Inv, TypeOK, Members
  <1>2. n.path \in Paths /\ m.path \in Paths /\ n.arch # None
    BY <1>1, AssembleAssumption DEF Members
  <1>3. ASSUME ~m.dir, m.path \in Implied(n) PROVE FALSE
    <2>1. CASE leaves[m.path] # None
      <3>1. leaves[m.path] = arch
        BY <1>3, <2>1 DEF Claimable
      <3>2. PICK k \in staged : k.arch = arch /\ ~k.dir /\ k.path = m.path
        BY <3>1, <2>1, <1>2 DEF Inv, Recorded, FilesOnRecord
      <3>3. Clash(k, n) /\ k.arch # n.arch
        BY <3>2, <1>3 DEF Clash
      <3> QED BY <3>2, <3>3 DEF Inv, NoClash
    <2>2. CASE leaves[m.path] = None
      <3>1. dirs[m.path] = None \/ dirs[m.path] = arch
        BY <1>3, <2>2 DEF Claimable, Taken
      <3>2. dirs[m.path] # None
        BY <1>3 DEF Inv, Recorded, DirsOnRecord
      <3>3. n.arch = arch
        BY <3>1, <3>2, <1>1, <1>2, <1>3 DEF Inv, Recorded, FirstClaimant
      <3> QED BY <3>3
    <2> QED BY <2>1, <2>2
  <1>4. ASSUME ~n.dir, n.path \in Implied(m) PROVE FALSE
    <2>1. leaves[n.path] = n.arch
      BY <1>4 DEF Inv, Recorded, FilesOnRecord
    <2> QED BY <2>1, <1>2, <1>4 DEF Claimable, Taken
  <1>5. ASSUME ~m.dir, ~n.dir, m.path = n.path PROVE FALSE
    <2>1. leaves[n.path] = n.arch
      BY <1>5 DEF Inv, Recorded, FilesOnRecord
    <2> QED BY <2>1, <1>2, <1>5 DEF Claimable
  <1>6. m.dir => m.path \in Implied(m)
    BY DEF Implied
  <1>7. n.dir => n.path \in Implied(n)
    BY DEF Implied
  <1> QED BY <1>3, <1>4, <1>5, <1>6, <1>7 DEF Clash

\* Extracting a claimed member.
LEMMA ExtractStep == ASSUME Inv, NEW m \in Members, ExtractMember(m) PROVE Inv'
  <1> USE DEF ExtractMember
  <1>1. /\ m.path \in Paths /\ m.arch = arch /\ arch \in Arches /\ arch # None
        /\ m.dir \in BOOLEAN /\ Implied(m) \subseteq Paths
    BY AssembleAssumption, ImpliedPaths DEF Members
  <1>2. TypeOK'
    BY <1>1 DEF Inv, TypeOK, DirsAfter
  <1>3. \A n \in staged : n \in Members /\ Implied(n) \subseteq Paths /\ n.path \in Paths
    BY ImpliedPaths DEF Inv, TypeOK
  <1>4. \A n \in staged' : (Implied(n))' = Implied(n)
    BY DEF Implied
  <1>5. FilesOnRecord'
    <2>1. \A p \in Paths : leaves'[p] = leaves[p] \/ (p = m.path /\ ~m.dir /\ leaves'[p] = arch)
      BY <1>1 DEF Inv, TypeOK
    <2>2. ASSUME NEW n \in staged', ~n.dir PROVE leaves'[n.path] = n.arch
      <3>1. CASE n = m
        BY <3>1, <2>2, <1>1 DEF Inv, TypeOK
      <3>2. CASE n \in staged
        <4>1. leaves[n.path] = n.arch /\ n.arch # None
          BY <3>2, <2>2, <1>3, AssembleAssumption DEF Inv, Recorded, FilesOnRecord, Members
        <4>2. n.path = m.path /\ ~m.dir => leaves[n.path] = arch
          BY <4>1 DEF Claimable
        <4> QED BY <4>1, <4>2, <2>1, <1>3, <3>2
      <3> QED BY <3>1, <3>2
    <2>3. ASSUME NEW p \in Paths, leaves'[p] # None
          PROVE  \E n \in staged' : n.arch = leaves'[p] /\ ~n.dir /\ n.path = p
      BY <2>1, <2>3, <1>1 DEF Inv, Recorded, FilesOnRecord
    <2> QED BY <2>2, <2>3 DEF FilesOnRecord
  <1>6. \A p \in Paths : dirs'[p] = IF p \in Implied(m) /\ dirs[p] = None THEN arch ELSE dirs[p]
    BY DEF DirsAfter
  <1>7. DirsOnRecord'
    <2>1. ASSUME NEW n \in staged', NEW p \in Implied(n) PROVE dirs'[p] # None
      BY <1>1, <1>3, <1>6 DEF Inv, Recorded, DirsOnRecord
    <2>2. ASSUME NEW p \in Paths, dirs'[p] # None
          PROVE  \E n \in staged' : n.arch = dirs'[p] /\ p \in Implied(n)
      <3>1. CASE dirs'[p] = dirs[p]
        BY <3>1, <2>2 DEF Inv, Recorded, DirsOnRecord
      <3>2. CASE p \in Implied(m) /\ dirs'[p] = arch
        BY <3>2, <1>1
      <3> QED BY <3>1, <3>2, <1>6
    <2> QED BY <2>1, <2>2, <1>4 DEF DirsOnRecord
  <1>8. InTurn'
    BY <1>1 DEF Inv, Recorded, InTurn
  <1>9. FirstClaimant'
    <2> SUFFICES ASSUME NEW p \in Paths, dirs'[p] = arch, NEW n \in staged', p \in Implied(n)
                 PROVE  n.arch = arch
      BY <1>4 DEF FirstClaimant
    <2>1. CASE n = m
      BY <2>1, <1>1
    <2>2. CASE n \in staged
      <3>1. dirs[p] # None
        BY <2>2 DEF Inv, Recorded, DirsOnRecord
      <3>2. dirs[p] = arch
        BY <3>1, <1>6
      <3> QED BY <3>2, <2>2, <1>1 DEF Inv, Recorded, FirstClaimant
    <2> QED BY <2>1, <2>2
  <1>10. NoClash'
    <2>1. \A n \in staged : n.arch # arch => ~Clash(m, n) /\ ~Clash(n, m)
      <3> SUFFICES ASSUME NEW n \in staged, n.arch # arch PROVE ~Clash(m, n) /\ ~Clash(n, m)
        OBVIOUS
      <3>1. ~Clash(m, n)
        BY ClaimedIsFree, <1>1
      <3> QED BY <3>1 DEF Clash
    <2>2. \A k, n \in staged' : k.arch # n.arch => ~Clash(k, n)
      BY <2>1, <1>1 DEF Inv, NoClash
    <2> QED BY <2>2 DEF NoClash, Clash, Implied
  <1>11. RefusalsAreClashes'
    BY DEF Inv, RefusalsAreClashes, Clash, Implied
  <1>12. Phases'
    BY DEF Inv, Phases, AllOrNothing, Vanished
  <1> QED BY <1>2, <1>5, <1>7, <1>8, <1>9, <1>10, <1>11, <1>12 DEF Inv, Recorded

\* A refused member clashes with a recorded one.
LEMMA RefuseStep == ASSUME Inv, NEW m \in Members, RefuseMember(m) PROVE Inv'
  <1> USE DEF RefuseMember
  <1>1. /\ m.path \in Paths /\ m.arch = arch /\ arch \in Arches /\ arch # None
        /\ m.dir \in BOOLEAN /\ Implied(m) \subseteq Paths
    BY AssembleAssumption, ImpliedPaths DEF Members
  <1>2. TypeOK' /\ Recorded' /\ NoClash' /\ Phases'
    BY <1>1 DEF Inv, TypeOK, Recorded, FilesOnRecord, DirsOnRecord, InTurn, FirstClaimant,
                NoClash, Clash, Implied, Phases, AllOrNothing, Vanished
  <1>3. \E n \in staged : n.arch # arch /\ Clash(n, m)
    <2>1. ASSUME NEW p \in Implied(m), Taken(leaves, p)
          PROVE  \E n \in staged : n.arch # arch /\ Clash(n, m)
      <3>1. PICK n \in staged : n.arch = leaves[p] /\ ~n.dir /\ n.path = p
        BY <2>1, <1>1 DEF Inv, Recorded, FilesOnRecord, Taken
      <3> QED BY <3>1, <2>1 DEF Clash, Taken
    <2>2. ASSUME ~m.dir, Taken(leaves, m.path)
          PROVE  \E n \in staged : n.arch # arch /\ Clash(n, m)
      <3>1. PICK n \in staged : n.arch = leaves[m.path] /\ ~n.dir /\ n.path = m.path
        BY <2>2, <1>1 DEF Inv, Recorded, FilesOnRecord, Taken
      <3> QED BY <3>1, <2>2 DEF Clash, Taken
    <2>3. ASSUME ~m.dir, Taken(dirs, m.path)
          PROVE  \E n \in staged : n.arch # arch /\ Clash(n, m)
      <3>1. PICK n \in staged : n.arch = dirs[m.path] /\ m.path \in Implied(n)
        BY <2>3, <1>1 DEF Inv, Recorded, DirsOnRecord, Taken
      <3> QED BY <3>1, <2>3 DEF Clash, Taken
    <2> QED BY <2>1, <2>2, <2>3 DEF Claimable, Taken
  <1>4. RefusalsAreClashes'
    BY <1>1, <1>3 DEF RefusalsAreClashes, Clash, Implied
  <1> QED BY <1>2, <1>4 DEF Inv

\* Opening the next tarball: the new arch has nothing on record yet.
LEMMA OpenStep == ASSUME Inv, OpenTarball PROVE Inv'
  <1> PICK a \in left : arch' = a /\ left' = left \ {a}
    BY DEF OpenTarball
  <1> USE DEF OpenTarball
  <1>1. a \in Arches /\ a # None
    BY AssembleAssumption DEF Inv, TypeOK
  <1>2. TypeOK' /\ Phases' /\ RefusalsAreClashes' /\ NoClash'
    BY <1>1 DEF Inv, TypeOK, Phases, AllOrNothing, Vanished, RefusalsAreClashes, NoClash, Clash,
                Implied
  <1>3. FilesOnRecord' /\ DirsOnRecord' /\ InTurn'
    BY <1>1 DEF Inv, Recorded, FilesOnRecord, DirsOnRecord, InTurn, Implied
  <1>4. FirstClaimant'
    <2>1. \A p \in Paths : dirs[p] # a
      BY <1>1 DEF Inv, Recorded, DirsOnRecord, InTurn
    <2> QED BY <2>1 DEF FirstClaimant, Implied
  <1> QED BY <1>2, <1>3, <1>4 DEF Inv, Recorded

\* The other steps touch neither the records nor the stage's content.
LEMMA OtherStep ==
  ASSUME Inv, CheckFails \/ MakeStage \/ ExtractFails \/ CloseTarball \/ AllExtracted
                \/ RemoveEmptyDist \/ RenameStage \/ Clean \/ UNCHANGED vars
  PROVE  Inv'
  <1> USE DEF CheckFails, MakeStage, ExtractFails, CloseTarball, AllExtracted,
              RemoveEmptyDist, RenameStage, Clean, vars
  <1>1. TypeOK'
    BY DEF Inv, TypeOK
  <1>2. UNCHANGED <<left, leaves, dirs, staged, refused>> /\ arch' \in {arch, None}
    OBVIOUS
  <1>3. Recorded'
    BY <1>2, AssembleAssumption
       DEF Inv, TypeOK, Recorded, FilesOnRecord, DirsOnRecord, InTurn, FirstClaimant, Implied
  <1>4. NoClash' /\ RefusalsAreClashes'
    BY <1>2 DEF Inv, NoClash, RefusalsAreClashes, Clash, Implied
  <1>5. Phases'
    BY DEF Inv, TypeOK, Phases, AllOrNothing, Vanished
  <1> QED BY <1>1, <1>3, <1>4, <1>5 DEF Inv

\* The inductive invariant holds in every state of assemble().
THEOREM Invariance == Spec => []Inv
  <1>1. Inv /\ [Next]_vars => Inv'
    <2> SUFFICES ASSUME Inv, [Next]_vars PROVE Inv'
      OBVIOUS
    <2>1. CASE \E m \in Members : ExtractMember(m)
      BY <2>1, ExtractStep
    <2>2. CASE \E m \in Members : RefuseMember(m)
      BY <2>2, RefuseStep
    <2>3. CASE OpenTarball
      BY <2>3, OpenStep
    <2>4. CASE CheckFails \/ MakeStage \/ ExtractFails \/ CloseTarball \/ AllExtracted
                 \/ RemoveEmptyDist \/ RenameStage \/ Clean \/ UNCHANGED vars
      BY <2>4, OtherStep
    <2> QED BY <2>1, <2>2, <2>3, <2>4 DEF Next, Ended
  <1> QED BY <1>1, InitInv, PTL DEF Spec

\* No two legs' members in the stage clash (_claim), for any legs, paths and
\* tarballs.
THEOREM LegsDoNotClash == Spec => []NoClash
  <1>1. Inv => NoClash
    BY DEF Inv
  <1> QED BY <1>1, Invariance, PTL

\* A release is refused only for a real clash (_claim's AssembleError).
THEOREM RefusalsAreJust == Spec => []RefusalsAreClashes
  <1>1. Inv => RefusalsAreClashes
    BY DEF Inv
  <1> QED BY <1>1, Invariance, PTL

\* dist/ holds every leg or is what it was, whatever fails: but for an empty dist/ that
\* is gone when the last step, the rename, fails (assemble).
THEOREM DistIsWhole == Spec => []AllOrNothing
  <1>1. Inv => AllOrNothing
    BY DEF Inv, Phases, AllOrNothing
  <1> QED BY <1>1, Invariance, PTL

\* Type correctness of AssembleDist.
THEOREM TypeCorrect == Spec => []TypeOK
  <1>1. Inv => TypeOK
    BY DEF Inv
  <1> QED BY <1>1, Invariance, PTL
=============================================================================
