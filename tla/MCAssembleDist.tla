--------------------------- MODULE MCAssembleDist ---------------------------
(* Instances of AssembleDist: three legs and the paths p1, p1/p2, p1/p2/p3. *)
EXTENDS AssembleDist, TLC

CONSTANTS a1, a2, a3, p1, p2, p3

ThreeArches == {a1, a2, a3}
SomePaths == {p1, p2, p3}
Tree == p1 :> {} @@ p2 :> {p1} @@ p3 :> {p1, p2}
Symmetry == Permutations(ThreeArches)
=============================================================================
