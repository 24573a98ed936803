CONSTANTS
  a1 = a1  a2 = a2  a3 = a3  p1 = p1  p2 = p2  p3 = p3
  None = None
  Arches <- ThreeArches
  Paths <- SomePaths
  Above <- Tree
SYMMETRY Symmetry
SPECIFICATION Spec
INVARIANTS NoClash RefusalsAreClashes AllOrNothing
