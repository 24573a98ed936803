CONSTANTS
  v1 = v1  v9rc = v9rc  v9 = v9  v10 = v10  nightly = nightly
  script = script  hook = hook  inhook = inhook  gone = gone  text = text
  logo = logo  late = late  both = both  shelf = shelf  attic = attic
  Runs = {s1, s2}
  Paths <- AllPaths
  Tags <- AllTags
  Parsed <- Parses
  Template <- Trees
  Manifest <- Tiers
  Binary <- OnlyLogo
  Inside <- InHook
  Behind <- BehindHook
  Lines <- ThreeLines
  Edited <- SomePaths
  Own <- OwnLine
  Marker = Marker
  Origin = v1
  Unsynced = Unsynced
  MaxEdits = 1
SPECIFICATION Spec
INVARIANTS TypeOK ReplaceInSync MergeInSync ConflictsAnnounced StaysInItsTiers RerunIsQuiet
PROPERTIES NeverBackwards
SYMMETRY SameRuns
CHECK_DEADLOCK FALSE
