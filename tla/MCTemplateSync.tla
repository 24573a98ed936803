--------------------------- MODULE MCTemplateSync ---------------------------
(* An instance of v1 and what the template releases after it: two full      *)
(* releases, a release candidate and a tag that is no version.              *)
EXTENDS TemplateSync, TLC

CONSTANTS v1, v9rc, v9, v10, nightly
CONSTANTS script, hook, inhook, gone, text, logo, late, both, shelf, attic

AllTags == {v1, v9rc, v9, v10, nightly}
AllPaths == {script, hook, inhook, gone, text, logo, late, both, shelf, attic}

Tag(base, rank, num) == [base |-> base, rank |-> rank, num |-> num]
Parses == [t \in AllTags |->
  CASE t = v1 -> Tag(1, 3, 0) [] t = v9rc -> Tag(9, 2, 5) [] t = v9 -> Tag(9, 3, 0)
    [] t = v10 -> Tag(10, 3, 0) [] OTHER -> Tag(0, 4, 0)]

F(lines, exec) == [kind |-> "file", text |-> lines, exec |-> exec]

\* script: executable from v9 on.  hook is a directory that comes with v9: inhook,
\* which v10 drops, and late are in it.  gone is dropped in v9 and so is both,
\* which two tiers match from then on.  shelf and attic are the instance's.
Trees == [t \in AllTags |-> [p \in AllPaths |->
  CASE p = script -> F({IF t = v10 THEN 2 ELSE 1}, t # v1)
    [] p \in {hook, shelf, attic} -> NoFile
    [] p = inhook -> IF t \in {v9rc, v9} THEN F({1}, FALSE) ELSE NoFile
    [] p = gone -> IF t = v1 THEN F({1}, FALSE) ELSE NoFile
    [] p = text -> IF t = v1 THEN F({1}, FALSE) ELSE IF t = v10 THEN F({2, 3}, TRUE) ELSE F({1, 2}, FALSE)
    [] p = logo -> F({IF t = v1 THEN 1 ELSE 2}, FALSE)
    [] p = late -> IF t = v1 THEN NoFile ELSE F({1}, FALSE)
    [] OTHER -> IF t = v1 THEN F({1}, FALSE) ELSE NoFile]]

Tiers == [t \in AllTags |-> [p \in AllPaths |->
  IF p = both /\ t # v1 THEN {"replace", "ignore"}
  ELSE IF p \in {text, logo, late} THEN {"merge"} ELSE {"replace"}]]

InHook == {<<hook, inhook>>, <<hook, late>>}
BehindHook == [p \in AllPaths |->
  CASE p = inhook -> shelf [] p = shelf -> inhook [] p = late -> attic [] p = attic -> late [] OTHER -> p]
OnlyLogo == {logo}
ThreeLines == {1, 2, 3}
OwnLine == 0
SomePaths == {hook, text, logo, late}
SameRuns == Permutations(Runs)

=============================================================================
