------------------------- MODULE TemplateSyncProofs -------------------------
(***************************************************************************)
(* Proofs about template sync: whatever overlaps, fails or is merged late,  *)
(* the state file tells the truth about the replace and merge tiers.        *)
(***************************************************************************)
EXTENDS TemplateSync, FiniteSetTheorems, WellFoundedInduction, TLAPS

-----------------------------------------------------------------------------
(* Files *)

\* The file without its conflict markers.
Plain(f) == WithText(f, f.text \ {Marker})

\* A file is its three fields, and what is no regular file has neither text
\* nor mode.
LEMMA FileFields ==
  ASSUME NEW f \in File
  PROVE  /\ f = [kind |-> f.kind, text |-> f.text, exec |-> f.exec]
         /\ f.kind \in {"none", "link", "file"} /\ f.exec \in BOOLEAN
         /\ f.text \subseteq Lines \union {Own, Marker}
         /\ f.kind = "none" <=> f = NoFile
         /\ f.kind = "link" <=> f = Link
         /\ f.kind # "file" => f.text = {} /\ f.exec = FALSE
<1>1. CASE f \in [kind : {"file"}, text : SUBSET (Lines \union {Own, Marker}), exec : BOOLEAN]
  BY <1>1 DEF NoFile, Link, Empty
<1>2. CASE f = NoFile
  BY <1>2 DEF NoFile, Link, Empty
<1>3. CASE f = Link
  BY <1>3 DEF NoFile, Link, Empty
<1> QED
  BY <1>1, <1>2, <1>3 DEF File

LEMMA FileMade ==
  ASSUME NEW text, NEW exec \in BOOLEAN, text \subseteq Lines \union {Own, Marker}
  PROVE  [kind |-> "file", text |-> text, exec |-> exec] \in File
  BY DEF File

LEMMA NoFiles ==
  /\ NoFile \in File /\ NoFile.kind = "none" /\ NoFile.text = {}
  /\ Link \in File /\ Link.kind = "link" /\ Link.text = {}
  /\ ~Marked(NoFile) /\ ~Marked(Link)
  BY DEF File, NoFile, Link, Empty, Marked

LEMMA SameFields ==
  ASSUME NEW f \in File, NEW g \in File, f.kind = g.kind, f.text = g.text, f.exec = g.exec
  PROVE  f = g
  BY FileFields

\* Every text but an empty one can be given to a regular file only.
LEMMA TextGiven ==
  ASSUME NEW f \in File, f.kind = "file", NEW text, text \subseteq Lines \union {Own, Marker}
  PROVE  /\ WithText(f, text) \in File
         /\ WithText(f, text).kind = "file" /\ WithText(f, text).text = text
         /\ WithText(f, text).exec = f.exec
<1>1. f.exec \in BOOLEAN
  BY FileFields
<1>2. [kind |-> "file", text |-> text, exec |-> f.exec] \in File
  BY <1>1, FileMade
<1> QED
  BY <1>2 DEF WithText

LEMMA PlainFile ==
  ASSUME NEW f \in File
  PROVE  /\ Plain(f) \in File /\ ~Marked(Plain(f))
         /\ Plain(f).kind = f.kind /\ Plain(f).text = f.text \ {Marker} /\ Plain(f).exec = f.exec
         /\ ~Marked(f) => Plain(f) = f
         /\ Plain(Plain(f)) = Plain(f)
<1>1. /\ Plain(f).kind = f.kind /\ Plain(f).text = f.text \ {Marker} /\ Plain(f).exec = f.exec
      /\ Plain(f) = [kind |-> f.kind, text |-> f.text \ {Marker}, exec |-> f.exec]
  BY DEF Plain, WithText
<1>2. Plain(f) \in File
  <2>1. CASE f.kind = "file"
    BY <2>1, TextGiven, FileFields DEF Plain
  <2>2. CASE f.kind # "file"
    <3>1. f.text = {} /\ f = [kind |-> f.kind, text |-> f.text, exec |-> f.exec]
      BY <2>2, FileFields
    <3>2. f.text \ {Marker} = f.text
      BY <3>1
    <3> QED
      BY <1>1, <3>1, <3>2
  <2> QED
    BY <2>1, <2>2
<1>3. ~Marked(Plain(f))
  BY <1>1 DEF Marked
<1>4. ~Marked(f) => Plain(f) = f
  <2> SUFFICES ASSUME ~Marked(f) PROVE Plain(f) = f
    OBVIOUS
  <2>1. f.text \ {Marker} = f.text
    BY DEF Marked
  <2> QED
    BY <1>1, <1>2, <2>1, SameFields
<1>5. Plain(Plain(f)) = Plain(f)
  <2>1. Plain(f).text \ {Marker} = Plain(f).text
    BY <1>1
  <2> QED
    BY <1>1, <2>1 DEF Plain, WithText
<1> QED
  BY <1>1, <1>2, <1>3, <1>4, <1>5

LEMMA CopyOverFile ==
  ASSUME NEW src \in File, NEW dst \in File
  PROVE  CopyOver(src, dst) = src
<1>1. src = [kind |-> src.kind, text |-> src.text, exec |-> src.exec]
  BY FileFields
<1> QED
  BY <1>1 DEF CopyOver, SameContent

LEMMA ReplaceFile ==
  ASSUME NEW src \in File, NEW dst \in File
  PROVE  /\ Replace(src, dst) = IF dst.kind = "link" THEN dst
                                ELSE IF src.kind = "file" THEN src ELSE NoFile
         /\ Replace(src, dst) \in File
         /\ ~Marked(src) /\ ~Marked(dst) => ~Marked(Replace(src, dst))
         /\ Replace(src, Replace(src, dst)) = Replace(src, dst)
<1>1. Replace(src, dst) = IF dst.kind = "link" THEN dst
                          ELSE IF src.kind = "file" THEN src ELSE NoFile
  BY CopyOverFile DEF Replace
<1>2. Replace(src, dst) \in File
  BY <1>1, NoFiles
<1>3. Replace(src, Replace(src, dst)) =
        IF Replace(src, dst).kind = "link" THEN Replace(src, dst)
        ELSE IF src.kind = "file" THEN src ELSE NoFile
  BY <1>2, CopyOverFile DEF Replace
<1> QED
  BY <1>1, <1>2, <1>3, NoFiles

LEMMA ThreeWayFile ==
  ASSUME NEW f \in File, NEW base \in File, NEW theirs \in File, f.kind = "file"
  PROVE  /\ ThreeWay(f, base, theirs) \in File
         /\ ThreeWay(f, base, theirs).kind = "file" /\ ThreeWay(f, base, theirs).exec = f.exec
         /\ ThreeWay(f, base, theirs).text =
              (f.text \ (base.text \ theirs.text)) \union (theirs.text \ base.text)
<1>1. f.text \subseteq Lines \union {Own, Marker} /\ theirs.text \subseteq Lines \union {Own, Marker}
  BY FileFields
<1> DEFINE text == (f.text \ (base.text \ theirs.text)) \union (theirs.text \ base.text)
<1>2. text \subseteq Lines \union {Own, Marker}
  BY <1>1
<1> QED
  BY <1>2, TextGiven DEF ThreeWay

-----------------------------------------------------------------------------
(* Versions *)

LEMMA TagTypes ==
  ASSUME NEW t \in Tags
  PROVE  /\ Parsed[t].base \in Nat /\ Parsed[t].rank \in 0..4 /\ Parsed[t].num \in Nat
         /\ Parsed[t] = [base |-> Parsed[t].base, rank |-> Parsed[t].rank, num |-> Parsed[t].num]
  BY TagsAssumption

LEMMA BelowIrreflexive ==
  ASSUME NEW t \in Tags PROVE ~Below(Parsed[t], Parsed[t])
<1>1. Parsed[t].base \in Nat /\ Parsed[t].rank \in 0..4 /\ Parsed[t].num \in Nat
  BY TagTypes
<1> QED
  BY <1>1 DEF Below

LEMMA BelowTransitive ==
  ASSUME NEW t \in Tags, NEW u \in Tags, NEW v \in Tags,
         Below(Parsed[t], Parsed[u]), Below(Parsed[u], Parsed[v])
  PROVE  Below(Parsed[t], Parsed[v])
<1>1. /\ Parsed[t].base \in Nat /\ Parsed[t].rank \in 0..4 /\ Parsed[t].num \in Nat
      /\ Parsed[u].base \in Nat /\ Parsed[u].rank \in 0..4 /\ Parsed[u].num \in Nat
      /\ Parsed[v].base \in Nat /\ Parsed[v].rank \in 0..4 /\ Parsed[v].num \in Nat
  BY TagTypes
<1> QED
  BY <1>1 DEF Below

LEMMA BelowTotal ==
  ASSUME NEW t \in Tags, NEW u \in Tags, t # u, Parsed[t].rank # 4, Parsed[u].rank # 4,
         ~Below(Parsed[u], Parsed[t])
  PROVE  Below(Parsed[t], Parsed[u])
<1>1. /\ Parsed[t].base \in Nat /\ Parsed[t].rank \in 0..4 /\ Parsed[t].num \in Nat
      /\ Parsed[u].base \in Nat /\ Parsed[u].rank \in 0..4 /\ Parsed[u].num \in Nat
  BY TagTypes
<1>2. Parsed[t] # Parsed[u]
  BY TagsAssumption
<1>3. \/ Parsed[t].base # Parsed[u].base \/ Parsed[t].rank # Parsed[u].rank
      \/ Parsed[t].num # Parsed[u].num
  BY <1>2, TagTypes
<1> QED
  BY <1>1, <1>3 DEF Below

\* max() has something to return: the set of the tags above a given one shrinks
\* as one climbs, and the tags are finitely many.
LEMMA NewestExists ==
  ASSUME NEW S, S \subseteq Tags, S # {}
  PROVE  Newest(S) \in S /\ \A u \in S : ~Below(Parsed[Newest(S)], Parsed[u])
<1> DEFINE Above(t) == {u \in S : Below(Parsed[t], Parsed[u])}
           Ups == {Above(t) : t \in S}
<1>1. IsFiniteSet(S)
  BY TagsAssumption, FS_Subset
<1>2. \A t \in S : Above(t) \in FiniteSubsetsOf(S)
  BY <1>1, FS_Subset DEF FiniteSubsetsOf
<1>3. Ups \in SUBSET FiniteSubsetsOf(S) /\ Ups # {}
  BY <1>2
<1>4. PICK T \in Ups : \A U \in Ups : ~(<<U, T>> \in StrictSubsetOrdering(S))
  <2>1. IsWellFoundedOn(StrictSubsetOrdering(S), FiniteSubsetsOf(S))
    BY FS_StrictSubsetOrderingWellFounded
  <2> HIDE DEF Ups
  <2> QED
    BY <2>1, <1>3, WFMin
<1>5. PICK t \in S : T = Above(t)
  OBVIOUS
<1>6. ASSUME NEW u \in S, Below(Parsed[t], Parsed[u]) PROVE FALSE
  <2>1. Above(u) \subseteq Above(t)
    BY <1>6, BelowTransitive
  <2>2. u \in Above(t) /\ u \notin Above(u)
    BY <1>6, BelowIrreflexive
  <2>3. <<Above(u), T>> \in StrictSubsetOrdering(S)
    BY <1>5, <2>1, <2>2 DEF StrictSubsetOrdering
  <2> QED
    BY <1>4, <2>3
<1>7. \E x \in S : \A u \in S : ~Below(Parsed[x], Parsed[u])
  BY <1>6
<1> QED
  BY <1>7 DEF Newest

\* The tag after Origin is what the instance has while it has no state file.
At(s) == IF s = Unsynced THEN Origin ELSE s

\* A state that main may have after the other.
Ahead(s, u) ==
  /\ u # Unsynced
  /\ \/ s = Unsynced
     \/ /\ u \in Candidates(Tags) /\ s # u
        /\ s \in Candidates(Tags) => Below(Parsed[s], Parsed[u])

NotBehind(s, u) == s = u \/ Ahead(s, u)

LEMMA AheadTransitive ==
  ASSUME NEW s \in Tags \union {Unsynced}, NEW u \in Tags \union {Unsynced},
         NEW v \in Tags \union {Unsynced}, NotBehind(s, u), Ahead(u, v)
  PROVE  Ahead(s, v)
<1>1. CASE s = u \/ s = Unsynced
  BY <1>1 DEF Ahead
<1>2. CASE s # u /\ s # Unsynced
  <2>1. u \in Candidates(Tags) /\ u # Unsynced /\ v # Unsynced
    BY <1>2 DEF NotBehind, Ahead
  <2>2. v \in Candidates(Tags) /\ Below(Parsed[u], Parsed[v])
    BY <2>1 DEF Ahead
  <2>3. u \in Tags /\ v \in Tags
    BY <2>1, <2>2 DEF Candidates
  <2>4. s \in Candidates(Tags) => Below(Parsed[s], Parsed[v])
    BY <1>2, <2>1, <2>2, <2>3, BelowTransitive DEF NotBehind, Ahead, Candidates
  <2>5. s # v
    <3> SUFFICES ASSUME s = v PROVE FALSE
      OBVIOUS
    <3>1. Below(Parsed[s], Parsed[u])
      BY <1>2, <2>2 DEF NotBehind, Ahead
    <3> QED
      BY <3>1, <2>2, <2>3, BelowTransitive, BelowIrreflexive
  <2> QED
    BY <2>1, <2>2, <2>4, <2>5 DEF Ahead
<1> QED
  BY <1>1, <1>2

\* Main never returns to a state that it left.
LEMMA NeverReturns ==
  ASSUME NEW s \in Tags \union {Unsynced}, NEW u \in Tags \union {Unsynced}, Ahead(s, u)
  PROVE  s # u /\ ~NotBehind(u, s)
<1>1. s # u
  BY TagsAssumption DEF Ahead
<1>2. ASSUME Ahead(u, s) PROVE FALSE
  <2>1. Ahead(s, s)
    BY <1>2, AheadTransitive DEF NotBehind
  <2> QED
    BY <2>1, TagsAssumption, BelowIrreflexive DEF Ahead, Candidates
<1> QED
  BY <1>1, <1>2 DEF NotBehind

\* What a run selects is ahead of what it has, for a tag is newest in its channel.
LEMMA NewestIsAhead ==
  ASSUME channel \in {"stable", "alpha", "beta", "rc"}, NEW S, S \subseteq Tags,
         Candidates(S) # {}, NEW s \in S, Newest(Candidates(S)) # s
  PROVE  Newest(Candidates(S)) \in S /\ Ahead(s, Newest(Candidates(S)))
<1> DEFINE u == Newest(Candidates(S))
<1>1. u \in Candidates(S) /\ \A t \in Candidates(S) : ~Below(Parsed[u], Parsed[t])
  BY NewestExists DEF Candidates
<1>2. u \in S /\ u \in Candidates(Tags) /\ u \in Tags /\ s \in Tags /\ u # Unsynced /\ s # Unsynced
  BY <1>1, TagsAssumption DEF Candidates
<1>3. Rank[channel] # 4
  BY DEF Rank
<1>4. s \in Candidates(Tags) => Below(Parsed[s], Parsed[u])
  <2> SUFFICES ASSUME s \in Candidates(Tags) PROVE Below(Parsed[s], Parsed[u])
    OBVIOUS
  <2>1. s \in Candidates(S) /\ Parsed[s].rank # 4 /\ Parsed[u].rank # 4
    BY <1>1, <1>3 DEF Candidates
  <2> QED
    BY <1>1, <1>2, <2>1, BelowTotal
<1> QED
  BY <1>2, <1>4 DEF Ahead

-----------------------------------------------------------------------------
(* What apply does to one path *)

LEMMA TemplateFile ==
  ASSUME NEW t \in Tags, NEW p \in Paths
  PROVE  /\ Template[t][p] \in File /\ Own \notin Template[t][p].text
         /\ Marker \notin Template[t][p].text /\ ~Marked(Template[t][p])
         /\ FileOf(t, p) \in File /\ FileOf(t, p).kind # "link" /\ ~Marked(FileOf(t, p))
         /\ FileOf(t, p).kind = "file" <=> Template[t][p].kind = "file"
  BY TemplateAssumption, NoFiles DEF FileOf, Marked

\* A path reaches merge_file.
Reaches(f, base, theirs) == ~LeftAlone(f, base, theirs) /\ ~TakenOutright(f, base, theirs)

LEMMA ReachesKinds ==
  ASSUME NEW f \in File, NEW base, NEW theirs \in File, Reaches(f, base, theirs)
  PROVE  f.kind = "file" /\ theirs.kind = "file"
  BY FileFields DEF Reaches, LeftAlone, TakenOutright

LEMMA MergeCases ==
  ASSUME NEW p \in Paths, NEW old \in Tags, NEW new \in Tags, NEW f \in File, NEW C
  PROVE  LET base == Template[old][p]
             theirs == Template[new][p]
         IN /\ LeftAlone(f, base, theirs) => Merge(p, old, new, f, C) = f
            /\ TakenOutright(f, base, theirs) => Merge(p, old, new, f, C) = theirs
            /\ Reaches(f, base, theirs) =>
                 /\ p \in Binary => Merge(p, old, new, f, C) = f
                 /\ p \notin Binary /\ p \notin C =>
                      Merge(p, old, new, f, C) = ThreeWay(f, base, theirs)
                 /\ p \notin Binary /\ p \in C =>
                      Merge(p, old, new, f, C) =
                        WithText(ThreeWay(f, base, theirs), ThreeWay(f, base, theirs).text \union {Marker})
  BY TemplateFile, CopyOverFile DEF Merge, Reaches, TakenOutright

LEMMA MergeClean ==
  ASSUME NEW p \in Paths, NEW old \in Tags, NEW new \in Tags, NEW f \in File
  PROVE  /\ LeftAlone(f, Template[old][p], Template[new][p]) => Merge(p, old, new, f, {}) = f
         /\ TakenOutright(f, Template[old][p], Template[new][p]) =>
              Merge(p, old, new, f, {}) = Template[new][p]
         /\ Reaches(f, Template[old][p], Template[new][p]) =>
              /\ p \in Binary => Merge(p, old, new, f, {}) = f
              /\ p \notin Binary =>
                   Merge(p, old, new, f, {}) = ThreeWay(f, Template[old][p], Template[new][p])
  BY TemplateFile, CopyOverFile DEF Merge, Reaches, TakenOutright

LEMMA MarkedMerge ==
  ASSUME NEW f \in File, NEW base \in File, NEW theirs \in File, f.kind = "file",
         ~Marked(f), ~Marked(theirs)
  PROVE  LET merged == ThreeWay(f, base, theirs)
             marked == WithText(merged, merged.text \union {Marker})
         IN /\ ~Marked(merged) /\ Plain(merged) = merged
            /\ marked \in File /\ marked.kind = "file" /\ Marked(marked)
            /\ marked.text = merged.text \union {Marker}
            /\ Plain(marked) = merged
<1> DEFINE merged == ThreeWay(f, base, theirs)
           marked == WithText(merged, merged.text \union {Marker})
<1>1. /\ merged \in File /\ merged.kind = "file"
      /\ merged.text = (f.text \ (base.text \ theirs.text)) \union (theirs.text \ base.text)
  BY ThreeWayFile
<1> HIDE DEF merged
<1>2. ~Marked(merged)
  BY <1>1 DEF Marked
<1>3. Plain(merged) = merged
  BY <1>1, <1>2, PlainFile
<1>4. merged.text \union {Marker} \subseteq Lines \union {Own, Marker}
  BY <1>1, FileFields
<1>5. /\ marked \in File /\ marked.kind = "file" /\ marked.exec = merged.exec
      /\ marked.text = merged.text \union {Marker}
  BY <1>1, <1>4, TextGiven
<1> HIDE DEF marked
<1>6. Plain(marked) = merged
  <2>1. (merged.text \union {Marker}) \ {Marker} = merged.text
    BY <1>2 DEF Marked
  <2>2. Plain(marked) \in File /\ Plain(marked).kind = "file" /\ Plain(marked).exec = merged.exec
        /\ Plain(marked).text = merged.text
    BY <1>5, <2>1, PlainFile
  <2> QED
    BY <1>1, <2>2, SameFields
<1> QED
  BY <1>2, <1>3, <1>5, <1>6 DEF marked, merged, Marked

\* apply_merge at one path, whatever git finds in conflict.
LEMMA MergeFile ==
  ASSUME NEW p \in Paths, NEW old \in Tags, NEW new \in Tags, NEW f \in File, ~Marked(f), NEW C
  PROVE  LET base == Template[old][p]
             theirs == Template[new][p]
             merged == Merge(p, old, new, f, C)
         IN /\ merged \in File
            /\ Plain(merged) = Merge(p, old, new, f, {})
            /\ Marked(merged) => p \in C /\ Reaches(f, base, theirs)
            /\ f.kind = "link" \/ theirs.kind # "file" => merged = f
            /\ f.kind = "none" /\ theirs.kind = "file" => merged = theirs
            /\ f.kind = "file" => merged.kind = "file"
<1> DEFINE base == Template[old][p]
           theirs == Template[new][p]
           merged == Merge(p, old, new, f, C)
<1>0. base \in File /\ theirs \in File /\ ~Marked(theirs)
  BY TemplateFile
<1>1. /\ LeftAlone(f, base, theirs) => merged = f /\ Merge(p, old, new, f, {}) = f
      /\ TakenOutright(f, base, theirs) => merged = theirs /\ Merge(p, old, new, f, {}) = theirs
      /\ Reaches(f, base, theirs) /\ p \in Binary => merged = f /\ Merge(p, old, new, f, {}) = f
      /\ Reaches(f, base, theirs) /\ p \notin Binary =>
           /\ Merge(p, old, new, f, {}) = ThreeWay(f, base, theirs)
           /\ p \notin C => merged = ThreeWay(f, base, theirs)
           /\ p \in C => merged = WithText(ThreeWay(f, base, theirs),
                                           ThreeWay(f, base, theirs).text \union {Marker})
  BY MergeCases
<1> HIDE DEF merged, base, theirs
<1>2. CASE LeftAlone(f, base, theirs)
  <2>1. merged = f /\ Merge(p, old, new, f, {}) = f /\ Plain(f) = f
    BY <1>1, <1>2, PlainFile
  <2>2. ~(f.kind = "none" /\ theirs.kind = "file")
    BY <1>2 DEF LeftAlone
  <2> QED
    BY <2>1, <2>2 DEF merged, theirs
<1>3. CASE TakenOutright(f, base, theirs)
  <2>1. merged = theirs /\ Merge(p, old, new, f, {}) = theirs /\ Plain(theirs) = theirs
    BY <1>0, <1>1, <1>3, PlainFile
  <2>2. theirs.kind = "file" /\ f.kind # "link"
    BY <1>3 DEF TakenOutright, LeftAlone
  <2> QED
    BY <1>0, <2>1, <2>2 DEF merged, theirs
<1>4. CASE Reaches(f, base, theirs)
  <2>1. f.kind = "file" /\ theirs.kind = "file"
    BY <1>0, <1>4, ReachesKinds
  <2>2. CASE p \in Binary
    <3>1. merged = f /\ Merge(p, old, new, f, {}) = f /\ Plain(f) = f
      BY <1>1, <1>4, <2>2, PlainFile
    <3> QED
      BY <2>1, <3>1 DEF merged, theirs
  <2>3. CASE p \notin Binary
    <3> DEFINE three == ThreeWay(f, base, theirs)
               marked == WithText(three, three.text \union {Marker})
    <3>1. /\ three \in File /\ three.kind = "file" /\ ~Marked(three) /\ Plain(three) = three
          /\ marked \in File /\ marked.kind = "file" /\ Plain(marked) = three
      BY <1>0, <2>1, ThreeWayFile, MarkedMerge
    <3>2. /\ Merge(p, old, new, f, {}) = three
          /\ p \notin C => merged = three
          /\ p \in C => merged = marked
      BY <1>1, <1>4, <2>3
    <3> HIDE DEF three, marked
    <3> QED
      BY <1>4, <2>1, <3>1, <3>2 DEF merged, theirs, base
  <2> QED
    BY <2>2, <2>3
<1> QED
  BY <1>2, <1>3, <1>4 DEF Reaches

\* The text of a merged file, markers apart.
LEMMA MergeText ==
  ASSUME NEW p \in Paths \ Binary, NEW old \in Tags, NEW new \in Tags,
         NEW f \in File, f.kind = "file", Template[new][p].kind = "file"
  PROVE  Merge(p, old, new, f, {}).text =
           (f.text \ (Template[old][p].text \ Template[new][p].text))
             \union (Template[new][p].text \ Template[old][p].text)
<1> DEFINE base == Template[old][p]
           theirs == Template[new][p]
<1>1. base \in File /\ theirs \in File
  BY TemplateFile
<1>2. /\ LeftAlone(f, base, theirs) => Merge(p, old, new, f, {}) = f
      /\ TakenOutright(f, base, theirs) => Merge(p, old, new, f, {}) = theirs
      /\ Reaches(f, base, theirs) => Merge(p, old, new, f, {}) = ThreeWay(f, base, theirs)
  BY MergeClean
<1>3. ThreeWay(f, base, theirs).text = (f.text \ (base.text \ theirs.text)) \union (theirs.text \ base.text)
  BY <1>1, ThreeWayFile
<1>4. theirs.kind = "file"
  OBVIOUS
<1> HIDE DEF base, theirs
<1>5. LeftAlone(f, base, theirs) => f.text = theirs.text \/ theirs.text = base.text
  BY <1>4 DEF LeftAlone, SameContent
<1>6. TakenOutright(f, base, theirs) => f.text = base.text
  BY DEF TakenOutright, SameContent
<1>7. Merge(p, old, new, f, {}).text = (f.text \ (base.text \ theirs.text)) \union (theirs.text \ base.text)
  <2>1. CASE LeftAlone(f, base, theirs)
    BY <1>2, <1>5, <2>1
  <2>2. CASE TakenOutright(f, base, theirs)
    BY <1>2, <1>6, <2>2
  <2>3. CASE Reaches(f, base, theirs)
    BY <1>2, <1>3, <2>3
  <2> QED
    BY <2>1, <2>2, <2>3 DEF Reaches
<1> QED
  BY <1>7 DEF base, theirs

\* What was merged once is not merged again, but for the conflicts.
LEMMA MergeAgain ==
  ASSUME NEW p \in Paths, NEW old \in Tags, NEW new \in Tags, NEW f \in File, ~Marked(f),
         NEW g \in File, Plain(g) = Merge(p, old, new, f, {}),
         Marked(g) => Reaches(f, Template[old][p], Template[new][p])
  PROVE  LET base == Template[old][p]
             theirs == Template[new][p]
         IN /\ Reaches(g, base, theirs) => Reaches(f, base, theirs)
            /\ Reaches(g, base, theirs) /\ p \notin Binary => ThreeWay(g, base, theirs) = g
            /\ ~Marked(g) => Merge(p, old, new, g, {}) = g
<1> DEFINE base == Template[old][p]
           theirs == Template[new][p]
<1>1. base \in File /\ theirs \in File /\ ~Marked(theirs)
  BY TemplateFile
<1>2. /\ LeftAlone(f, base, theirs) => Merge(p, old, new, f, {}) = f
      /\ TakenOutright(f, base, theirs) => Merge(p, old, new, f, {}) = theirs
      /\ Reaches(f, base, theirs) /\ p \notin Binary => Merge(p, old, new, f, {}) = ThreeWay(f, base, theirs)
  BY MergeClean
<1>3. /\ LeftAlone(g, base, theirs) => Merge(p, old, new, g, {}) = g
      /\ TakenOutright(g, base, theirs) => Merge(p, old, new, g, {}) = theirs
      /\ Reaches(g, base, theirs) =>
           /\ p \in Binary => Merge(p, old, new, g, {}) = g
           /\ p \notin Binary => Merge(p, old, new, g, {}) = ThreeWay(g, base, theirs)
  BY MergeClean
<1>4. Marked(g) => Reaches(f, base, theirs)
  OBVIOUS
<1>5. ~Marked(g) => Plain(g) = g
  BY PlainFile
<1> HIDE DEF base, theirs
<1>6. Reaches(g, base, theirs) => Reaches(f, base, theirs)
  <2>1. CASE LeftAlone(f, base, theirs)
    <3>1. g = f
      BY <1>2, <1>4, <1>5, <2>1 DEF Reaches
    <3> QED
      BY <2>1, <3>1 DEF Reaches
  <2>2. CASE TakenOutright(f, base, theirs)
    <3>1. g = theirs
      BY <1>2, <1>4, <1>5, <2>2 DEF Reaches
    <3> QED
      BY <3>1 DEF Reaches, LeftAlone, SameContent
  <2> QED
    BY <2>1, <2>2 DEF Reaches
<1>7. Reaches(g, base, theirs) /\ p \notin Binary => ThreeWay(g, base, theirs) = g
  <2> SUFFICES ASSUME Reaches(g, base, theirs), p \notin Binary
               PROVE  ThreeWay(g, base, theirs) = g
    OBVIOUS
  <2>1. f.kind = "file" /\ g.kind = "file"
    BY <1>1, <1>6, ReachesKinds
  <2>2. Plain(g) = ThreeWay(f, base, theirs)
    BY <1>2, <1>6
  <2>3. g.text \ {Marker} = (f.text \ (base.text \ theirs.text)) \union (theirs.text \ base.text)
    BY <1>1, <2>1, <2>2, ThreeWayFile, PlainFile
  <2>4. Marker \notin base.text
    BY TemplateFile DEF base
  <2>5. (g.text \ (base.text \ theirs.text)) \union (theirs.text \ base.text) = g.text
    BY <2>3, <2>4
  <2>6. /\ ThreeWay(g, base, theirs) \in File /\ ThreeWay(g, base, theirs).kind = "file"
        /\ ThreeWay(g, base, theirs).exec = g.exec /\ ThreeWay(g, base, theirs).text = g.text
    <3>1. ThreeWay(g, base, theirs).text =
            (g.text \ (base.text \ theirs.text)) \union (theirs.text \ base.text)
      BY <1>1, <2>1, ThreeWayFile
    <3>2. ThreeWay(g, base, theirs).text = g.text
      BY <2>5, <3>1
    <3> QED
      BY <1>1, <2>1, <3>2, ThreeWayFile
  <2> QED
    BY <2>1, <2>6, SameFields
<1>8. ~Marked(g) => Merge(p, old, new, g, {}) = g
  <2> SUFFICES ASSUME ~Marked(g) PROVE Merge(p, old, new, g, {}) = g
    OBVIOUS
  <2>1. CASE LeftAlone(g, base, theirs)
    BY <1>3, <2>1
  <2>2. CASE Reaches(g, base, theirs)
    BY <1>3, <1>7, <2>2
  <2>3. CASE TakenOutright(g, base, theirs)
    <3>1. theirs.kind = "file" /\ (g.kind = "none" \/ SameContent(g, base))
          /\ ~LeftAlone(g, base, theirs)
      BY <2>3 DEF TakenOutright, LeftAlone
    <3>2. g = Merge(p, old, new, f, {})
      BY <1>5
    <3>3. ~LeftAlone(f, base, theirs)
      BY <1>2, <3>1, <3>2
    <3>4. ~TakenOutright(f, base, theirs)
      BY <1>2, <3>1, <3>2 DEF LeftAlone, SameContent
    <3>5. Reaches(f, base, theirs)
      BY <3>3, <3>4 DEF Reaches
    <3>6. f.kind = "file"
      BY <1>1, <3>5, ReachesKinds
    <3>7. CASE p \in Binary
      <4>1. g = f
        BY <3>2, <3>5, <3>7, MergeClean DEF base, theirs
      <4> QED
        BY <2>3, <3>5, <4>1 DEF Reaches
    <3>8. CASE p \notin Binary
      <4>1. g.text = (f.text \ (base.text \ theirs.text)) \union (theirs.text \ base.text)
            /\ g.kind = "file"
        BY <1>1, <1>2, <3>2, <3>5, <3>6, <3>8, ThreeWayFile
      <4>2. g.text = base.text
        BY <3>1, <4>1 DEF SameContent
      <4>3. theirs.text \subseteq base.text /\ base.text \subseteq theirs.text
        BY <4>1, <4>2
      <4> QED
        BY <3>1, <4>1, <4>3 DEF LeftAlone
    <3> QED
      BY <3>7, <3>8
  <2> QED
    BY <2>1, <2>2, <2>3 DEF Reaches
<1> QED
  BY <1>6, <1>7, <1>8 DEF base, theirs

-----------------------------------------------------------------------------
(* What apply does to a tree *)

Tree == [Paths -> File]
CleanTree(tree) == \A p \in Paths : ~Marked(tree[p])

\* The path after a sync of a file, markers apart.
SyncOf(p, old, new, f) ==
  IF p \in TierPaths(old, new, "replace") THEN Replace(Template[new][p], f)
  ELSE IF p \in TierPaths(old, new, "merge") THEN Merge(p, old, new, f, {}) ELSE f

\* A tree that apply made of another one: what it did not settle is a conflict.
Made(old, new, base, tree, conflicts) ==
  \A q \in Paths :
    /\ Plain(tree[q]) = SyncOf(Where(base, q), old, new, base[q])
    /\ Marked(tree[q]) => Where(base, q) \in Merging(old, new, base)
    /\ Marked(tree[q]) \/ Where(base, q) \in Declined(old, new, base) => Where(base, q) \in conflicts

\* Where a path leads, the way back leads from.
LEMMA WhereAndBack ==
  ASSUME NEW tree, NEW p \in Paths
  PROVE  Where(tree, p) \in Paths /\ Where(tree, Where(tree, p)) = p
<1>1. Behind[p] \in Paths /\ Behind[Behind[p]] = p
  BY BehindAssumption
<1> QED
  BY <1>1 DEF Where

LEMMA LinkedMore ==
  ASSUME NEW tree, NEW more, NEW p,
         \A d \in Paths : tree[d].kind = "link" => more[d].kind = "link"
  PROVE  Linked(tree, p) => Linked(more, p)
<1> SUFFICES ASSUME NEW e \in Inside, e[2] = p, tree[e[1]].kind = "link"
             PROVE  Linked(more, p)
  BY DEF Linked
<1>1. e[1] \in Paths
  BY BehindAssumption
<1> QED
  BY <1>1 DEF Linked

\* A tree with more links leads at least as many paths elsewhere; one with the
\* same links leads them to the same places.
LEMMA WhereMore ==
  ASSUME NEW tree, NEW more, NEW p \in Paths,
         \A d \in Paths : tree[d].kind = "link" => more[d].kind = "link"
  PROVE  Where(tree, p) # p => Where(more, p) # p
  BY LinkedMore DEF Where

LEMMA WhereSame ==
  ASSUME NEW tree, NEW same, NEW p,
         \A d \in Paths : tree[d].kind = "link" <=> same[d].kind = "link"
  PROVE  Where(tree, p) = Where(same, p)
<1>1. \A x : Linked(tree, x) <=> Linked(same, x)
  <2> TAKE x
  <2>1. Linked(tree, x) => Linked(same, x)
    BY LinkedMore
  <2>2. Linked(same, x) => Linked(tree, x)
    BY LinkedMore
  <2> QED
    BY <2>1, <2>2
<1> QED
  BY <1>1 DEF Where

LEMMA OneTier ==
  ASSUME NEW p, NEW old, NEW new, p \in TierPaths(old, new, "merge")
  PROVE  p \notin TierPaths(old, new, "replace")
<1>1. {"merge"} # {"replace"}
  OBVIOUS
<1> QED
  BY <1>1 DEF TierPaths, InTier

LEMMA IsMerging ==
  ASSUME NEW old, NEW new, NEW tree, NEW p
  PROVE  p \in Merging(old, new, tree) <=>
           /\ p \in TierPaths(old, new, "merge")
           /\ Reaches(tree[Where(tree, p)], Template[old][p], Template[new][p])
  BY DEF Merging, Reaches

LEMMA SyncOfFile ==
  ASSUME NEW p \in Paths, NEW old \in Tags, NEW new \in Tags, NEW f \in File, ~Marked(f)
  PROVE  SyncOf(p, old, new, f) \in File /\ ~Marked(SyncOf(p, old, new, f))
<1>1. Replace(Template[new][p], f) \in File /\ ~Marked(Replace(Template[new][p], f))
  <2>1. Template[new][p] \in File /\ ~Marked(Template[new][p])
    BY TemplateFile
  <2> QED
    BY <2>1, ReplaceFile
<1>2. Merge(p, old, new, f, {}) \in File /\ ~Marked(Merge(p, old, new, f, {}))
  BY MergeFile
<1> QED
  BY <1>1, <1>2 DEF SyncOf

\* Apply neither makes a link nor replaces one.
LEMMA SyncOfLink ==
  ASSUME NEW p \in Paths, NEW old \in Tags, NEW new \in Tags, NEW f \in File, ~Marked(f)
  PROVE  /\ SyncOf(p, old, new, f).kind = "link" <=> f.kind = "link"
         /\ f.kind = "link" => SyncOf(p, old, new, f) = f
<1>1. Replace(Template[new][p], f) = IF f.kind = "link" THEN f
                                     ELSE IF Template[new][p].kind = "file" THEN Template[new][p] ELSE NoFile
  BY TemplateFile, ReplaceFile
<1>2. /\ f.kind = "link" => Merge(p, old, new, f, {}) = f
      /\ f.kind # "link" => Merge(p, old, new, f, {}).kind # "link"
  <2>1. /\ f.kind = "link" \/ Template[new][p].kind # "file" => Merge(p, old, new, f, {}) = f
        /\ f.kind = "none" /\ Template[new][p].kind = "file" =>
             Merge(p, old, new, f, {}) = Template[new][p]
        /\ f.kind = "file" => Merge(p, old, new, f, {}).kind = "file"
    BY MergeFile
  <2>2. f.kind \in {"none", "link", "file"}
    BY FileFields
  <2> QED
    BY <2>1, <2>2
<1> QED
  BY <1>1, <1>2, NoFiles DEF SyncOf

LEMMA ReplaceTierTree ==
  ASSUME NEW old \in Tags, NEW new \in Tags, NEW tree \in Tree
  PROVE  /\ ReplaceTier(old, new, tree) \in Tree
         /\ CleanTree(tree) => CleanTree(ReplaceTier(old, new, tree))
         /\ \A q \in Paths : ReplaceTier(old, new, tree)[q] =
              IF Where(tree, q) \in TierPaths(old, new, "replace")
              THEN Replace(Template[new][Where(tree, q)], tree[q]) ELSE tree[q]
         /\ \A p : Where(ReplaceTier(old, new, tree), p) = Where(tree, p)
<1> DEFINE after == ReplaceTier(old, new, tree)
<1>1. \A q \in Paths : after[q] =
        IF Where(tree, q) \in TierPaths(old, new, "replace")
        THEN Replace(Template[new][Where(tree, q)], tree[q]) ELSE tree[q]
  BY DEF ReplaceTier
<1>2. \A q \in Paths :
        LET replaced == Replace(Template[new][Where(tree, q)], tree[q])
        IN /\ replaced \in File /\ (~Marked(tree[q]) => ~Marked(replaced))
           /\ replaced.kind = "link" <=> tree[q].kind = "link"
  <2> TAKE q \in Paths
  <2> DEFINE src == Template[new][Where(tree, q)]
  <2>1. tree[q] \in File /\ src \in File /\ ~Marked(src)
    BY WhereAndBack, TemplateFile DEF Tree
  <2> HIDE DEF src
  <2>2. /\ Replace(src, tree[q]) \in File /\ (~Marked(tree[q]) => ~Marked(Replace(src, tree[q])))
        /\ Replace(src, tree[q]) = IF tree[q].kind = "link" THEN tree[q]
                                   ELSE IF src.kind = "file" THEN src ELSE NoFile
    BY <2>1, ReplaceFile
  <2>3. Replace(src, tree[q]).kind = "link" <=> tree[q].kind = "link"
    BY <2>2, NoFiles
  <2> QED
    BY <2>2, <2>3 DEF src
<1>3. after \in Tree
  BY <1>2 DEF ReplaceTier, Tree
<1>4. \A d \in Paths : after[d].kind = "link" <=> tree[d].kind = "link"
  BY <1>1, <1>2
<1> HIDE DEF after
<1>5. \A p : Where(after, p) = Where(tree, p)
  BY <1>4, WhereSame
<1> QED
  BY <1>1, <1>2, <1>3, <1>5 DEF CleanTree, after

\* Whatever git finds in conflict, an applied tree is made of the one before.
LEMMA AppliedIsMade ==
  ASSUME NEW old \in Tags, NEW new \in Tags, NEW before \in Tree, CleanTree(before),
         NEW out \in Applied(old, new, before)
  PROVE  /\ out.tree \in Tree /\ out.conflicts \subseteq Paths
         /\ Made(old, new, before, out.tree, out.conflicts)
<1> DEFINE tree == ReplaceTier(old, new, before)
<1>1. PICK collided \in SUBSET MayCollide(old, new, tree) :
        /\ out.conflicts = collided \union Declined(old, new, tree)
        /\ out.tree = MergeTier(old, new, tree, out.conflicts \ Declined(old, new, tree))
  <2>1. PICK conflicts \in {collided \union Declined(old, new, tree) :
                             collided \in SUBSET MayCollide(old, new, tree)} :
          out = [rc |-> IF conflicts = {} THEN 0 ELSE 1, printed |-> TRUE, conflicts |-> conflicts,
                 tree |-> MergeTier(old, new, tree, conflicts \ Declined(old, new, tree))]
    BY DEF Applied
  <2>2. PICK collided \in SUBSET MayCollide(old, new, tree) :
          conflicts = collided \union Declined(old, new, tree)
    BY <2>1
  <2>3. out.conflicts = conflicts
        /\ out.tree = MergeTier(old, new, tree, conflicts \ Declined(old, new, tree))
    BY <2>1
  <2> QED
    BY <2>2, <2>3
<1> DEFINE marked == out.conflicts \ Declined(old, new, tree)
<1>2. /\ tree \in Tree /\ CleanTree(tree)
      /\ \A q \in Paths : tree[q] =
           IF Where(before, q) \in TierPaths(old, new, "replace")
           THEN Replace(Template[new][Where(before, q)], before[q]) ELSE before[q]
      /\ \A p : Where(tree, p) = Where(before, p)
  BY ReplaceTierTree
<1> HIDE DEF tree
<1>3. \A p : p \in TierPaths(old, new, "merge") =>
        p \in Paths /\ tree[Where(tree, p)] = before[Where(before, p)]
  <2> SUFFICES ASSUME NEW p \in TierPaths(old, new, "merge")
               PROVE  p \in Paths /\ tree[Where(tree, p)] = before[Where(before, p)]
    OBVIOUS
  <2>1. p \in Paths
    BY DEF TierPaths
  <2>2. Where(before, p) \in Paths /\ Where(before, Where(before, p)) = p
    BY <2>1, WhereAndBack
  <2>3. p \notin TierPaths(old, new, "replace")
    BY OneTier
  <2> QED
    BY <1>2, <2>1, <2>2, <2>3
<1>4. \A p : p \in Merging(old, new, tree) <=> p \in Merging(old, new, before)
  BY <1>3, IsMerging
<1>5. Declined(old, new, tree) = Declined(old, new, before)
  BY <1>4 DEF Declined
<1>6. out.conflicts \subseteq Paths
  BY <1>1, <1>3, IsMerging DEF MayCollide, Declined
<1>7. ASSUME NEW q \in Paths
      PROVE  /\ out.tree[q] \in File
             /\ Plain(out.tree[q]) = SyncOf(Where(before, q), old, new, before[q])
             /\ Marked(out.tree[q]) =>
                  Where(before, q) \in Merging(old, new, before) /\ Where(before, q) \in out.conflicts
  <2> DEFINE p == Where(before, q)
  <2>0. p \in Paths /\ Where(before, p) = q
    BY WhereAndBack
  <2>1. out.tree[q] = IF p \in TierPaths(old, new, "merge")
                      THEN Merge(p, old, new, tree[q], marked) ELSE tree[q]
    BY <1>1, <1>2 DEF MergeTier
  <2>2. /\ tree[q] \in File /\ ~Marked(tree[q]) /\ before[q] \in File
        /\ tree[q] = IF p \in TierPaths(old, new, "replace")
                     THEN Replace(Template[new][p], before[q]) ELSE before[q]
    BY <1>2 DEF Tree, CleanTree
  <2> HIDE DEF p
  <2>3. CASE p \in TierPaths(old, new, "merge")
    <3>1. tree[q] = before[q] /\ p \notin TierPaths(old, new, "replace")
      BY <2>2, <2>3, OneTier
    <3> HIDE DEF marked
    <3>2. /\ Merge(p, old, new, before[q], marked) \in File
          /\ Plain(Merge(p, old, new, before[q], marked)) = Merge(p, old, new, before[q], {})
          /\ Marked(Merge(p, old, new, before[q], marked)) =>
               p \in marked /\ Reaches(before[q], Template[old][p], Template[new][p])
      BY <2>0, <2>2, <3>1, MergeFile
    <3>3. SyncOf(p, old, new, before[q]) = Merge(p, old, new, before[q], {})
      BY <2>3, <3>1 DEF SyncOf
    <3>4. out.tree[q] = Merge(p, old, new, before[q], marked)
      BY <2>1, <2>3, <3>1
    <3>5. Reaches(before[q], Template[old][p], Template[new][p]) => p \in Merging(old, new, before)
      BY <2>0, <2>3, IsMerging
    <3> QED
      BY <3>2, <3>3, <3>4, <3>5 DEF marked, p
  <2>4. CASE p \notin TierPaths(old, new, "merge")
    <3>1. out.tree[q] = tree[q] /\ tree[q] = SyncOf(p, old, new, before[q])
      BY <2>1, <2>2, <2>4 DEF SyncOf
    <3> QED
      BY <2>2, <3>1, PlainFile DEF p
  <2> QED
    BY <2>3, <2>4
<1>8. out.tree \in Tree
  <2>1. out.tree = [q \in Paths |-> out.tree[q]]
    BY <1>1 DEF MergeTier
  <2> QED
    BY <1>7, <2>1 DEF Tree
<1>9. Declined(old, new, before) \subseteq out.conflicts
  BY <1>1, <1>5
<1> QED
  BY <1>6, <1>7, <1>8, <1>9 DEF Made

\* A sync changes only what is of its two tiers.
LEMMA MadeStays ==
  ASSUME NEW old \in Tags, NEW new \in Tags, NEW base \in Tree, CleanTree(base),
         NEW tree \in Tree, NEW conflicts, Made(old, new, base, tree, conflicts),
         NEW q \in Paths, NEW p, p = Where(base, q), tree[q] # base[q]
  PROVE  /\ Manifest[new][p] \in {{"replace"}, {"merge"}}
         /\ base[q].kind # "link"
         /\ Manifest[new][p] = {"merge"} => tree[q].kind = "file"
<1>0. p \in Paths /\ Where(base, p) = q
  BY WhereAndBack
<1>1. /\ tree[q] \in File /\ base[q] \in File /\ ~Marked(base[q])
      /\ Plain(tree[q]) = SyncOf(p, old, new, base[q])
      /\ Marked(tree[q]) => /\ p \in TierPaths(old, new, "merge")
                            /\ Reaches(base[q], Template[old][p], Template[new][p])
  BY <1>0, IsMerging DEF Made, Tree, CleanTree
<1>2. ~Marked(tree[q]) => tree[q] = SyncOf(p, old, new, base[q])
  BY <1>1, PlainFile
<1>3. CASE p \in TierPaths(old, new, "replace")
  <2>1. Manifest[new][p] = {"replace"}
    BY <1>3 DEF TierPaths, InTier
  <2>2. tree[q] = Replace(Template[new][p], base[q])
    BY <1>1, <1>2, <1>3, OneTier DEF SyncOf
  <2>3. base[q].kind # "link"
    BY <2>2 DEF Replace
  <2>4. {"merge"} # {"replace"}
    OBVIOUS
  <2> QED
    BY <2>1, <2>3, <2>4
<1>4. CASE p \in TierPaths(old, new, "merge")
  <2>1. Manifest[new][p] = {"merge"}
    BY <1>4 DEF TierPaths, InTier
  <2>2. Plain(tree[q]) = Merge(p, old, new, base[q], {})
    BY <1>1, <1>4, OneTier DEF SyncOf
  <2>3. CASE Marked(tree[q])
    <3>1. base[q].kind = "file"
      BY <1>0, <1>1, <2>3, TemplateFile, ReachesKinds
    <3>2. Merge(p, old, new, base[q], {}).kind = "file"
      BY <1>0, <1>1, <3>1, MergeFile
    <3>3. tree[q] \in File /\ Plain(tree[q]).kind = tree[q].kind
      BY <1>1, PlainFile
    <3> QED
      BY <2>1, <2>2, <3>1, <3>2, <3>3
  <2>4. CASE ~Marked(tree[q])
    <3>1. tree[q] = Merge(p, old, new, base[q], {})
      BY <1>1, <2>2, <2>4, PlainFile
    <3>2. /\ base[q].kind = "link" \/ Template[new][p].kind # "file" =>
               Merge(p, old, new, base[q], {}) = base[q]
          /\ base[q].kind = "none" /\ Template[new][p].kind = "file" =>
               Merge(p, old, new, base[q], {}) = Template[new][p]
          /\ base[q].kind = "file" => Merge(p, old, new, base[q], {}).kind = "file"
      BY <1>0, <1>1, MergeFile
    <3>3. base[q].kind # "link" /\ Template[new][p].kind = "file"
      BY <3>1, <3>2
    <3>4. base[q].kind \in {"none", "link", "file"}
      BY <1>1, FileFields
    <3>5. tree[q].kind = "file"
      BY <3>1, <3>2, <3>3, <3>4
    <3> QED
      BY <2>1, <3>3, <3>5
  <2> QED
    BY <2>3, <2>4
<1>5. CASE p \notin TierPaths(old, new, "replace") /\ p \notin TierPaths(old, new, "merge")
  BY <1>1, <1>2, <1>5 DEF SyncOf
<1> QED
  BY <1>3, <1>4, <1>5

\* What a merge leaves out is a conflict.
LEMMA MadeAnnounces ==
  ASSUME NEW old \in Tags, NEW new \in Tags, NEW base \in Tree, CleanTree(base),
         NEW tree \in Tree, NEW conflicts, Made(old, new, base, tree, conflicts),
         NEW p \in TierPaths(old, new, "merge"), NEW q, q = Where(base, p), tree[q].kind = "file",
         ~(Template[new][p].text \ Template[old][p].text \subseteq tree[q].text)
  PROVE  p \in conflicts
<1>0. p \in Paths /\ q \in Paths /\ Where(base, q) = p
  <2>1. p \in Paths
    BY DEF TierPaths
  <2> QED
    BY <2>1, WhereAndBack
<1>1. /\ tree[q] \in File /\ base[q] \in File /\ ~Marked(base[q])
      /\ Plain(tree[q]) = Merge(p, old, new, base[q], {})
      /\ p \in Declined(old, new, base) => p \in conflicts
  BY <1>0, OneTier DEF Made, Tree, CleanTree, SyncOf
<1>2. Plain(tree[q]).text \subseteq tree[q].text /\ Plain(tree[q]).kind = "file"
  BY <1>1, PlainFile
<1>3. ~(Template[new][p].text \ Template[old][p].text \subseteq Merge(p, old, new, base[q], {}).text)
      /\ Merge(p, old, new, base[q], {}).kind = "file"
  BY <1>1, <1>2
<1>4. Template[new][p] \in File /\ Template[old][p] \in File
  BY <1>0, TemplateFile
<1>5. Template[new][p].kind = "file"
  BY <1>3, <1>4, FileFields
<1>6. base[q].kind = "file"
  <2>0. p \in Paths /\ base[q] \in File /\ ~Marked(base[q])
    BY <1>0, <1>1
  <2>1. /\ base[q].kind = "none" /\ Template[new][p].kind = "file" =>
             Merge(p, old, new, base[q], {}) = Template[new][p]
        /\ base[q].kind = "link" \/ Template[new][p].kind # "file" =>
             Merge(p, old, new, base[q], {}) = base[q]
    BY <2>0, MergeFile
  <2>2. base[q].kind = "none" => Merge(p, old, new, base[q], {}) = Template[new][p]
    BY <1>5, <2>1
  <2>3. base[q].kind \in {"none", "link", "file"}
    BY <1>1, FileFields
  <2> QED
    BY <1>3, <2>1, <2>2, <2>3
<1>7. p \in Binary
  <2> SUFFICES ASSUME p \notin Binary PROVE FALSE
    OBVIOUS
  <2>1. Template[new][p].text \ Template[old][p].text \subseteq Merge(p, old, new, base[q], {}).text
    BY <1>0, <1>1, <1>5, <1>6, MergeText
  <2> QED
    BY <1>3, <2>1
<1>8. Reaches(base[q], Template[old][p], Template[new][p])
  <2>1. LeftAlone(base[q], Template[old][p], Template[new][p]) =>
          Merge(p, old, new, base[q], {}) = base[q]
    BY <1>0, <1>1, MergeClean
  <2>2. TakenOutright(base[q], Template[old][p], Template[new][p]) =>
          Merge(p, old, new, base[q], {}) = Template[new][p]
    BY <1>0, <1>1, MergeClean
  <2>3. LeftAlone(base[q], Template[old][p], Template[new][p]) =>
          \/ Template[new][p].text = Template[old][p].text \/ base[q].text = Template[new][p].text
    BY <1>5, <1>6 DEF LeftAlone, SameContent
  <2> QED
    BY <1>3, <2>1, <2>2, <2>3 DEF Reaches
<1> QED
  BY <1>1, <1>7, <1>8, IsMerging DEF Declined

\* A step applied again to what it produced has nothing to do.
LEMMA MadeIsQuiet ==
  ASSUME NEW old \in Tags, NEW new \in Tags, NEW base \in Tree, CleanTree(base),
         NEW tree \in Tree, NEW conflicts, Made(old, new, base, tree, conflicts)
  PROVE  /\ ReplaceTier(old, new, tree) = tree
         /\ Merging(old, new, tree) \intersect (MayCollide(old, new, tree) \union Binary)
              \subseteq conflicts
         /\ \A q \in Paths : Where(tree, q) \in conflicts \/ MergeTier(old, new, tree, {})[q] = tree[q]
<1>1. ASSUME NEW q \in Paths, NEW p, p = Where(base, q)
      PROVE  /\ p \in Paths /\ Where(base, p) = q
             /\ tree[q] \in File /\ base[q] \in File /\ ~Marked(base[q])
             /\ Plain(tree[q]) = SyncOf(p, old, new, base[q])
             /\ Marked(tree[q]) => /\ p \in TierPaths(old, new, "merge")
                                   /\ Reaches(base[q], Template[old][p], Template[new][p])
             /\ Marked(tree[q]) \/ p \in Declined(old, new, base) => p \in conflicts
             /\ ~Marked(tree[q]) => tree[q] = SyncOf(p, old, new, base[q])
  <2>1. /\ p \in Paths /\ Where(base, p) = q
        /\ tree[q] \in File /\ base[q] \in File /\ ~Marked(base[q])
    BY <1>1, WhereAndBack DEF Tree, CleanTree
  <2>2. /\ Plain(tree[q]) = SyncOf(p, old, new, base[q])
        /\ Marked(tree[q]) => p \in Merging(old, new, base)
        /\ Marked(tree[q]) \/ p \in Declined(old, new, base) => p \in conflicts
    BY <1>1 DEF Made
  <2> QED
    BY <2>1, <2>2, PlainFile, IsMerging
<1>2. \A p : Where(tree, p) = Where(base, p)
  <2>1. ASSUME NEW d \in Paths PROVE tree[d].kind = "link" <=> base[d].kind = "link"
    <3> DEFINE p == Where(base, d)
    <3>1. /\ p \in Paths /\ tree[d] \in File /\ base[d] \in File /\ ~Marked(base[d])
          /\ Plain(tree[d]) = SyncOf(p, old, new, base[d])
      BY <1>1
    <3> HIDE DEF p
    <3>2. tree[d].kind = SyncOf(p, old, new, base[d]).kind
      BY <3>1, PlainFile
    <3>3. SyncOf(p, old, new, base[d]).kind = "link" <=> base[d].kind = "link"
      BY <3>1, SyncOfLink
    <3> QED
      BY <3>2, <3>3
  <2> QED
    BY <2>1, WhereSame
<1>3. ReplaceTier(old, new, tree) = tree
  <2>1. ASSUME NEW q \in Paths PROVE ReplaceTier(old, new, tree)[q] = tree[q]
    <3> DEFINE p == Where(base, q)
    <3>0. /\ p \in Paths /\ tree[q] \in File /\ base[q] \in File
          /\ ~Marked(tree[q]) => tree[q] = SyncOf(p, old, new, base[q])
          /\ Marked(tree[q]) => p \in TierPaths(old, new, "merge")
          /\ ReplaceTier(old, new, tree)[q] =
               IF p \in TierPaths(old, new, "replace") THEN Replace(Template[new][p], tree[q]) ELSE tree[q]
      BY <1>1, <1>2, ReplaceTierTree
    <3> HIDE DEF p
    <3>1. CASE p \in TierPaths(old, new, "replace")
      <4>1. tree[q] = Replace(Template[new][p], base[q])
        BY <3>0, <3>1, OneTier DEF SyncOf
      <4>2. Template[new][p] \in File
        BY <3>0, TemplateFile
      <4>3. Replace(Template[new][p], Replace(Template[new][p], base[q])) =
              Replace(Template[new][p], base[q])
        BY <3>0, <4>2, ReplaceFile
      <4> QED
        BY <3>0, <3>1, <4>1, <4>3
    <3>2. CASE p \notin TierPaths(old, new, "replace")
      BY <3>0, <3>2
    <3> QED
      BY <3>1, <3>2
  <2>2. tree = [p \in Paths |-> tree[p]]
        /\ ReplaceTier(old, new, tree) = [p \in Paths |-> ReplaceTier(old, new, tree)[p]]
    BY ReplaceTierTree DEF Tree
  <2> QED
    BY <2>1, <2>2
<1>4. ASSUME NEW p \in TierPaths(old, new, "merge"), NEW q, q = Where(base, p)
      PROVE  /\ p \in Paths /\ q \in Paths /\ Where(base, q) = p
             /\ Reaches(tree[q], Template[old][p], Template[new][p]) =>
                  Reaches(base[q], Template[old][p], Template[new][p])
             /\ Reaches(tree[q], Template[old][p], Template[new][p]) /\ p \notin Binary =>
                  ThreeWay(tree[q], Template[old][p], Template[new][p]) = tree[q]
             /\ ~Marked(tree[q]) => Merge(p, old, new, tree[q], {}) = tree[q]
  <2>1. p \in Paths
    BY DEF TierPaths
  <2>2. q \in Paths /\ Where(base, q) = p
    BY <1>4, <2>1, WhereAndBack
  <2>3. /\ tree[q] \in File /\ base[q] \in File /\ ~Marked(base[q])
        /\ Plain(tree[q]) = SyncOf(p, old, new, base[q])
        /\ Marked(tree[q]) => Reaches(base[q], Template[old][p], Template[new][p])
    BY <1>1, <2>2
  <2>4. Plain(tree[q]) = Merge(p, old, new, base[q], {})
    BY <2>3, OneTier DEF SyncOf
  <2> QED
    BY <2>1, <2>2, <2>3, <2>4, MergeAgain
<1>5. ASSUME NEW p \in Merging(old, new, tree), p \in MayCollide(old, new, tree) \union Binary
      PROVE  p \in conflicts
  <2> DEFINE q == Where(base, p)
  <2>1. p \in TierPaths(old, new, "merge") /\ Reaches(tree[q], Template[old][p], Template[new][p])
    BY <1>2, IsMerging
  <2>2. /\ p \in Paths /\ q \in Paths /\ Where(base, q) = p
        /\ Reaches(base[q], Template[old][p], Template[new][p])
        /\ p \notin Binary => ThreeWay(tree[q], Template[old][p], Template[new][p]) = tree[q]
    BY <1>4, <2>1
  <2>3. p \in Binary
    BY <1>2, <1>5, <2>2 DEF MayCollide
  <2>4. p \in Declined(old, new, base)
    BY <2>1, <2>2, <2>3, IsMerging DEF Declined
  <2> QED
    BY <1>1, <2>2, <2>4
<1>6. ASSUME NEW q \in Paths, Where(tree, q) \notin conflicts
      PROVE  MergeTier(old, new, tree, {})[q] = tree[q]
  <2> DEFINE p == Where(base, q)
  <2>1. p \in Paths /\ Where(base, p) = q /\ ~Marked(tree[q])
    BY <1>1, <1>2, <1>6
  <2>2. MergeTier(old, new, tree, {})[q] =
          IF p \in TierPaths(old, new, "merge") THEN Merge(p, old, new, tree[q], {}) ELSE tree[q]
    BY <1>2 DEF MergeTier
  <2>3. p \in TierPaths(old, new, "merge") => Merge(p, old, new, tree[q], {}) = tree[q]
    BY <1>4, <2>1
  <2> QED
    BY <2>2, <2>3
<1> QED
  BY <1>3, <1>5, <1>6

-----------------------------------------------------------------------------
(* The inductive invariant *)

\* The copies of main that runs and pull requests still work with.
Taken ==
  {runs[r].base : r \in {q \in Runs : runs[q].pc # "idle"}} \union
  {prs[t].base : t \in {u \in Tags : prs[u].status # "none"}}

\* A copy is free of markers, no newer than main, and what it links main links.
Known(s) ==
  /\ s \in Snapshot /\ CleanTree(s.tree)
  /\ s.state \in released \union {Unsynced} /\ NotBehind(s.state, main.state)
  /\ \A p \in Paths : s.tree[p].kind = "link" => main.tree[p].kind = "link"

CopiesInv == Known(main) /\ \A s \in Taken : Known(s)

\* What a branch holds: the state file alone, or what apply made of a copy.
Produced(base, head, new, conflicts) ==
  /\ new \in released /\ head.state = new /\ Ahead(base.state, new)
  /\ IF base.state = Unsynced THEN new = Origin /\ head.tree = base.tree
     ELSE Made(base.state, new, base.tree, head.tree, conflicts)

RunOk(run) ==
  /\ run.pc \in {"select", "apply"} => run.base.state \in released
  /\ run.pc = "apply" => run.new \in released /\ Ahead(run.base.state, run.new)
  /\ run.pc \in {"push", "open"} => Produced(run.base, run.work, run.new, run.conflicts)

\* The branch that a run is about to open is still the one that it pushed.
OpenOk(r) ==
  runs[r].pc = "open" =>
    /\ prs[runs[r].new] = PR("pushed", runs[r].base, runs[r].work, {})
    /\ \A q \in Runs : runs[q].pc = "open" /\ runs[q].new = runs[r].new => q = r

PROk(pr, t) ==
  pr.status # "none" =>
    Produced(pr.base, pr.head, t, IF pr.status = "open" THEN pr.listed ELSE Paths)

FlowInv ==
  /\ Origin \in released
  /\ \A r \in Runs : RunOk(runs[r]) /\ OpenOk(r)
  /\ \A t \in Tags : PROk(prs[t], t)

InSync(s, p) == s.tree[p] = FileOf(At(s.state), p) \/ Astride(s.tree, p)

\* A copy of what main is at now differs from the template only where main was
\* touched; an older copy may be anything, for main never returns to its tag.
ReplaceInv ==
  \A p \in Paths : Steady(p, "replace") /\ p \notin touched =>
    InSync(main, p) /\ \A s \in Taken : s.state = main.state => InSync(s, p)

Text(s, p) == Template[At(s)][p].text
Owned(p) == IF p \in own THEN {Own} ELSE {}

MergeInv ==
  \A p \in Paths \ Binary : Steady(p, "merge") /\ ~Astride(main.tree, p) =>
    /\ p \in own => main.tree[p].kind = "file"
    /\ p \notin astray =>
         /\ main.tree[p].kind = "file" => main.tree[p].text = Text(main.state, p) \union Owned(p)
         /\ main.tree[p].kind = "none" => Template[At(main.state)][p].kind # "file"
         /\ \A s \in Taken : s.state = main.state /\ s.tree[p].kind = "file" =>
              main.tree[p].kind = "file" /\ s.tree[p].text \ {Own} = Text(s.state, p)

Inv == TypeOK /\ CopiesInv /\ FlowInv /\ ReplaceInv /\ MergeInv

RunSet == [pc : {"idle", "select", "apply", "push", "open"},
           base : Snapshot, work : Snapshot, new : Tags \union {Unsynced}, conflicts : SUBSET Paths]
PRSet == [status : {"none", "pushed", "open"}, base : Snapshot, head : Snapshot, listed : SUBSET Paths]

LEMMA Types ==
  ASSUME TypeOK
  PROVE  /\ released \subseteq Tags /\ main \in Snapshot
         /\ prs \in [Tags -> PRSet] /\ runs \in [Runs -> RunSet]
  BY DEF TypeOK, PRSet, RunSet

LEMMA SnapshotFields ==
  ASSUME NEW s \in Snapshot
  PROVE  s.tree \in Tree /\ s.state \in Tags \union {Unsynced}
  BY DEF Snapshot, Tree

LEMMA SnapshotMade ==
  ASSUME NEW tree \in Tree, NEW state \in Tags \union {Unsynced}
  PROVE  [tree |-> tree, state |-> state] \in Snapshot
  BY DEF Snapshot, Tree

\* What is astride of links in a tree is so in one with more links.
LEMMA AstrideMore ==
  ASSUME NEW tree, NEW more, NEW p \in Paths,
         \A d \in Paths : tree[d].kind = "link" => more[d].kind = "link"
  PROVE  Astride(tree, p) => Astride(more, p)
  BY WhereMore DEF Astride

LEMMA BlankSnapshot == Blank \in Snapshot
<1>1. [p \in Paths |-> NoFile] \in Tree
  BY NoFiles DEF Tree
<1> QED
  BY <1>1, SnapshotMade DEF Blank

LEMMA RunMade ==
  ASSUME NEW pc \in {"idle", "select", "apply", "push", "open"}, NEW base \in Snapshot,
         NEW work \in Snapshot, NEW new \in Tags \union {Unsynced}, NEW conflicts \in SUBSET Paths
  PROVE  /\ Run(pc, base, work, new, conflicts) \in RunSet
         /\ Run(pc, base, work, new, conflicts).pc = pc
         /\ Run(pc, base, work, new, conflicts).base = base
         /\ Run(pc, base, work, new, conflicts).work = work
         /\ Run(pc, base, work, new, conflicts).new = new
         /\ Run(pc, base, work, new, conflicts).conflicts = conflicts
  BY DEF Run, RunSet

LEMMA PRMade ==
  ASSUME NEW status \in {"none", "pushed", "open"}, NEW base \in Snapshot, NEW head \in Snapshot,
         NEW listed \in SUBSET Paths
  PROVE  /\ PR(status, base, head, listed) \in PRSet
         /\ PR(status, base, head, listed).status = status
         /\ PR(status, base, head, listed).base = base
         /\ PR(status, base, head, listed).head = head
         /\ PR(status, base, head, listed).listed = listed
  BY DEF PR, PRSet

LEMMA Idle ==
  /\ IdleRun \in RunSet /\ IdleRun.pc = "idle" /\ RunOk(IdleRun)
  /\ NoPR \in PRSet /\ NoPR.status = "none" /\ \A t \in Tags : PROk(NoPR, t)
<1>1. IdleRun \in RunSet /\ IdleRun.pc = "idle"
  BY BlankSnapshot, RunMade DEF IdleRun
<1>2. NoPR \in PRSet /\ NoPR.status = "none"
  BY BlankSnapshot, PRMade DEF NoPR
<1> QED
  BY <1>1, <1>2 DEF RunOk, PROk

\* The conflicts of a branch are in a larger set too.
LEMMA ProducedListed ==
  ASSUME NEW base, NEW head, NEW new, NEW conflicts, NEW listed,
         Produced(base, head, new, conflicts), conflicts \subseteq listed
  PROVE  Produced(base, head, new, listed)
  BY DEF Produced, Made

\* A file of the copy as the branch has it, markers apart.
LEMMA ProducedPath ==
  ASSUME NEW base \in Snapshot, NEW head \in Snapshot, CleanTree(base.tree), NEW new, NEW conflicts,
         Produced(base, head, new, conflicts), NEW p \in Paths, ~Marked(head.tree[p]),
         base.state # Unsynced
  PROVE  head.tree[p] = SyncOf(Where(base.tree, p), base.state, new, base.tree[p])
<1>1. head.tree[p] \in File
  BY SnapshotFields DEF Tree
<1> QED
  BY <1>1, PlainFile DEF Produced, Made

-----------------------------------------------------------------------------
(* Steps that leave main alone *)

\* They take new copies of main only, so that nothing of the copies changes.
LEMMA QuietStep ==
  ASSUME Inv, released \subseteq released', released' \subseteq Tags,
         UNCHANGED <<channel, main, touched, own, astray>>,
         \A s \in Taken' : s \in Taken \union {main}
  PROVE  CopiesInv' /\ ReplaceInv' /\ MergeInv'
<1>1. \A s : Known(s) => Known(s)'
  BY DEF Known, NotBehind, Ahead, Candidates
<1>2. CopiesInv'
  BY <1>1 DEF Inv, CopiesInv
<1>3. ReplaceInv'
  BY DEF Inv, ReplaceInv, InSync
<1>4. MergeInv'
  <2>1. SUFFICES ASSUME NEW p \in Paths \ Binary, Steady(p, "merge"), ~Astride(main.tree, p)
                 PROVE  /\ p \in own => main.tree[p].kind = "file"
                        /\ p \notin astray =>
                             /\ main.tree[p].kind = "file" =>
                                  main.tree[p].text = Text(main.state, p) \union Owned(p)
                             /\ main.tree[p].kind = "none" => Template[At(main.state)][p].kind # "file"
                             /\ \A s \in Taken' : s.state = main.state /\ s.tree[p].kind = "file" =>
                                  main.tree[p].kind = "file" /\ s.tree[p].text \ {Own} = Text(s.state, p)
    BY DEF MergeInv, Owned
  <2>2. /\ p \in own => main.tree[p].kind = "file"
        /\ p \notin astray =>
             /\ main.tree[p].kind = "file" => main.tree[p].text = Text(main.state, p) \union Owned(p)
             /\ main.tree[p].kind = "none" => Template[At(main.state)][p].kind # "file"
             /\ \A s \in Taken : s.state = main.state /\ s.tree[p].kind = "file" =>
                  main.tree[p].kind = "file" /\ s.tree[p].text \ {Own} = Text(s.state, p)
    BY <2>1 DEF Inv, MergeInv
  <2>3. p \notin astray /\ main.tree[p].kind = "file" => main.tree[p].text \ {Own} = Text(main.state, p)
    <3>1. Own \notin Text(main.state, p)
      BY TemplateFile, TagsAssumption, Types, SnapshotFields DEF Inv, Text, At
    <3> QED
      BY <2>2, <3>1 DEF Owned
  <2> QED
    BY <2>2, <2>3
<1> QED
  BY <1>2, <1>3, <1>4

LEMMA TakenBounded ==
  ASSUME \A r \in Runs : runs'[r].pc # "idle" => runs'[r].base \in Taken \union {main},
         \A t \in Tags : prs'[t].status # "none" => prs'[t].base \in Taken \union {main}
  PROVE  \A s \in Taken' : s \in Taken \union {main}
  BY DEF Taken

LEMMA InTaken ==
  /\ \A r \in Runs : runs[r].pc # "idle" => runs[r].base \in Taken
  /\ \A t \in Tags : prs[t].status # "none" => prs[t].base \in Taken
  BY DEF Taken

\* A step of one run that touches no pull request.
LEMMA RunStep ==
  ASSUME Inv, NEW r \in Runs, NEW x \in RunSet, Become(r, x), RunOk(x), x.pc # "open",
         x.pc = "idle" \/ x.base \in Taken \union {main}, UNCHANGED <<world, prs>>
  PROVE  Inv'
<1>1. /\ released \subseteq Tags /\ runs \in [Runs -> RunSet]
      /\ UNCHANGED <<released, channel, main, edits, touched, own, astray, prs>>
  BY Types DEF Inv, world
<1>2. /\ runs' \in [Runs -> RunSet] /\ runs'[r] = x /\ \A q \in Runs \ {r} : runs'[q] = runs[q]
  BY <1>1 DEF Become
<1>3. TypeOK'
  BY <1>1, <1>2 DEF Inv, TypeOK, RunSet
<1>4. \A s \in Taken' : s \in Taken \union {main}
  BY <1>1, <1>2, InTaken, TakenBounded
<1>5. CopiesInv' /\ ReplaceInv' /\ MergeInv'
  BY <1>1, <1>4, QuietStep
<1>6. \A z : RunOk(z) => RunOk(z)'
  BY <1>1 DEF RunOk, Produced, Ahead, Candidates
<1>7. \A z, t : PROk(z, t) => PROk(z, t)'
  BY <1>1 DEF PROk, Produced, Ahead, Candidates
<1>8. FlowInv'
  <2>1. \A q \in Runs : RunOk(runs[q])'
    BY <1>2, <1>6 DEF Inv, FlowInv
  <2>2. \A q \in Runs : OpenOk(q)'
    BY <1>1, <1>2 DEF Inv, FlowInv, OpenOk
  <2>3. \A t \in Tags : PROk(prs[t], t)'
    BY <1>1, <1>7 DEF Inv, FlowInv
  <2> QED
    BY <1>1, <2>1, <2>2, <2>3 DEF FlowInv, Inv
<1> QED
  BY <1>3, <1>5, <1>8 DEF Inv

\* A step of the maintainers on one branch, which no run is about to open.
LEMMA BranchStep ==
  ASSUME Inv, NEW t \in Tags, NEW x \in PRSet, prs' = [prs EXCEPT ![t] = x], PROk(x, t),
         x.status = "none" \/ x.base \in Taken,
         \A r \in Runs : runs[r].pc = "open" => runs[r].new # t, UNCHANGED <<world, runs>>
  PROVE  Inv'
<1>1. /\ released \subseteq Tags /\ prs \in [Tags -> PRSet]
      /\ UNCHANGED <<released, channel, main, edits, touched, own, astray, runs>>
  BY Types DEF Inv, world
<1>2. /\ prs' \in [Tags -> PRSet] /\ prs'[t] = x /\ \A u \in Tags \ {t} : prs'[u] = prs[u]
  BY <1>1
<1>3. TypeOK'
  BY <1>1, <1>2 DEF Inv, TypeOK, PRSet
<1>4. \A s \in Taken' : s \in Taken \union {main}
  BY <1>1, <1>2, InTaken, TakenBounded
<1>5. CopiesInv' /\ ReplaceInv' /\ MergeInv'
  BY <1>1, <1>4, QuietStep
<1>6. \A z : RunOk(z) => RunOk(z)'
  BY <1>1 DEF RunOk, Produced, Ahead, Candidates
<1>7. \A z, u : PROk(z, u) => PROk(z, u)'
  BY <1>1 DEF PROk, Produced, Ahead, Candidates
<1>8. FlowInv'
  <2>1. \A q \in Runs : RunOk(runs[q])'
    BY <1>1, <1>6 DEF Inv, FlowInv
  <2>2. ASSUME NEW q \in Runs PROVE OpenOk(q)'
    <3>1. OpenOk(q)
      BY DEF Inv, FlowInv
    <3>2. runs[q].pc = "open" => runs[q].new \in Tags /\ runs[q].new # t
      <4>1. runs[q].pc = "open" => runs[q].new \in released
        BY DEF Inv, FlowInv, RunOk, Produced
      <4> QED
        BY <1>1, <4>1
    <3> QED
      BY <1>1, <1>2, <3>1, <3>2 DEF OpenOk
  <2>3. \A u \in Tags : PROk(prs[u], u)'
    BY <1>2, <1>7 DEF Inv, FlowInv
  <2> QED
    BY <1>1, <2>1, <2>2, <2>3 DEF FlowInv, Inv
<1> QED
  BY <1>3, <1>5, <1>8 DEF Inv

LEMMA InitInv == Init => Inv
<1> SUFFICES ASSUME Init PROVE Inv
  OBVIOUS
<1>1. /\ prs = [t \in Tags |-> NoPR] /\ runs = [r \in Runs |-> IdleRun]
      /\ main = [tree |-> Template[Origin], state |-> Unsynced]
      /\ released \subseteq Tags /\ edits = 0 /\ touched = {} /\ own = {} /\ astray = {}
      /\ channel \in {"stable", "rc"}
  BY TagsAssumption DEF Init
<1>2. Template[Origin] \in Tree /\ CleanTree(Template[Origin])
  BY TemplateAssumption, TagsAssumption DEF Tree, CleanTree
<1>3. main \in Snapshot /\ main.tree = Template[Origin] /\ main.state = Unsynced
  BY <1>1, <1>2, SnapshotMade
<1>4. Taken = {}
  BY <1>1, Idle DEF Taken
<1>5. TypeOK
  <2>1. prs \in [Tags -> PRSet] /\ runs \in [Runs -> RunSet]
    BY <1>1, Idle
  <2>2. edits \in 0..MaxEdits
    BY <1>1, EditsAssumption
  <2> QED
    BY <1>1, <1>3, <2>1, <2>2 DEF TypeOK, PRSet, RunSet
<1>6. CopiesInv
  BY <1>2, <1>3, <1>4 DEF CopiesInv, Known, NotBehind
<1>7. FlowInv
  BY <1>1, Idle DEF FlowInv, OpenOk, Init
<1>8. \A p \in Paths : main.tree[p] = Template[At(main.state)][p] /\ main.tree[p] \in File
  BY <1>2, <1>3 DEF At, Tree
<1>9. ReplaceInv
  <2>1. ASSUME NEW p \in Paths PROVE InSync(main, p)
    <3>1. main.tree[p] = NoFile \/ main.tree[p].kind \in {"file", "link"}
      BY <1>8, FileFields
    <3> QED
      BY <1>8, <3>1, NoFiles DEF InSync, FileOf, Astride
  <2> QED
    BY <1>4, <2>1 DEF ReplaceInv
<1>10. MergeInv
  BY <1>1, <1>4, <1>8 DEF MergeInv, Text, Owned
<1> QED
  BY <1>5, <1>6, <1>7, <1>9, <1>10 DEF Inv

LEMMA CheckOutStep == ASSUME Inv, NEW r \in Runs, CheckOut(r) PROVE Inv'
<1> DEFINE x == Run("select", main, Blank, Unsynced, {})
<1>1. /\ x \in RunSet /\ x.pc = "select" /\ x.base = main
  BY Types, BlankSnapshot, RunMade DEF Inv
<1>2. main.state \in released
  BY DEF CheckOut, Inv, CopiesInv, Known
<1> HIDE DEF x
<1>3. RunOk(x)
  BY <1>1, <1>2 DEF RunOk
<1>4. Become(r, x) /\ UNCHANGED <<world, prs>>
  BY DEF CheckOut, x
<1> QED
  BY <1>1, <1>3, <1>4, RunStep

LEMMA BootstrapStep == ASSUME Inv, NEW r \in Runs, Bootstrap(r) PROVE Inv'
<1> DEFINE work == [main EXCEPT !.state = Origin]
           x == Run("push", main, work, Origin, {})
<1>1. /\ main \in Snapshot /\ work \in Snapshot /\ Origin \in Tags
      /\ work.tree = main.tree /\ work.state = Origin /\ main.state = Unsynced
  BY Types, TagsAssumption DEF Inv, Snapshot, Bootstrap
<1> HIDE DEF work
<1>2. /\ x \in RunSet /\ x.pc = "push" /\ x.base = main /\ x.work = work /\ x.new = Origin
  BY <1>1, RunMade
<1> HIDE DEF x
<1>3. Produced(x.base, x.work, x.new, x.conflicts)
  BY <1>1, <1>2, TagsAssumption DEF Produced, Ahead, Inv, FlowInv
<1>4. RunOk(x)
  BY <1>2, <1>3 DEF RunOk
<1>5. Become(r, x) /\ UNCHANGED <<world, prs>>
  BY DEF Bootstrap, x, work
<1> QED
  BY <1>2, <1>4, <1>5, RunStep

LEMMA LeaveStep == ASSUME Inv, NEW r \in Runs, Leave(r), UNCHANGED <<world, prs>> PROVE Inv'
  BY Idle, RunStep DEF Leave

LEMMA SelectTagStep == ASSUME Inv, NEW r \in Runs, SelectTag(r) PROVE Inv'
<1> DEFINE tags == Candidates(released)
           base == runs[r].base
           x == Run("apply", base, Blank, Newest(tags), {})
<1>1. /\ runs[r] \in RunSet /\ runs[r].pc = "select" /\ base \in Snapshot /\ base \in Taken
      /\ base.state \in released
      /\ released \subseteq Tags /\ channel \in {"stable", "alpha", "beta", "rc"}
  BY Types, InTaken DEF Inv, FlowInv, RunOk, SelectTag, RunSet, TypeOK
<1>2. CASE tags = {} \/ Newest(tags) = base.state
  BY <1>2, LeaveStep DEF SelectTag
<1>3. CASE tags # {} /\ Newest(tags) # base.state
  <2>1. Newest(tags) \in released /\ Ahead(base.state, Newest(tags))
    BY <1>1, <1>3, NewestIsAhead
  <2>2. Become(r, x) /\ UNCHANGED <<world, prs>>
    BY <1>3 DEF SelectTag
  <2> HIDE DEF tags, base
  <2>3. /\ x \in RunSet /\ x.pc = "apply" /\ x.base = base /\ x.new = Newest(tags)
    BY <1>1, <2>1, BlankSnapshot, RunMade
  <2> HIDE DEF x
  <2>4. RunOk(x)
    BY <1>1, <2>1, <2>3 DEF RunOk
  <2> QED
    BY <1>1, <2>2, <2>3, <2>4, RunStep
<1> QED
  BY <1>2, <1>3

LEMMA ApplyStep == ASSUME Inv, NEW r \in Runs, Apply(r) PROVE Inv'
<1> DEFINE base == runs[r].base
           old == base.state
           new == runs[r].new
<1>1. /\ base \in Snapshot /\ base \in Taken /\ old \in Tags /\ new \in Tags
      /\ old \in released /\ new \in released /\ Ahead(old, new)
      /\ base.tree \in Tree /\ CleanTree(base.tree)
  <2>1. runs[r].pc = "apply" /\ runs[r] \in RunSet /\ RunOk(runs[r]) /\ released \subseteq Tags
    BY Types DEF Inv, FlowInv, Apply
  <2>2. base \in Snapshot /\ base \in Taken
    BY <2>1, InTaken DEF RunSet
  <2>3. old \in released /\ new \in released /\ Ahead(old, new)
    BY <2>1 DEF RunOk
  <2> QED
    BY <2>1, <2>2, <2>3, SnapshotFields DEF Inv, CopiesInv, Known
<1>2. PICK out \in Failed(old, new, base.tree) \union
                   (IF Obstructed(old, new, base.tree) THEN {} ELSE Applied(old, new, base.tree)) :
        IF Trusted(out)
        THEN Become(r, Run("push", base, [tree |-> out.tree, state |-> new], new, out.conflicts))
        ELSE Leave(r)
  BY DEF Apply
<1>3. UNCHANGED <<world, prs>>
  BY DEF Apply
<1>4. CASE ~Trusted(out)
  BY <1>2, <1>3, <1>4, LeaveStep
<1>5. CASE Trusted(out)
  <2>1. out \in Applied(old, new, base.tree)
    BY <1>2, <1>5 DEF Trusted, Failed
  <2> DEFINE work == [tree |-> out.tree, state |-> new]
             x == Run("push", base, work, new, out.conflicts)
  <2>2. Become(r, x)
    BY <1>2, <1>5
  <2> HIDE DEF base
  <2>3. /\ out.tree \in Tree /\ out.conflicts \subseteq Paths
        /\ Made(old, new, base.tree, out.tree, out.conflicts)
    BY <1>1, <2>1, AppliedIsMade
  <2>4. work \in Snapshot /\ work.tree = out.tree /\ work.state = new
    BY <1>1, <2>3, SnapshotMade
  <2> HIDE DEF work
  <2>5. /\ x \in RunSet /\ x.pc = "push" /\ x.base = base /\ x.work = work /\ x.new = new
        /\ x.conflicts = out.conflicts
    BY <1>1, <2>3, <2>4, RunMade
  <2> HIDE DEF x
  <2>6. Produced(x.base, x.work, x.new, x.conflicts)
    BY <1>1, <2>3, <2>4, <2>5, TagsAssumption DEF Produced
  <2>7. RunOk(x)
    BY <2>5, <2>6 DEF RunOk
  <2> QED
    BY <1>1, <1>3, <2>2, <2>5, <2>7, RunStep
<1> QED
  BY <1>4, <1>5

\* A step of one run that also writes the pull request of its tag.
LEMMA RunAndBranchStep ==
  ASSUME Inv, NEW r \in Runs, NEW x \in RunSet, Become(r, x), RunOk(x),
         x.pc = "idle" \/ x.base \in Taken,
         NEW t \in Tags, NEW y \in PRSet, prs' = [prs EXCEPT ![t] = y], PROk(y, t), y.base \in Taken,
         x.pc = "open" => x.new = t /\ y = PR("pushed", x.base, x.work, {}),
         \A q \in Runs \ {r} : runs[q].pc = "open" => runs[q].new # t,
         UNCHANGED world
  PROVE  Inv'
<1>1. /\ released \subseteq Tags /\ runs \in [Runs -> RunSet] /\ prs \in [Tags -> PRSet]
      /\ UNCHANGED <<released, channel, main, edits, touched, own, astray>>
  BY Types DEF Inv, world
<1>2. /\ runs' \in [Runs -> RunSet] /\ runs'[r] = x /\ \A q \in Runs \ {r} : runs'[q] = runs[q]
  BY <1>1 DEF Become
<1>3. /\ prs' \in [Tags -> PRSet] /\ prs'[t] = y /\ \A u \in Tags \ {t} : prs'[u] = prs[u]
  BY <1>1
<1>4. TypeOK'
  BY <1>1, <1>2, <1>3 DEF Inv, TypeOK, PRSet, RunSet
<1>5. \A s \in Taken' : s \in Taken \union {main}
  BY <1>2, <1>3, InTaken, TakenBounded
<1>6. CopiesInv' /\ ReplaceInv' /\ MergeInv'
  BY <1>1, <1>5, QuietStep
<1>7. \A z : RunOk(z) => RunOk(z)'
  BY <1>1 DEF RunOk, Produced, Ahead, Candidates
<1>8. \A z, u : PROk(z, u) => PROk(z, u)'
  BY <1>1 DEF PROk, Produced, Ahead, Candidates
<1>9. FlowInv'
  <2>1. \A q \in Runs : RunOk(runs[q])'
    BY <1>2, <1>7 DEF Inv, FlowInv
  <2>2. ASSUME NEW q \in Runs PROVE OpenOk(q)'
    <3>1. CASE q = r
      BY <1>2, <1>3, <3>1 DEF OpenOk
    <3>2. CASE q # r
      <4>1. OpenOk(q) /\ (runs[q].pc = "open" => runs[q].new \in released /\ runs[q].new # t)
        BY <3>2 DEF Inv, FlowInv, RunOk, Produced
      <4> QED
        BY <1>1, <1>2, <1>3, <3>2, <4>1 DEF OpenOk
    <3> QED
      BY <3>1, <3>2
  <2>3. \A u \in Tags : PROk(prs[u], u)'
    BY <1>3, <1>8 DEF Inv, FlowInv
  <2> QED
    BY <1>1, <2>1, <2>2, <2>3 DEF FlowInv, Inv
<1> QED
  BY <1>4, <1>6, <1>9 DEF Inv

LEMMA PushStep == ASSUME Inv, NEW r \in Runs, Push(r) PROVE Inv'
<1>1. CASE runs[r].work = runs[r].base \/ prs[runs[r].new].status # "none"
  BY <1>1, LeaveStep DEF Push
<1>2. CASE ~(runs[r].work = runs[r].base \/ prs[runs[r].new].status # "none")
  <2> DEFINE t == runs[r].new
             x == Run("open", runs[r].base, runs[r].work, t, runs[r].conflicts)
             y == PR("pushed", runs[r].base, runs[r].work, {})
  <2>1. /\ prs' = [prs EXCEPT ![t] = y] /\ Become(r, x) /\ UNCHANGED world
        /\ prs[t].status = "none" /\ runs[r].pc = "push"
    BY <1>2 DEF Push
  <2>2. /\ runs[r] \in RunSet /\ released \subseteq Tags /\ runs[r].base \in Taken
        /\ Produced(runs[r].base, runs[r].work, t, runs[r].conflicts)
    BY <2>1, Types, InTaken DEF Inv, FlowInv, RunOk
  <2>3. /\ runs[r].base \in Snapshot /\ runs[r].work \in Snapshot /\ runs[r].conflicts \subseteq Paths
        /\ t \in Tags /\ t \in Tags \union {Unsynced}
    BY <2>2 DEF RunSet, Produced
  <2>4. /\ x \in RunSet /\ x.pc = "open" /\ x.base = runs[r].base /\ x.work = runs[r].work
        /\ x.new = t /\ x.conflicts = runs[r].conflicts
    BY <2>3, RunMade
  <2>5. /\ y \in PRSet /\ y.status = "pushed" /\ y.base = runs[r].base /\ y.head = runs[r].work
    BY <2>3, PRMade
  <2>6. Produced(runs[r].base, runs[r].work, t, Paths)
    BY <2>2, <2>3, ProducedListed
  <2>7. \A q \in Runs : runs[q].pc = "open" => runs[q].new # t
    <3> SUFFICES ASSUME NEW q \in Runs, runs[q].pc = "open", runs[q].new = t PROVE FALSE
      OBVIOUS
    <3>1. prs[t] = PR("pushed", runs[q].base, runs[q].work, {})
      BY DEF Inv, FlowInv, OpenOk
    <3> QED
      BY <2>1, <3>1 DEF PR
  <2>8. RunOk(x)
    <3> HIDE DEF x
    <3> QED
      BY <2>2, <2>4 DEF RunOk
  <2>9. PROk(y, t)
    <3> HIDE DEF y
    <3> QED
      BY <2>5, <2>6 DEF PROk
  <2>10. x.pc = "open" => x.new = t /\ y = PR("pushed", x.base, x.work, {})
    BY <2>4
  <2>11. x.base \in Taken /\ y.base \in Taken
    BY <2>2, <2>4, <2>5
  <2>12. \A q \in Runs \ {r} : runs[q].pc = "open" => runs[q].new # t
    BY <2>7
  <2>13. x \in RunSet /\ y \in PRSet /\ t \in Tags
    BY <2>3, <2>4, <2>5
  <2>14. prs' = [prs EXCEPT ![t] = y] /\ Become(r, x) /\ UNCHANGED world
    BY <2>1
  <2> HIDE DEF x, y, t
  <2> QED
    BY <2>8, <2>9, <2>10, <2>11, <2>12, <2>13, <2>14, RunAndBranchStep
<1> QED
  BY <1>1, <1>2

LEMMA OpenPRStep == ASSUME Inv, NEW r \in Runs, OpenPR(r) PROVE Inv'
<1> DEFINE t == runs[r].new
           y == PR("open", prs[t].base, prs[t].head, runs[r].conflicts)
<1>1. /\ prs' = [prs EXCEPT ![t] = y] /\ Become(r, IdleRun) /\ UNCHANGED world
      /\ runs[r].pc = "open"
  BY DEF OpenPR, Leave
<1>2. /\ runs[r] \in RunSet /\ released \subseteq Tags
      /\ Produced(runs[r].base, runs[r].work, t, runs[r].conflicts)
      /\ prs[t] = PR("pushed", runs[r].base, runs[r].work, {})
      /\ \A q \in Runs : runs[q].pc = "open" /\ runs[q].new = t => q = r
  BY <1>1, Types DEF Inv, FlowInv, RunOk, OpenOk
<1>3. /\ runs[r].base \in Snapshot /\ runs[r].work \in Snapshot /\ runs[r].conflicts \subseteq Paths
      /\ t \in Tags
  BY <1>2 DEF RunSet, Produced
<1>4. /\ prs[t].base = runs[r].base /\ prs[t].head = runs[r].work /\ runs[r].base \in Taken
  BY <1>1, <1>2, <1>3, PRMade, InTaken
<1>5. /\ y \in PRSet /\ y.status = "open" /\ y.base = runs[r].base /\ y.head = runs[r].work
      /\ y.listed = runs[r].conflicts
  BY <1>3, <1>4, PRMade
<1>6. PROk(y, t)
  <2> HIDE DEF y
  <2> QED
    BY <1>2, <1>5 DEF PROk
<1>7. \A q \in Runs \ {r} : runs[q].pc = "open" => runs[q].new # t
  BY <1>2
<1> HIDE DEF y, t
<1> QED
  BY <1>1, <1>3, <1>4, <1>5, <1>6, <1>7, Idle, RunAndBranchStep

LEMMA RunFailsStep == ASSUME Inv, NEW r \in Runs, RunFails(r) PROVE Inv'
  BY LeaveStep DEF RunFails

LEMMA ReleaseStep == ASSUME Inv, NEW t \in Tags, Release(t) PROVE Inv'
<1>1. /\ released' = released \union {t}
      /\ UNCHANGED <<channel, main, prs, runs, edits, touched, own, astray>>
  BY DEF Release
<1>2. TypeOK'
  BY <1>1 DEF Inv, TypeOK
<1>3. Taken' = Taken
  BY <1>1 DEF Taken
<1>4. CopiesInv' /\ ReplaceInv' /\ MergeInv'
  BY <1>1, <1>3, QuietStep DEF Inv, TypeOK
<1>5. \A z : RunOk(z) => RunOk(z)'
  BY <1>1 DEF RunOk, Produced, Ahead, Candidates
<1>6. \A z, u : PROk(z, u) => PROk(z, u)'
  BY <1>1 DEF PROk, Produced, Ahead, Candidates
<1>7. FlowInv'
  BY <1>1, <1>5, <1>6 DEF Inv, FlowInv, OpenOk
<1> QED
  BY <1>2, <1>4, <1>7 DEF Inv

\* An open pull request is no run's to open.
LEMMA OpenIsNobodys ==
  ASSUME Inv, NEW t \in Tags, prs[t].status = "open"
  PROVE  \A r \in Runs : runs[r].pc = "open" => runs[r].new # t
<1> SUFFICES ASSUME NEW r \in Runs, runs[r].pc = "open", runs[r].new = t PROVE FALSE
  OBVIOUS
<1>1. prs[t] = PR("pushed", runs[r].base, runs[r].work, {})
  BY DEF Inv, FlowInv, OpenOk
<1> QED
  BY <1>1 DEF PR

LEMMA PRFacts ==
  ASSUME Inv, NEW t \in Tags, prs[t].status # "none"
  PROVE  /\ prs[t] \in PRSet /\ prs[t].base \in Snapshot /\ prs[t].head \in Snapshot
         /\ prs[t].listed \subseteq Paths /\ prs[t].base \in Taken
         /\ Known(prs[t].base)
         /\ prs[t].base.tree \in Tree /\ prs[t].head.tree \in Tree
         /\ prs[t].base.state \in Tags \union {Unsynced}
         /\ Produced(prs[t].base, prs[t].head, t, IF prs[t].status = "open" THEN prs[t].listed ELSE Paths)
<1>1. prs[t] \in PRSet /\ prs[t].base \in Taken /\ PROk(prs[t], t)
  BY Types, InTaken DEF Inv, FlowInv
<1>2. Known(prs[t].base)
  BY <1>1 DEF Inv, CopiesInv
<1> QED
  BY <1>1, <1>2, SnapshotFields DEF PRSet, PROk

LEMMA ResolveStep == ASSUME Inv, NEW t \in Tags, Resolve(t) PROVE Inv'
<1> DEFINE head == prs[t].head
           base == prs[t].base
           x == PR("open", base, Unmarked(head), prs[t].listed)
<1>1. /\ prs[t].status = "open" /\ UNCHANGED <<world, runs>> /\ prs' = [prs EXCEPT ![t] = x]
  BY DEF Resolve
<1>2. /\ base \in Snapshot /\ head \in Snapshot /\ prs[t].listed \subseteq Paths /\ base \in Taken
      /\ base.tree \in Tree /\ head.tree \in Tree /\ CleanTree(base.tree)
      /\ Produced(base, head, t, prs[t].listed)
  BY <1>1, PRFacts DEF Known
<1>3. \A p \in Paths : Unmarked(head).tree[p] = Plain(head.tree[p])
  BY DEF Unmarked, Plain
<1>4. Unmarked(head).tree \in Tree /\ Unmarked(head).state = head.state
  <2>1. \A p \in Paths : Plain(head.tree[p]) \in File
    BY <1>2, PlainFile DEF Tree
  <2>2. Unmarked(head).tree = [p \in Paths |-> Plain(head.tree[p])]
    BY DEF Unmarked, Plain
  <2>3. Unmarked(head).state = head.state
    BY DEF Unmarked
  <2> QED
    BY <2>1, <2>2, <2>3 DEF Tree
<1>5. Unmarked(head) \in Snapshot
  <2>1. Unmarked(head) = [tree |-> Unmarked(head).tree, state |-> head.state]
    BY DEF Unmarked
  <2>2. head.state \in Tags \union {Unsynced}
    BY <1>2, SnapshotFields
  <2> QED
    BY <1>4, <2>1, <2>2, SnapshotMade
<1> DEFINE new == Unmarked(head)
<1> HIDE DEF new
<1>6. Produced(base, new, t, prs[t].listed)
  <2>1. t \in released /\ new.state = t /\ Ahead(base.state, t)
    BY <1>2, <1>4 DEF Produced, new
  <2>2. CASE base.state = Unsynced
    <3>1. head.tree = base.tree /\ t = Origin
      BY <1>2, <2>2 DEF Produced
    <3>2. \A p \in Paths : new.tree[p] = base.tree[p]
      BY <1>2, <1>3, <3>1, PlainFile DEF CleanTree, new, Tree
    <3>3. new.tree = base.tree
      BY <1>2, <1>4, <3>2 DEF Tree, new
    <3> QED
      BY <2>1, <2>2, <3>1, <3>3 DEF Produced
  <2>3. CASE base.state # Unsynced
    <3>1. Made(base.state, t, base.tree, head.tree, prs[t].listed)
      BY <1>2, <2>3 DEF Produced
    <3>2. ASSUME NEW p \in Paths
          PROVE  Plain(new.tree[p]) = Plain(head.tree[p]) /\ ~Marked(new.tree[p])
      BY <1>2, <1>3, PlainFile DEF Tree, new
    <3>3. Made(base.state, t, base.tree, new.tree, prs[t].listed)
      BY <3>1, <3>2 DEF Made
    <3> QED
      BY <2>1, <2>3, <3>3 DEF Produced
  <2> QED
    BY <2>2, <2>3
<1>7. /\ x \in PRSet /\ x.status = "open" /\ x.base = base /\ x.head = new /\ x.listed = prs[t].listed
  BY <1>2, <1>5, PRMade DEF new
<1> HIDE DEF x
<1>8. PROk(x, t)
  BY <1>6, <1>7 DEF PROk
<1> QED
  BY <1>1, <1>2, <1>7, <1>8, OpenIsNobodys, BranchStep

LEMMA ClosePRStep == ASSUME Inv, NEW t \in Tags, ClosePR(t) PROVE Inv'
<1> DEFINE x == PR("pushed", prs[t].base, prs[t].head, {})
<1>1. /\ prs[t].status = "open" /\ UNCHANGED <<world, runs>> /\ prs' = [prs EXCEPT ![t] = x]
  BY DEF ClosePR
<1>2. /\ prs[t].base \in Snapshot /\ prs[t].head \in Snapshot /\ prs[t].base \in Taken
      /\ prs[t].listed \subseteq Paths /\ Produced(prs[t].base, prs[t].head, t, prs[t].listed)
  BY <1>1, PRFacts
<1>3. x \in PRSet /\ x.status = "pushed" /\ x.base = prs[t].base /\ x.head = prs[t].head
  BY <1>2, PRMade
<1> HIDE DEF x
<1>4. PROk(x, t)
  BY <1>2, <1>3, ProducedListed DEF PROk
<1> QED
  BY <1>1, <1>2, <1>3, <1>4, OpenIsNobodys, BranchStep

LEMMA DeleteBranchStep == ASSUME Inv, NEW t \in Tags, DeleteBranch(t) PROVE Inv'
  BY Idle, BranchStep DEF DeleteBranch

-----------------------------------------------------------------------------
(* The instance's own edits *)

\* An edit changes one file that is no link, and the histories say which.
LEMMA EditFacts ==
  ASSUME Inv, NEW p \in Paths, Edit(p)
  PROVE  /\ main' \in Snapshot /\ main'.state = main.state
         /\ main.tree[p] \in File /\ main.tree[p].kind # "link"
         /\ \A q \in Paths \ {p} : main'.tree[q] = main.tree[q]
         /\ main'.tree[p] \in File /\ ~Marked(main'.tree[p])
         /\ touched' = touched \union {p}
         /\ UNCHANGED <<released, channel, prs, runs>>
         /\ edits' \in 0..MaxEdits
         /\ \/ /\ main'.tree[p].kind = "file" /\ main'.tree[p].text = main.tree[p].text \union {Own}
               /\ own' = own \union {p} /\ astray' = astray
            \/ /\ main'.tree[p].kind # "file"
               /\ own' = own \ {p} /\ astray' = astray \union {p}
<1>1. /\ main \in Snapshot /\ main.tree \in Tree /\ CleanTree(main.tree)
      /\ main.tree[p] \in File /\ ~Marked(main.tree[p])
  BY Types, SnapshotFields DEF Inv, CopiesInv, Known, Tree, CleanTree
<1>2. /\ touched' = touched \union {p} /\ UNCHANGED <<released, channel, prs, runs>>
      /\ edits' \in 0..MaxEdits
  BY EditsAssumption DEF Edit, Inv, TypeOK
<1>3. ASSUME NEW f \in File, main' = [main EXCEPT !.tree[p] = f]
      PROVE  /\ main' \in Snapshot /\ main'.state = main.state /\ main'.tree[p] = f
             /\ \A q \in Paths \ {p} : main'.tree[q] = main.tree[q]
  BY <1>1, <1>3 DEF Snapshot
<1> DEFINE g == [kind |-> "file", text |-> main.tree[p].text \union {Own}, exec |-> main.tree[p].exec]
<1>4. CASE /\ main.tree[p].kind # "link" /\ main' = [main EXCEPT !.tree[p] = g]
           /\ own' = own \union {p} /\ astray' = astray
  <2>1. g \in File /\ g.kind = "file" /\ g.text = main.tree[p].text \union {Own}
    <3>1. main.tree[p].exec \in BOOLEAN
          /\ main.tree[p].text \union {Own} \subseteq Lines \union {Own, Marker}
      BY <1>1, FileFields
    <3> QED
      BY <3>1, FileMade
  <2>2. ~Marked(g)
    BY <1>1, <2>1, MarkerAssumption DEF Marked
  <2> HIDE DEF g
  <2> QED
    BY <1>1, <1>2, <1>3, <1>4, <2>1, <2>2
<1>5. CASE /\ main' \in {[main EXCEPT !.tree[p] = NoFile], [main EXCEPT !.tree[p] = Link]}
           /\ own' = own \ {p} /\ astray' = astray \union {p}
  BY <1>1, <1>2, <1>3, <1>5, NoFiles DEF Edit
<1> QED
  BY <1>4, <1>5 DEF Edit

LEMMA EditStep == ASSUME Inv, NEW p \in Paths, Edit(p) PROVE Inv'
<1>1. /\ main' \in Snapshot /\ main'.state = main.state
      /\ main.tree[p] \in File /\ main.tree[p].kind # "link"
      /\ \A q \in Paths \ {p} : main'.tree[q] = main.tree[q]
      /\ main'.tree[p] \in File /\ ~Marked(main'.tree[p])
      /\ touched' = touched \union {p}
      /\ UNCHANGED <<released, channel, prs, runs>>
      /\ edits' \in 0..MaxEdits
      /\ \/ /\ main'.tree[p].kind = "file" /\ main'.tree[p].text = main.tree[p].text \union {Own}
            /\ own' = own \union {p} /\ astray' = astray
         \/ /\ main'.tree[p].kind # "file"
            /\ own' = own \ {p} /\ astray' = astray \union {p}
  BY EditFacts
<1>2. TypeOK'
  BY <1>1 DEF Inv, TypeOK
<1>3. Taken' = Taken
  BY <1>1 DEF Taken
<1>4. CopiesInv'
  <2>1. ASSUME NEW s, Known(s), s \in Taken PROVE Known(s)'
    <3>1. \A q \in Paths : s.tree[q].kind = "link" => main'.tree[q].kind = "link"
      BY <1>1, <2>1 DEF Known
    <3> QED
      BY <1>1, <2>1, <3>1 DEF Known, NotBehind, Ahead, Candidates
  <2>2. CleanTree(main'.tree)
    BY <1>1 DEF Inv, CopiesInv, Known, CleanTree
  <2>3. Known(main)'
    BY <1>1, <2>2 DEF Inv, CopiesInv, Known, NotBehind
  <2> QED
    BY <1>3, <2>1, <2>3 DEF Inv, CopiesInv
<1>5. FlowInv'
  BY <1>1 DEF Inv, FlowInv, RunOk, PROk, OpenOk, Produced, Ahead, Candidates
<1>0. \A d \in Paths : main.tree[d].kind = "link" => main'.tree[d].kind = "link"
  BY <1>1
<1>6. ReplaceInv'
  <2>1. SUFFICES ASSUME NEW q \in Paths, Steady(q, "replace"), q \notin touched'
                 PROVE  InSync(main, q)' /\ \A s \in Taken : s.state = main.state => InSync(s, q)
    BY <1>1, <1>3 DEF ReplaceInv, InSync
  <2>2. q # p /\ q \notin touched
    BY <1>1, <2>1
  <2>3. InSync(main, q) /\ \A s \in Taken : s.state = main.state => InSync(s, q)
    BY <2>1, <2>2 DEF Inv, ReplaceInv
  <2>4. Astride(main.tree, q) => Astride(main'.tree, q)
    BY <1>0, AstrideMore
  <2> QED
    BY <1>1, <2>2, <2>3, <2>4 DEF InSync
<1>7. MergeInv'
  <2>1. SUFFICES ASSUME NEW q \in Paths \ Binary, Steady(q, "merge"), ~Astride(main'.tree, q)
                 PROVE  /\ q \in own' => main'.tree[q].kind = "file"
                        /\ q \notin astray' =>
                             /\ main'.tree[q].kind = "file" =>
                                  main'.tree[q].text = Text(main.state, q) \union Owned(q)'
                             /\ main'.tree[q].kind = "none" => Template[At(main.state)][q].kind # "file"
                             /\ \A s \in Taken : s.state = main.state /\ s.tree[q].kind = "file" =>
                                  main'.tree[q].kind = "file" /\ s.tree[q].text \ {Own} = Text(s.state, q)
    BY <1>1, <1>3 DEF MergeInv, Text
  <2>2. /\ q \in own => main.tree[q].kind = "file"
        /\ q \notin astray =>
             /\ main.tree[q].kind = "file" => main.tree[q].text = Text(main.state, q) \union Owned(q)
             /\ main.tree[q].kind = "none" => Template[At(main.state)][q].kind # "file"
             /\ \A s \in Taken : s.state = main.state /\ s.tree[q].kind = "file" =>
                  main.tree[q].kind = "file" /\ s.tree[q].text \ {Own} = Text(s.state, q)
    <3>1. ~Astride(main.tree, q)
      BY <1>0, <2>1, AstrideMore
    <3> QED
      BY <2>1, <3>1 DEF Inv, MergeInv
  <2>3. CASE q # p
    <3>1. main'.tree[q] = main.tree[q] /\ (q \in own' <=> q \in own) /\ (q \in astray' <=> q \in astray)
      BY <1>1, <2>3
    <3> QED
      BY <2>2, <3>1 DEF Owned
  <2>4. CASE q = p /\ main'.tree[q].kind = "file"
    <3>1. /\ main'.tree[q].text = main.tree[q].text \union {Own} /\ q \in own' /\ astray' = astray
      BY <1>1, <2>4
    <3>2. q \notin astray => main.tree[q].text \union {Own} = Text(main.state, q) \union {Own}
      <4>1. CASE main.tree[q].kind = "file"
        BY <2>2, <4>1 DEF Owned
      <4>2. CASE main.tree[q].kind = "none"
        <5>1. At(main.state) \in Tags
          BY Types, SnapshotFields, TagsAssumption DEF Inv, At
        <5>2. Template[At(main.state)][q] \in File
          BY <5>1, TemplateFile
        <5>3. main.tree[q].text = {}
          BY <1>1, <2>4, <4>2, FileFields
        <5>4. q \notin astray => Text(main.state, q) = {}
          BY <2>2, <4>2, <5>2, FileFields DEF Text
        <5> QED
          BY <5>3, <5>4
      <4> QED
        BY <1>1, <2>4, <4>1, <4>2, FileFields
    <3> QED
      BY <2>2, <2>4, <3>1, <3>2 DEF Owned
  <2>5. CASE q = p /\ main'.tree[q].kind # "file"
    BY <1>1, <2>5
  <2> QED
    BY <2>3, <2>4, <2>5
<1> QED
  BY <1>2, <1>4, <1>5, <1>6, <1>7 DEF Inv

-----------------------------------------------------------------------------
(* A pull request is merged *)

LEMMA GitFile ==
  ASSUME NEW p \in Paths, NEW base \in File, NEW ours \in File, NEW theirs \in File,
         ~Marked(base), ~Marked(ours), ~Marked(theirs), Mergeable(base, ours, theirs, p)
  PROVE  LET merged == GitMerge(base, ours, theirs)
         IN /\ merged \in File /\ ~Marked(merged)
            /\ \/ ours = base /\ merged = theirs
               \/ theirs = base /\ merged = ours
               \/ ours = theirs /\ merged = ours
               \/ /\ ours # base /\ theirs # base /\ ours # theirs /\ p \notin Binary
                  /\ base.kind = "file" /\ ours.kind = "file" /\ theirs.kind = "file"
                  /\ merged.kind = "file"
                  /\ merged.text = (ours.text \ (base.text \ theirs.text)) \union (theirs.text \ base.text)
<1> DEFINE merged == GitMerge(base, ours, theirs)
<1>1. CASE ours = base
  BY <1>1 DEF GitMerge
<1>2. CASE ours # base /\ (theirs = base \/ ours = theirs)
  BY <1>2 DEF GitMerge
<1>3. CASE ours # base /\ theirs # base /\ ours # theirs
  <2>1. /\ base.kind = "file" /\ ours.kind = "file" /\ theirs.kind = "file" /\ p \notin Binary
    BY <1>3 DEF Mergeable
  <2> DEFINE three == ThreeWay(ours, base, theirs)
             exec == IF ours.exec = base.exec THEN theirs.exec ELSE ours.exec
  <2>2. /\ three \in File /\ three.text \subseteq Lines \union {Own, Marker}
        /\ three.text = (ours.text \ (base.text \ theirs.text)) \union (theirs.text \ base.text)
    <3>1. /\ three \in File
          /\ three.text = (ours.text \ (base.text \ theirs.text)) \union (theirs.text \ base.text)
      BY <2>1, ThreeWayFile
    <3> HIDE DEF three
    <3> QED
      BY <3>1, FileFields
  <2>3. exec \in BOOLEAN
    <3>1. ours.exec \in BOOLEAN /\ theirs.exec \in BOOLEAN
      BY FileFields
    <3>2. exec = ours.exec \/ exec = theirs.exec
      OBVIOUS
    <3> HIDE DEF exec
    <3> QED
      BY <3>1, <3>2
  <2>4. merged = [kind |-> "file", text |-> three.text, exec |-> exec]
    BY <1>3 DEF GitMerge
  <2> HIDE DEF three, exec
  <2>5. merged \in File /\ merged.kind = "file" /\ merged.text = three.text
    BY <2>2, <2>3, <2>4, FileMade
  <2> HIDE DEF merged
  <2>6. ~Marked(merged)
    BY <2>2, <2>5 DEF Marked
  <2> QED
    BY <1>3, <2>1, <2>2, <2>5, <2>6 DEF merged
<1> QED
  BY <1>1, <1>2, <1>3

\* A path of the replace tier after a sync.
LEMMA SyncReplace ==
  ASSUME NEW p \in Paths, NEW old \in Tags, NEW new \in Tags, NEW f \in File,
         InTier(new, p, "replace")
  PROVE  /\ f.kind = "link" => SyncOf(p, old, new, f) = f
         /\ f.kind # "link" /\ p \in TierPaths(old, new, "replace") =>
              SyncOf(p, old, new, f) = FileOf(new, p)
         /\ p \notin TierPaths(old, new, "replace") =>
              /\ SyncOf(p, old, new, f) = f
              /\ FileOf(old, p) = NoFile /\ FileOf(new, p) = NoFile
<1>1. Template[new][p] \in File
  BY TemplateFile
<1>2. Replace(Template[new][p], f) = IF f.kind = "link" THEN f
                                     ELSE IF Template[new][p].kind = "file" THEN Template[new][p] ELSE NoFile
  BY <1>1, ReplaceFile
<1>3. ~InTier(new, p, "merge")
  BY DEF InTier
<1>4. p \notin TierPaths(old, new, "merge")
  BY <1>3 DEF TierPaths
<1>5. p \notin TierPaths(old, new, "replace") =>
        Template[old][p].kind # "file" /\ Template[new][p].kind # "file"
  BY DEF TierPaths
<1> QED
  BY <1>2, <1>4, <1>5 DEF SyncOf, FileOf

\* A path of the merge tier after a sync.
LEMMA SyncMerge ==
  ASSUME NEW p \in Paths \ Binary, NEW old \in Tags, NEW new \in Tags, NEW f \in File, ~Marked(f),
         InTier(new, p, "merge")
  PROVE  /\ f.kind = "link" \/ Template[new][p].kind # "file" => SyncOf(p, old, new, f) = f
         /\ f.kind = "none" /\ Template[new][p].kind = "file" =>
              SyncOf(p, old, new, f) = Template[new][p]
         /\ f.kind = "file" => SyncOf(p, old, new, f).kind = "file"
         /\ f.kind = "file" /\ Template[new][p].kind = "file" =>
              SyncOf(p, old, new, f).text =
                (f.text \ (Template[old][p].text \ Template[new][p].text))
                  \union (Template[new][p].text \ Template[old][p].text)
<1>1. ~InTier(new, p, "replace")
  BY DEF InTier
<1>2. p \notin TierPaths(old, new, "replace")
  BY <1>1 DEF TierPaths
<1>3. CASE p \in TierPaths(old, new, "merge")
  <2>1. SyncOf(p, old, new, f) = Merge(p, old, new, f, {})
    BY <1>2, <1>3 DEF SyncOf
  <2>2. /\ f.kind = "link" \/ Template[new][p].kind # "file" => Merge(p, old, new, f, {}) = f
        /\ f.kind = "none" /\ Template[new][p].kind = "file" =>
             Merge(p, old, new, f, {}) = Template[new][p]
        /\ f.kind = "file" => Merge(p, old, new, f, {}).kind = "file"
    BY MergeFile
  <2> QED
    BY <2>1, <2>2, MergeText
<1>4. CASE p \notin TierPaths(old, new, "merge")
  <2>1. SyncOf(p, old, new, f) = f
    BY <1>2, <1>4 DEF SyncOf
  <2>2. Template[new][p].kind # "file"
    BY <1>4 DEF TierPaths
  <2> QED
    BY <2>1, <2>2
<1> QED
  BY <1>3, <1>4

\* The lines of a merge of two syncs of one change, Own or not.
LEMMA MergedLines ==
  ASSUME NEW T0, NEW T1, NEW O, NEW ours, NEW base, NEW head, Own \notin T0, Own \notin T1,
         O \in {{}, {Own}},
         head = (base \ (T0 \ T1)) \union (T1 \ T0),
         \/ ours = T1 \union O
         \/ ours = T0 \union O /\ base \ {Own} = T0
  PROVE  (ours \ (base \ head)) \union (head \ base) = T1 \union O
<1>1. base \ head \subseteq T0 \ T1 /\ head \ base \subseteq T1 \ T0
  OBVIOUS
<1>2. CASE ours = T1 \union O
  BY <1>1, <1>2
<1>3. CASE ours = T0 \union O /\ base \ {Own} = T0
  <2>1. T0 \ T1 \subseteq base \ head /\ T1 \ T0 \subseteq head \ base
    BY <1>3
  <2>2. base \ head = T0 \ T1 /\ head \ base = T1 \ T0
    BY <1>1, <2>1
  <2> QED
    BY <1>3, <2>2
<1> QED
  BY <1>2, <1>3

\* A path of the replace tier when main moves to the tag: in sync unless touched.
LEMMA ReplaceMoves ==
  ASSUME NEW p \in Paths, NEW old \in Tags, NEW new \in Tags, InTier(new, p, "replace"),
         NEW base \in File, NEW ours \in File, NEW theirs \in File,
         ~Marked(base), ~Marked(ours), ~Marked(theirs), Mergeable(base, ours, theirs, p),
         theirs = SyncOf(p, old, new, base), base.kind = "link" => ours.kind = "link",
         \/ /\ ours = FileOf(old, p) \/ ours.kind = "link"
            /\ base = FileOf(old, p) \/ base.kind = "link"
         \/ ours = base /\ p \in TierPaths(old, new, "replace")
  PROVE  GitMerge(base, ours, theirs) = FileOf(new, p) \/ GitMerge(base, ours, theirs).kind = "link"
<1> DEFINE merged == GitMerge(base, ours, theirs)
<1>1. \/ ours = base /\ merged = theirs
      \/ theirs = base /\ merged = ours
      \/ ours = theirs /\ merged = ours
      \/ /\ ours # base /\ theirs # base /\ ours # theirs
         /\ base.kind = "file" /\ ours.kind = "file" /\ theirs.kind = "file"
  BY GitFile
<1> HIDE DEF merged
<1>2. /\ base.kind = "link" => theirs = base
      /\ base.kind # "link" /\ p \in TierPaths(old, new, "replace") => theirs = FileOf(new, p)
      /\ p \notin TierPaths(old, new, "replace") =>
           theirs = base /\ FileOf(old, p) = NoFile /\ FileOf(new, p) = NoFile
  BY SyncReplace
<1>3. CASE ours = base /\ p \in TierPaths(old, new, "replace")
  BY <1>1, <1>2, <1>3 DEF merged
<1>4. CASE /\ ours = FileOf(old, p) \/ ours.kind = "link"
           /\ base = FileOf(old, p) \/ base.kind = "link"
  <2>1. CASE ours.kind = "link"
    <3>1. merged.kind = "link"
      BY <1>1, <1>2, <2>1
    <3> QED
      BY <3>1 DEF merged
  <2>2. CASE ours.kind # "link"
    <3>1. ours = base /\ base.kind # "link" /\ merged = theirs
      BY <1>1, <1>4, <2>2
    <3> QED
      BY <1>2, <1>4, <3>1 DEF merged
  <2> QED
    BY <2>1, <2>2
<1> QED
  BY <1>3, <1>4

\* ... and when main has the tag already.
LEMMA ReplaceStays ==
  ASSUME NEW p \in Paths, NEW old \in Tags, NEW new \in Tags, InTier(new, p, "replace"),
         NEW base \in File, NEW ours \in File, NEW theirs \in File,
         ~Marked(base), ~Marked(ours), ~Marked(theirs), Mergeable(base, ours, theirs, p),
         theirs = SyncOf(p, old, new, base), base.kind = "link" => ours.kind = "link",
         ours = FileOf(new, p) \/ ours.kind = "link"
  PROVE  GitMerge(base, ours, theirs) = FileOf(new, p) \/ GitMerge(base, ours, theirs).kind = "link"
<1> DEFINE merged == GitMerge(base, ours, theirs)
<1>1. \/ ours = base /\ merged = theirs
      \/ theirs = base /\ merged = ours
      \/ ours = theirs /\ merged = ours
      \/ /\ ours # base /\ theirs # base /\ ours # theirs
         /\ base.kind = "file" /\ ours.kind = "file" /\ theirs.kind = "file"
  BY GitFile
<1> HIDE DEF merged
<1>2. /\ base.kind = "link" => theirs = base
      /\ base.kind # "link" /\ p \in TierPaths(old, new, "replace") => theirs = FileOf(new, p)
      /\ p \notin TierPaths(old, new, "replace") =>
           theirs = base /\ FileOf(old, p) = NoFile /\ FileOf(new, p) = NoFile
  BY SyncReplace
<1> QED
  BY <1>1, <1>2 DEF merged

\* A text path of the merge tier: Synced says that a file has the tag's lines and
\* the instance's own, and that no file is missing.
Synced(f, t, p, O) ==
  /\ f.kind = "file" => f.text = Template[t][p].text \union O
  /\ f.kind = "none" => Template[t][p].kind # "file"

LEMMA MergeStays ==
  ASSUME NEW p \in Paths \ Binary, NEW old \in Tags, NEW new \in Tags, InTier(new, p, "merge"),
         NEW base \in File, NEW ours \in File, NEW theirs \in File,
         ~Marked(base), ~Marked(ours), ~Marked(theirs), Mergeable(base, ours, theirs, p),
         theirs = SyncOf(p, old, new, base), NEW O \in {{}, {Own}}, Synced(ours, new, p, O),
         O = {Own} => ours.kind = "file"
  PROVE  Synced(GitMerge(base, ours, theirs), new, p, O)
<1> DEFINE merged == GitMerge(base, ours, theirs)
           T0 == Template[old][p].text
           T1 == Template[new][p].text
<1>1. \/ ours = base /\ merged = theirs
      \/ theirs = base /\ merged = ours
      \/ ours = theirs /\ merged = ours
      \/ /\ ours # base /\ theirs # base /\ ours # theirs
         /\ base.kind = "file" /\ ours.kind = "file" /\ theirs.kind = "file"
         /\ merged.kind = "file"
         /\ merged.text = (ours.text \ (base.text \ theirs.text)) \union (theirs.text \ base.text)
  BY GitFile
<1> HIDE DEF merged
<1>2. /\ base.kind = "link" \/ Template[new][p].kind # "file" => theirs = base
      /\ base.kind = "none" /\ Template[new][p].kind = "file" => theirs = Template[new][p]
      /\ base.kind = "file" => theirs.kind = "file"
      /\ base.kind = "file" /\ Template[new][p].kind = "file" =>
           theirs.text = (base.text \ (T0 \ T1)) \union (T1 \ T0)
  BY SyncMerge
<1>3. Own \notin T0 /\ Own \notin T1
  BY TemplateFile
<1> HIDE DEF T0, T1
<1>4. base.kind \in {"none", "link", "file"} /\ ours.kind \in {"none", "link", "file"}
  BY FileFields
<1>5. ours.kind = "file" => ours.text = T1 \union O
  BY DEF Synced, T1
<1>6. CASE merged = ours
  BY <1>6 DEF merged
<1>7. CASE merged # ours /\ ours = base
  <2>1. merged = theirs /\ theirs # base
    BY <1>1, <1>7
  <2>2. Template[new][p].kind = "file" /\ base.kind = "file"
    BY <1>2, <1>4, <1>7, <2>1 DEF Synced
  <2>3. theirs.kind = "file" /\ theirs.text = T1 \union O
    BY <1>2, <1>3, <1>5, <1>7, <2>2
  <2> QED
    BY <2>1, <2>3 DEF Synced, merged, T1
<1>8. CASE merged # ours /\ ours # base
  <2>1. /\ base.kind = "file" /\ ours.kind = "file" /\ theirs # base /\ merged.kind = "file"
        /\ merged.text = (ours.text \ (base.text \ theirs.text)) \union (theirs.text \ base.text)
    BY <1>1, <1>8
  <2>2. Template[new][p].kind = "file"
    BY <1>2, <2>1
  <2>3. merged.text = T1 \union O
    BY <1>2, <1>3, <1>5, <2>1, <2>2, MergedLines
  <2> QED
    BY <2>1, <2>3 DEF Synced, merged, T1
<1> QED
  BY <1>6, <1>7, <1>8

LEMMA MergeMoves ==
  ASSUME NEW p \in Paths \ Binary, NEW old \in Tags, NEW new \in Tags, InTier(new, p, "merge"),
         NEW base \in File, NEW ours \in File, NEW theirs \in File,
         ~Marked(base), ~Marked(ours), ~Marked(theirs), Mergeable(base, ours, theirs, p),
         theirs = SyncOf(p, old, new, base), base.kind = "link" => ours.kind = "link",
         NEW O \in {{}, {Own}}, O = {Own} => ours.kind = "file", Synced(ours, old, p, O),
         base.kind = "file" => ours.kind = "file" /\ base.text \ {Own} = Template[old][p].text,
         GitMerge(base, ours, theirs).kind = "file" /\ Template[old][p].kind = "file" =>
           Template[new][p].kind = "file"
  PROVE  Synced(GitMerge(base, ours, theirs), new, p, O)
<1> DEFINE merged == GitMerge(base, ours, theirs)
           T0 == Template[old][p].text
           T1 == Template[new][p].text
<1>1. \/ ours = base /\ merged = theirs
      \/ theirs = base /\ merged = ours
      \/ ours = theirs /\ merged = ours
      \/ /\ ours # base /\ theirs # base /\ ours # theirs
         /\ base.kind = "file" /\ ours.kind = "file" /\ theirs.kind = "file"
         /\ merged.kind = "file"
         /\ merged.text = (ours.text \ (base.text \ theirs.text)) \union (theirs.text \ base.text)
  BY GitFile
<1> HIDE DEF merged
<1>2. /\ base.kind = "link" \/ Template[new][p].kind # "file" => theirs = base
      /\ base.kind = "none" /\ Template[new][p].kind = "file" => theirs = Template[new][p]
      /\ base.kind = "file" => theirs.kind = "file"
      /\ base.kind = "file" /\ Template[new][p].kind = "file" =>
           theirs.text = (base.text \ (T0 \ T1)) \union (T1 \ T0)
  BY SyncMerge
<1>3. /\ Own \notin T0 /\ Own \notin T1
      /\ Template[old][p].kind # "file" => T0 = {}
      /\ Template[new][p].kind # "file" => T1 = {}
  <2>1. Template[old][p] \in File /\ Template[new][p] \in File
    BY TemplateFile
  <2> QED
    BY <2>1, TemplateFile, FileFields
<1>4. base.kind \in {"none", "link", "file"} /\ ours.kind \in {"none", "link", "file"}
  BY FileFields
<1>5. /\ ours.kind = "file" => ours.text = T0 \union O
      /\ base.kind = "file" => base.text \ {Own} = T0
      /\ O = {Own} => ours.kind = "file"
  BY DEF Synced
<1> HIDE DEF T0, T1
<1>6. CASE Template[new][p].kind # "file"
  <2>1. merged = ours
    BY <1>1, <1>2, <1>6
  <2>2. ours.kind = "file" => Template[old][p].kind # "file"
    BY <1>6, <2>1 DEF merged
  <2>3. ours.kind = "file" => ours.text = T1 \union O
    BY <1>3, <1>5, <1>6, <2>2
  <2> QED
    BY <1>6, <2>1, <2>3 DEF Synced, merged, T1
<1>7. CASE Template[new][p].kind = "file"
  <2>1. CASE base.kind = "link"
    <3>1. merged.kind = "link"
      BY <1>1, <1>2, <2>1
    <3> QED
      BY <3>1 DEF Synced, merged
  <2>2. CASE base.kind = "none"
    <3>1. theirs = Template[new][p] /\ theirs # base
      BY <1>2, <1>7, <2>2
    <3>2. merged = theirs /\ (ours = base \/ ours = theirs)
      BY <1>1, <2>2, <3>1
    <3>3. O = {}
      <4>1. CASE ours = base
        BY <1>5, <2>2, <4>1
      <4>2. CASE ours = theirs
        <5>1. T1 = T0 \union O
          BY <1>5, <1>7, <3>1, <4>2 DEF T1
        <5> QED
          BY <1>3, <5>1
      <4> QED
        BY <3>2, <4>1, <4>2
    <3> QED
      BY <1>7, <3>1, <3>2, <3>3 DEF Synced, merged
  <2>3. CASE base.kind = "file"
    <3>1. /\ ours.kind = "file" /\ theirs.kind = "file" /\ merged.kind = "file"
          /\ ours.text = T0 \union O /\ base.text \ {Own} = T0
          /\ theirs.text = (base.text \ (T0 \ T1)) \union (T1 \ T0)
      BY <1>1, <1>2, <1>5, <1>7, <2>3
    <3>2. (ours.text \ (base.text \ theirs.text)) \union (theirs.text \ base.text) = T1 \union O
      BY <1>3, <3>1, MergedLines
    <3>3. merged.text = T1 \union O
      <4>1. ours = base => theirs.text = (ours.text \ (base.text \ theirs.text)) \union (theirs.text \ base.text)
        OBVIOUS
      <4>2. theirs = base => ours.text = (ours.text \ (base.text \ theirs.text)) \union (theirs.text \ base.text)
        OBVIOUS
      <4>3. ours = theirs => ours.text = (ours.text \ (base.text \ theirs.text)) \union (theirs.text \ base.text)
        OBVIOUS
      <4> QED
        BY <1>1, <3>2, <4>1, <4>2, <4>3
    <3> QED
      BY <3>1, <3>3 DEF Synced, merged, T1
  <2> QED
    BY <1>4, <2>1, <2>2, <2>3
<1> QED
  BY <1>6, <1>7

\* What is merged: a clean branch of its tag, path by path.
LEMMA MergedTree ==
  ASSUME Inv, NEW t \in Tags, MergePR(t)
  PROVE  LET base == prs[t].base
             head == prs[t].head
         IN /\ prs[t].status = "open" /\ base \in Taken /\ Known(base)
            /\ Produced(base, head, t, prs[t].listed) /\ head.state = t /\ Ahead(base.state, t)
            /\ main.state \in {base.state, t}
            /\ main' \in Snapshot /\ main'.state = t /\ CleanTree(main'.tree)
            /\ \A p \in Paths :
                 /\ base.tree[p] \in File /\ main.tree[p] \in File /\ head.tree[p] \in File
                 /\ ~Marked(base.tree[p]) /\ ~Marked(main.tree[p]) /\ ~Marked(head.tree[p])
                 /\ base.tree[p].kind = "link" => main.tree[p].kind = "link"
                 /\ Mergeable(base.tree[p], main.tree[p], head.tree[p], p)
                 /\ main'.tree[p] = GitMerge(base.tree[p], main.tree[p], head.tree[p])
                 /\ base.state = Unsynced => main'.tree[p] = main.tree[p]
                 /\ base.state # Unsynced =>
                      head.tree[p] = SyncOf(Where(base.tree, p), base.state, t, base.tree[p])
<1> DEFINE base == prs[t].base
           head == prs[t].head
           merged == [p \in Paths |-> GitMerge(base.tree[p], main.tree[p], head.tree[p])]
<1>1. /\ prs[t].status = "open" /\ main.state \in {base.state, head.state}
      /\ {p \in Paths : \/ Marked(head.tree[p])
                        \/ ~Mergeable(base.tree[p], main.tree[p], head.tree[p], p)} = {}
      /\ main' = [tree |-> merged, state |-> head.state]
  BY DEF MergePR
<1>2. /\ base \in Snapshot /\ head \in Snapshot /\ base \in Taken /\ Known(base)
      /\ base.tree \in Tree /\ head.tree \in Tree /\ Produced(base, head, t, prs[t].listed)
      /\ main.tree \in Tree /\ CleanTree(main.tree)
  BY <1>1, PRFacts, Types, SnapshotFields DEF Inv, CopiesInv, Known
<1>3. head.state = t /\ Ahead(base.state, t)
  BY <1>2 DEF Produced
<1>4. \A p \in Paths : ~Marked(head.tree[p]) /\ Mergeable(base.tree[p], main.tree[p], head.tree[p], p)
  BY <1>1
<1> HIDE DEF base, head
<1>5. ASSUME NEW p \in Paths
      PROVE  /\ base.tree[p] \in File /\ main.tree[p] \in File /\ head.tree[p] \in File
             /\ ~Marked(base.tree[p]) /\ ~Marked(main.tree[p])
             /\ base.tree[p].kind = "link" => main.tree[p].kind = "link"
             /\ merged[p] = GitMerge(base.tree[p], main.tree[p], head.tree[p])
             /\ merged[p] \in File /\ ~Marked(merged[p])
             /\ base.state = Unsynced => merged[p] = main.tree[p]
             /\ base.state # Unsynced =>
                      head.tree[p] = SyncOf(Where(base.tree, p), base.state, t, base.tree[p])
  <2>1. /\ base.tree[p] \in File /\ main.tree[p] \in File /\ head.tree[p] \in File
        /\ ~Marked(base.tree[p]) /\ ~Marked(main.tree[p])
        /\ base.tree[p].kind = "link" => main.tree[p].kind = "link"
    BY <1>2 DEF Known, CleanTree, Tree
  <2>2. merged[p] = GitMerge(base.tree[p], main.tree[p], head.tree[p])
    OBVIOUS
  <2>3. merged[p] \in File /\ ~Marked(merged[p])
    BY <1>4, <2>1, <2>2, GitFile
  <2>4. base.state = Unsynced => merged[p] = main.tree[p]
    BY <1>2, <2>2 DEF Produced, GitMerge
  <2>5. base.state # Unsynced =>
                      head.tree[p] = SyncOf(Where(base.tree, p), base.state, t, base.tree[p])
    BY <1>2, <1>4, ProducedPath DEF Known
  <2> QED
    BY <2>1, <2>2, <2>3, <2>4, <2>5
<1>6. merged \in Tree
  <2>1. merged = [p \in Paths |-> merged[p]]
    OBVIOUS
  <2>2. \A p \in Paths : merged[p] \in File
    BY <1>5
  <2> HIDE DEF merged
  <2> QED
    BY <2>1, <2>2 DEF Tree
<1>7. main' \in Snapshot /\ main'.tree = merged /\ main'.state = t
  <2> HIDE DEF merged
  <2> QED
    BY <1>1, <1>3, <1>6, SnapshotMade
<1>8. CleanTree(main'.tree)
  BY <1>5, <1>7 DEF CleanTree
<1> HIDE DEF merged
<1> QED
  BY <1>1, <1>2, <1>3, <1>4, <1>5, <1>7, <1>8 DEF base, head

\* How the histories follow: a merge that moves main to another tag.
LEMMA MergedHistory ==
  ASSUME NEW t \in Tags, MergePR(t), prs[t].head.state = t
  PROVE  LET base == prs[t].base
         IN /\ UNCHANGED <<released, channel, runs, edits, own>> /\ prs' = [prs EXCEPT ![t] = NoPR]
            /\ base.state = Unsynced \/ main.state = t => UNCHANGED <<touched, astray>>
            /\ base.state # Unsynced /\ main.state # t =>
                 /\ \A p \in touched : p \in touched' \/ (/\ main.tree[p] = base.tree[p]
                                                          /\ p \in TierPaths(base.state, t, "replace"))
                 /\ touched' \subseteq touched
                 /\ astray' \subseteq astray \union Paths
                 /\ \A p \in Paths : p \notin astray' =>
                      /\ p \in astray => main.tree[p] = NoFile /\ main'.tree[p].kind = "file"
                      /\ main'.tree[p].kind = "file" /\ Template[base.state][p].kind = "file" =>
                           Template[t][p].kind = "file"
<1> DEFINE base == prs[t].base
           head == prs[t].head
           merged == [p \in Paths |-> GitMerge(base.tree[p], main.tree[p], head.tree[p])]
<1>1. /\ UNCHANGED <<released, channel, runs, edits, own>> /\ prs' = [prs EXCEPT ![t] = NoPR]
      /\ main' = [tree |-> merged, state |-> head.state]
      /\ IF base.state = Unsynced \/ main.state = head.state THEN UNCHANGED <<touched, astray>>
         ELSE /\ touched' = {p \in touched : \/ main.tree[p] # base.tree[p]
                                             \/ p \notin TierPaths(base.state, head.state, "replace")}
              /\ astray' = {p \in astray : main.tree[p] # NoFile \/ merged[p].kind # "file"} \union
                           {p \in Paths : /\ merged[p].kind = "file"
                                          /\ Template[base.state][p].kind = "file"
                                          /\ Template[head.state][p].kind # "file"}
  BY DEF MergePR
<1>2. main'.tree = merged /\ head.state = t
  BY <1>1
<1> HIDE DEF merged, head, base
<1> QED
  BY <1>1, <1>2 DEF base

\* Files of the merge tier outlive a merge.
LEMMA MergedKinds ==
  ASSUME NEW p \in Paths \ Binary, NEW old \in Tags, NEW new \in Tags, InTier(new, p, "merge"),
         NEW base \in File, NEW ours \in File, NEW theirs \in File,
         ~Marked(base), ~Marked(ours), ~Marked(theirs), Mergeable(base, ours, theirs, p),
         theirs = SyncOf(p, old, new, base), ours.kind = "file"
  PROVE  GitMerge(base, ours, theirs).kind = "file"
<1> DEFINE merged == GitMerge(base, ours, theirs)
<1>1. \/ ours = base /\ merged = theirs
      \/ merged = ours
      \/ merged.kind = "file"
  BY GitFile
<1> HIDE DEF merged
<1>2. base.kind = "file" => theirs.kind = "file"
  BY SyncMerge
<1> QED
  BY <1>1, <1>2 DEF merged

\* Where main is after a merge, and what the copies of the new tag tell of main.
LEMMA MergedState ==
  ASSUME Inv, NEW t \in Tags, MergePR(t)
  PROVE  /\ NotBehind(main.state, t) /\ t \in released /\ Taken' \subseteq Taken
         /\ \A s \in Taken : NotBehind(s.state, t) /\ (s.state = t => main.state = t)
         /\ main.state # t => main.state = prs[t].base.state
<1> DEFINE b == prs[t].base.state
<1>1. /\ prs[t].base \in Taken /\ Produced(prs[t].base, prs[t].head, t, prs[t].listed)
      /\ Ahead(b, t) /\ main.state \in {b, t} /\ prs[t].head.state = t
  BY MergedTree
<1>2. UNCHANGED runs /\ prs' = [prs EXCEPT ![t] = NoPR]
  BY <1>1, MergedHistory
<1>3. t \in released
  BY <1>1 DEF Produced
<1>4. Taken' \subseteq Taken
  <2>1. prs'[t].status = "none" /\ \A u \in Tags \ {t} : prs'[u] = prs[u]
    BY <1>2, Idle, Types DEF Inv
  <2>2. \A r \in Runs : runs'[r] = runs[r]
    BY <1>2
  <2> QED
    BY <2>1, <2>2 DEF Taken
<1>5. NotBehind(main.state, t)
  BY <1>1 DEF NotBehind
<1>6. main.state \in Tags \union {Unsynced}
  BY Types, SnapshotFields DEF Inv
<1>7. ASSUME NEW s \in Taken
      PROVE  NotBehind(s.state, t) /\ (s.state = t => main.state = t)
  <2>1. NotBehind(s.state, main.state) /\ s.state \in Tags \union {Unsynced}
    BY SnapshotFields DEF Inv, CopiesInv, Known
  <2>2. CASE main.state = t
    BY <2>1, <2>2
  <2>3. CASE main.state # t
    <3>1. Ahead(main.state, t)
      BY <1>1, <2>3
    <3>2. Ahead(s.state, t)
      BY <1>6, <2>1, <3>1, AheadTransitive
    <3>3. s.state # t
      BY <2>1, <3>2, NeverReturns
    <3> QED
      BY <3>2, <3>3 DEF NotBehind
  <2> QED
    BY <2>2, <2>3
<1> QED
  BY <1>1, <1>3, <1>4, <1>5, <1>7

\* What every path of a merge has, in the form that the lemmas on one path take.
LEMMA MergedPath ==
  ASSUME Inv, NEW t \in Tags, MergePR(t), NEW p \in Paths
  PROVE  /\ prs[t].base.tree[p] \in File /\ main.tree[p] \in File /\ prs[t].head.tree[p] \in File
         /\ ~Marked(prs[t].base.tree[p]) /\ ~Marked(main.tree[p]) /\ ~Marked(prs[t].head.tree[p])
         /\ prs[t].base.tree[p].kind = "link" => main.tree[p].kind = "link"
         /\ Mergeable(prs[t].base.tree[p], main.tree[p], prs[t].head.tree[p], p)
         /\ main'.tree[p] = GitMerge(prs[t].base.tree[p], main.tree[p], prs[t].head.tree[p])
         /\ prs[t].base.state = Unsynced =>
              main'.tree[p] = main.tree[p] /\ At(main.state) = t /\ UNCHANGED <<touched, astray>>
         /\ prs[t].base.state # Unsynced =>
              /\ prs[t].base.state \in Tags
              /\ prs[t].head.tree[p] =
                   SyncOf(Where(prs[t].base.tree, p), prs[t].base.state, t, prs[t].base.tree[p])
<1>1. /\ Produced(prs[t].base, prs[t].head, t, prs[t].listed) /\ prs[t].head.state = t
      /\ main.state \in {prs[t].base.state, t} /\ Known(prs[t].base)
  BY MergedTree
<1>2. prs[t].base.state \in Tags \union {Unsynced}
  BY <1>1, SnapshotFields DEF Known
<1>3. prs[t].base.state = Unsynced => At(main.state) = t /\ UNCHANGED <<touched, astray>>
  BY <1>1, MergedHistory DEF Produced, At
<1> QED
  BY <1>2, <1>3, MergedTree

\* Links of main outlive a merge.
LEMMA MergedLinks ==
  ASSUME Inv, NEW t \in Tags, MergePR(t), NEW p \in Paths, main.tree[p].kind = "link"
  PROVE  main'.tree[p].kind = "link"
<1> DEFINE base == prs[t].base.tree[p]
           ours == main.tree[p]
           theirs == prs[t].head.tree[p]
           q == Where(prs[t].base.tree, p)
<1>1. /\ base \in File /\ ours \in File /\ theirs \in File
      /\ ~Marked(base) /\ ~Marked(ours) /\ ~Marked(theirs)
      /\ Mergeable(base, ours, theirs, p)
      /\ main'.tree[p] = GitMerge(base, ours, theirs)
      /\ prs[t].base.state = Unsynced => main'.tree[p] = ours
      /\ prs[t].base.state # Unsynced =>
           prs[t].base.state \in Tags /\ theirs = SyncOf(q, prs[t].base.state, t, base)
  BY MergedPath
<1>2. q \in Paths
  BY WhereAndBack
<1> HIDE DEF base, ours, theirs, q
<1>3. ours.kind = "link"
  BY DEF ours
<1>4. CASE prs[t].base.state = Unsynced
  BY <1>1, <1>3, <1>4
<1>5. CASE prs[t].base.state # Unsynced
  <2>1. base.kind = "link" => theirs = base
    BY <1>1, <1>2, <1>5, SyncOfLink
  <2>2. \/ ours = base /\ main'.tree[p] = theirs
        \/ main'.tree[p] = ours
        \/ ours.kind = "file"
    BY <1>1, GitFile
  <2> QED
    BY <1>3, <2>1, <2>2
<1> QED
  BY <1>4, <1>5

\* What the branch has of a path that no link of main leads elsewhere.
LEMMA MergedPlain ==
  ASSUME Inv, NEW t \in Tags, MergePR(t), NEW p \in Paths, ~Astride(main'.tree, p)
  PROVE  /\ ~Astride(main.tree, p) /\ \A s \in Taken : ~Astride(s.tree, p)
         /\ Where(prs[t].base.tree, p) = p
<1>1. ~Astride(main.tree, p)
  <2>1. \A d \in Paths : main.tree[d].kind = "link" => main'.tree[d].kind = "link"
    BY MergedLinks
  <2> QED
    BY <2>1, AstrideMore
<1>2. ASSUME NEW s \in Taken PROVE ~Astride(s.tree, p)
  <2>1. \A d \in Paths : s.tree[d].kind = "link" => main.tree[d].kind = "link"
    BY DEF Inv, CopiesInv, Known
  <2> QED
    BY <1>1, <2>1, AstrideMore
<1>3. prs[t].base \in Taken
  BY MergedTree
<1> QED
  BY <1>1, <1>2, <1>3 DEF Astride

LEMMA MergedReplace ==
  ASSUME Inv, NEW t \in Tags, MergePR(t)
  PROVE  ReplaceInv'
<1>1. /\ main'.state = t /\ t # Unsynced /\ prs[t].base \in Taken /\ prs[t].head.state = t
      /\ main.state \in {prs[t].base.state, t}
  BY MergedTree, TagsAssumption
<1>2. SUFFICES ASSUME NEW p \in Paths, Steady(p, "replace"), p \notin touched'
               PROVE  InSync(main, p)' /\ \A s \in Taken' : s.state = t => InSync(s, p)
  BY <1>1 DEF ReplaceInv, InSync
<1>3. InTier(t, p, "replace")
  BY <1>2 DEF Steady
<1> DEFINE old == prs[t].base.state
           base == prs[t].base.tree[p]
           ours == main.tree[p]
           theirs == prs[t].head.tree[p]
<1>4. /\ base \in File /\ ours \in File /\ theirs \in File
      /\ ~Marked(base) /\ ~Marked(ours) /\ ~Marked(theirs)
      /\ base.kind = "link" => ours.kind = "link"
      /\ Mergeable(base, ours, theirs, p)
      /\ main'.tree[p] = GitMerge(base, ours, theirs)
      /\ old = Unsynced => main'.tree[p] = ours /\ At(main.state) = t /\ UNCHANGED <<touched, astray>>
      /\ old # Unsynced => old \in Tags /\ theirs = SyncOf(Where(prs[t].base.tree, p), old, t, base)
  BY MergedPath
<1>5. p \notin touched =>
        /\ ours = FileOf(At(main.state), p) \/ Astride(main.tree, p)
        /\ \A s \in Taken : s.state = main.state => InSync(s, p)
  BY <1>2 DEF Inv, ReplaceInv, InSync
<1>6. /\ old = Unsynced \/ main.state = t => UNCHANGED touched
      /\ old # Unsynced /\ main.state # t =>
           (p \in touched => ours = base /\ p \in TierPaths(old, t, "replace"))
  BY <1>1, <1>2, MergedHistory
<1> HIDE DEF old, base, ours, theirs
<1>7. ASSUME ~Astride(main'.tree, p) PROVE main'.tree[p] = FileOf(t, p)
  <2>0. /\ ~Astride(main.tree, p) /\ ours.kind # "link" /\ ~Astride(prs[t].base.tree, p)
        /\ main'.tree[p].kind # "link" /\ Where(prs[t].base.tree, p) = p
    BY <1>1, <1>7, MergedPlain DEF Astride, ours
  <2>1. CASE old = Unsynced
    BY <1>2, <1>4, <1>5, <2>0, <2>1
  <2>2. CASE old # Unsynced /\ main.state = t
    <3>1. ours = FileOf(t, p)
      BY <1>1, <1>2, <1>5, <1>6, <2>0, <2>2 DEF At
    <3>2. old \in Tags /\ theirs = SyncOf(p, old, t, base)
      BY <1>4, <2>0, <2>2
    <3> QED
      BY <1>3, <1>4, <2>0, <2>2, <3>1, <3>2, ReplaceStays
  <2>3. CASE old # Unsynced /\ main.state # t
    <3>1. main.state = old /\ old \in Tags
      BY <1>1, <1>4, <2>3 DEF old
    <3>2. \/ /\ ours = FileOf(old, p) \/ ours.kind = "link"
             /\ base = FileOf(old, p) \/ base.kind = "link"
          \/ ours = base /\ p \in TierPaths(old, t, "replace")
      <4>1. p \notin touched => InSync(prs[t].base, p)
        BY <1>1, <1>5, <3>1 DEF old
      <4>2. p \notin touched => base = FileOf(old, p)
        BY <2>0, <2>3, <4>1 DEF InSync, At, old, base
      <4> QED
        BY <1>5, <1>6, <2>0, <2>3, <3>1, <4>2 DEF At
    <3>3. theirs = SyncOf(p, old, t, base)
      BY <1>4, <2>0, <2>3
    <3> QED
      BY <1>3, <1>4, <2>0, <2>3, <3>1, <3>2, <3>3, ReplaceMoves
  <2> QED
    BY <2>1, <2>2, <2>3
<1>8. InSync(main, p)'
  BY <1>1, <1>7 DEF InSync, At
<1>9. ASSUME NEW s \in Taken', s.state = t PROVE InSync(s, p)
  <2>1. s \in Taken /\ main.state = t
    BY <1>9, MergedState
  <2> QED
    BY <1>2, <1>5, <1>6, <1>9, <2>1
<1> QED
  BY <1>8, <1>9

LEMMA MergedText ==
  ASSUME Inv, NEW t \in Tags, MergePR(t)
  PROVE  MergeInv'
<1>1. /\ main'.state = t /\ t # Unsynced /\ prs[t].base \in Taken /\ prs[t].head.state = t
      /\ main.state \in {prs[t].base.state, t} /\ own' = own
  BY MergedTree, MergedHistory, TagsAssumption
<1>2. SUFFICES ASSUME NEW p \in Paths \ Binary, Steady(p, "merge"), ~Astride(main'.tree, p)
               PROVE  /\ p \in own => main'.tree[p].kind = "file"
                      /\ p \notin astray' =>
                           /\ Synced(main'.tree[p], t, p, Owned(p))
                           /\ \A s \in Taken' : s.state = t /\ s.tree[p].kind = "file" =>
                                main'.tree[p].kind = "file" /\ s.tree[p].text \ {Own} = Text(s.state, p)
  BY <1>1 DEF MergeInv, Synced, Text, Owned, At
<1>3. InTier(t, p, "merge")
  BY <1>2 DEF Steady
<1> DEFINE old == prs[t].base.state
           base == prs[t].base.tree[p]
           ours == main.tree[p]
           theirs == prs[t].head.tree[p]
           O == Owned(p)
<1>4. /\ base \in File /\ ours \in File /\ theirs \in File
      /\ ~Marked(base) /\ ~Marked(ours) /\ ~Marked(theirs)
      /\ base.kind = "link" => ours.kind = "link"
      /\ Mergeable(base, ours, theirs, p)
      /\ main'.tree[p] = GitMerge(base, ours, theirs)
      /\ old = Unsynced => main'.tree[p] = ours /\ At(main.state) = t /\ UNCHANGED <<touched, astray>>
      /\ old # Unsynced => old \in Tags /\ theirs = SyncOf(p, old, t, base)
  BY <1>2, MergedPath, MergedPlain
<1>5. /\ p \in own => ours.kind = "file"
      /\ p \notin astray =>
           /\ Synced(ours, At(main.state), p, O)
           /\ \A s \in Taken : s.state = main.state /\ s.tree[p].kind = "file" =>
                ours.kind = "file" /\ s.tree[p].text \ {Own} = Text(s.state, p)
  BY <1>2, MergedPlain DEF Inv, MergeInv, Synced, Text
<1>6. /\ old = Unsynced \/ main.state = t => UNCHANGED astray
      /\ old # Unsynced /\ main.state # t /\ p \notin astray' =>
           /\ p \in astray => ours = NoFile /\ main'.tree[p].kind = "file"
           /\ main'.tree[p].kind = "file" /\ Template[old][p].kind = "file" =>
                Template[t][p].kind = "file"
  BY <1>1, <1>2, MergedHistory
<1>7. O \in {{}, {Own}} /\ (O = {Own} <=> p \in own)
  BY DEF Owned
<1>8. ours.kind = "file" => main'.tree[p].kind = "file"
  <2>1. CASE old = Unsynced
    BY <1>4, <2>1
  <2>2. CASE old # Unsynced
    <3>1. old \in Tags /\ theirs = SyncOf(p, old, t, base)
      BY <1>4, <2>2
    <3> HIDE DEF old, base, ours, theirs
    <3> QED
      BY <1>2, <1>3, <1>4, <3>1, MergedKinds
  <2> QED
    BY <2>1, <2>2
<1>9. ASSUME p \notin astray' PROVE Synced(main'.tree[p], t, p, O)
  <2>1. CASE old = Unsynced
    BY <1>4, <1>5, <1>9, <2>1
  <2>2. CASE old # Unsynced /\ main.state = t
    <3>1. Synced(ours, t, p, O)
      BY <1>1, <1>5, <1>6, <1>9, <2>2 DEF At
    <3> HIDE DEF old, base, ours, theirs, O
    <3> QED
      BY <1>2, <1>3, <1>4, <1>5, <1>7, <2>2, <3>1, MergeStays
  <2>3. CASE old # Unsynced /\ main.state # t /\ p \notin astray
    <3>1. main.state = old /\ old \in Tags
      BY <1>1, <1>4, <2>3
    <3>2. Synced(ours, old, p, O)
      BY <1>5, <2>3, <3>1 DEF At
    <3>3. base.kind = "file" => ours.kind = "file" /\ base.text \ {Own} = Template[old][p].text
      BY <1>1, <1>5, <2>3, <3>1 DEF Text, At
    <3>4. GitMerge(base, ours, theirs).kind = "file" /\ Template[old][p].kind = "file" =>
            Template[t][p].kind = "file"
      BY <1>4, <1>6, <1>9, <2>3
    <3>5. theirs = SyncOf(p, old, t, base) /\ (O = {Own} => ours.kind = "file")
      BY <1>4, <1>5, <1>7, <2>3
    <3> HIDE DEF old, base, ours, theirs, O
    <3>6. /\ base \in File /\ ours \in File /\ theirs \in File
          /\ ~Marked(base) /\ ~Marked(ours) /\ ~Marked(theirs)
          /\ base.kind = "link" => ours.kind = "link"
          /\ Mergeable(base, ours, theirs, p) /\ O \in {{}, {Own}}
      BY <1>4, <1>7
    <3>7. p \in Paths \ Binary /\ old \in Tags /\ t \in Tags
      BY <3>1
    <3>8. Synced(GitMerge(base, ours, theirs), t, p, O)
      BY <1>3, <3>2, <3>3, <3>4, <3>5, <3>6, <3>7, MergeMoves
    <3> QED
      BY <1>4, <3>8
  <2>4. CASE old # Unsynced /\ main.state # t /\ p \in astray
    <3>1. ours = NoFile /\ main'.tree[p].kind = "file"
      BY <1>6, <1>9, <2>4
    <3> HIDE DEF old, base, ours, theirs, O
    <3>2. ours.kind = "none" /\ O = {}
      BY <1>5, <1>7, <3>1, NoFiles
    <3>3. base.kind \in {"none", "file"}
      BY <1>4, <3>2, FileFields
    <3>4. \/ ours = base /\ main'.tree[p] = theirs
          \/ main'.tree[p] = ours
          \/ ours.kind = "file"
      BY <1>4, GitFile
    <3>5. base.kind = "none" /\ main'.tree[p] = theirs
      BY <3>1, <3>2, <3>4
    <3>6. Template[t][p].kind = "file" /\ theirs = Template[t][p]
      BY <1>2, <1>3, <1>4, <2>4, <3>1, <3>5, SyncMerge
    <3> QED
      BY <3>1, <3>2, <3>5, <3>6 DEF Synced
  <2> QED
    BY <2>1, <2>2, <2>3, <2>4
<1>10. ASSUME p \notin astray', NEW s \in Taken', s.state = t, s.tree[p].kind = "file"
       PROVE  main'.tree[p].kind = "file" /\ s.tree[p].text \ {Own} = Text(s.state, p)
  <2>1. s \in Taken /\ main.state = t
    BY <1>10, MergedState
  <2> QED
    BY <1>5, <1>6, <1>8, <1>10, <2>1
<1> QED
  BY <1>5, <1>8, <1>9, <1>10

LEMMA MergePRStep == ASSUME Inv, NEW t \in Tags, MergePR(t) PROVE Inv'
<1>1. /\ prs[t].status = "open" /\ main' \in Snapshot /\ main'.state = t /\ CleanTree(main'.tree)
      /\ prs[t].head.state = t
  BY MergedTree
<1>2. /\ UNCHANGED <<released, channel, runs, edits, own>> /\ prs' = [prs EXCEPT ![t] = NoPR]
      /\ touched' \subseteq Paths /\ astray' \subseteq Paths
  BY <1>1, MergedHistory DEF Inv, TypeOK
<1>3. prs' \in [Tags -> PRSet] /\ prs'[t] = NoPR /\ \A u \in Tags \ {t} : prs'[u] = prs[u]
  BY <1>2, Idle, Types DEF Inv
<1>4. TypeOK'
  BY <1>1, <1>2, <1>3 DEF Inv, TypeOK, PRSet
<1>5. CopiesInv'
  <2>1. Known(main)'
    BY <1>1, <1>2, MergedState DEF Known, NotBehind
  <2>2. ASSUME NEW s \in Taken' PROVE Known(s)'
    <3>1. s \in Taken /\ Known(s) /\ NotBehind(s.state, t)
      BY MergedState DEF Inv, CopiesInv
    <3>2. NotBehind(s.state, main.state)'
      BY <1>1, <1>2, <3>1 DEF NotBehind, Ahead, Candidates
    <3>3. ASSUME NEW p \in Paths, s.tree[p].kind = "link" PROVE main'.tree[p].kind = "link"
      <4>1. main.tree[p].kind = "link"
        BY <3>1, <3>3 DEF Known
      <4> QED
        BY <4>1, MergedLinks
    <3> QED
      BY <1>2, <3>1, <3>2, <3>3 DEF Known
  <2> QED
    BY <2>1, <2>2 DEF CopiesInv
<1>6. FlowInv'
  <2>1. \A z : RunOk(z) => RunOk(z)'
    BY <1>2 DEF RunOk, Produced, Ahead, Candidates
  <2>2. \A z, u : PROk(z, u) => PROk(z, u)'
    BY <1>2 DEF PROk, Produced, Ahead, Candidates
  <2>3. \A q \in Runs : RunOk(runs[q])'
    BY <1>2, <2>1 DEF Inv, FlowInv
  <2>4. ASSUME NEW q \in Runs PROVE OpenOk(q)'
    <3>1. OpenOk(q) /\ (runs[q].pc = "open" => runs[q].new \in released /\ runs[q].new # t)
      BY <1>1, OpenIsNobodys DEF Inv, FlowInv, RunOk, Produced
    <3>2. released \subseteq Tags
      BY Types DEF Inv
    <3> QED
      BY <1>2, <1>3, <3>1, <3>2 DEF OpenOk
  <2>5. \A u \in Tags : PROk(prs[u], u)'
    BY <1>3, <2>2, Idle DEF Inv, FlowInv
  <2> QED
    BY <1>2, <2>3, <2>4, <2>5 DEF FlowInv, Inv
<1> QED
  BY <1>4, <1>5, <1>6, MergedReplace, MergedText DEF Inv

-----------------------------------------------------------------------------
(* The theorems *)

LEMMA NextInv == ASSUME Inv, [Next]_vars PROVE Inv'
<1>1. ASSUME NEW r \in Runs, Step(r) PROVE Inv'
  BY <1>1, CheckOutStep, BootstrapStep, SelectTagStep, ApplyStep, PushStep, OpenPRStep, RunFailsStep
     DEF Step
<1>2. ASSUME NEW t \in Tags, Release(t) \/ Maintain(t) PROVE Inv'
  BY <1>2, ReleaseStep, ResolveStep, MergePRStep, ClosePRStep, DeleteBranchStep DEF Maintain
<1>3. ASSUME NEW p \in Edited, Edit(p) PROVE Inv'
  BY <1>3, EditsAssumption, EditStep
<1>4. CASE UNCHANGED vars
  <2>1. UNCHANGED <<channel, main, touched, own, astray, released, runs, prs, edits>>
    BY <1>4 DEF vars
  <2>2. Taken' = Taken
    BY <2>1 DEF Taken
  <2>3. CopiesInv' /\ ReplaceInv' /\ MergeInv'
    BY <2>1, <2>2, Types, QuietStep DEF Inv
  <2>4. TypeOK' /\ FlowInv'
    <3>1. FlowInv'
      BY <2>1 DEF Inv, FlowInv, RunOk, OpenOk, PROk, Produced, Ahead, Candidates
    <3> QED
      BY <2>1, <3>1 DEF Inv, TypeOK
  <2> QED
    BY <2>3, <2>4 DEF Inv
<1> QED
  BY <1>1, <1>2, <1>3, <1>4 DEF Next

\* In every reachable state of the synchronisation: copies of main are older
\* than main or its equal, branches hold what apply makes of their copy, and the
\* state file is true of main and of every copy that could still be merged.
THEOREM SyncInvariance == Spec => []Inv
<1> QED
  BY InitInv, NextInv, PTL DEF Spec

\* Every variable keeps its type.
THEOREM SyncTypeCorrect == Spec => []TypeOK
<1>1. Inv => TypeOK
  BY DEF Inv
<1> QED
  BY <1>1, SyncInvariance, PTL

\* Overlapping runs, failed applies and late merges leave every path of the
\* replace tier at the tag of the state file, unless the instance linked it or a
\* directory of it, or edited it since.
THEOREM StateFileTellsTheTruth == Spec => []ReplaceInSync
<1>1. Inv => ReplaceInSync
  BY DEF Inv, ReplaceInv, ReplaceInSync, InSync, At, Astride
<1> QED
  BY <1>1, SyncInvariance, PTL

\* Every text of the merge tier has the synced tag's lines and the instance's
\* own, unless the instance linked it or a directory of it, or deleted it, or the
\* template dropped it, since a sync last restored it.
THEOREM NoLineIsLost == Spec => []MergeInSync
<1>1. Inv => MergeInSync
  BY DEF Inv, MergeInv, MergeInSync, Text, Owned, At
<1> QED
  BY <1>1, SyncInvariance, PTL

LEMMA SyncingMade ==
  ASSUME Inv, NEW t \in Tags, Syncing(t)
  PROVE  /\ prs[t].base.state \in Tags /\ prs[t].base.tree \in Tree /\ CleanTree(prs[t].base.tree)
         /\ prs[t].head.tree \in Tree
         /\ Made(prs[t].base.state, t, prs[t].base.tree, prs[t].head.tree, prs[t].listed)
<1>1. prs[t].status = "open" /\ prs[t].base.state # Unsynced
  BY DEF Syncing
<1> QED
  BY <1>1, PRFacts DEF Known, Produced

\* A pull request lists every path that has conflict markers or lacks a line
\* that the template added, after any number of resolutions; a path behind a
\* linked directory by the template's name for it.
THEOREM NothingIsHidden == Spec => []ConflictsAnnounced
<1>1. ASSUME Inv PROVE ConflictsAnnounced
  <2>1. SUFFICES ASSUME NEW t \in Tags, Syncing(t),
                        NEW p \in TierPaths(prs[t].base.state, t, "merge"),
                        NEW q, q = Where(prs[t].base.tree, p),
                        \/ Marked(prs[t].head.tree[q])
                        \/ /\ prs[t].head.tree[q].kind = "file"
                           /\ ~(Template[t][p].text \ Template[prs[t].base.state][p].text
                                  \subseteq prs[t].head.tree[q].text)
                 PROVE  p \in prs[t].listed
    BY DEF ConflictsAnnounced
  <2>2. p \in Paths
    BY DEF TierPaths
  <2>3. q \in Paths /\ Where(prs[t].base.tree, q) = p
    BY <2>1, <2>2, WhereAndBack
  <2>4. /\ prs[t].base.state \in Tags /\ prs[t].base.tree \in Tree /\ CleanTree(prs[t].base.tree)
        /\ prs[t].head.tree \in Tree
        /\ Made(prs[t].base.state, t, prs[t].base.tree, prs[t].head.tree, prs[t].listed)
    BY <1>1, <2>1, SyncingMade
  <2>5. CASE Marked(prs[t].head.tree[q])
    BY <2>3, <2>4, <2>5 DEF Made
  <2>6. CASE ~Marked(prs[t].head.tree[q])
    <3> DEFINE old == prs[t].base.state
               base == prs[t].base.tree
               tree == prs[t].head.tree
               listed == prs[t].listed
    <3>1. /\ p \in TierPaths(old, t, "merge") /\ q = Where(base, p)
          /\ old \in Tags /\ base \in Tree /\ CleanTree(base)
          /\ tree \in Tree /\ Made(old, t, base, tree, listed)
      BY <2>1, <2>4
    <3>2. /\ tree[q].kind = "file"
          /\ ~(Template[t][p].text \ Template[old][p].text \subseteq tree[q].text)
      BY <2>1, <2>6
    <3>3. p \in listed
      <4> HIDE DEF old, base, tree, listed
      <4> QED
        BY <3>1, <3>2, MadeAnnounces
    <3> QED
      BY <3>3
  <2> QED
    BY <2>5, <2>6
<1> QED
  BY <1>1, SyncInvariance, PTL

\* A pull request changes only paths that its manifest puts in one tier or, for
\* one below a directory that the instance linked, the path behind; it replaces
\* no link, and deletes nothing for the merge tier.
THEOREM SyncStaysInItsTiers == Spec => []StaysInItsTiers
<1>1. ASSUME Inv PROVE StaysInItsTiers
  BY <1>1, SyncingMade, MadeStays DEF StaysInItsTiers
<1> QED
  BY <1>1, SyncInvariance, PTL

\* What a run is about to push is a fixed point of apply, but for the conflicts.
THEOREM SyncIsIdempotent == Spec => []RerunIsQuiet
<1>1. ASSUME Inv PROVE RerunIsQuiet
  <2>1. ASSUME NEW r \in Runs, runs[r].pc = "push", runs[r].base.state # Unsynced
        PROVE  /\ runs[r].base.state \in Tags /\ runs[r].new \in Tags
               /\ runs[r].base.tree \in Tree /\ CleanTree(runs[r].base.tree)
               /\ runs[r].work.tree \in Tree
               /\ Made(runs[r].base.state, runs[r].new, runs[r].base.tree, runs[r].work.tree,
                       runs[r].conflicts)
    <3>1. /\ runs[r] \in RunSet /\ runs[r].base \in Taken /\ released \subseteq Tags
          /\ Produced(runs[r].base, runs[r].work, runs[r].new, runs[r].conflicts)
      BY <1>1, <2>1, Types, InTaken DEF Inv, FlowInv, RunOk
    <3>2. runs[r].base \in Snapshot /\ runs[r].work \in Snapshot /\ Known(runs[r].base)
      BY <1>1, <3>1 DEF Inv, CopiesInv, RunSet
    <3> QED
      BY <2>1, <3>1, <3>2, SnapshotFields DEF Known, Produced
  <2> QED
    BY <2>1, MadeIsQuiet DEF RerunIsQuiet
<1> QED
  BY <1>1, SyncInvariance, PTL

\* Within its channel the state file of main only moves to newer versions.
THEOREM NeverAnOlderTag == Spec => NeverBackwards
<1> DEFINE Forward == main.state # Unsynced /\ main'.state # main.state =>
             /\ main'.state # Unsynced
             /\ main.state \in Candidates(Tags) => Below(Parsed[main.state], Parsed[main'.state])
<1>1. ASSUME Inv, [Next]_vars PROVE [Forward]_vars
  <2> SUFFICES ASSUME main.state # Unsynced, main'.state # main.state
               PROVE  /\ main'.state # Unsynced
                      /\ main.state \in Candidates(Tags) =>
                           Below(Parsed[main.state], Parsed[main'.state])
    OBVIOUS
  <2>1. CASE UNCHANGED main
    BY <2>1
  <2>2. ASSUME NEW t \in Tags, MergePR(t) PROVE Ahead(main.state, main'.state)
    <3>1. main'.state = t /\ NotBehind(main.state, t)
      BY <1>1, <2>2, MergedTree, MergedState
    <3> QED
      BY <3>1 DEF NotBehind
  <2>3. ASSUME NEW p \in Edited, Edit(p) PROVE FALSE
    BY <1>1, <2>3, EditsAssumption, EditFacts
  <2>4. UNCHANGED main \/ (\E t \in Tags : MergePR(t)) \/ (\E p \in Edited : Edit(p))
    BY <1>1 DEF Next, Step, Maintain, CheckOut, Bootstrap, SelectTag, Apply, Push, OpenPR, RunFails,
                Release, Resolve, ClosePR, DeleteBranch, world, vars
  <2> QED
    BY <2>1, <2>2, <2>3, <2>4 DEF Ahead
<1> QED
  BY <1>1, SyncInvariance, PTL DEF Spec, NeverBackwards
=============================================================================
