------------------------------ MODULE Versions ------------------------------
(***************************************************************************)
(* The version arithmetic of .github/scripts/compute_next_version.py, over *)
(* tags that already parsed: a tag is its base (major, minor, patch), its  *)
(* channel ("full" for none) and the number within the channel.            *)
(***************************************************************************)
EXTENDS Naturals, Sequences, FiniteSetsExt

Channels == {"alpha", "beta", "rc", "full"}
Bumps == {"major", "minor", "patch", "none"}
Tag(base, channel, num) == [base |-> base, channel |-> channel, num |-> num]

\* A full release outranks every pre-release of the same base.
PreRank(channel) ==
  CASE channel = "alpha" -> 0 [] channel = "beta" -> 1 [] channel = "rc" -> 2 [] OTHER -> 3

SortKey(t) == t.base \o <<PreRank(t.channel), t.num>>

\* Python's order of tuples of one length.
Less(a, b) == \E i \in DOMAIN a : a[i] < b[i] /\ \A j \in 1..(i - 1) : a[j] = b[j]

Greatest(tuples) == CHOOSE m \in tuples : \A t \in tuples : ~Less(m, t)

BumpBase(base, part) ==
  CASE part = "major" -> <<base[1] + 1, 0, 0>>
    [] part = "minor" -> <<base[1], base[2] + 1, 0>>
    [] part = "patch" -> <<base[1], base[2], base[3] + 1>>

Bases(tags) == {t.base : t \in tags}
Zero == <<0, 0, 0>>

\* The base of the latest full release, and of the latest tag of any channel.
LatestFinalBase(tags) ==
  Greatest({Zero} \union Bases({t \in tags : t.channel = "full"}))

LatestOverallBase(tags) ==
  IF tags = {} THEN Zero
  ELSE (CHOOSE m \in tags : \A t \in tags : ~Less(SortKey(m), SortKey(t))).base

NextBase(tags, bump) ==
  IF bump = "none" THEN LatestOverallBase(tags) ELSE BumpBase(LatestFinalBase(tags), bump)

\* Mutant: the highest number is used again.
SameNum(tags, base, channel) ==
  Max({1} \union {t.num : t \in {u \in tags : u.base = base /\ u.channel = channel}})

NextNum(tags, base, channel) ==
  1 + Max({0} \union {t.num : t \in {u \in tags : u.base = base /\ u.channel = channel}})

\* main: a full release has no number; its tag may already exist, an error.
NextTag(tags, bump, channel) ==
  LET base == NextBase(tags, bump)
  IN Tag(base, channel, IF channel = "full" THEN 0 ELSE NextNum(tags, base, channel))

\* What the next version is for: it is new; after a bump it outranks every full
\* release; it outranks its own series; and "none" continues the latest base.
Advances(tags, bump, next) ==
  /\ next \notin tags
  /\ \A t \in tags :
       /\ bump # "none" /\ t.channel = "full" => Less(SortKey(t), SortKey(next))
       /\ t.base = next.base /\ t.channel = next.channel => t.num < next.num
       /\ bump = "none" => ~Less(next.base, t.base)
=============================================================================
