----------------------------- MODULE MCRelease -----------------------------
(* Instances of Release. *)
EXTENDS Release

Ask(bump, channel) == [bump |-> bump, channel |-> channel]
Asks == {Ask("patch", "full"), Ask("none", "alpha")}

\* A pre-release series with a gap, beyond a full release.
PastReleases ==
  {{Tag(<<0, 9, 1>>, "full", 0), Tag(<<1, 0, 0>>, "alpha", 2), Tag(<<1, 0, 0>>, "beta", 1)}}
=============================================================================
