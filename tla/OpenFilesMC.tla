---------------------------- MODULE OpenFilesMC -----------------------------
(* Instances of OpenFiles for TLC.                                         *)
EXTENDS OpenFiles

\* u2 is in the group of u1's files, u1 is not in that of u2's.
MCMembers == {<<"u2", "u1">>}

\* Up to two components.
MCPaths == {<<>>} \cup {<<n>> : n \in PathNames} \cup (PathNames \X PathNames)

All == {"r", "w", "x"}

\* 0700, 0777, and 0607 with the group shut out.
MCModes == {Bits(All, {}, {}), Bits(All, All, All), Bits({"r", "w"}, {}, All)}
=============================================================================
