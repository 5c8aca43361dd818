--------------------------- MODULE MCLibraryFiles ---------------------------
(* Small libraries for LibraryFiles: one item, two master keys, two        *)
(* phrases, and the steps at which a run lets the process end or the disk  *)
(* fail.                                                                   *)
EXTENDS LibraryFiles, TLC

CONSTANTS i1, m1, m2, p1, p2

NoItems == {}
OneItem == {i1}
TwoMasters == {m1, m2}
TwoPhrases == {p1, p2}
Symmetry == Permutations(TwoMasters) \cup Permutations(TwoPhrases)

NoSteps == {}
AllSteps == Steps \ {"idle"}
(* Everywhere but in the renaming back of put_back.                        *)
AllButReturn == AllSteps \ {"return"}
(* Everywhere but between a database going aside and its attachments.      *)
AllButApart == AllSteps \ {"moveKey", "moveFiles", "setKey", "setFiles"}
AllButMoves == AllButApart \ {"return"}
MoveFilesOnly == {"moveFiles"}
SetFilesOnly == {"setFiles"}
(* A copy that cannot be read back, then a rename that fails.              *)
CopyAndReturn == {"fillKey", "return"}
=============================================================================
