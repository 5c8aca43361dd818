----------------------------- MODULE MCNotebook -----------------------------
(* Small libraries for Notebook.                                           *)
EXTENDS Notebook, TLC

CONSTANTS s1, s2, f1, f2, f3, f4, n1, n2

OneSpace == {s1}
TwoSpaces == {s1, s2}
OneFolder == {f1}
TwoFolders == {f1, f2}
ThreeFolders == {f1, f2, f3}
FourFolders == {f1, f2, f3, f4}
OneNote == {n1}
TwoNotes == {n1, n2}
Symmetry == Permutations(Spaces) \cup Permutations(Folders) \cup Permutations(Notes)
=============================================================================
