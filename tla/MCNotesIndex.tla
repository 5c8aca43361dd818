---------------------------- MODULE MCNotesIndex ----------------------------
(* Small libraries for NotesIndex.                                         *)
EXTENDS NotesIndex, TLC

CONSTANTS a, b

TwoNotes == 1 .. 2
ThreeNotes == 1 .. 3
OneInstant == {1}
TwoInstants == 1 .. 2
OneText == {a}
TwoTexts == {a, b}
Symmetry == Permutations(TwoTexts)

AllFaults == {"announce", "start", "slice", "mapLess", "answer"}
=============================================================================
