---------------------------- MODULE MCNoteEditor ----------------------------
(* A few texts for NoteEditor.                                             *)
EXTENDS NoteEditor

CONSTANTS x, y

XOrBlank == {x, Blank}
Anything == {x, y, Blank}
OneText == {x}
TwoTexts == {x, y}
Kept == [t \in {x} |-> x]
XToY == [t \in {x, y} |-> y]
NoJob == {}
AnyJob == {"create", "write", "read"}
CreatesAndReads == {"create", "read"}
Reads == {"read"}
Creates == {"create"}
=============================================================================
