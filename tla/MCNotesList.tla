----------------------------- MODULE MCNotesList ----------------------------
(* Small libraries for NotesList.                                          *)
EXTENDS NotesList

CONSTANT a

OneNote == {1}
TwoNotes == 1 .. 2
OneInstant == {1}
OneText == {a}

NoFaults == {}
SliceFault == {"slice"}
AllFaults == {"announce", "start", "slice", "mapLess", "answer"}
AnnounceFault == {"announce"}
=============================================================================
