------------------------------- MODULE Notebook -------------------------------
(* What one open library holds - spaces, the folders nested in them, the    *)
(* notes filed there or in the trash, their attachments' files - under the  *)
(* commands of the interface, and the one write it can put back.            *)
(*                                                                          *)
(* A command is one transaction on the db thread, so its rows change in one *)
(* step.  What it answers reaches the interface later: `coming` is the      *)
(* answer of a write that ran and no frame has adopted, `last` the record   *)
(* Ctrl+Z reads, `listed` the rows of the trash panel as last loaded.  An   *)
(* id is random and never comes back: Unmade, then a row, then Gone.        *)
(*                                                                          *)
(* Left out: names (a command whose name is taken is not run, and an undo   *)
(* may find it taken), bodies and tags, the geometry of the board, and      *)
(* attachments but one a note.                                              *)
EXTENDS Naturals, FiniteSets

CONSTANTS
  Spaces,    \* ids of spaces
  Folders,   \* ids of folders
  Notes,     \* ids of notes, also of the one attachment each may have
  MaxDepth,  \* MAX_DEPTH: how deep folders nest
  None,      \* no folder: loose, or at the top
  Unmade,    \* an id not given yet
  Gone       \* a row deleted

ASSUME DepthAssumption == MaxDepth \in Nat \ {0}
ASSUME NoneAssumption == None \notin Folders

VARIABLES
  spaces,    \* the spaces there are
  folders,   \* the folders' rows
  notes,     \* the notes' rows
  files,     \* whose attachment has its file in attachments/
  last,      \* UndoState.last
  coming,    \* the answer of a write nothing has adopted yet
  listed     \* TrashState.notes

rows == <<spaces, folders, notes>>
asked == <<last, coming, listed>>
vars == <<spaces, folders, notes, files, last, coming, listed>>

FolderRow == [space : Spaces, parent : Folders \cup {None}]
NoteRow == [space : Spaces, folder : Folders \cup {None}, trashed : BOOLEAN, attached : BOOLEAN]

(* None of these is a row.                                                  *)
ASSUME RowsAssumption == Unmade # Gone /\ {Unmade, Gone} \cap (FolderRow \cup NoteRow) = {}

(* What can be put back: the ids deleted, where each note was, the folder   *)
(* each left, or the parent a folder left.  It touched something.           *)
Some == (SUBSET Notes) \ {{}}
WasIn(place) == UNION {[N -> place] : N \in Some}
Reversible ==
  [kind : {"none"}]
    \cup [kind : {"deletion"}, ids : Some]
    \cup [kind : {"move"}, was : WasIn([space : Spaces, folder : Folders \cup {None}])]
    \cup [kind : {"file"}, was : WasIn(Folders \cup {None})]
    \cup [kind : {"folder"}, folder : Folders, parent : Folders \cup {None}]
Nothing == [kind |-> "none"]

TypeOK ==
  /\ spaces \subseteq Spaces
  /\ folders \in [Folders -> FolderRow \cup {Unmade, Gone}]
  /\ notes \in [Notes -> NoteRow \cup {Unmade, Gone}]
  /\ files \subseteq Notes
  /\ last \in Reversible
  /\ coming \in Reversible
  /\ listed \subseteq Notes

(* A library with its spaces made and nothing in them.                      *)
Init ==
  /\ spaces = Spaces
  /\ folders = [f \in Folders |-> Unmade]
  /\ notes = [n \in Notes |-> Unmade]
  /\ files = {}
  /\ last = Nothing
  /\ coming = Nothing
  /\ listed = {}

Made(row) == row \notin {Unmade, Gone}
Exists(f) == f \in Folders /\ Made(folders[f])
BelongsTo(f, s) == Exists(f) /\ folders[f].space = s
IsNote(ns, n) == Made(ns[n])
Live(ns, n) == IsNote(ns, n) /\ ~ns[n].trashed
InTrash(ns, n) == IsNote(ns, n) /\ ns[n].trashed

-------------------------------------------------------------------------------
(* One space's folders as a tree.                                           *)

Lineage(fs, s) ==
  LET known == {f \in Folders : Made(fs[f]) /\ fs[f].space = s}
  IN [f \in known |-> IF fs[f].parent \in known THEN fs[f].parent ELSE None]

(* The folder and everything under it: what every set that holds it and the *)
(* children of its members holds.                                           *)
Closed(tree, S) == \A g \in DOMAIN tree : tree[g] \in S => g \in S
Subtree(tree, f) ==
  {g \in DOMAIN tree : \A S \in SUBSET DOMAIN tree : f \in S /\ Closed(tree, S) => g \in S}

Depth(tree, f) == Cardinality({g \in DOMAIN tree : f \in Subtree(tree, g)})
Above(tree, parent) == IF parent = None THEN 0 ELSE Depth(tree, parent)

(* Refused past MAX_DEPTH, for a parent of another space, or one inside     *)
(* what moves.                                                              *)
CheckChild(tree, parent) ==
  parent \in DOMAIN tree \cup {None} /\ Above(tree, parent) < MaxDepth

(* Mutant: only the folder that moves is counted, not what it holds. *)
CheckMoveAlone(tree, f, parent) == CheckChild(tree, parent) /\ parent \notin Subtree(tree, f)

CheckMove(tree, f, parent) ==
  /\ parent \in DOMAIN tree \cup {None}
  /\ parent \notin Subtree(tree, f)
  /\ \A g \in Subtree(tree, f) : Above(tree, parent) + Depth(tree, g) < MaxDepth + Depth(tree, f)

TreeOf(fs, f) == Lineage(fs, fs[f].space)

Placed(fs, f, parent) == [fs EXCEPT ![f].parent = parent]

-------------------------------------------------------------------------------
(* What each write that can be put back changes, and answers.               *)

(* file_many: live notes, of the folder's own space, not already there.     *)
ToFile(ids, f) ==
  {n \in ids : Live(notes, n) /\ notes[n].folder # f /\ (Exists(f) => notes[n].space = folders[f].space)}
Filing(ids, f) == [kind |-> "file", was |-> [n \in ToFile(ids, f) |-> notes[n].folder]]
Filed(ids, f) ==
  [n \in Notes |-> IF n \in ToFile(ids, f) THEN [notes[n] EXCEPT !.folder = f] ELSE notes[n]]

(* move_many: live notes of another space, whose folder stays behind.       *)
ToMove(ids, s) == {n \in ids : Live(notes, n) /\ notes[n].space # s}
Moving(ids, s) ==
  [kind |-> "move",
   was |-> [n \in ToMove(ids, s) |-> [space |-> notes[n].space, folder |-> notes[n].folder]]]

(* Mutant: the notes keep the folder they were filed in. *)
MovedFiled(ids, s) ==
  [n \in Notes |-> IF n \in ToMove(ids, s) THEN [notes[n] EXCEPT !.space = s] ELSE notes[n]]

Moved(ids, s) ==
  [n \in Notes |->
     IF n \in ToMove(ids, s) THEN [notes[n] EXCEPT !.space = s, !.folder = None] ELSE notes[n]]

(* delete_notes: the ids asked are what the record keeps, not those moved.  *)
Deleting(ids) ==
  IF \E n \in ids : Live(notes, n) THEN [kind |-> "deletion", ids |-> ids] ELSE Nothing
Deleted(ids) ==
  [n \in Notes |->
     IF n \in ids /\ Live(notes, n) THEN [notes[n] EXCEPT !.trashed = TRUE] ELSE notes[n]]

MovingFolder(f) == [kind |-> "folder", folder |-> f, parent |-> folders[f].parent]

(* Mutant: a write that touched no note is offered. *)
CountedAll(done) == done

(* A write that touched no note is nothing to offer.                        *)
Counted(done) == IF done.kind \in {"move", "file"} /\ DOMAIN done.was = {} THEN Nothing ELSE done

-------------------------------------------------------------------------------
(* What putting it back does to the rows there are by then.                 *)

Restored(ns, ids) ==
  [n \in Notes |-> IF n \in ids /\ InTrash(ns, n) THEN [ns[n] EXCEPT !.trashed = FALSE] ELSE ns[n]]

(* Mutant: the notes go back loose. *)
MovedBackLoose(ns, was) ==
  [n \in Notes |->
     IF n \in DOMAIN was /\ Live(ns, n) /\ was[n].space \in spaces
     THEN [ns[n] EXCEPT !.space = was[n].space, !.folder = None]
     ELSE ns[n]]

(* A space dropped since is skipped; a folder no longer of that space       *)
(* leaves the note loose.                                                   *)
MovedBack(ns, was) ==
  [n \in Notes |->
     IF n \in DOMAIN was /\ Live(ns, n) /\ was[n].space \in spaces
     THEN [ns[n] EXCEPT !.space = was[n].space,
                        !.folder = IF BelongsTo(was[n].folder, was[n].space)
                                   THEN was[n].folder ELSE None]
     ELSE ns[n]]

(* A folder gone skips its note, then fails the whole transaction where the *)
(* zones grow; the space a note is in by then is not looked at.             *)
FiledBack(ns, was) ==
  IF \E n \in DOMAIN was : was[n] # None /\ ~Exists(was[n])
  THEN ns
  ELSE [n \in Notes |->
          IF n \in DOMAIN was /\ Live(ns, n) THEN [ns[n] EXCEPT !.folder = was[n]] ELSE ns[n]]

NotesBack(ns, done) ==
  CASE done.kind = "deletion" -> Restored(ns, done.ids)
    [] done.kind = "move" -> MovedBack(ns, done.was)
    [] done.kind = "file" -> FiledBack(ns, done.was)
    [] OTHER -> ns

(* Mutant: the tree is taken to be the one the folder left. *)
FoldersBackBlindly(fs, done) ==
  IF done.kind = "folder" /\ Made(fs[done.folder])
  THEN Placed(fs, done.folder, done.parent)
  ELSE fs

(* A parent deleted since, or one the folder now holds, leaves it.          *)
FoldersBack(fs, done) ==
  IF /\ done.kind = "folder"
     /\ Made(fs[done.folder])
     /\ CheckMove(TreeOf(fs, done.folder), done.folder, done.parent)
  THEN Placed(fs, done.folder, done.parent)
  ELSE fs

-------------------------------------------------------------------------------
(* The commands.                                                            *)

CreateFolder(f, s, parent) ==
  /\ folders[f] = Unmade
  /\ s \in spaces
  /\ CheckChild(Lineage(folders, s), parent)
  /\ folders' = [folders EXCEPT ![f] = [space |-> s, parent |-> parent]]
  /\ UNCHANGED <<spaces, notes, files, asked>>

MoveFolder(f, parent) ==
  /\ coming = Nothing
  /\ Exists(f)
  /\ folders[f].parent # parent => CheckMove(TreeOf(folders, f), f, parent)
  /\ folders' = Placed(folders, f, parent)
  /\ coming' = MovingFolder(f)
  /\ UNCHANGED <<spaces, notes, files, last, listed>>

(* What it held goes up a level, the notes of the trash included.           *)
Raised(f, up) ==
  [g \in Folders |->
     IF g = f THEN Gone
     ELSE IF Exists(g) /\ folders[g].parent = f THEN [folders[g] EXCEPT !.parent = up]
     ELSE folders[g]]

(* Mutant: the notes of the trash are left behind. *)
RaisedLive(f, up) ==
  [n \in Notes |->
     IF Live(notes, n) /\ notes[n].folder = f THEN [notes[n] EXCEPT !.folder = up] ELSE notes[n]]

RaisedNotes(f, up) ==
  [n \in Notes |->
     IF IsNote(notes, n) /\ notes[n].folder = f THEN [notes[n] EXCEPT !.folder = up] ELSE notes[n]]

DeleteFolder(f) ==
  /\ Exists(f)
  /\ LET up == TreeOf(folders, f)[f]
     IN folders' = Raised(f, up) /\ notes' = RaisedNotes(f, up)
  /\ UNCHANGED <<spaces, files, asked>>

(* The notes of a space, the trash included, go to another one first; its   *)
(* folders go with it, by cascade, and what was filed in them is loose.     *)
Taken(s) == {f \in Folders : BelongsTo(f, s)}
Absorbed(s, target) ==
  [n \in Notes |->
     IF IsNote(notes, n)
     THEN [notes[n] EXCEPT !.space = IF notes[n].space = s THEN target ELSE notes[n].space,
                           !.folder = IF notes[n].folder \in Taken(s) THEN None ELSE notes[n].folder]
     ELSE notes[n]]

DeleteSpace(s, target) ==
  /\ {s, target} \subseteq spaces
  /\ s # target
  /\ notes' = Absorbed(s, target)
  /\ folders' = [f \in Folders |-> IF f \in Taken(s) THEN Gone ELSE folders[f]]
  /\ spaces' = spaces \ {s}
  /\ UNCHANGED <<files, asked>>

(* Where the canvas is: a folder shown is one of the space shown.           *)
CreateNote(n, s, f) ==
  /\ notes[n] = Unmade
  /\ s \in spaces
  /\ f = None \/ BelongsTo(f, s)
  /\ notes' = [notes EXCEPT ![n] = [space |-> s, folder |-> f, trashed |-> FALSE, attached |-> FALSE]]
  /\ UNCHANGED <<spaces, folders, files, asked>>

(* The note whole, with the attachment whose file is there to be copied.    *)
Duplicate(n, copy) ==
  /\ Live(notes, n)
  /\ notes[copy] = Unmade
  /\ LET carried == notes[n].attached /\ n \in files
     IN /\ notes' = [notes EXCEPT ![copy] = [notes[n] EXCEPT !.attached = carried]]
        /\ files' = IF carried THEN files \cup {copy} ELSE files
  /\ UNCHANGED <<spaces, folders, asked>>

Attach(n) ==
  /\ Live(notes, n)
  /\ ~notes[n].attached
  /\ notes' = [notes EXCEPT ![n].attached = TRUE]
  /\ files' = files \cup {n}
  /\ UNCHANGED <<spaces, folders, asked>>

(* A patch that names another space, which nothing puts back: the engine    *)
(* takes it, though the editor's own choice of a space is a move.           *)
PatchSpace(n, s) ==
  /\ Live(notes, n)
  /\ s \in spaces
  /\ notes[n].space # s
  /\ notes' = Moved({n}, s)
  /\ UNCHANGED <<spaces, folders, files, asked>>

FileNotes(ids, f) ==
  /\ coming = Nothing
  /\ f = None \/ Exists(f)
  /\ notes' = Filed(ids, f)
  /\ coming' = Counted(Filing(ids, f))
  /\ UNCHANGED <<spaces, folders, files, last, listed>>

MoveNotes(ids, s) ==
  /\ coming = Nothing
  /\ s \in spaces
  /\ notes' = Moved(ids, s)
  /\ coming' = Counted(Moving(ids, s))
  /\ UNCHANGED <<spaces, folders, files, last, listed>>

DeleteNotes(ids) ==
  /\ coming = Nothing
  /\ notes' = Deleted(ids)
  /\ coming' = Deleting(ids)
  /\ UNCHANGED <<spaces, folders, files, last, listed>>

(* A frame adopts the answer: it is what Ctrl+Z and the bar offer.          *)
Adopt ==
  /\ coming # Nothing
  /\ last' = coming
  /\ coming' = Nothing
  /\ UNCHANGED <<rows, files, listed>>

(* The record is taken whatever comes of it: `taken`, the name is held by a *)
(* sibling.                                                                 *)
Revert(taken) ==
  /\ last # Nothing
  /\ notes' = NotesBack(notes, last)
  /\ folders' = IF taken THEN folders ELSE FoldersBack(folders, last)
  /\ last' = Nothing
  /\ UNCHANGED <<spaces, files, coming, listed>>

Dismiss ==
  /\ last # Nothing
  /\ last' = Nothing
  /\ UNCHANGED <<rows, files, coming, listed>>

-------------------------------------------------------------------------------
(* The trash.                                                               *)

Trash == {n \in Notes : InTrash(notes, n)}

(* Mutant: read once the rows are gone. *)
StoredNamesAfter(ids) == {n \in ids : IsNote(notes', n) /\ notes'[n].attached}

(* The files named by the records of these notes, read before the rows go.  *)
StoredNames(ids) == {n \in ids : IsNote(notes, n) /\ notes[n].attached}

(* Mutant: what is asked goes, in the trash or not. *)
PurgedAsAsked(ids) == [n \in Notes |-> IF n \in ids /\ IsNote(notes, n) THEN Gone ELSE notes[n]]

Purged(ids) == [n \in Notes |-> IF n \in ids \cap Trash THEN Gone ELSE notes[n]]

Purge(ids) ==
  /\ notes' = Purged(ids)
  /\ files' = files \ StoredNames(ids)

(* The panel opens, or loads again after one of its own writes; notes whose *)
(* time is up leave first.  An undo does not make it load.                  *)
ListTrash(expired) ==
  /\ expired \subseteq Trash
  /\ Purge(expired)
  /\ listed' = Trash \ expired
  /\ UNCHANGED <<spaces, folders, last, coming>>

(* A row of the panel, as last loaded.                                      *)
RestoreNote(n) ==
  /\ n \in listed
  /\ notes' = Restored(notes, {n})
  /\ UNCHANGED <<spaces, folders, files, asked>>

PurgeNote(n) ==
  /\ n \in listed
  /\ Purge({n})
  /\ UNCHANGED <<spaces, folders, asked>>

(* What the trash holds when the command runs.                              *)
RestoreTrash ==
  /\ notes' = Restored(notes, Trash)
  /\ UNCHANGED <<spaces, folders, files, asked>>

EmptyTrash ==
  /\ Purge(Trash)
  /\ UNCHANGED <<spaces, folders, asked>>

TrashCommand ==
  \/ \E expired \in SUBSET Notes : ListTrash(expired)
  \/ \E n \in Notes : RestoreNote(n) \/ PurgeNote(n)
  \/ RestoreTrash
  \/ EmptyTrash

Undo == Adopt \/ Dismiss \/ \E taken \in BOOLEAN : Revert(taken)

FolderCommand ==
  \E f \in Folders :
    \/ \E s \in Spaces, parent \in Folders \cup {None} : CreateFolder(f, s, parent)
    \/ \E parent \in Folders \cup {None} : MoveFolder(f, parent)
    \/ DeleteFolder(f)

NoteCommand ==
  \/ \E n \in Notes, s \in Spaces, f \in Folders \cup {None} : CreateNote(n, s, f)
  \/ \E n, copy \in Notes : Duplicate(n, copy)
  \/ \E n \in Notes : Attach(n)
  \/ \E n \in Notes, s \in Spaces : PatchSpace(n, s)
  \/ \E ids \in SUBSET Notes, f \in Folders \cup {None} : FileNotes(ids, f)
  \/ \E ids \in SUBSET Notes, s \in Spaces : MoveNotes(ids, s)
  \/ \E ids \in SUBSET Notes : DeleteNotes(ids)

Next ==
  \/ FolderCommand
  \/ \E s, target \in Spaces : DeleteSpace(s, target)
  \/ NoteCommand
  \/ TrashCommand
  \/ Undo

Spec == Init /\ [][Next]_vars
-------------------------------------------------------------------------------
(* The folders are trees: a parent is a folder of the same space and no     *)
(* folder is under itself, whatever was deleted or moved between a move and *)
(* its undo.                                                                *)
Here == {f \in Folders : Exists(f)}
ParentsInside == \A f \in Here : folders[f].parent = None \/ BelongsTo(folders[f].parent, folders[f].space)
NoLoops == \A S \in SUBSET Here : S # {} => \E f \in S : folders[f].parent \notin S
FoldersAreTrees == ParentsInside /\ NoLoops

(* No folder is deeper than MAX_DEPTH, whatever it brought with it.         *)
NotTooDeep == \A f \in Here : Depth(TreeOf(folders, f), f) <= MaxDepth

(* Every note, those of the trash included, is in a space there is, and     *)
(* filed nowhere or in a folder there is: restored, it shows somewhere.     *)
HasAHome(n) ==
  notes[n].space \in spaces /\ (notes[n].folder = None \/ Exists(notes[n].folder))
NoNoteIsStranded ==
  \A n \in Notes : IsNote(notes, n) => HasAHome(n)

(* A note's row only goes from the trash: no deletion of a space or of a    *)
(* folder, no undo and no stale row of the trash panel takes a live one.    *)
OnlyTheTrashIsPurged ==
  [][\A n \in Notes : Live(notes, n) => IsNote(notes', n)]_vars

(* A note purged leaves no file behind.                                     *)
NoFileIsLeftBehind == \A n \in files : IsNote(notes, n) /\ notes[n].attached

(* "A note cannot be filed across" spaces: only the undo of a filing, of a  *)
(* note that changed space since, ever does it (a copy of such a note is    *)
(* filed where it is).                                                      *)
FiledInside(ns, fs, n) ==
  IsNote(ns, n) /\ ns[n].folder # None => ns[n].space = fs[ns[n].folder].space
OnlyAStaleFilingCrosses ==
  [][\A n \in Notes :
       IsNote(notes, n) /\ FiledInside(notes, folders, n) /\ ~FiledInside(notes', folders', n)
         => last.kind = "file" /\ last' = Nothing]_vars

(* Put back at once, a write leaves the notes and the folders as they were, *)
(* given that the notes are filed in their own space and the ids deleted    *)
(* were live.                                                               *)
UndoPutsBack ==
  /\ \A ids \in SUBSET Notes :
       /\ (\A n \in ids : Live(notes, n)) => NotesBack(Deleted(ids), Deleting(ids)) = notes
       /\ \A f \in Here \cup {None} : NotesBack(Filed(ids, f), Filing(ids, f)) = notes
       /\ (\A n \in ids : FiledInside(notes, folders, n)) =>
            \A s \in spaces : NotesBack(Moved(ids, s), Moving(ids, s)) = notes
  /\ \A f \in Here, parent \in Here \cup {None} :
       CheckMove(TreeOf(folders, f), f, parent) =>
         FoldersBack(Placed(folders, f, parent), MovingFolder(f)) = folders

(* "Restricted to trashed notes, so nothing short-circuits the reprieve": a *)
(* note that is not purged keeps the file of its attachment.                *)
FilesStay == \A n \in Notes : IsNote(notes, n) /\ notes[n].attached => n \in files
===============================================================================
