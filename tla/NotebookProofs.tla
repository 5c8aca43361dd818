---------------------------- MODULE NotebookProofs ----------------------------
(* Theorems about Notebook, for every set of spaces, folders and notes, and *)
(* every depth.  The folders are argued about as a set that would hold the  *)
(* parent of each of its members; the notes one by one, each step leaving   *)
(* a note where it was, filing it elsewhere, or taking it off.  How deep a  *)
(* folder is comes last, with the trees as functions to a parent.           *)
EXTENDS Notebook, TLAPS, FiniteSetTheorems

USE NoneAssumption, RowsAssumption

-------------------------------------------------------------------------------
(* The invariant.                                                           *)

Inv == TypeOK /\ FoldersAreTrees /\ NoNoteIsStranded /\ NoFileIsLeftBehind

(* A row is a row, and nothing else.                                        *)
LEMMA FolderRows ==
  ASSUME TypeOK
  PROVE  /\ \A f \in Folders : Exists(f) <=> folders[f] \in FolderRow
         /\ \A f \in Here : folders[f].parent \in Folders \cup {None} /\ folders[f].space \in Spaces
  BY DEF TypeOK, Exists, Made, Here, FolderRow

(* A note's row has the fields of one.                                      *)
LEMMA NoteRows ==
  ASSUME TypeOK, NEW n \in Notes
  PROVE  /\ IsNote(notes, n) <=> notes[n] \in NoteRow
         /\ IsNote(notes, n) => /\ notes[n].space \in Spaces
                                /\ notes[n].folder \in Folders \cup {None}
                                /\ notes[n].trashed \in BOOLEAN
                                /\ notes[n].attached \in BOOLEAN
  BY DEF TypeOK, IsNote, Made, NoteRow

-------------------------------------------------------------------------------
(* The trees.                                                               *)

(* In a space's tree, every folder has the parent of its row.               *)
LEMMA TreeHasTheParents ==
  ASSUME TypeOK, ParentsInside, NEW s
  PROVE  /\ DOMAIN Lineage(folders, s) = {f \in Here : folders[f].space = s}
         /\ \A f \in Here : folders[f].space = s => Lineage(folders, s)[f] = folders[f].parent
  BY FolderRows DEF Lineage, Here, Exists, ParentsInside, BelongsTo

(* What is under a folder holds it, and the children of its members.        *)
LEMMA SubtreeIsClosed ==
  ASSUME NEW tree, NEW f \in DOMAIN tree
  PROVE  /\ f \in Subtree(tree, f) /\ Subtree(tree, f) \subseteq DOMAIN tree
         /\ \A g \in DOMAIN tree : tree[g] \in Subtree(tree, f) => g \in Subtree(tree, f)
  <1>1. ASSUME NEW g \in DOMAIN tree, tree[g] \in Subtree(tree, f),
               NEW S \in SUBSET DOMAIN tree, f \in S, Closed(tree, S)
        PROVE  g \in S
    BY <1>1 DEF Subtree, Closed
  <1> QED BY <1>1 DEF Subtree

(* A folder put under another that is not under it makes no loop.           *)
LEMMA PlacedMakesTrees ==
  ASSUME TypeOK, FoldersAreTrees, NEW f \in Here, NEW p \in Folders \cup {None},
         CheckMove(TreeOf(folders, f), f, p),
         folders' = Placed(folders, f, p)
  PROVE  FoldersAreTrees'
  <1> DEFINE tree == TreeOf(folders, f)
             under == Subtree(tree, f)
  <1>1. /\ DOMAIN tree = {g \in Here : folders[g].space = folders[f].space}
        /\ \A g \in DOMAIN tree : tree[g] = folders[g].parent
        /\ f \in DOMAIN tree
    BY TreeHasTheParents DEF FoldersAreTrees, TreeOf
  <1>2. /\ f \in under /\ under \subseteq DOMAIN tree
        /\ \A g \in DOMAIN tree : tree[g] \in under => g \in under
    BY <1>1, SubtreeIsClosed
  <1>3. p \in DOMAIN tree \cup {None} /\ p \notin under
    BY DEF CheckMove
  <1> HIDE DEF tree, under
  <1>4. /\ \A g \in Folders : Exists(g)' <=> Exists(g)
        /\ \A g \in Here : /\ folders'[g].space = folders[g].space
                           /\ folders'[g].parent = IF g = f THEN p ELSE folders[g].parent
    <2>1. folders[f] \in FolderRow /\ f \in Folders
      BY FolderRows DEF Here
    <2>2. folders' = [folders EXCEPT ![f] = [folders[f] EXCEPT !.parent = p]]
      BY DEF Placed
    <2>3. [folders[f] EXCEPT !.parent = p] \in FolderRow
      BY <2>1 DEF FolderRow
    <2> QED BY <2>1, <2>2, <2>3 DEF TypeOK, Exists, Made, Here, FolderRow
  <1>5. Here' = Here
    BY <1>4 DEF Here
  <1>6. ParentsInside'
    <2>1. ASSUME NEW g \in Here
          PROVE  folders'[g].parent = None \/ BelongsTo(folders[g].parent, folders[g].space)'
      <3>1. CASE g = f
        BY <1>1, <1>3, <1>4, <3>1 DEF BelongsTo, Here
      <3>2. CASE g # f
        BY <1>4, <3>2 DEF FoldersAreTrees, ParentsInside, BelongsTo, Here, Exists
      <3> QED BY <3>1, <3>2
    <2> QED BY <1>5, <2>1 DEF ParentsInside
  <1>7. NoLoops'
    <2> SUFFICES ASSUME NEW S \in SUBSET Here, S # {}, \A g \in S : folders'[g].parent \in S
                 PROVE  FALSE
      BY <1>5 DEF NoLoops
    <2>1. CASE f \notin S
      BY <1>4, <2>1 DEF FoldersAreTrees, NoLoops
    <2>2. CASE f \in S
      <3> DEFINE T == S \ under
      <3>1. p \in T
        BY <1>3, <1>4, <2>2
      <3>2. ASSUME NEW g \in T
            PROVE  folders[g].parent \in T
        <4>1. g # f /\ folders[g].parent \in S
          BY <1>2, <1>4
        <4>2. folders[g].parent \notin under
          <5> SUFFICES ASSUME folders[g].parent \in under PROVE FALSE
            OBVIOUS
          <5>1. folders[g].parent \in Folders /\ folders[folders[g].parent].space = folders[f].space
            BY <1>1, <1>2 DEF Here
          <5>2. folders[g].space = folders[f].space
            BY <5>1 DEF FoldersAreTrees, ParentsInside, BelongsTo
          <5> QED BY <1>1, <1>2, <5>2
        <4> QED BY <4>1, <4>2
      <3>3. T \in SUBSET Here /\ T # {}
        BY <3>1
      <3> QED BY <3>2, <3>3 DEF FoldersAreTrees, NoLoops
    <2> QED BY <2>1, <2>2
  <1> QED BY <1>6, <1>7 DEF FoldersAreTrees

(* A new folder makes none either: nothing is in it.                        *)
LEMMA CreatedMakesTrees ==
  ASSUME TypeOK, FoldersAreTrees, NEW f \in Folders, NEW s \in Spaces,
         NEW p \in Folders \cup {None}, CreateFolder(f, s, p)
  PROVE  FoldersAreTrees'
  <1>1. /\ ~Exists(f) /\ p \in DOMAIN Lineage(folders, s) \cup {None}
        /\ folders' = [folders EXCEPT ![f] = [space |-> s, parent |-> p]]
    BY DEF CreateFolder, CheckChild, Exists, Made
  <1>2. p = None \/ (p \in Here /\ folders[p].space = s)
    BY <1>1, TreeHasTheParents DEF FoldersAreTrees
  <1>3. /\ Here' = Here \cup {f} /\ f \notin Here
        /\ folders'[f] = [space |-> s, parent |-> p]
        /\ \A g \in Here : folders'[g] = folders[g]
    <2>1. [space |-> s, parent |-> p] \in FolderRow
      BY DEF FolderRow
    <2> QED BY <1>1, <2>1 DEF TypeOK, Here, Exists, Made
  <1>4. ParentsInside'
    <2>1. ASSUME NEW g \in Here'
          PROVE  folders'[g].parent = None \/ BelongsTo(folders[g].parent, folders[g].space)'
      <3>1. CASE g = f
        BY <1>2, <1>3, <3>1 DEF BelongsTo, Here
      <3>2. CASE g # f
        <4>1. folders'[g] = folders[g] /\ g \in Here
          BY <1>3, <3>2
        <4>2. folders[g].parent = None \/ (folders[g].parent \in Here /\ BelongsTo(folders[g].parent, folders[g].space))
          BY <4>1 DEF FoldersAreTrees, ParentsInside, BelongsTo, Here, Exists
        <4> QED BY <1>3, <4>1, <4>2 DEF BelongsTo, Here
      <3> QED BY <3>1, <3>2
    <2> QED BY <2>1 DEF ParentsInside
  <1>5. NoLoops'
    <2> SUFFICES ASSUME NEW S \in SUBSET Here', S # {}, \A g \in S : folders'[g].parent \in S
                 PROVE  FALSE
      BY DEF NoLoops
    <2> DEFINE T == S \ {f}
    <2>1. T \in SUBSET Here
      BY <1>3
    <2>2. T # {}
      <3>1. p # f
        BY <1>2, <1>3
      <3>2. f \in S => p \in S
        BY <1>3
      <3> QED BY <3>1, <3>2
    <2>3. ASSUME NEW g \in T
          PROVE  folders[g].parent \in T
      <3>1. folders[g].parent \in S /\ g \in Here
        BY <1>3, <2>1
      <3>2. folders[g].parent # f
        <4>1. folders[g].parent = None \/ folders[g].parent \in Here
          BY <3>1 DEF FoldersAreTrees, ParentsInside, BelongsTo, Here, Exists
        <4> QED BY <1>3, <4>1
      <3> QED BY <3>1, <3>2
    <2> QED BY <2>1, <2>2, <2>3 DEF FoldersAreTrees, NoLoops
  <1> QED BY <1>4, <1>5 DEF FoldersAreTrees

(* What a folder held goes up a level: nothing it held is under it.         *)
LEMMA RaisedMakesTrees ==
  ASSUME TypeOK, FoldersAreTrees, NEW f \in Here, NEW up,
         up = folders[f].parent, folders' = Raised(f, up)
  PROVE  /\ FoldersAreTrees' /\ Here' = Here \ {f} /\ up # f
         /\ \A g \in Here \ {f} :
              /\ folders'[g].space = folders[g].space
              /\ folders'[g].parent = IF folders[g].parent = f THEN up ELSE folders[g].parent
  <1>1. up # f
    <2>1. {f} \in SUBSET Here
      OBVIOUS
    <2> QED BY <2>1 DEF FoldersAreTrees, NoLoops
  <1>2. up = None \/ (up \in Here /\ up # f /\ folders[up].space = folders[f].space)
    BY <1>1 DEF FoldersAreTrees, ParentsInside, BelongsTo, Here, Exists
  <1>3. /\ Here' = Here \ {f}
        /\ \A g \in Here \ {f} :
             /\ folders'[g].space = folders[g].space
             /\ folders'[g].parent = IF folders[g].parent = f THEN up ELSE folders[g].parent
    <2>1. ASSUME NEW g \in Folders
          PROVE  /\ Exists(g)' <=> Exists(g) /\ g # f
                 /\ Exists(g) /\ g # f =>
                      /\ folders'[g].space = folders[g].space
                      /\ folders'[g].parent = IF folders[g].parent = f THEN up ELSE folders[g].parent
      <3>1. folders'[g] = IF g = f THEN Gone
                          ELSE IF Exists(g) /\ folders[g].parent = f
                               THEN [folders[g] EXCEPT !.parent = up]
                          ELSE folders[g]
        BY DEF Raised
      <3>2. Exists(g) => folders[g] \in FolderRow
        BY FolderRows
      <3>3. Exists(g) => [folders[g] EXCEPT !.parent = up] \in FolderRow
        BY <1>2, <3>2 DEF FolderRow, Here
      <3> QED BY <3>1, <3>2, <3>3 DEF Exists, Made, FolderRow
    <2> QED BY <2>1 DEF Here
  <1>4. ParentsInside'
    <2>1. ASSUME NEW g \in Here'
          PROVE  folders'[g].parent = None \/ BelongsTo(folders[g].parent, folders[g].space)'
      <3>1. g \in Here \ {f}
        BY <1>3
      <3>2. CASE folders[g].parent = f
        BY <1>2, <1>3, <3>1, <3>2 DEF FoldersAreTrees, ParentsInside, BelongsTo, Here
      <3>3. CASE folders[g].parent # f
        BY <1>3, <3>1, <3>3 DEF FoldersAreTrees, ParentsInside, BelongsTo, Here, Exists
      <3> QED BY <3>2, <3>3
    <2> QED BY <2>1 DEF ParentsInside
  <1>5. NoLoops'
    <2> SUFFICES ASSUME NEW S \in SUBSET Here', S # {}, \A g \in S : folders'[g].parent \in S
                 PROVE  FALSE
      BY DEF NoLoops
    <2>1. S \in SUBSET Here /\ S \in SUBSET (Here \ {f})
      BY <1>3
    <2>2. CASE \E g \in S : folders[g].parent = f
      <3> DEFINE T == S \cup {f}
      <3>1. up \in S
        BY <1>3, <2>1, <2>2
      <3>2. \A g \in T : folders[g].parent \in T
        BY <1>3, <2>1, <3>1
      <3> QED BY <2>1, <3>2 DEF FoldersAreTrees, NoLoops
    <2>3. CASE \A g \in S : folders[g].parent # f
      BY <1>3, <2>1, <2>3 DEF FoldersAreTrees, NoLoops
    <2> QED BY <2>2, <2>3
  <1> QED BY <1>1, <1>3, <1>4, <1>5 DEF FoldersAreTrees

(* The folders of a space go together, and no other was in one of them.     *)
LEMMA TakenLeavesTrees ==
  ASSUME TypeOK, FoldersAreTrees, NEW s,
         folders' = [f \in Folders |-> IF f \in Taken(s) THEN Gone ELSE folders[f]]
  PROVE  /\ FoldersAreTrees' /\ Here' = Here \ Taken(s)
         /\ \A g \in Here' : folders'[g] = folders[g]
  <1>1. /\ Here' = Here \ Taken(s)
        /\ \A g \in Here' : folders'[g] = folders[g]
    BY DEF Here, Exists, Made, Taken
  <1>2. ParentsInside'
    BY <1>1 DEF FoldersAreTrees, ParentsInside, BelongsTo, Here, Exists, Taken
  <1>3. NoLoops'
    BY <1>1 DEF FoldersAreTrees, NoLoops
  <1> QED BY <1>1, <1>2, <1>3 DEF FoldersAreTrees

-------------------------------------------------------------------------------
(* The notes.                                                               *)

(* What a step makes of a note there was: a row of the same attachment, in  *)
(* a space there is, filed in no folder or in one there is.                 *)
Refiled(n) ==
  /\ notes'[n] \in NoteRow
  /\ notes'[n].attached = notes[n].attached
  /\ HasAHome(n)'

(* ... and never filed across spaces where it was not.                      *)
KeptInside(n) == FiledInside(notes, folders, n) => FiledInside(notes', folders', n)

(* A step that refiles notes, and makes and takes off none.                 *)
OnlyRefiled ==
  /\ \E r : notes' = [n \in Notes |-> r[n]]
  /\ \A n \in Notes : IF IsNote(notes, n) THEN Refiled(n) ELSE notes'[n] = notes[n]
  /\ UNCHANGED files

(* It keeps the rows of their types, the homes and the files.               *)
LEMMA RefilingKeeps ==
  ASSUME Inv, OnlyRefiled
  PROVE  /\ notes' \in [Notes -> NoteRow \cup {Unmade, Gone}]
         /\ NoNoteIsStranded' /\ NoFileIsLeftBehind'
         /\ \A n \in Notes : IsNote(notes, n) => IsNote(notes', n)
  <1>1. ASSUME NEW n \in Notes
        PROVE  /\ notes'[n] \in NoteRow \cup {Unmade, Gone}
               /\ IsNote(notes, n) <=> IsNote(notes', n)
               /\ IsNote(notes, n) => HasAHome(n)' /\ notes'[n].attached = notes[n].attached
    BY DEF OnlyRefiled, Refiled, Inv, TypeOK, IsNote, Made
  <1>2. notes' \in [Notes -> NoteRow \cup {Unmade, Gone}]
    BY <1>1 DEF OnlyRefiled
  <1>3. NoNoteIsStranded'
    <2>1. ASSUME NEW n \in Notes, IsNote(notes, n)'
          PROVE  HasAHome(n)'
      BY <1>1, <2>1 DEF IsNote
    <2> QED BY <2>1 DEF NoNoteIsStranded
  <1>4. NoFileIsLeftBehind'
    BY <1>1 DEF OnlyRefiled, Inv, NoFileIsLeftBehind, TypeOK, IsNote
  <1> QED BY <1>1, <1>2, <1>3, <1>4

(* No space goes, and no folder goes or changes space.                      *)
PlacesStay ==
  /\ UNCHANGED spaces
  /\ \A f \in Here : Exists(f)' /\ folders'[f].space = folders[f].space

(* There, a note where it was has its home, ...                             *)
LEMMA HomesStay ==
  ASSUME Inv, PlacesStay, NEW n \in Notes, IsNote(notes, n), notes'[n] = notes[n]
  PROVE  Refiled(n) /\ KeptInside(n)
  <1>1. HasAHome(n) /\ notes[n] \in NoteRow
    BY NoteRows DEF Inv, NoNoteIsStranded
  <1>2. notes[n].folder = None \/ notes[n].folder \in Here
    BY <1>1 DEF HasAHome, Here, Exists
  <1>3. HasAHome(n)'
    BY <1>1, <1>2 DEF HasAHome, PlacesStay
  <1>4. KeptInside(n)
    BY <1>2 DEF KeptInside, FiledInside, IsNote, PlacesStay
  <1> QED BY <1>1, <1>3, <1>4 DEF Refiled

(* ... as has one that goes to the trash or comes from it, ...              *)
LEMMA TrashedInPlace ==
  ASSUME Inv, PlacesStay, NEW n \in Notes, IsNote(notes, n), NEW b \in BOOLEAN,
         notes'[n] = [notes[n] EXCEPT !.trashed = b]
  PROVE  Refiled(n) /\ KeptInside(n)
  <1>1. HasAHome(n) /\ notes[n] \in NoteRow
    BY NoteRows DEF Inv, NoNoteIsStranded
  <1>2. notes[n].folder = None \/ notes[n].folder \in Here
    BY <1>1 DEF HasAHome, Here, Exists
  <1>3. /\ notes'[n] \in NoteRow /\ notes'[n].space = notes[n].space
        /\ notes'[n].folder = notes[n].folder /\ notes'[n].attached = notes[n].attached
    BY <1>1 DEF NoteRow
  <1>4. HasAHome(n)'
    BY <1>1, <1>2, <1>3 DEF HasAHome, PlacesStay
  <1>5. KeptInside(n)
    BY <1>2, <1>3 DEF KeptInside, FiledInside, IsNote, PlacesStay, Made
  <1> QED BY <1>3, <1>4, <1>5 DEF Refiled

(* ... and one filed in a folder there is, or in none, of a space there is. *)
LEMMA FiledElsewhere ==
  ASSUME Inv, NEW n \in Notes, IsNote(notes, n),
         NEW s \in spaces', NEW f \in Folders \cup {None}, f = None \/ Exists(f)',
         \/ notes'[n] = [notes[n] EXCEPT !.space = s, !.folder = f]
         \/ notes'[n] = [notes[n] EXCEPT !.folder = f] /\ s = notes[n].space,
         spaces' \subseteq Spaces
  PROVE  /\ Refiled(n)
         /\ (FiledInside(notes, folders, n) => f = None \/ folders'[f].space = s) => KeptInside(n)
  <1>1. notes[n] \in NoteRow
    BY NoteRows DEF Inv
  <1>2. /\ notes'[n] \in NoteRow /\ notes'[n].space = s
        /\ notes'[n].folder = f /\ notes'[n].attached = notes[n].attached
    BY <1>1 DEF NoteRow
  <1>3. HasAHome(n)'
    BY <1>2 DEF HasAHome
  <1> QED BY <1>2, <1>3 DEF Refiled, KeptInside, FiledInside

(* Where folders are what they were, the trees are.                         *)
LEMMA TreesStay ==
  ASSUME Inv, UNCHANGED folders
  PROVE  /\ folders' \in [Folders -> FolderRow \cup {Unmade, Gone}] /\ FoldersAreTrees'
         /\ \A f \in Folders : Exists(f)' <=> Exists(f)
         /\ UNCHANGED spaces => PlacesStay
  BY DEF Inv, TypeOK, FoldersAreTrees, ParentsInside, NoLoops, Here, BelongsTo, Exists, PlacesStay

-------------------------------------------------------------------------------
(* What can be put back.                                                    *)

(* A record that can be put back names notes, folders and spaces.           *)
LEMMA WhatIsKept ==
  ASSUME TypeOK
  PROVE  /\ Nothing \in Reversible
         /\ last.kind = "move" =>
              \A n \in DOMAIN last.was :
                 last.was[n].space \in Spaces /\ last.was[n].folder \in Folders \cup {None}
         /\ last.kind = "file" => \A n \in DOMAIN last.was : last.was[n] \in Folders \cup {None}
         /\ last.kind = "folder" => last.folder \in Folders /\ last.parent \in Folders \cup {None}
  <1>1. Nothing \in Reversible
    BY DEF Nothing, Reversible
  <1>2. CASE last \in [kind : {"none"}] \cup [kind : {"deletion"}, ids : Some]
    BY <1>1, <1>2
  <1>3. CASE last \in [kind : {"move"}, was : WasIn([space : Spaces, folder : Folders \cup {None}])]
    BY <1>1, <1>3 DEF WasIn
  <1>4. CASE last \in [kind : {"file"}, was : WasIn(Folders \cup {None})]
    BY <1>1, <1>4 DEF WasIn
  <1>5. CASE last \in [kind : {"folder"}, folder : Folders, parent : Folders \cup {None}]
    BY <1>1, <1>5
  <1> QED BY <1>2, <1>3, <1>4, <1>5 DEF TypeOK, Reversible

(* Where some notes were, as a function of them.                            *)
LEMMA InWasIn ==
  ASSUME NEW place, NEW N \in Some, NEW was \in [N -> place]
  PROVE  was \in WasIn(place)
  <1>1. [N -> place] \in {[M -> place] : M \in Some}
    OBVIOUS
  <1> QED BY <1>1 DEF WasIn

(* What each of the four writes answers is such a record, or nothing.       *)
LEMMA FilingIsKept ==
  ASSUME TypeOK, NEW ids \in SUBSET Notes, NEW f
  PROVE  Counted(Filing(ids, f)) \in Reversible
  <1> DEFINE was == [n \in ToFile(ids, f) |-> notes[n].folder]
  <1>1. Filing(ids, f) = [kind |-> "file", was |-> was]
    BY DEF Filing
  <1>2. was \in [ToFile(ids, f) -> Folders \cup {None}] /\ ToFile(ids, f) \in SUBSET Notes
    BY NoteRows DEF ToFile, Live
  <1>3. CASE ToFile(ids, f) = {}
    BY <1>1, <1>3, WhatIsKept DEF Counted
  <1>4. CASE ToFile(ids, f) # {}
    <2>1. ToFile(ids, f) \in Some
      BY <1>2, <1>4 DEF Some
    <2>2. was \in WasIn(Folders \cup {None})
      BY <1>2, <2>1, InWasIn
    <2> HIDE DEF was
    <2> QED BY <1>1, <1>2, <1>4, <2>2 DEF Counted, Reversible
  <1> QED BY <1>3, <1>4

(* A move of notes,                                                         *)
LEMMA MovingIsKept ==
  ASSUME TypeOK, NEW ids \in SUBSET Notes, NEW s
  PROVE  Counted(Moving(ids, s)) \in Reversible
  <1> DEFINE place == [space : Spaces, folder : Folders \cup {None}]
             was == [n \in ToMove(ids, s) |-> [space |-> notes[n].space, folder |-> notes[n].folder]]
  <1>1. Moving(ids, s) = [kind |-> "move", was |-> was]
    BY DEF Moving
  <1>2. was \in [ToMove(ids, s) -> place] /\ ToMove(ids, s) \in SUBSET Notes
    BY NoteRows DEF ToMove, Live
  <1>3. CASE ToMove(ids, s) = {}
    BY <1>1, <1>3, WhatIsKept DEF Counted
  <1>4. CASE ToMove(ids, s) # {}
    <2>1. ToMove(ids, s) \in Some
      BY <1>2, <1>4 DEF Some
    <2>2. was \in WasIn(place)
      BY <1>2, <2>1, InWasIn
    <2> HIDE DEF was
    <2> QED BY <1>1, <1>2, <1>4, <2>2 DEF Counted, Reversible
  <1> QED BY <1>3, <1>4

(* a delete,                                                                *)
LEMMA DeletingIsKept ==
  ASSUME TypeOK, NEW ids \in SUBSET Notes
  PROVE  Deleting(ids) \in Reversible
  <1>1. Nothing \in Reversible
    BY WhatIsKept
  <1>2. ids # {} => [kind |-> "deletion", ids |-> ids] \in Reversible
    <2> SUFFICES ASSUME ids # {} PROVE [kind |-> "deletion", ids |-> ids] \in Reversible
      OBVIOUS
    <2>1. ids \in Some
      BY DEF Some
    <2>2. [kind |-> "deletion", ids |-> ids] \in [kind : {"deletion"}, ids : Some]
      BY <2>1
    <2> QED BY <2>2 DEF Reversible
  <1> QED BY <1>1, <1>2 DEF Deleting

(* and a move of a folder.                                                  *)
LEMMA MovingFolderIsKept ==
  ASSUME TypeOK, NEW f \in Here
  PROVE  MovingFolder(f) \in Reversible
  BY FolderRows DEF MovingFolder, Reversible, Here

-------------------------------------------------------------------------------
(* What every step keeps, for the notes it does not put back.               *)
Asked == last' \in Reversible /\ coming' \in Reversible /\ listed' \subseteq Notes
LivesOn == \A n \in Notes : Live(notes, n) => IsNote(notes', n)
NothingCrosses == \A n \in Notes : IsNote(notes, n) => KeptInside(n)

(* A step that only refiles notes.                                          *)
LEMMA RefilingStep ==
  ASSUME Inv, OnlyRefiled, spaces' \subseteq Spaces, Asked,
         folders' \in [Folders -> FolderRow \cup {Unmade, Gone}], FoldersAreTrees'
  PROVE  Inv' /\ LivesOn
  <1>1. files' \subseteq Notes
    BY DEF OnlyRefiled, Inv, TypeOK
  <1> QED BY <1>1, RefilingKeeps DEF Inv, TypeOK, Asked, LivesOn, Live

(* A step that leaves the notes alone, and every folder where it was.       *)
LEMMA NotesAloneStep ==
  ASSUME Inv, PlacesStay, UNCHANGED <<notes, files>>, Asked,
         folders' \in [Folders -> FolderRow \cup {Unmade, Gone}], FoldersAreTrees'
  PROVE  Inv' /\ LivesOn /\ NothingCrosses
  <1>1. \A n \in Notes : IsNote(notes, n) => Refiled(n) /\ KeptInside(n)
    BY HomesStay
  <1>2. notes' = [n \in Notes |-> notes[n]]
    BY DEF Inv, TypeOK
  <1>3. OnlyRefiled
    BY <1>1, <1>2 DEF OnlyRefiled
  <1>4. spaces' \subseteq Spaces
    BY DEF PlacesStay, Inv, TypeOK
  <1> QED BY <1>1, <1>3, <1>4, RefilingStep DEF NothingCrosses

-------------------------------------------------------------------------------
(* The steps on folders and spaces.                                         *)

(* A folder is made.                                                        *)
LEMMA CreateFolderStep ==
  ASSUME Inv, NEW f \in Folders, NEW s \in Spaces, NEW p \in Folders \cup {None},
         CreateFolder(f, s, p)
  PROVE  Inv' /\ LivesOn /\ NothingCrosses
  <1>1. FoldersAreTrees'
    BY CreatedMakesTrees DEF Inv
  <1>2. folders' = [folders EXCEPT ![f] = [space |-> s, parent |-> p]] /\ ~Exists(f)
    BY DEF CreateFolder, Exists, Made
  <1>3. [space |-> s, parent |-> p] \in FolderRow
    BY DEF FolderRow
  <1>4. folders' \in [Folders -> FolderRow \cup {Unmade, Gone}]
    BY <1>2, <1>3 DEF Inv, TypeOK
  <1>5. PlacesStay
    BY <1>2 DEF PlacesStay, CreateFolder, Here, Exists, Made, Inv, TypeOK
  <1>6. Asked
    BY DEF CreateFolder, asked, Asked, Inv, TypeOK
  <1> QED BY <1>1, <1>4, <1>5, <1>6, NotesAloneStep DEF CreateFolder

(* A folder whose parent changes, to one it may have.                       *)
LEMMA PlacedStays ==
  ASSUME Inv, NEW f \in Here, NEW p \in Folders \cup {None},
         CheckMove(TreeOf(folders, f), f, p), folders' = Placed(folders, f, p), UNCHANGED spaces
  PROVE  /\ folders' \in [Folders -> FolderRow \cup {Unmade, Gone}]
         /\ FoldersAreTrees' /\ PlacesStay
  <1>1. FoldersAreTrees'
    BY PlacedMakesTrees DEF Inv
  <1>2. f \in Folders /\ folders[f] \in FolderRow
    BY FolderRows DEF Here, Inv
  <1>3. /\ folders' = [folders EXCEPT ![f] = [folders[f] EXCEPT !.parent = p]]
        /\ [folders[f] EXCEPT !.parent = p] \in FolderRow
        /\ [folders[f] EXCEPT !.parent = p].space = folders[f].space
    BY <1>2 DEF Placed, FolderRow
  <1>4. folders' \in [Folders -> FolderRow \cup {Unmade, Gone}]
    BY <1>2, <1>3 DEF Inv, TypeOK
  <1>5. ASSUME NEW g \in Here
        PROVE  Exists(g)' /\ folders'[g].space = folders[g].space
    BY <1>2, <1>3 DEF Here, Exists, Made, Inv, TypeOK, FolderRow
  <1> QED BY <1>1, <1>4, <1>5 DEF PlacesStay

(* A folder moves, maybe to where it is.                                    *)
LEMMA MoveFolderStep ==
  ASSUME Inv, NEW f \in Folders, NEW p \in Folders \cup {None}, MoveFolder(f, p)
  PROVE  Inv' /\ LivesOn /\ NothingCrosses
  <1>1. f \in Here
    BY DEF MoveFolder, Here
  <1>2. Asked
    BY <1>1, MovingFolderIsKept DEF MoveFolder, Asked, Inv, TypeOK
  <1>3. /\ folders' \in [Folders -> FolderRow \cup {Unmade, Gone}]
        /\ FoldersAreTrees' /\ PlacesStay
    <2>1. CASE folders[f].parent = p
      <3>1. folders[f] \in FolderRow
        BY <1>1, FolderRows DEF Here, Inv
      <3>2. [folders[f] EXCEPT !.parent = p] = folders[f]
        BY <2>1, <3>1 DEF FolderRow
      <3>3. folders' = folders
        BY <3>2 DEF MoveFolder, Placed, Inv, TypeOK
      <3> QED BY <3>3, TreesStay DEF MoveFolder
    <2>2. CASE folders[f].parent # p
      BY <1>1, <2>2, PlacedStays DEF MoveFolder
    <2> QED BY <2>1, <2>2
  <1> QED BY <1>2, <1>3, NotesAloneStep DEF MoveFolder

(* A folder goes, and what it held is its parent's.                         *)
LEMMA DeleteFolderStep ==
  ASSUME Inv, NEW f \in Folders, DeleteFolder(f)
  PROVE  Inv' /\ LivesOn /\ NothingCrosses
  <1>0. PICK up : up = folders[f].parent
    OBVIOUS
  <1>1. f \in Here /\ up \in Folders \cup {None} /\ TreeOf(folders, f)[f] = up
    BY <1>0, TreeHasTheParents, FolderRows DEF DeleteFolder, Here, TreeOf, Inv, FoldersAreTrees
  <1>2. folders' = Raised(f, up) /\ notes' = RaisedNotes(f, up)
    BY <1>1 DEF DeleteFolder
  <1>3. /\ FoldersAreTrees' /\ Here' = Here \ {f} /\ up # f
        /\ \A g \in Here \ {f} : folders'[g].space = folders[g].space
    BY <1>0, <1>1, <1>2, RaisedMakesTrees DEF Inv
  <1>4. up = None \/ (up \in Here \ {f} /\ folders[up].space = folders[f].space)
    BY <1>0, <1>1, <1>3 DEF Inv, FoldersAreTrees, ParentsInside, BelongsTo, Here, Exists
  <1>5. folders' \in [Folders -> FolderRow \cup {Unmade, Gone}]
    <2>1. ASSUME NEW g \in Folders
          PROVE  folders'[g] \in FolderRow \cup {Unmade, Gone}
      <3>1. folders'[g] = IF g = f THEN Gone
                          ELSE IF Exists(g) /\ folders[g].parent = f
                               THEN [folders[g] EXCEPT !.parent = up]
                          ELSE folders[g]
        BY <1>2 DEF Raised
      <3>2. Exists(g) => [folders[g] EXCEPT !.parent = up] \in FolderRow
        BY <1>1, FolderRows DEF Inv, FolderRow
      <3> QED BY <3>1, <3>2 DEF Inv, TypeOK
    <2> QED BY <1>2, <2>1 DEF Raised
  <1>6. ASSUME NEW n \in Notes, IsNote(notes, n)
        PROVE  Refiled(n) /\ KeptInside(n)
    <2>1. notes[n] \in NoteRow /\ HasAHome(n) /\ spaces' = spaces /\ spaces \subseteq Spaces
      BY <1>6, NoteRows DEF Inv, NoNoteIsStranded, DeleteFolder, TypeOK
    <2>2. notes[n].space \in spaces /\ (notes[n].folder = None \/ notes[n].folder \in Here)
      BY <2>1 DEF HasAHome, Here, Exists
    <2>3. CASE notes[n].folder = f
      <3>1. notes'[n] = [notes[n] EXCEPT !.folder = up]
        BY <1>2, <1>6, <2>3 DEF RaisedNotes
      <3>2. up = None \/ Exists(up)'
        BY <1>3, <1>4 DEF Here
      <3>3. FiledInside(notes, folders, n) => up = None \/ folders'[up].space = notes[n].space
        BY <1>1, <1>3, <1>4, <1>6, <2>3 DEF FiledInside, Here
      <3> QED BY <1>1, <1>6, <2>1, <2>2, <3>1, <3>2, <3>3, FiledElsewhere
    <2>4. CASE notes[n].folder # f
      <3>1. notes'[n] = notes[n]
        BY <1>2, <2>4 DEF RaisedNotes
      <3>2. notes[n].folder = None \/ (notes[n].folder \in Here' /\ notes[n].folder \in Here \ {f})
        BY <1>3, <2>2, <2>4
      <3>3. HasAHome(n)'
        BY <2>1, <2>2, <3>1, <3>2 DEF HasAHome, Here
      <3>4. KeptInside(n)
        BY <1>3, <3>1, <3>2 DEF KeptInside, FiledInside, IsNote
      <3> QED BY <2>1, <3>1, <3>3, <3>4 DEF Refiled
    <2> QED BY <2>3, <2>4
  <1>7. OnlyRefiled
    <2>1. \A n \in Notes : ~IsNote(notes, n) => notes'[n] = notes[n]
      BY <1>2 DEF RaisedNotes
    <2>2. notes' = [n \in Notes |-> notes'[n]]
      BY <1>2 DEF RaisedNotes
    <2>3. \E r : notes' = [n \in Notes |-> r[n]]
      BY <2>2
    <2> QED BY <1>6, <2>1, <2>3 DEF OnlyRefiled, DeleteFolder
  <1>8. Asked /\ spaces' \subseteq Spaces
    BY DEF DeleteFolder, asked, Asked, Inv, TypeOK
  <1> QED BY <1>3, <1>5, <1>6, <1>7, <1>8, RefilingStep DEF NothingCrosses

(* A space goes, its notes to another, its folders with it.                 *)
LEMMA DeleteSpaceStep ==
  ASSUME Inv, NEW s \in Spaces, NEW target \in Spaces, DeleteSpace(s, target)
  PROVE  Inv' /\ LivesOn /\ NothingCrosses
  <1>1. /\ folders' = [f \in Folders |-> IF f \in Taken(s) THEN Gone ELSE folders[f]]
        /\ notes' = Absorbed(s, target) /\ spaces' = spaces \ {s}
        /\ target \in spaces' /\ spaces' \subseteq Spaces
    BY DEF DeleteSpace, Inv, TypeOK
  <1>2. /\ FoldersAreTrees' /\ Here' = Here \ Taken(s)
        /\ \A g \in Here' : folders'[g] = folders[g]
    BY <1>1, TakenLeavesTrees DEF Inv
  <1>3. folders' \in [Folders -> FolderRow \cup {Unmade, Gone}]
    BY <1>1 DEF Inv, TypeOK
  <1>4. ASSUME NEW n \in Notes, IsNote(notes, n)
        PROVE  Refiled(n) /\ KeptInside(n)
    <2>0. PICK t, f : /\ t = IF notes[n].space = s THEN target ELSE notes[n].space
                      /\ f = IF notes[n].folder \in Taken(s) THEN None ELSE notes[n].folder
      OBVIOUS
    <2>1. notes[n] \in NoteRow /\ HasAHome(n)
      BY <1>4, NoteRows DEF Inv, NoNoteIsStranded
    <2>2. notes'[n] = [notes[n] EXCEPT !.space = t, !.folder = f]
      BY <2>0, <1>1, <1>4 DEF Absorbed
    <2>3. t \in spaces' /\ f \in Folders \cup {None}
      BY <2>0, <1>1, <2>1 DEF HasAHome, Exists
    <2>4. f = None \/ (f = notes[n].folder /\ f \in Here' /\ folders'[f] = folders[f] /\ f \notin Taken(s))
      BY <2>0, <1>2, <2>1 DEF HasAHome, Exists, Here
    <2>5. f = None \/ Exists(f)'
      BY <2>4 DEF Here
    <2>6. FiledInside(notes, folders, n) => f = None \/ folders'[f].space = t
      <3> SUFFICES ASSUME FiledInside(notes, folders, n), f # None
                   PROVE  folders'[f].space = t
        OBVIOUS
      <3>1. folders[f].space = notes[n].space
        BY <1>4, <2>4 DEF FiledInside
      <3>2. Exists(f) /\ f \notin Taken(s)
        BY <1>2, <2>4 DEF Here
      <3>3. folders[f].space # s
        BY <3>2 DEF Taken, BelongsTo, Exists
      <3> QED BY <2>0, <2>4, <3>1, <3>3
    <2> QED BY <1>1, <1>4, <2>2, <2>3, <2>5, <2>6, FiledElsewhere
  <1>5. OnlyRefiled
    <2>1. \A n \in Notes : ~IsNote(notes, n) => notes'[n] = notes[n]
      BY <1>1 DEF Absorbed
    <2>2. notes' = [n \in Notes |-> notes'[n]]
      BY <1>1 DEF Absorbed
    <2>3. \E r : notes' = [n \in Notes |-> r[n]]
      BY <2>2
    <2> QED BY <1>4, <2>1, <2>3 DEF OnlyRefiled, DeleteSpace
  <1>6. Asked
    BY DEF DeleteSpace, asked, Asked, Inv, TypeOK
  <1> QED BY <1>1, <1>2, <1>3, <1>4, <1>5, <1>6, RefilingStep DEF NothingCrosses

-------------------------------------------------------------------------------
(* The steps on notes.                                                      *)

(* One note is made, or given an attachment.                                *)
LEMMA OneNoteStep ==
  ASSUME Inv, UNCHANGED <<spaces, folders, asked>>, NEW c \in Notes, NEW r \in NoteRow,
         notes' = [notes EXCEPT ![c] = r],
         r.space \in spaces, r.folder = None \/ Exists(r.folder),
         files' \subseteq files \cup {c}, c \in files' => r.attached,
         IsNote(notes, c) => notes[c].space = r.space /\ notes[c].folder = r.folder
  PROVE  Inv' /\ LivesOn /\ NothingCrosses
  <1>1. /\ folders' \in [Folders -> FolderRow \cup {Unmade, Gone}] /\ FoldersAreTrees'
        /\ PlacesStay /\ \A f \in Folders : Exists(f)' <=> Exists(f)
    BY TreesStay
  <1>2. notes'[c] = r /\ \A n \in Notes \ {c} : notes'[n] = notes[n]
    BY DEF Inv, TypeOK
  <1>3. IsNote(notes', c)
    BY <1>2 DEF IsNote, Made
  <1>4. \A n \in Notes \ {c} :
          /\ IsNote(notes, n) <=> IsNote(notes', n)
          /\ IsNote(notes, n) => Refiled(n) /\ KeptInside(n)
    BY <1>1, <1>2, HomesStay DEF IsNote
  <1>5. NoNoteIsStranded'
    <2>1. HasAHome(c)'
      BY <1>1, <1>2 DEF HasAHome, Exists
    <2>2. \A n \in Notes \ {c} : IsNote(notes, n)' => HasAHome(n)'
      BY <1>4 DEF Refiled, IsNote
    <2> QED BY <2>1, <2>2 DEF NoNoteIsStranded
  <1>6. NoFileIsLeftBehind'
    <2>1. ASSUME NEW n \in files'
          PROVE  IsNote(notes', n) /\ notes'[n].attached
      <3>1. CASE n = c
        BY <1>2, <1>3, <2>1, <3>1
      <3>2. CASE n # c
        BY <1>2, <1>4, <3>2 DEF Inv, NoFileIsLeftBehind, TypeOK
      <3> QED BY <3>1, <3>2
    <2> QED BY <2>1 DEF NoFileIsLeftBehind, IsNote
  <1>7. TypeOK'
    BY <1>1 DEF Inv, TypeOK, asked
  <1>8. NothingCrosses
    <2>1. IsNote(notes, c) => KeptInside(c)
      BY <1>2 DEF KeptInside, FiledInside, IsNote
    <2> QED BY <1>4, <2>1 DEF NothingCrosses
  <1>9. LivesOn
    BY <1>3, <1>4 DEF LivesOn, Live
  <1> QED BY <1>1, <1>5, <1>6, <1>7, <1>8, <1>9 DEF Inv

(* A note is made where the canvas is.                                      *)
LEMMA CreateNoteStep ==
  ASSUME Inv, NEW n \in Notes, NEW s \in Spaces, NEW f \in Folders \cup {None}, CreateNote(n, s, f)
  PROVE  Inv' /\ LivesOn /\ NothingCrosses
  <1> DEFINE r == [space |-> s, folder |-> f, trashed |-> FALSE, attached |-> FALSE]
  <1>1. ~IsNote(notes, n) /\ n \notin files
    BY DEF CreateNote, IsNote, Made, Inv, NoFileIsLeftBehind
  <1>2. r \in NoteRow /\ r.space = s /\ r.folder = f
    BY DEF NoteRow
  <1>3. f = None \/ Exists(f)
    BY DEF CreateNote, BelongsTo
  <1> HIDE DEF r
  <1>4. notes' = [notes EXCEPT ![n] = r] /\ s \in spaces /\ files' = files
        /\ UNCHANGED <<spaces, folders, asked>>
    BY DEF CreateNote, r
  <1> QED BY <1>1, <1>2, <1>3, <1>4, OneNoteStep

(* A note is copied, and the file of its attachment if it is there.         *)
LEMMA DuplicateStep ==
  ASSUME Inv, NEW n \in Notes, NEW copy \in Notes, Duplicate(n, copy)
  PROVE  Inv' /\ LivesOn /\ NothingCrosses
  <1>0. PICK carried : carried = (notes[n].attached /\ n \in files)
    OBVIOUS
  <1>1. notes[n] \in NoteRow /\ HasAHome(n)
    BY NoteRows DEF Duplicate, Live, Inv, NoNoteIsStranded
  <1>2. ~IsNote(notes, copy) /\ copy \notin files
    BY DEF Duplicate, IsNote, Made, Inv, NoFileIsLeftBehind
  <1>3. PICK r : r = [notes[n] EXCEPT !.attached = carried]
    OBVIOUS
  <1>4. carried \in BOOLEAN
    BY <1>0, <1>1 DEF NoteRow
  <1>5. r \in NoteRow /\ r.space = notes[n].space /\ r.folder = notes[n].folder /\ r.attached = carried
    BY <1>1, <1>3, <1>4 DEF NoteRow
  <1>6. /\ notes' = [notes EXCEPT ![copy] = r]
        /\ files' = IF carried THEN files \cup {copy} ELSE files
        /\ UNCHANGED <<spaces, folders, asked>>
    BY <1>0, <1>3 DEF Duplicate
  <1>7. files' \subseteq files \cup {copy} /\ (copy \in files' => r.attached)
    BY <1>2, <1>5, <1>6
  <1>8. r.space \in spaces /\ (r.folder = None \/ Exists(r.folder))
    BY <1>1, <1>5 DEF HasAHome
  <1> QED BY <1>2, <1>5, <1>6, <1>7, <1>8, OneNoteStep

(* A note gets its attachment and the file of it.                           *)
LEMMA AttachStep ==
  ASSUME Inv, NEW n \in Notes, Attach(n)
  PROVE  Inv' /\ LivesOn /\ NothingCrosses
  <1>1. notes[n] \in NoteRow /\ HasAHome(n)
    BY NoteRows DEF Attach, Live, Inv, NoNoteIsStranded
  <1>2. PICK r : r = [notes[n] EXCEPT !.attached = TRUE]
    OBVIOUS
  <1>3. r \in NoteRow /\ r.space = notes[n].space /\ r.folder = notes[n].folder /\ r.attached
    BY <1>1, <1>2 DEF NoteRow
  <1>4. /\ notes' = [notes EXCEPT ![n] = r] /\ files' = files \cup {n}
        /\ UNCHANGED <<spaces, folders, asked>>
    BY <1>2 DEF Attach
  <1>5. r.space \in spaces /\ (r.folder = None \/ Exists(r.folder))
    BY <1>1, <1>3 DEF HasAHome
  <1> QED BY <1>3, <1>4, <1>5, OneNoteStep

(* A step that refiles notes, where spaces and folders stay what they are.  *)
LEMMA SameFoldersStep ==
  ASSUME Inv, UNCHANGED <<spaces, folders, files>>, Asked,
         NEW r, notes' = [n \in Notes |-> r[n]],
         \A n \in Notes : IF IsNote(notes, n) THEN Refiled(n) ELSE notes'[n] = notes[n]
  PROVE  Inv' /\ LivesOn
  <1>1. OnlyRefiled
    BY DEF OnlyRefiled
  <1>2. spaces' \subseteq Spaces
    BY DEF Inv, TypeOK
  <1> QED BY <1>1, <1>2, TreesStay, RefilingStep

(* Notes change space, and leave their folder.                              *)
LEMMA MovedStep ==
  ASSUME Inv, UNCHANGED <<spaces, folders, files>>, Asked,
         NEW ids \in SUBSET Notes, NEW s \in spaces, notes' = Moved(ids, s)
  PROVE  Inv' /\ LivesOn /\ NothingCrosses
  <1>1. PlacesStay /\ spaces' = spaces /\ spaces \subseteq Spaces
    BY TreesStay DEF Inv, TypeOK
  <1>2. ASSUME NEW n \in Notes
        PROVE  IF IsNote(notes, n) THEN Refiled(n) /\ KeptInside(n) ELSE notes'[n] = notes[n]
    <2>1. CASE n \in ToMove(ids, s)
      <3>1. notes'[n] = [notes[n] EXCEPT !.space = s, !.folder = None] /\ IsNote(notes, n)
        BY <2>1 DEF Moved, ToMove, Live
      <3> QED BY <1>1, <3>1, FiledElsewhere
    <2>2. CASE n \notin ToMove(ids, s)
      <3>1. notes'[n] = notes[n]
        BY <2>2 DEF Moved
      <3> QED BY <1>1, <3>1, HomesStay
    <2> QED BY <2>1, <2>2
  <1>3. PICK r : r = notes'
    OBVIOUS
  <1>4. notes' = [n \in Notes |-> r[n]]
    BY <1>3 DEF Moved
  <1> QED BY <1>2, <1>4, SameFoldersStep DEF NothingCrosses

(* ... from the editor, ...                                                 *)
LEMMA PatchSpaceStep ==
  ASSUME Inv, NEW n \in Notes, NEW s \in Spaces, PatchSpace(n, s)
  PROVE  Inv' /\ LivesOn /\ NothingCrosses
  <1>1. Asked
    BY DEF PatchSpace, asked, Asked, Inv, TypeOK
  <1> QED BY <1>1, MovedStep DEF PatchSpace

(* ... or from the board.                                                   *)
LEMMA MoveNotesStep ==
  ASSUME Inv, NEW ids \in SUBSET Notes, NEW s \in Spaces, MoveNotes(ids, s)
  PROVE  Inv' /\ LivesOn /\ NothingCrosses
  <1>1. Asked
    BY MovingIsKept DEF MoveNotes, Asked, Inv, TypeOK
  <1> QED BY <1>1, MovedStep DEF MoveNotes

(* Notes are filed in a folder of their space, or in none.                  *)
LEMMA FileNotesStep ==
  ASSUME Inv, NEW ids \in SUBSET Notes, NEW f \in Folders \cup {None}, FileNotes(ids, f)
  PROVE  Inv' /\ LivesOn /\ NothingCrosses
  <1>1. /\ PlacesStay /\ spaces' = spaces /\ spaces \subseteq Spaces /\ folders' = folders
        /\ f = None \/ Exists(f)'
    BY TreesStay DEF FileNotes, Inv, TypeOK, Exists
  <1>2. ASSUME NEW n \in Notes
        PROVE  IF IsNote(notes, n) THEN Refiled(n) /\ KeptInside(n) ELSE notes'[n] = notes[n]
    <2>1. CASE n \in ToFile(ids, f)
      <3>1. PICK s : s = notes[n].space
        OBVIOUS
      <3>2. notes'[n] = [notes[n] EXCEPT !.folder = f] /\ IsNote(notes, n)
        BY <2>1 DEF FileNotes, Filed, ToFile, Live
      <3>3. s \in spaces'
        BY <1>1, <3>1, <3>2 DEF Inv, NoNoteIsStranded, HasAHome
      <3>4. f = None \/ folders'[f].space = s
        BY <1>1, <2>1, <3>1 DEF ToFile, FileNotes
      <3> QED BY <1>1, <3>1, <3>2, <3>3, <3>4, FiledElsewhere
    <2>2. CASE n \notin ToFile(ids, f)
      <3>1. notes'[n] = notes[n]
        BY <2>2 DEF FileNotes, Filed
      <3> QED BY <1>1, <3>1, HomesStay
    <2> QED BY <2>1, <2>2
  <1>3. PICK r : r = notes'
    OBVIOUS
  <1>4. notes' = [n \in Notes |-> r[n]]
    BY <1>3 DEF FileNotes, Filed
  <1>5. Asked
    BY FilingIsKept DEF FileNotes, Asked, Inv, TypeOK
  <1> QED BY <1>2, <1>4, <1>5, SameFoldersStep DEF NothingCrosses, FileNotes

(* Notes sent to the trash, or taken back from it.                          *)
LEMMA TrashedStep ==
  ASSUME Inv, UNCHANGED <<spaces, folders, files>>, Asked, NEW r,
         notes' = [n \in Notes |-> r[n]],
         \A n \in Notes :
           \/ notes'[n] = notes[n]
           \/ IsNote(notes, n) /\ \E b \in BOOLEAN : notes'[n] = [notes[n] EXCEPT !.trashed = b]
  PROVE  Inv' /\ LivesOn /\ NothingCrosses
  <1>1. PlacesStay
    BY TreesStay
  <1>2. ASSUME NEW n \in Notes
        PROVE  IF IsNote(notes, n) THEN Refiled(n) /\ KeptInside(n) ELSE notes'[n] = notes[n]
    BY <1>1, HomesStay, TrashedInPlace
  <1> QED BY <1>2, SameFoldersStep DEF NothingCrosses

(* ... by a delete, ...                                                     *)
LEMMA DeleteNotesStep ==
  ASSUME Inv, NEW ids \in SUBSET Notes, DeleteNotes(ids)
  PROVE  Inv' /\ LivesOn /\ NothingCrosses
  <1>1. Asked
    BY DeletingIsKept DEF DeleteNotes, Asked, Inv, TypeOK
  <1>2. PICK r : r = notes'
    OBVIOUS
  <1>3. notes' = [n \in Notes |-> r[n]]
    BY <1>2 DEF DeleteNotes, Deleted
  <1>4. \A n \in Notes :
          \/ notes'[n] = notes[n]
          \/ IsNote(notes, n) /\ \E b \in BOOLEAN : notes'[n] = [notes[n] EXCEPT !.trashed = b]
    BY DEF DeleteNotes, Deleted, Live
  <1> QED BY <1>1, <1>3, <1>4, TrashedStep DEF DeleteNotes

(* ... by a command or by an undo.                                          *)
LEMMA RestoredStep ==
  ASSUME Inv, UNCHANGED <<spaces, folders, files>>, Asked, NEW ids, notes' = Restored(notes, ids)
  PROVE  Inv' /\ LivesOn /\ NothingCrosses
  <1>1. PICK r : r = notes'
    OBVIOUS
  <1>2. notes' = [n \in Notes |-> r[n]]
    BY <1>1 DEF Restored
  <1>3. \A n \in Notes :
          \/ notes'[n] = notes[n]
          \/ IsNote(notes, n) /\ \E b \in BOOLEAN : notes'[n] = [notes[n] EXCEPT !.trashed = b]
    BY DEF Restored, InTrash
  <1> QED BY <1>2, <1>3, TrashedStep

(* Notes purged: of the trash, and their files with them.                   *)
LEMMA PurgeStep ==
  ASSUME Inv, UNCHANGED <<spaces, folders>>, Asked, NEW ids, Purge(ids)
  PROVE  Inv' /\ LivesOn /\ NothingCrosses
  <1>1. /\ folders' \in [Folders -> FolderRow \cup {Unmade, Gone}] /\ FoldersAreTrees' /\ PlacesStay
    BY TreesStay
  <1>2. \A n \in Notes : notes'[n] = IF n \in ids \cap Trash THEN Gone ELSE notes[n]
    BY DEF Purge, Purged
  <1>3. \A n \in Notes : IsNote(notes', n) => IsNote(notes, n) /\ notes'[n] = notes[n] /\ n \notin ids \cap Trash
    BY <1>2 DEF IsNote, Made
  <1>4. \A n \in Notes : IsNote(notes, n) /\ n \notin ids \cap Trash => IsNote(notes', n) /\ notes'[n] = notes[n]
    BY <1>2 DEF IsNote
  <1>5. TypeOK'
    BY <1>1 DEF Purge, Purged, Inv, TypeOK, Asked
  <1>6. NoNoteIsStranded'
    <2>1. ASSUME NEW n \in Notes, IsNote(notes', n)
          PROVE  HasAHome(n)'
      BY <1>1, <1>3, <2>1, HomesStay DEF Refiled
    <2> QED BY <2>1 DEF NoNoteIsStranded, IsNote
  <1>7. NoFileIsLeftBehind'
    <2>1. ASSUME NEW n \in files'
          PROVE  IsNote(notes', n) /\ notes'[n].attached
      <3>1. n \in Notes /\ IsNote(notes, n) /\ notes[n].attached /\ n \notin StoredNames(ids)
        BY DEF Purge, Inv, NoFileIsLeftBehind, TypeOK
      <3>2. n \notin ids
        BY <3>1 DEF StoredNames
      <3> QED BY <1>4, <3>1, <3>2
    <2> QED BY <2>1 DEF NoFileIsLeftBehind, IsNote
  <1>8. LivesOn
    BY <1>4 DEF LivesOn, Live, Trash, InTrash
  <1>9. NothingCrosses
    <2>1. ASSUME NEW n \in Notes, IsNote(notes, n)
          PROVE  KeptInside(n)
      BY <1>1, <1>3, <2>1, HomesStay DEF KeptInside, FiledInside
    <2> QED BY <2>1 DEF NothingCrosses
  <1> QED BY <1>1, <1>5, <1>6, <1>7, <1>8, <1>9 DEF Inv

(* Every command of the trash.                                              *)
LEMMA TrashStep ==
  ASSUME Inv, TrashCommand
  PROVE  Inv' /\ LivesOn /\ NothingCrosses
  <1>1. ASSUME NEW expired \in SUBSET Notes, ListTrash(expired)
        PROVE  Inv' /\ LivesOn /\ NothingCrosses
    <2>1. Asked
      BY <1>1 DEF ListTrash, Asked, Inv, TypeOK, Trash
    <2> QED BY <1>1, <2>1, PurgeStep DEF ListTrash
  <1>2. ASSUME NEW n \in Notes, RestoreNote(n)
        PROVE  Inv' /\ LivesOn /\ NothingCrosses
    <2>1. Asked
      BY <1>2 DEF RestoreNote, asked, Asked, Inv, TypeOK
    <2> QED BY <1>2, <2>1, RestoredStep DEF RestoreNote
  <1>3. ASSUME NEW n \in Notes, PurgeNote(n)
        PROVE  Inv' /\ LivesOn /\ NothingCrosses
    <2>1. Asked
      BY <1>3 DEF PurgeNote, asked, Asked, Inv, TypeOK
    <2> QED BY <1>3, <2>1, PurgeStep DEF PurgeNote
  <1>4. CASE RestoreTrash
    <2>1. Asked
      BY <1>4 DEF RestoreTrash, asked, Asked, Inv, TypeOK
    <2>2. PICK ids : ids = Trash
      OBVIOUS
    <2> QED BY <1>4, <2>1, <2>2, RestoredStep DEF RestoreTrash
  <1>5. CASE EmptyTrash
    <2>1. Asked
      BY <1>5 DEF EmptyTrash, asked, Asked, Inv, TypeOK
    <2>2. PICK ids : ids = Trash
      OBVIOUS
    <2>3. Purge(ids)
      <3>1. Purge(Trash)
        BY <1>5 DEF EmptyTrash
      <3> QED BY <2>2, <3>1 DEF Purge, Purged, StoredNames
    <2> QED BY <1>5, <2>1, <2>3, PurgeStep DEF EmptyTrash
  <1> QED BY <1>1, <1>2, <1>3, <1>4, <1>5 DEF TrashCommand

-------------------------------------------------------------------------------
(* The undo.                                                                *)

(* Notes put back in the spaces they left, where there are.                 *)
LEMMA MovedBackStep ==
  ASSUME Inv, UNCHANGED <<spaces, folders, files>>, Asked, last.kind = "move",
         notes' = MovedBack(notes, last.was)
  PROVE  Inv' /\ LivesOn /\ NothingCrosses
  <1>1. PlacesStay /\ spaces' = spaces /\ spaces \subseteq Spaces
    BY TreesStay DEF Inv, TypeOK
  <1>2. ASSUME NEW n \in Notes
        PROVE  IF IsNote(notes, n) THEN Refiled(n) /\ KeptInside(n) ELSE notes'[n] = notes[n]
    <2>1. CASE n \in DOMAIN last.was /\ Live(notes, n) /\ last.was[n].space \in spaces
      <3>1. PICK s, f : /\ s = last.was[n].space
                        /\ f = IF BelongsTo(last.was[n].folder, last.was[n].space)
                               THEN last.was[n].folder ELSE None
        OBVIOUS
      <3>2. notes'[n] = [notes[n] EXCEPT !.space = s, !.folder = f] /\ IsNote(notes, n)
        BY <2>1, <3>1 DEF MovedBack, Live
      <3>3. s \in spaces' /\ f \in Folders \cup {None}
        BY <1>1, <2>1, <3>1, WhatIsKept DEF Inv
      <3>4. f = None \/ (Exists(f) /\ folders[f].space = s)
        BY <3>1 DEF BelongsTo
      <3>5. f = None \/ (Exists(f)' /\ folders'[f].space = s)
        BY <3>4 DEF Exists
      <3> QED BY <1>1, <3>2, <3>3, <3>5, FiledElsewhere
    <2>2. CASE ~(n \in DOMAIN last.was /\ Live(notes, n) /\ last.was[n].space \in spaces)
      <3>1. notes'[n] = notes[n]
        BY <2>2 DEF MovedBack
      <3> QED BY <1>1, <3>1, HomesStay
    <2> QED BY <2>1, <2>2
  <1>3. PICK r : r = notes'
    OBVIOUS
  <1>4. notes' = [n \in Notes |-> r[n]]
    BY <1>3 DEF MovedBack
  <1> QED BY <1>2, <1>4, SameFoldersStep DEF NothingCrosses

(* Notes put back in the folders they left: all there are, or nothing is.   *)
LEMMA FiledBackStep ==
  ASSUME Inv, UNCHANGED <<spaces, folders, files>>, Asked, last.kind = "file",
         notes' = FiledBack(notes, last.was)
  PROVE  Inv' /\ LivesOn
  <1>1. PlacesStay /\ spaces' = spaces /\ spaces \subseteq Spaces
    BY TreesStay DEF Inv, TypeOK
  <1>2. CASE \E n \in DOMAIN last.was : last.was[n] # None /\ ~Exists(last.was[n])
    <2>1. UNCHANGED notes
      BY <1>2 DEF FiledBack
    <2> QED BY <1>1, <2>1, TreesStay, NotesAloneStep
  <1>3. CASE \A n \in DOMAIN last.was : last.was[n] = None \/ Exists(last.was[n])
    <2>1. notes' = [n \in Notes |->
                      IF n \in DOMAIN last.was /\ Live(notes, n)
                      THEN [notes[n] EXCEPT !.folder = last.was[n]] ELSE notes[n]]
      BY <1>3 DEF FiledBack
    <2>2. ASSUME NEW n \in Notes
          PROVE  IF IsNote(notes, n) THEN Refiled(n) ELSE notes'[n] = notes[n]
      <3>1. CASE n \in DOMAIN last.was /\ Live(notes, n)
        <4>1. PICK s, f : s = notes[n].space /\ f = last.was[n]
          OBVIOUS
        <4>2. notes'[n] = [notes[n] EXCEPT !.folder = f] /\ IsNote(notes, n)
          BY <2>1, <3>1, <4>1 DEF Live
        <4>3. s \in spaces'
          BY <1>1, <4>1, <4>2 DEF Inv, NoNoteIsStranded, HasAHome
        <4>4. f \in Folders \cup {None} /\ (f = None \/ Exists(f))
          BY <1>3, <3>1, <4>1, WhatIsKept DEF Inv
        <4>5. f = None \/ Exists(f)'
          BY <4>4 DEF Exists
        <4> QED BY <1>1, <4>1, <4>2, <4>3, <4>4, <4>5, FiledElsewhere
      <3>2. CASE ~(n \in DOMAIN last.was /\ Live(notes, n))
        <4>1. notes'[n] = notes[n]
          BY <2>1, <3>2
        <4> QED BY <1>1, <4>1, HomesStay
      <3> QED BY <3>1, <3>2
    <2>3. PICK r : r = notes'
      OBVIOUS
    <2>4. notes' = [n \in Notes |-> r[n]]
      BY <2>1, <2>3
    <2> QED BY <2>2, <2>4, SameFoldersStep
  <1> QED BY <1>2, <1>3

(* A folder put back under its parent, where the tree still allows it.      *)
LEMMA FolderBackStep ==
  ASSUME Inv, UNCHANGED <<spaces, notes, files>>, Asked, last.kind = "folder",
         folders' = folders \/ folders' = FoldersBack(folders, last)
  PROVE  Inv' /\ LivesOn /\ NothingCrosses
  <1>1. CASE folders' = folders
    BY <1>1, TreesStay, NotesAloneStep
  <1>2. CASE folders' # folders
    <2>1. PICK f, p : f = last.folder /\ p = last.parent
      OBVIOUS
    <2>2. /\ Made(folders[f]) /\ CheckMove(TreeOf(folders, f), f, p)
          /\ folders' = Placed(folders, f, p)
      BY <1>2, <2>1 DEF FoldersBack
    <2>3. f \in Here /\ p \in Folders \cup {None}
      BY <2>1, <2>2, WhatIsKept DEF Inv, Here, Exists
    <2> QED BY <2>2, <2>3, PlacedStays, NotesAloneStep
  <1> QED BY <1>1, <1>2

(* One undo: only that of a filing may file a note across spaces.           *)
LEMMA RevertStep ==
  ASSUME Inv, NEW taken \in BOOLEAN, Revert(taken)
  PROVE  Inv' /\ LivesOn /\ (NothingCrosses \/ (last.kind = "file" /\ last' = Nothing))
  <1>1. Asked
    BY WhatIsKept DEF Revert, Asked, Inv, TypeOK
  <1>2. UNCHANGED <<spaces, files>> /\ last' = Nothing /\ notes' = NotesBack(notes, last)
    BY DEF Revert
  <1>3. last.kind # "folder" => UNCHANGED folders
    BY DEF Revert, FoldersBack
  <1>4. CASE last.kind = "deletion"
    <2>1. PICK ids : ids = last.ids
      OBVIOUS
    <2>2. notes' = Restored(notes, ids)
      BY <1>2, <1>4, <2>1 DEF NotesBack
    <2> QED BY <1>1, <1>2, <1>3, <1>4, <2>2, RestoredStep
  <1>5. CASE last.kind = "move"
    <2>1. notes' = MovedBack(notes, last.was)
      BY <1>2, <1>5 DEF NotesBack
    <2> QED BY <1>1, <1>2, <1>3, <1>5, <2>1, MovedBackStep
  <1>6. CASE last.kind = "file"
    <2>1. notes' = FiledBack(notes, last.was)
      BY <1>2, <1>6 DEF NotesBack
    <2> QED BY <1>1, <1>2, <1>3, <1>6, <2>1, FiledBackStep
  <1>7. CASE last.kind = "folder"
    <2>1. UNCHANGED notes /\ (folders' = folders \/ folders' = FoldersBack(folders, last))
      BY <1>2, <1>7 DEF NotesBack, Revert
    <2> QED BY <1>1, <1>2, <1>7, <2>1, FolderBackStep
  <1>8. CASE last.kind = "none"
    <2>1. UNCHANGED <<notes, folders>>
      BY <1>2, <1>3, <1>8 DEF NotesBack
    <2> QED BY <1>1, <1>2, <2>1, TreesStay, NotesAloneStep
  <1>9. last.kind \in {"none", "deletion", "move", "file", "folder"}
    BY DEF Inv, TypeOK, Reversible
  <1> QED BY <1>4, <1>5, <1>6, <1>7, <1>8, <1>9

(* What a frame does with the answer of a write.                            *)
LEMMA UndoStep ==
  ASSUME Inv, Undo
  PROVE  Inv' /\ LivesOn /\ (NothingCrosses \/ (last.kind = "file" /\ last' = Nothing))
  <1>1. CASE Adopt \/ Dismiss
    <2>1. Asked
      BY <1>1, WhatIsKept DEF Adopt, Dismiss, Asked, Inv, TypeOK
    <2>2. UNCHANGED <<spaces, folders, notes, files>>
      BY <1>1 DEF Adopt, Dismiss, rows
    <2> QED BY <2>1, <2>2, TreesStay, NotesAloneStep
  <1>2. CASE \E taken \in BOOLEAN : Revert(taken)
    BY <1>2, RevertStep
  <1> QED BY <1>1, <1>2 DEF Undo

-------------------------------------------------------------------------------
(* Every step.                                                              *)

(* A library with nothing in it satisfies the invariant.                    *)
LEMMA InvInit == Init => Inv
  <1> SUFFICES ASSUME Init PROVE Inv
    OBVIOUS
  <1>1. Nothing \in Reversible
    BY DEF Nothing, Reversible
  <1>2. TypeOK
    BY <1>1 DEF Init, TypeOK
  <1>3. Here = {} /\ \A n \in Notes : ~IsNote(notes, n)
    BY DEF Init, Here, Exists, Made, IsNote
  <1>4. FoldersAreTrees
    BY <1>3 DEF FoldersAreTrees, ParentsInside, NoLoops
  <1>5. NoNoteIsStranded /\ NoFileIsLeftBehind
    BY <1>3 DEF NoNoteIsStranded, NoFileIsLeftBehind, Init
  <1> QED BY <1>2, <1>4, <1>5 DEF Inv

(* Every command on folders keeps it.                                       *)
LEMMA FolderCommandStep ==
  ASSUME Inv, FolderCommand
  PROVE  Inv' /\ LivesOn /\ NothingCrosses
  BY CreateFolderStep, MoveFolderStep, DeleteFolderStep DEF FolderCommand

(* Every command on notes does.                                             *)
LEMMA NoteCommandStep ==
  ASSUME Inv, NoteCommand
  PROVE  Inv' /\ LivesOn /\ NothingCrosses
  BY CreateNoteStep, DuplicateStep, AttachStep, PatchSpaceStep, FileNotesStep, MoveNotesStep,
     DeleteNotesStep DEF NoteCommand

(* Every step keeps it, and every live note, filed in its space.            *)
LEMMA InvNext ==
  ASSUME Inv, [Next]_vars
  PROVE  Inv' /\ LivesOn /\ (NothingCrosses \/ (last.kind = "file" /\ last' = Nothing))
  <1>1. CASE Next
    BY <1>1, FolderCommandStep, DeleteSpaceStep, NoteCommandStep, TrashStep, UndoStep DEF Next
  <1>2. CASE UNCHANGED vars
    <2>1. Asked
      BY <1>2 DEF vars, Asked, Inv, TypeOK
    <2>2. UNCHANGED <<spaces, folders, notes, files>>
      BY <1>2 DEF vars
    <2> QED BY <2>1, <2>2, TreesStay, NotesAloneStep
  <1> QED BY <1>1, <1>2

(* The invariant holds of every reachable state.                            *)
LEMMA InvAlways == Spec => []Inv
  BY InvInit, InvNext, PTL DEF Spec

-------------------------------------------------------------------------------
(* Every command and every undo leaves rows of their types.                 *)
THEOREM TypeCorrect == Spec => []TypeOK
  <1>1. Inv => TypeOK
    BY DEF Inv
  <1> QED BY <1>1, InvAlways, PTL

(* The folders of a space are a tree, whatever was created, moved and       *)
(* deleted between a folder's move and its undo (tree.rs, folders/store.rs).*)
THEOREM TreesAreKept == Spec => []FoldersAreTrees
  <1>1. Inv => FoldersAreTrees
    BY DEF Inv
  <1> QED BY <1>1, InvAlways, PTL

(* No note, live or in the trash, is left in a space or a folder that is    *)
(* gone, whatever the order of the deletions and of the undos.              *)
THEOREM NoNoteIsStrandedEver == Spec => []NoNoteIsStranded
  <1>1. Inv => NoNoteIsStranded
    BY DEF Inv
  <1> QED BY <1>1, InvAlways, PTL

(* No file stays in attachments/ of a note that was purged.                 *)
THEOREM NoFileStaysBehind == Spec => []NoFileIsLeftBehind
  <1>1. Inv => NoFileIsLeftBehind
    BY DEF Inv
  <1> QED BY <1>1, InvAlways, PTL

(* A live note's row is never deleted: one purged was in the trash when the *)
(* command ran, however old the row of the panel it was asked from.         *)
THEOREM LiveNotesStay == Spec => OnlyTheTrashIsPurged
  <1>1. Inv /\ [Next]_vars => [\A n \in Notes : Live(notes, n) => IsNote(notes', n)]_vars
    BY InvNext DEF LivesOn
  <1> QED BY <1>1, InvAlways, PTL DEF Spec, OnlyTheTrashIsPurged

(* Only the undo of a filing ever files a note across spaces: no command,   *)
(* no other undo, no deletion of a folder or of a space.                    *)
THEOREM OnlyAnUndoFilesAcross == Spec => OnlyAStaleFilingCrosses
  <1>1. ASSUME Inv, [Next]_vars, NEW n \in Notes,
               IsNote(notes, n), FiledInside(notes, folders, n), ~FiledInside(notes', folders', n)
        PROVE  last.kind = "file" /\ last' = Nothing
    BY <1>1, InvNext DEF NothingCrosses, KeptInside
  <1>2. Inv /\ [Next]_vars
          => [\A n \in Notes :
                IsNote(notes, n) /\ FiledInside(notes, folders, n) /\ ~FiledInside(notes', folders', n)
                  => last.kind = "file" /\ last' = Nothing]_vars
    BY <1>1
  <1> QED BY <1>2, InvAlways, PTL DEF Spec, OnlyAStaleFilingCrosses

-------------------------------------------------------------------------------
(* How deep a folder is, in any tree.                                       *)

IsTree(tree) ==
  /\ None \notin DOMAIN tree
  /\ \A g \in DOMAIN tree : tree[g] \in DOMAIN tree \cup {None}
  /\ \A S \in SUBSET DOMAIN tree : S # {} => \E g \in S : tree[g] \notin S

Ancestors(tree, f) == {g \in DOMAIN tree : f \in Subtree(tree, g)}

(* What is under a folder is the folder, and what has its parent there.     *)
LEMMA UnderIs ==
  ASSUME NEW tree, NEW f \in DOMAIN tree, NEW g \in DOMAIN tree
  PROVE  g \in Subtree(tree, f) <=> g = f \/ tree[g] \in Subtree(tree, f)
  <1>1. /\ f \in Subtree(tree, f) /\ Subtree(tree, f) \subseteq DOMAIN tree
        /\ \A h \in DOMAIN tree : tree[h] \in Subtree(tree, f) => h \in Subtree(tree, f)
    BY SubtreeIsClosed
  <1>2. ASSUME g # f, tree[g] \notin Subtree(tree, f), g \in Subtree(tree, f)
        PROVE  FALSE
    <2> DEFINE S == Subtree(tree, f) \ {g}
    <2>1. S \in SUBSET DOMAIN tree /\ f \in S
      BY <1>1, <1>2
    <2>2. Closed(tree, S)
      BY <1>1, <1>2 DEF Closed
    <2>3. g \in S
      <3> HIDE DEF S
      <3> QED BY <1>2, <2>1, <2>2 DEF Subtree
    <2> QED BY <2>3
  <1> QED BY <1>1, <1>2

(* What is under what is under a folder is under it.                        *)
LEMMA UnderUnder ==
  ASSUME NEW tree, NEW f \in DOMAIN tree, NEW g \in Subtree(tree, f)
  PROVE  Subtree(tree, g) \subseteq Subtree(tree, f)
  <1>1. /\ Subtree(tree, f) \subseteq DOMAIN tree
        /\ \A h \in DOMAIN tree : tree[h] \in Subtree(tree, f) => h \in Subtree(tree, f)
    BY SubtreeIsClosed
  <1>2. Closed(tree, Subtree(tree, f))
    BY <1>1 DEF Closed
  <1> QED BY <1>1, <1>2 DEF Subtree

(* A folder's parent is not under it.                                       *)
LEMMA NotUnderItself ==
  ASSUME NEW tree, IsTree(tree), NEW f \in DOMAIN tree
  PROVE  tree[f] \notin Subtree(tree, f)
  <1> SUFFICES ASSUME tree[f] \in Subtree(tree, f) PROVE FALSE
    OBVIOUS
  <1> DEFINE S == {h \in Subtree(tree, f) : f \in Subtree(tree, h)}
  <1>1. f \in Subtree(tree, f) /\ Subtree(tree, f) \subseteq DOMAIN tree
    BY SubtreeIsClosed
  <1>2. ASSUME NEW h \in S PROVE tree[h] \in S
    <2>1. h \in DOMAIN tree
      BY <1>1
    <2>2. tree[h] \in Subtree(tree, f)
      BY <2>1, UnderIs
    <2>3. tree[h] \in DOMAIN tree
      BY <1>1, <2>2
    <2>4. h \in Subtree(tree, tree[h])
      BY <2>1, <2>3, SubtreeIsClosed
    <2>5. Subtree(tree, h) \subseteq Subtree(tree, tree[h])
      BY <2>3, <2>4, UnderUnder
    <2> QED BY <2>2, <2>5
  <1>3. S \in SUBSET DOMAIN tree /\ f \in S
    BY <1>1
  <1> HIDE DEF S
  <1> QED BY <1>2, <1>3 DEF IsTree

(* A folder is above itself, with what is above its parent.                 *)
LEMMA AncestorsAre ==
  ASSUME NEW tree, IsTree(tree), NEW f \in DOMAIN tree
  PROVE  /\ Ancestors(tree, f) = Ancestors(tree, tree[f]) \cup {f}
         /\ f \notin Ancestors(tree, tree[f])
         /\ Ancestors(tree, None) = {}
  <1>1. \A g \in DOMAIN tree : f \in Subtree(tree, g) <=> f = g \/ tree[f] \in Subtree(tree, g)
    BY UnderIs
  <1>2. \A g \in DOMAIN tree : Subtree(tree, g) \subseteq DOMAIN tree
    BY SubtreeIsClosed
  <1>3. tree[f] \notin Subtree(tree, f) /\ None \notin DOMAIN tree
    BY NotUnderItself DEF IsTree
  <1> QED BY <1>1, <1>2, <1>3 DEF Ancestors

(* It is one deeper than its parent.                                        *)
LEMMA DepthIs ==
  ASSUME NEW tree, IsTree(tree)
  PROVE  /\ \A f \in DOMAIN tree : Depth(tree, f) \in Nat
         /\ \A f \in DOMAIN tree : Depth(tree, f) = Above(tree, tree[f]) + 1
         /\ \A p \in DOMAIN tree \cup {None} : Above(tree, p) \in Nat
         /\ \A p \in DOMAIN tree : Above(tree, p) = Depth(tree, p)
         /\ Above(tree, None) = 0
  <1>1. \A f \in DOMAIN tree :
          /\ Ancestors(tree, f) = Ancestors(tree, tree[f]) \cup {f}
          /\ f \notin Ancestors(tree, tree[f])
          /\ Ancestors(tree, None) = {}
    BY AncestorsAre
  <1>2. \A f \in DOMAIN tree : IsFiniteSet(Ancestors(tree, f))
    <2> DEFINE S == {f \in DOMAIN tree : ~IsFiniteSet(Ancestors(tree, f))}
    <2> SUFFICES ASSUME S # {} PROVE FALSE
      OBVIOUS
    <2>1. PICK f \in S : tree[f] \notin S
      BY DEF IsTree
    <2>2. tree[f] \in DOMAIN tree \cup {None}
      BY <2>1 DEF IsTree
    <2>3. IsFiniteSet(Ancestors(tree, tree[f]))
      BY <1>1, <2>1, <2>2, FS_EmptySet
    <2>4. IsFiniteSet(Ancestors(tree, tree[f]) \cup {f})
      BY <2>3, FS_AddElement
    <2> QED BY <1>1, <2>1, <2>4
  <1>3. \A f \in DOMAIN tree : Depth(tree, f) = Cardinality(Ancestors(tree, f)) /\ Depth(tree, f) \in Nat
    BY <1>2, FS_CardinalityType DEF Depth, Ancestors
  <1>4. /\ \A p \in DOMAIN tree : Above(tree, p) = Depth(tree, p)
        /\ Above(tree, None) = 0
    BY DEF Above, IsTree
  <1>5. ASSUME NEW f \in DOMAIN tree
        PROVE  Depth(tree, f) = Above(tree, tree[f]) + 1
    <2>1. tree[f] \in DOMAIN tree \cup {None}
      BY DEF IsTree
    <2>2. /\ IsFiniteSet(Ancestors(tree, tree[f]))
          /\ Above(tree, tree[f]) = Cardinality(Ancestors(tree, tree[f]))
      BY <1>1, <1>2, <1>3, <1>4, <2>1, FS_EmptySet
    <2>3. Cardinality(Ancestors(tree, tree[f]) \cup {f}) = Cardinality(Ancestors(tree, tree[f])) + 1
      BY <1>1, <2>2, FS_AddElement
    <2> QED BY <1>1, <1>3, <2>2, <2>3
  <1> QED BY <1>3, <1>4, <1>5

(* Where two trees agree on folders that hold their own parents, so do the  *)
(* depths.                                                                  *)
LEMMA SameDepths ==
  ASSUME NEW t, NEW u, IsTree(t), IsTree(u), NEW K, K \subseteq DOMAIN t, K \subseteq DOMAIN u,
         \A g \in K : u[g] = t[g] /\ t[g] \in K \cup {None}
  PROVE  \A p \in K \cup {None} : Above(u, p) = Above(t, p)
  <1> DEFINE S == {g \in K : Depth(u, g) # Depth(t, g)}
  <1>1. S = {}
    <2> SUFFICES ASSUME S # {} PROVE FALSE
      OBVIOUS
    <2>1. PICK g \in S : t[g] \notin S
      BY DEF IsTree
    <2>2. PICK q : q = t[g]
      OBVIOUS
    <2>3. Depth(u, g) = Above(u, q) + 1 /\ Depth(t, g) = Above(t, q) + 1
      BY <2>1, <2>2, DepthIs
    <2>4. Above(u, q) = Above(t, q)
      BY <2>1, <2>2, DepthIs
    <2> QED BY <2>1, <2>3, <2>4
  <1>2. \A g \in K : Depth(u, g) = Depth(t, g)
    BY <1>1
  <1> HIDE DEF S
  <1> QED BY <1>2, DepthIs

Hung(tree, f, p) == [tree EXCEPT ![f] = p]

(* Only the one folder is hung elsewhere.                                   *)
LEMMA HungIs ==
  ASSUME NEW t, NEW f \in DOMAIN t, NEW p
  PROVE  /\ DOMAIN Hung(t, f, p) = DOMAIN t /\ Hung(t, f, p)[f] = p
         /\ \A g \in DOMAIN t : g # f => Hung(t, f, p)[g] = t[g]
  BY DEF Hung

(* A folder that moves keeps what is under it.                              *)
LEMMA SameSubtree ==
  ASSUME NEW t, NEW f \in DOMAIN t, NEW p, NEW u, u = Hung(t, f, p)
  PROVE  Subtree(u, f) = Subtree(t, f)
  <1>1. DOMAIN u = DOMAIN t /\ \A g \in DOMAIN t : g # f => u[g] = t[g]
    BY HungIs
  <1>2. \A S \in SUBSET DOMAIN t : f \in S => (Closed(u, S) <=> Closed(t, S))
    BY <1>1 DEF Closed
  <1> HIDE DEF Closed
  <1> QED BY <1>1, <1>2 DEF Subtree

(* A folder put elsewhere than under itself makes a tree.                   *)
LEMMA MovedIsATree ==
  ASSUME NEW t, IsTree(t), NEW f \in DOMAIN t, NEW p \in DOMAIN t \cup {None},
         p \notin Subtree(t, f), NEW u, u = Hung(t, f, p)
  PROVE  IsTree(u)
  <1>1. /\ DOMAIN u = DOMAIN t /\ u[f] = p
        /\ \A g \in DOMAIN t : g # f => u[g] = t[g]
    BY HungIs
  <1>2. /\ f \in Subtree(t, f)
        /\ \A g \in DOMAIN t : t[g] \in Subtree(t, f) => g \in Subtree(t, f)
    BY SubtreeIsClosed
  <1>3. ASSUME NEW S \in SUBSET DOMAIN t, S # {}, \A g \in S : u[g] \in S
        PROVE  FALSE
    <2>1. CASE f \notin S
      BY <1>1, <1>3, <2>1 DEF IsTree
    <2>2. CASE f \in S
      <3> DEFINE T == S \ Subtree(t, f)
      <3>1. p \in T
        BY <1>1, <1>3, <2>2
      <3>2. \A g \in T : t[g] \in T
        BY <1>1, <1>2, <1>3
      <3>3. T \in SUBSET DOMAIN t /\ T # {}
        BY <3>1
      <3> HIDE DEF T
      <3> QED BY <3>2, <3>3 DEF IsTree
    <2> QED BY <2>1, <2>2
  <1>4. None \notin DOMAIN u /\ \A g \in DOMAIN u : u[g] \in DOMAIN u \cup {None}
    BY <1>1 DEF IsTree
  <1> QED BY <1>1, <1>3, <1>4 DEF IsTree

(* What is not under it stays as deep; what is goes with it.                *)
LEMMA DepthsMoved ==
  ASSUME NEW t, IsTree(t), NEW f \in DOMAIN t, NEW p \in DOMAIN t \cup {None},
         p \notin Subtree(t, f), NEW u, u = Hung(t, f, p)
  PROVE  /\ \A q \in (DOMAIN t \ Subtree(t, f)) \cup {None} : Above(u, q) = Above(t, q)
         /\ \A g \in Subtree(t, f) : Depth(u, g) + Depth(t, f) = Depth(t, g) + Depth(u, f)
         /\ Depth(u, f) = Above(t, p) + 1
  <1>1. IsTree(u)
    BY MovedIsATree
  <1>2. /\ DOMAIN u = DOMAIN t /\ u[f] = p
        /\ \A g \in DOMAIN t : g # f => u[g] = t[g]
    BY HungIs
  <1>3. /\ f \in Subtree(t, f) /\ Subtree(t, f) \subseteq DOMAIN t
        /\ \A g \in DOMAIN t : t[g] \in Subtree(t, f) => g \in Subtree(t, f)
    BY SubtreeIsClosed
  <1>4. PICK K : K = DOMAIN t \ Subtree(t, f)
    OBVIOUS
  <1>5. \A g \in K : u[g] = t[g] /\ t[g] \in K \cup {None}
    BY <1>2, <1>3, <1>4 DEF IsTree
  <1>6. \A q \in K \cup {None} : Above(u, q) = Above(t, q)
    <2>1. K \subseteq DOMAIN t /\ K \subseteq DOMAIN u
      BY <1>2, <1>4
    <2> QED BY <1>1, <1>5, <2>1, SameDepths
  <1>7. Depth(u, f) = Above(t, p) + 1
    <2>1. Depth(u, f) = Above(u, p) + 1
      BY <1>1, <1>2, DepthIs
    <2>2. p \in K \cup {None}
      BY <1>4
    <2> QED BY <1>6, <2>1, <2>2
  <1>8. \A g \in DOMAIN t : Depth(t, g) \in Nat /\ Depth(u, g) \in Nat
    BY <1>1, <1>2, DepthIs
  <1> DEFINE S == {g \in Subtree(t, f) : Depth(u, g) + Depth(t, f) # Depth(t, g) + Depth(u, f)}
  <1>9. S = {}
    <2> SUFFICES ASSUME S # {} PROVE FALSE
      OBVIOUS
    <2>1. PICK g \in S : t[g] \notin S
      BY <1>3 DEF IsTree
    <2>2. g \in Subtree(t, f) /\ g \in DOMAIN t /\ g # f
      BY <1>3, <1>8, <2>1
    <2>3. PICK q : q = t[g]
      OBVIOUS
    <2>4. q \in Subtree(t, f) /\ q \in DOMAIN t /\ u[g] = q
      BY <1>2, <1>3, <2>2, <2>3, UnderIs
    <2>5. Depth(u, g) = Depth(u, q) + 1 /\ Depth(t, g) = Depth(t, q) + 1
      BY <1>1, <1>2, <2>2, <2>3, <2>4, DepthIs
    <2>6. Depth(u, q) + Depth(t, f) = Depth(t, q) + Depth(u, f)
      BY <2>1, <2>3, <2>4
    <2>7. Depth(u, g) + Depth(t, f) = Depth(t, g) + Depth(u, f)
      BY <1>8, <2>4, <2>5, <2>6
    <2> QED BY <2>1, <2>7
  <1>10. \A g \in Subtree(t, f) : Depth(u, g) + Depth(t, f) = Depth(t, g) + Depth(u, f)
    BY <1>9
  <1> HIDE DEF S
  <1> QED BY <1>4, <1>6, <1>7, <1>10

Shallow(tree) == \A g \in DOMAIN tree : Depth(tree, g) <= MaxDepth

(* The check on a move is enough for everything it brings.                  *)
LEMMA MovedIsShallow ==
  ASSUME NEW t, IsTree(t), Shallow(t), NEW f \in DOMAIN t, NEW p, CheckMove(t, f, p),
         NEW u, u = Hung(t, f, p)
  PROVE  IsTree(u) /\ Shallow(u)
  <1>1. /\ p \in DOMAIN t \cup {None} /\ p \notin Subtree(t, f)
        /\ \A g \in Subtree(t, f) : Above(t, p) + Depth(t, g) < MaxDepth + Depth(t, f)
    BY DEF CheckMove
  <1>2. IsTree(u)
    BY <1>1, MovedIsATree
  <1>3. DOMAIN u = DOMAIN t /\ MaxDepth \in Nat
    BY HungIs, DepthAssumption
  <1>4. /\ \A q \in (DOMAIN t \ Subtree(t, f)) \cup {None} : Above(u, q) = Above(t, q)
        /\ \A g \in Subtree(t, f) : Depth(u, g) + Depth(t, f) = Depth(t, g) + Depth(u, f)
        /\ Depth(u, f) = Above(t, p) + 1
    BY <1>1, DepthsMoved
  <1>5. /\ \A g \in DOMAIN t : Depth(t, g) \in Nat /\ Depth(u, g) \in Nat
        /\ \A g \in DOMAIN t : Above(t, g) = Depth(t, g) /\ Above(u, g) = Depth(u, g)
        /\ Above(t, p) \in Nat
    BY <1>1, <1>2, <1>3, DepthIs
  <1>6. ASSUME NEW g \in DOMAIN t
        PROVE  Depth(u, g) <= MaxDepth
    <2>1. CASE g \notin Subtree(t, f)
      BY <1>4, <1>5, <2>1 DEF Shallow
    <2>2. CASE g \in Subtree(t, f)
      <3>1. Depth(u, g) + Depth(t, f) = Depth(t, g) + (Above(t, p) + 1)
        BY <1>4, <2>2
      <3>2. Above(t, p) + Depth(t, g) < MaxDepth + Depth(t, f)
        BY <1>1, <2>2
      <3>3. Depth(t, f) \in Nat /\ Depth(t, g) \in Nat /\ Depth(u, g) \in Nat
        BY <1>5
      <3> QED BY <1>3, <1>5, <3>1, <3>2, <3>3
    <2> QED BY <2>1, <2>2
  <1> QED BY <1>2, <1>3, <1>6 DEF Shallow

(* Put back where it was, a folder passes the check again.                  *)
LEMMA MovesBack ==
  ASSUME NEW t, IsTree(t), Shallow(t), NEW f \in DOMAIN t, NEW p, CheckMove(t, f, p),
         NEW u, u = Hung(t, f, p)
  PROVE  CheckMove(u, f, t[f])
  <1>1. p \in DOMAIN t \cup {None} /\ p \notin Subtree(t, f)
    BY DEF CheckMove
  <1>2. DOMAIN u = DOMAIN t /\ MaxDepth \in Nat /\ Subtree(u, f) = Subtree(t, f) /\ IsTree(u)
    BY <1>1, HungIs, DepthAssumption, SameSubtree, MovedIsATree
  <1>3. t[f] \in DOMAIN t \cup {None} /\ t[f] \notin Subtree(t, f)
    BY NotUnderItself DEF IsTree
  <1>4. Depth(t, f) = Above(u, t[f]) + 1 /\ Above(u, t[f]) \in Nat
    <2>1. Above(u, t[f]) = Above(t, t[f])
      BY <1>1, <1>3, DepthsMoved
    <2>2. Depth(t, f) = Above(t, t[f]) + 1 /\ Above(t, t[f]) \in Nat
      BY <1>3, DepthIs
    <2> QED BY <2>1, <2>2
  <1>5. ASSUME NEW g \in Subtree(t, f)
        PROVE  Above(u, t[f]) + Depth(u, g) < MaxDepth + Depth(u, f)
    <2>1. g \in DOMAIN t
      BY SubtreeIsClosed
    <2>2. Depth(u, g) + Depth(t, f) = Depth(t, g) + Depth(u, f)
      BY <1>1, DepthsMoved
    <2>3. Depth(t, g) \in Nat /\ Depth(u, g) \in Nat /\ Depth(u, f) \in Nat /\ Depth(t, g) <= MaxDepth
      BY <1>2, <2>1, DepthIs DEF Shallow
    <2> QED BY <1>2, <1>4, <2>2, <2>3
  <1> QED BY <1>2, <1>3, <1>5 DEF CheckMove

(* Folders that go up a level, or lose others, are no deeper.               *)
LEMMA RaisedIsShallow ==
  ASSUME NEW t, IsTree(t), Shallow(t), NEW u, IsTree(u), DOMAIN u \subseteq DOMAIN t,
         \A g \in DOMAIN u : u[g] = t[g] \/ (t[g] \in DOMAIN t /\ u[g] = t[t[g]])
  PROVE  Shallow(u)
  <1>1. \A g \in DOMAIN u : Depth(u, g) \in Nat /\ Depth(u, g) = Above(u, u[g]) + 1
    BY DepthIs
  <1>2. \A g \in DOMAIN t : Depth(t, g) \in Nat /\ Depth(t, g) = Above(t, t[g]) + 1
    BY DepthIs
  <1> DEFINE S == {g \in DOMAIN u : ~(Depth(u, g) <= Depth(t, g))}
  <1>3. S = {}
    <2> SUFFICES ASSUME S # {} PROVE FALSE
      OBVIOUS
    <2>1. PICK g \in S : u[g] \notin S
      BY DEF IsTree
    <2>2. PICK q : q = u[g]
      OBVIOUS
    <2>3. g \in DOMAIN u /\ g \in DOMAIN t /\ q \in DOMAIN u \cup {None}
      BY <2>1, <2>2 DEF IsTree
    <2>4. CASE q = None
      <3>1. Depth(u, g) = 1
        <4>1. Above(u, u[g]) = 0
          BY <2>2, <2>4, DepthIs
        <4> QED BY <1>1, <2>3, <4>1
      <3>2. t[g] \in DOMAIN t \cup {None}
        BY <2>3 DEF IsTree
      <3>3. Above(t, t[g]) \in Nat
        BY <3>2, DepthIs
      <3>4. Depth(t, g) >= 1
        BY <1>2, <2>3, <3>3
      <3> QED BY <2>1, <3>1, <3>4
    <2>5. CASE q # None
      <3>1. q \in DOMAIN u /\ q \in DOMAIN t
        BY <2>3, <2>5
      <3>2. Depth(u, g) = Depth(u, q) + 1
        BY <1>1, <2>2, <2>3, <3>1, DepthIs
      <3>3. Depth(u, q) <= Depth(t, q)
        BY <2>1, <2>2, <3>1
      <3>4. Depth(t, g) >= Depth(t, q) + 1
        <4>1. CASE t[g] = q
          <5>1. Above(t, t[g]) = Depth(t, q)
            BY <3>1, <4>1, DepthIs
          <5> QED BY <1>2, <2>3, <3>1, <5>1
        <4>2. CASE t[g] \in DOMAIN t /\ q = t[t[g]]
          <5>1. Above(t, t[g]) = Depth(t, t[g]) /\ Above(t, q) = Depth(t, q)
            BY <3>1, <4>2, DepthIs
          <5>2. Depth(t, t[g]) = Depth(t, q) + 1
            BY <1>2, <4>2, <5>1
          <5> QED BY <1>2, <2>3, <3>1, <5>1, <5>2
        <4> QED BY <2>2, <2>3, <4>1, <4>2
      <3>5. Depth(u, g) \in Nat /\ Depth(u, q) \in Nat /\ Depth(t, g) \in Nat /\ Depth(t, q) \in Nat
        BY <1>1, <1>2, <2>3, <3>1
      <3> QED BY <2>1, <3>2, <3>3, <3>4, <3>5
    <2> QED BY <2>4, <2>5
  <1>4. \A g \in DOMAIN u : Depth(u, g) <= Depth(t, g)
    BY <1>3
  <1> HIDE DEF S
  <1> QED BY <1>1, <1>2, <1>4, DepthAssumption DEF Shallow

(* A folder added to a tree, with nothing in it.                            *)
LEMMA AddedIsShallow ==
  ASSUME NEW t, IsTree(t), Shallow(t), NEW u, IsTree(u), NEW f,
         DOMAIN u = DOMAIN t \cup {f}, \A g \in DOMAIN t : u[g] = t[g], CheckChild(t, u[f])
  PROVE  Shallow(u)
  <1>1. \A q \in DOMAIN t \cup {None} : Above(u, q) = Above(t, q)
    BY SameDepths DEF IsTree
  <1>2. /\ \A g \in DOMAIN t : Above(t, g) = Depth(t, g) /\ Above(u, g) = Depth(u, g)
        /\ Depth(u, f) = Above(u, u[f]) + 1
        /\ \A q \in DOMAIN t \cup {None} : Above(t, q) \in Nat
    BY DepthIs
  <1>3. u[f] \in DOMAIN t \cup {None} /\ Above(t, u[f]) < MaxDepth
    BY DEF CheckChild
  <1>4. Depth(u, f) <= MaxDepth
    BY <1>1, <1>2, <1>3, DepthAssumption
  <1>5. \A g \in DOMAIN t : Depth(u, g) <= MaxDepth
    BY <1>1, <1>2 DEF Shallow
  <1> QED BY <1>4, <1>5 DEF Shallow

-------------------------------------------------------------------------------
(* How deep the folders of a library are.                                   *)

HereOf(fs) == {f \in Folders : Made(fs[f])}
Forest(fs) ==
  /\ fs \in [Folders -> FolderRow \cup {Unmade, Gone}]
  /\ \A f \in HereOf(fs) :
       fs[f].parent = None \/ (fs[f].parent \in HereOf(fs) /\ fs[fs[f].parent].space = fs[f].space)
  /\ \A S \in SUBSET HereOf(fs) : S # {} => \E f \in S : fs[f].parent \notin S

(* Every reachable set of rows is a forest, and so is the next.             *)
LEMMA InvForest ==
  ASSUME Inv
  PROVE  Forest(folders) /\ HereOf(folders) = Here
  <1>1. HereOf(folders) = Here
    BY DEF HereOf, Here, Exists
  <1>2. \A f \in Folders : BelongsTo(folders[f].parent, folders[f].space)
          <=> folders[f].parent \in Here /\ folders[folders[f].parent].space = folders[f].space
    BY DEF BelongsTo, Here, Exists
  <1>3. \A f \in Here : folders[f].parent = None
          \/ (folders[f].parent \in Here /\ folders[folders[f].parent].space = folders[f].space)
    BY <1>2 DEF Inv, FoldersAreTrees, ParentsInside, Here
  <1> QED BY <1>1, <1>3 DEF Forest, Inv, TypeOK, FoldersAreTrees, NoLoops

(* So is the one a step that keeps the invariant leaves.                    *)
LEMMA NextForest ==
  ASSUME Inv'
  PROVE  Forest(folders') /\ HereOf(folders') = Here'
  <1>1. HereOf(folders') = Here'
    BY DEF HereOf, Here, Exists
  <1>2. \A f \in Folders : BelongsTo(folders[f].parent, folders[f].space)'
          <=> folders'[f].parent \in Here' /\ folders'[folders'[f].parent].space = folders'[f].space
    BY DEF BelongsTo, Here, Exists
  <1>3. \A f \in Here' : folders'[f].parent = None
          \/ (folders'[f].parent \in Here' /\ folders'[folders'[f].parent].space = folders'[f].space)
    BY <1>2 DEF Inv, FoldersAreTrees, ParentsInside, Here
  <1> QED BY <1>1, <1>3 DEF Forest, Inv, TypeOK, FoldersAreTrees, NoLoops

(* The folders of a space are a tree of their parents.                      *)
LEMMA LineageIs ==
  ASSUME NEW fs, Forest(fs), NEW s
  PROVE  /\ \A f : f \in DOMAIN Lineage(fs, s) <=> f \in HereOf(fs) /\ fs[f].space = s
         /\ \A f \in DOMAIN Lineage(fs, s) : Lineage(fs, s)[f] = fs[f].parent
         /\ IsTree(Lineage(fs, s))
  <1>1. DOMAIN Lineage(fs, s) = {f \in HereOf(fs) : fs[f].space = s}
    BY DEF Lineage, HereOf
  <1>2. \A f \in DOMAIN Lineage(fs, s) : Lineage(fs, s)[f] = fs[f].parent
    BY <1>1 DEF Lineage, HereOf, Forest
  <1>3. \A f \in DOMAIN Lineage(fs, s) : Lineage(fs, s)[f] \in DOMAIN Lineage(fs, s) \cup {None}
    BY <1>1, <1>2 DEF Forest
  <1>4. ASSUME NEW S \in SUBSET DOMAIN Lineage(fs, s), S # {}
        PROVE  \E f \in S : Lineage(fs, s)[f] \notin S
    <2>1. S \in SUBSET HereOf(fs)
      BY <1>1
    <2> QED BY <1>2, <1>4, <2>1 DEF Forest
  <1>5. None \notin DOMAIN Lineage(fs, s)
    BY <1>1 DEF HereOf
  <1> QED BY <1>1, <1>2, <1>3, <1>4, <1>5 DEF IsTree

(* It is no deeper than it may be, whichever space is asked about.          *)
LEMMA ShallowIs ==
  ASSUME NEW fs, Forest(fs)
  PROVE  (\A s \in Spaces : Shallow(Lineage(fs, s)))
           <=> \A f \in HereOf(fs) : Depth(TreeOf(fs, f), f) <= MaxDepth
  <1>1. \A f \in HereOf(fs) : fs[f].space \in Spaces
    BY DEF Forest, HereOf, Made, FolderRow
  <1>2. \A s : \A f : f \in DOMAIN Lineage(fs, s) <=> f \in HereOf(fs) /\ fs[f].space = s
    BY LineageIs
  <1> QED BY <1>1, <1>2 DEF Shallow, TreeOf

(* Two trees with the same folders and the same parents are the same tree.  *)
LEMMA LineagesAre ==
  ASSUME NEW fs, Forest(fs), NEW s, NEW gs, Forest(gs), NEW r,
         \A f \in Folders : f \in HereOf(fs) /\ fs[f].space = s <=> f \in HereOf(gs) /\ gs[f].space = r,
         \A f \in HereOf(fs) : fs[f].space = s => fs[f].parent = gs[f].parent
  PROVE  Lineage(fs, s) = Lineage(gs, r)
  <1>1. /\ \A f : f \in DOMAIN Lineage(fs, s) <=> f \in HereOf(fs) /\ fs[f].space = s
        /\ \A f \in DOMAIN Lineage(fs, s) : Lineage(fs, s)[f] = fs[f].parent
    BY LineageIs
  <1>2. /\ \A f : f \in DOMAIN Lineage(gs, r) <=> f \in HereOf(gs) /\ gs[f].space = r
        /\ \A f \in DOMAIN Lineage(gs, r) : Lineage(gs, r)[f] = gs[f].parent
    BY LineageIs
  <1>3. DOMAIN Lineage(fs, s) = DOMAIN Lineage(gs, r)
    BY <1>1, <1>2 DEF HereOf
  <1>4. \A f \in DOMAIN Lineage(fs, s) : Lineage(fs, s)[f] = Lineage(gs, r)[f]
    BY <1>1, <1>2, <1>3
  <1>5. /\ Lineage(fs, s) = [f \in DOMAIN Lineage(fs, s) |-> Lineage(fs, s)[f]]
        /\ Lineage(gs, r) = [f \in DOMAIN Lineage(gs, r) |-> Lineage(gs, r)[f]]
    BY DEF Lineage
  <1> QED BY <1>3, <1>4, <1>5

(* A folder placed is hung elsewhere in its space's tree, and no other      *)
(* space's tree changes.                                                    *)
LEMMA PlacedHangs ==
  ASSUME NEW fs, Forest(fs), NEW f \in HereOf(fs), NEW p \in Folders \cup {None},
         CheckMove(TreeOf(fs, f), f, p)
  PROVE  /\ Forest(Placed(fs, f, p))
         /\ HereOf(Placed(fs, f, p)) = HereOf(fs)
         /\ \A g \in HereOf(fs) : Placed(fs, f, p)[g].space = fs[g].space
         /\ Lineage(Placed(fs, f, p), fs[f].space) = Hung(TreeOf(fs, f), f, p)
         /\ \A s : s # fs[f].space => Lineage(Placed(fs, f, p), s) = Lineage(fs, s)
  <1>1. PICK gs : gs = Placed(fs, f, p)
    OBVIOUS
  <1>2. PICK t : t = Lineage(fs, fs[f].space)
    OBVIOUS
  <1>3. f \in Folders /\ fs[f] \in FolderRow
    BY DEF HereOf, Made, Forest
  <1>4. /\ gs = [fs EXCEPT ![f] = [fs[f] EXCEPT !.parent = p]]
        /\ [fs[f] EXCEPT !.parent = p] \in FolderRow
        /\ [fs[f] EXCEPT !.parent = p].space = fs[f].space
        /\ [fs[f] EXCEPT !.parent = p].parent = p
    BY <1>1, <1>3 DEF Placed, FolderRow
  <1>5. /\ gs \in [Folders -> FolderRow \cup {Unmade, Gone}]
        /\ gs[f].parent = p /\ gs[f].space = fs[f].space /\ gs[f] \in FolderRow
        /\ \A g \in Folders : g # f => gs[g] = fs[g]
    BY <1>3, <1>4 DEF Forest
  <1>6. HereOf(gs) = HereOf(fs) /\ \A g \in HereOf(fs) : gs[g].space = fs[g].space
    BY <1>3, <1>5 DEF HereOf, Made
  <1>7. /\ \A g : g \in DOMAIN t <=> g \in HereOf(fs) /\ fs[g].space = fs[f].space
        /\ \A g \in DOMAIN t : t[g] = fs[g].parent
        /\ IsTree(t) /\ f \in DOMAIN t
    BY <1>2, LineageIs
  <1>8. p \in DOMAIN t \cup {None} /\ p \notin Subtree(t, f)
    BY <1>2 DEF CheckMove, TreeOf
  <1>9. PICK u : u = Hung(t, f, p)
    OBVIOUS
  <1>10. /\ IsTree(u) /\ DOMAIN u = DOMAIN t /\ u[f] = p
         /\ \A g \in DOMAIN t : g # f => u[g] = t[g]
    BY <1>7, <1>8, <1>9, MovedIsATree, HungIs
  <1>11. \A g \in DOMAIN t : gs[g].parent = u[g]
    BY <1>5, <1>7, <1>10 DEF HereOf
  <1>12. \A g \in HereOf(gs) :
           gs[g].parent = None \/ (gs[g].parent \in HereOf(gs) /\ gs[gs[g].parent].space = gs[g].space)
    <2>1. ASSUME NEW g \in HereOf(fs)
          PROVE  gs[g].parent = None \/ (gs[g].parent \in HereOf(fs) /\ fs[gs[g].parent].space = fs[g].space)
      <3>1. CASE g = f
        BY <1>5, <1>7, <1>8, <3>1
      <3>2. CASE g # f
        BY <1>5, <3>2 DEF Forest, HereOf
      <3> QED BY <3>1, <3>2
    <2> QED BY <1>6, <2>1
  <1>13. ASSUME NEW S \in SUBSET HereOf(gs), S # {}, \A g \in S : gs[g].parent \in S
         PROVE  FALSE
    <2>1. CASE f \notin S
      <3>1. \A g \in S : fs[g].parent \in S
        BY <1>5, <1>6, <1>13, <2>1 DEF HereOf
      <3> QED BY <1>6, <1>13, <3>1 DEF Forest
    <2>2. CASE f \in S
      <3> DEFINE T == S \cap DOMAIN t
      <3>1. f \in T /\ T \in SUBSET DOMAIN u
        BY <1>7, <1>10, <2>2
      <3>2. ASSUME NEW g \in T
            PROVE  u[g] \in T
        <4>1. gs[g].parent = u[g] /\ u[g] \in S
          BY <1>11, <1>13
        <4>2. u[g] \in DOMAIN t
          <5>1. u[g] \in DOMAIN u \cup {None}
            BY <1>10 DEF IsTree
          <5>2. u[g] \in Folders
            BY <1>6, <4>1 DEF HereOf
          <5> QED BY <1>10, <5>1, <5>2
        <4> QED BY <4>1, <4>2
      <3> HIDE DEF T
      <3> QED BY <1>10, <3>1, <3>2 DEF IsTree
    <2> QED BY <2>1, <2>2
  <1>14. Forest(gs)
    BY <1>5, <1>12, <1>13 DEF Forest
  <1>15. Lineage(gs, fs[f].space) = u
    <2>1. PICK v : v = Lineage(gs, fs[f].space)
      OBVIOUS
    <2>2. DOMAIN v = DOMAIN u /\ \A g \in DOMAIN v : v[g] = gs[g].parent
      <3>1. /\ \A g : g \in DOMAIN v <=> g \in HereOf(gs) /\ gs[g].space = fs[f].space
            /\ \A g \in DOMAIN v : v[g] = gs[g].parent
        BY <1>14, <2>1, LineageIs
      <3>2. \A g : g \in DOMAIN v <=> g \in DOMAIN u
        BY <1>6, <1>7, <1>10, <3>1
      <3> QED BY <3>1, <3>2
    <2>3. \A g \in DOMAIN v : v[g] = u[g]
      BY <1>10, <1>11, <2>2
    <2>4. v = [g \in DOMAIN v |-> v[g]]
      BY <2>1 DEF Lineage
    <2>5. u = [g \in DOMAIN u |-> u[g]]
      <3>1. t = [g \in DOMAIN t |-> t[g]]
        BY <1>2 DEF Lineage
      <3> QED BY <1>9, <3>1 DEF Hung
    <2> QED BY <2>1, <2>2, <2>3, <2>4, <2>5
  <1>16. ASSUME NEW s, s # fs[f].space
         PROVE  Lineage(gs, s) = Lineage(fs, s)
    <2>1. \A g \in Folders : g \in HereOf(gs) /\ gs[g].space = s <=> g \in HereOf(fs) /\ fs[g].space = s
      BY <1>6
    <2>2. \A g \in HereOf(gs) : gs[g].space = s => gs[g].parent = fs[g].parent
      BY <1>5, <1>6, <1>16 DEF HereOf
    <2> QED BY <1>14, <2>1, <2>2, LineagesAre
  <1> QED BY <1>1, <1>2, <1>6, <1>9, <1>14, <1>15, <1>16 DEF TreeOf

-------------------------------------------------------------------------------
(* No step makes a folder too deep.                                         *)

(* What is asked of every folder is asked of every space's tree.            *)
LEMMA DeepIs ==
  ASSUME Inv
  PROVE  NotTooDeep <=> \A s \in Spaces : Shallow(Lineage(folders, s))
  BY InvForest, ShallowIs DEF NotTooDeep

(* So it is after a step.                                                   *)
LEMMA NextDeepIs ==
  ASSUME Inv', \A s \in Spaces : Shallow(Lineage(folders', s))
  PROVE  NotTooDeep'
  <1>1. \A f \in Here' : Depth(TreeOf(folders', f), f) <= MaxDepth
    BY NextForest, ShallowIs
  <1> QED BY <1>1 DEF NotTooDeep

(* A step that takes folders off, and puts others where their parent was.   *)
LEMMA RaisedDepth ==
  ASSUME Inv, Inv', NotTooDeep,
         \A g \in Here' :
           /\ g \in Here /\ folders'[g].space = folders[g].space
           /\ \/ folders'[g].parent = folders[g].parent
              \/ folders[g].parent \in Here /\ folders'[g].parent = folders[folders[g].parent].parent
  PROVE  NotTooDeep'
  <1>1. ASSUME NEW s \in Spaces
        PROVE  Shallow(Lineage(folders', s))
    <2>1. PICK t, u : t = Lineage(folders, s) /\ u = Lineage(folders', s)
      OBVIOUS
    <2>2. /\ \A f : f \in DOMAIN t <=> f \in Here /\ folders[f].space = s
          /\ \A f \in DOMAIN t : t[f] = folders[f].parent
          /\ IsTree(t)
      BY <2>1, InvForest, LineageIs
    <2>3. /\ \A f : f \in DOMAIN u <=> f \in Here' /\ folders'[f].space = s
          /\ \A f \in DOMAIN u : u[f] = folders'[f].parent
          /\ IsTree(u)
      <3>1. Forest(folders') /\ HereOf(folders') = Here'
        BY NextForest
      <3> QED BY <2>1, <3>1, LineageIs
    <2>4. DOMAIN u \subseteq DOMAIN t
      BY <2>2, <2>3
    <2>5. ASSUME NEW g \in DOMAIN u
          PROVE  u[g] = t[g] \/ (t[g] \in DOMAIN t /\ u[g] = t[t[g]])
      <3>1. g \in Here' /\ g \in DOMAIN t /\ u[g] = folders'[g].parent /\ t[g] = folders[g].parent
        BY <2>2, <2>3, <2>4
      <3>2. CASE folders[g].parent \in Here /\ folders'[g].parent = folders[folders[g].parent].parent
        <4>1. t[g] \in DOMAIN t \cup {None} /\ t[g] # None
          BY <2>2, <3>1, <3>2 DEF IsTree, Here
        <4> QED BY <2>2, <3>1, <3>2, <4>1
      <3> QED BY <3>1, <3>2
    <2>6. Shallow(t)
      BY <2>1, DeepIs
    <2> QED BY <2>1, <2>2, <2>3, <2>4, <2>5, <2>6, RaisedIsShallow
  <1> QED BY <1>1, NextDeepIs

(* A step that leaves the folders alone.                                    *)
LEMMA DepthsStay ==
  ASSUME NotTooDeep, UNCHANGED folders
  PROVE  NotTooDeep'
  BY DEF NotTooDeep, Here, Exists

(* A folder that moves where the check lets it.                             *)
LEMMA PlacedDepth ==
  ASSUME Inv, Inv', NotTooDeep, NEW f \in Here, NEW p \in Folders \cup {None},
         CheckMove(TreeOf(folders, f), f, p), folders' = Placed(folders, f, p)
  PROVE  NotTooDeep'
  <1>1. Forest(folders) /\ f \in HereOf(folders)
    BY InvForest
  <1>2. /\ Lineage(folders', folders[f].space) = Hung(TreeOf(folders, f), f, p)
        /\ \A s : s # folders[f].space => Lineage(folders', s) = Lineage(folders, s)
    BY <1>1, PlacedHangs
  <1>3. PICK t : t = TreeOf(folders, f)
    OBVIOUS
  <1>4. folders[f].space \in Spaces /\ \A s \in Spaces : Shallow(Lineage(folders, s))
    BY DeepIs, FolderRows DEF Inv
  <1>5. IsTree(t) /\ f \in DOMAIN t /\ Shallow(t)
    BY <1>1, <1>3, <1>4, LineageIs DEF TreeOf
  <1>6. Shallow(Hung(t, f, p))
    BY <1>3, <1>5, MovedIsShallow
  <1>7. \A s \in Spaces : Shallow(Lineage(folders', s))
    BY <1>2, <1>3, <1>4, <1>6
  <1> QED BY <1>7, NextDeepIs

(* A folder made where the check lets it.                                   *)
LEMMA CreatedDepth ==
  ASSUME Inv, Inv', NotTooDeep, NEW f \in Folders, NEW s \in Spaces, NEW p \in Folders \cup {None},
         CreateFolder(f, s, p)
  PROVE  NotTooDeep'
  <1>1. /\ f \notin Here /\ CheckChild(Lineage(folders, s), p)
        /\ Here' = Here \cup {f}
        /\ folders'[f].space = s /\ folders'[f].parent = p
        /\ \A g \in Here : folders'[g] = folders[g]
    <2>1. /\ folders[f] = Unmade /\ CheckChild(Lineage(folders, s), p)
          /\ folders' = [folders EXCEPT ![f] = [space |-> s, parent |-> p]]
      BY DEF CreateFolder
    <2>2. [space |-> s, parent |-> p] \in FolderRow
      BY DEF FolderRow
    <2>3. /\ folders'[f] = [space |-> s, parent |-> p]
          /\ \A g \in Folders : g # f => folders'[g] = folders[g]
      BY <2>1 DEF Inv, TypeOK
    <2> QED BY <2>1, <2>2, <2>3 DEF Here, Exists, Made
  <1>2. Forest(folders) /\ HereOf(folders) = Here /\ \A r \in Spaces : Shallow(Lineage(folders, r))
    BY InvForest, DeepIs
  <1>3. Forest(folders') /\ HereOf(folders') = Here'
    BY NextForest
  <1>4. ASSUME NEW r \in Spaces, r # s
        PROVE  Shallow(Lineage(folders', r))
    <2>1. \A g \in Folders : g \in HereOf(folders') /\ folders'[g].space = r
            <=> g \in HereOf(folders) /\ folders[g].space = r
      BY <1>1, <1>2, <1>3, <1>4
    <2>2. \A g \in HereOf(folders') : folders'[g].space = r => folders'[g].parent = folders[g].parent
      BY <1>1, <1>2, <1>3, <1>4
    <2>3. Lineage(folders', r) = Lineage(folders, r)
      BY <1>2, <1>3, <2>1, <2>2, LineagesAre
    <2> QED BY <1>2, <2>3
  <1>5. Shallow(Lineage(folders', s))
    <2>1. PICK t, u : t = Lineage(folders, s) /\ u = Lineage(folders', s)
      OBVIOUS
    <2>2. /\ \A g : g \in DOMAIN t <=> g \in Here /\ folders[g].space = s
          /\ \A g \in DOMAIN t : t[g] = folders[g].parent
          /\ IsTree(t) /\ Shallow(t)
      BY <1>2, <2>1, LineageIs
    <2>3. /\ \A g : g \in DOMAIN u <=> g \in Here' /\ folders'[g].space = s
          /\ \A g \in DOMAIN u : u[g] = folders'[g].parent
          /\ IsTree(u)
      BY <1>3, <2>1, LineageIs
    <2>4. DOMAIN u = DOMAIN t \cup {f} /\ u[f] = p
      BY <1>1, <2>2, <2>3
    <2>5. \A g \in DOMAIN t : u[g] = t[g]
      BY <1>1, <2>2, <2>3
    <2> QED BY <1>1, <2>1, <2>2, <2>3, <2>4, <2>5, AddedIsShallow
  <1> QED BY <1>4, <1>5, NextDeepIs

(* Every step keeps the folders shallow enough.                             *)
LEMMA DepthNext ==
  ASSUME Inv, NotTooDeep, [Next]_vars
  PROVE  NotTooDeep'
  <1>1. Inv'
    BY InvNext
  <1>2. CASE \E f \in Folders, s \in Spaces, p \in Folders \cup {None} : CreateFolder(f, s, p)
    BY <1>1, <1>2, CreatedDepth
  <1>3. CASE \E f \in Folders, p \in Folders \cup {None} : MoveFolder(f, p)
    <2>1. PICK f \in Folders, p \in Folders \cup {None} : MoveFolder(f, p)
      BY <1>3
    <2>2. f \in Here /\ folders' = Placed(folders, f, p)
      BY <2>1 DEF MoveFolder, Here
    <2>3. CASE folders[f].parent = p
      <3>1. folders[f] \in FolderRow
        BY <2>2, FolderRows DEF Here, Inv
      <3>2. [folders[f] EXCEPT !.parent = p] = folders[f]
        BY <2>3, <3>1 DEF FolderRow
      <3>3. folders' = folders
        BY <2>2, <3>2 DEF Placed, Inv, TypeOK
      <3> QED BY <3>3, DepthsStay
    <2>4. CASE folders[f].parent # p
      <3>1. CheckMove(TreeOf(folders, f), f, p)
        BY <2>1, <2>4 DEF MoveFolder
      <3> QED BY <1>1, <2>2, <3>1, PlacedDepth
    <2> QED BY <2>3, <2>4
  <1>4. CASE \E f \in Folders : DeleteFolder(f)
    <2>1. PICK f \in Folders : DeleteFolder(f)
      BY <1>4
    <2>2. PICK up : up = folders[f].parent
      OBVIOUS
    <2>3. f \in Here /\ TreeOf(folders, f)[f] = up
      BY <2>1, <2>2, TreeHasTheParents DEF DeleteFolder, Here, TreeOf, Inv, FoldersAreTrees
    <2>4. folders' = Raised(f, up)
      BY <2>1, <2>3 DEF DeleteFolder
    <2>5. /\ Here' = Here \ {f}
          /\ \A g \in Here \ {f} :
               /\ folders'[g].space = folders[g].space
               /\ folders'[g].parent = IF folders[g].parent = f THEN up ELSE folders[g].parent
      BY <2>2, <2>3, <2>4, RaisedMakesTrees DEF Inv
    <2> QED BY <1>1, <2>2, <2>3, <2>5, RaisedDepth
  <1>5. CASE \E s, target \in Spaces : DeleteSpace(s, target)
    <2>1. PICK s \in Spaces, target \in Spaces : DeleteSpace(s, target)
      BY <1>5
    <2>2. folders' = [f \in Folders |-> IF f \in Taken(s) THEN Gone ELSE folders[f]]
      BY <2>1 DEF DeleteSpace
    <2>3. Here' = Here \ Taken(s) /\ \A g \in Here' : folders'[g] = folders[g]
      BY <2>2, TakenLeavesTrees DEF Inv
    <2> QED BY <1>1, <2>3, RaisedDepth
  <1>6. CASE Undo
    <2>1. CASE Adopt \/ Dismiss
      BY <2>1, DepthsStay DEF Adopt, Dismiss, rows
    <2>2. CASE \E taken \in BOOLEAN : Revert(taken)
      <3>1. folders' = folders \/ folders' = FoldersBack(folders, last)
        BY <2>2 DEF Revert
      <3>2. CASE folders' # folders
        <4>1. PICK f, p : f = last.folder /\ p = last.parent
          OBVIOUS
        <4>2. /\ last.kind = "folder" /\ Made(folders[f])
              /\ CheckMove(TreeOf(folders, f), f, p)
              /\ folders' = Placed(folders, f, p)
          BY <3>1, <3>2, <4>1 DEF FoldersBack
        <4>3. f \in Here /\ p \in Folders \cup {None}
          BY <4>1, <4>2, WhatIsKept DEF Inv, Here, Exists
        <4> QED BY <1>1, <4>2, <4>3, PlacedDepth
      <3> QED BY <3>2, DepthsStay
    <2> QED BY <1>6, <2>1, <2>2 DEF Undo
  <1>7. CASE NoteCommand \/ TrashCommand \/ UNCHANGED vars
    <2>1. NoteCommand => UNCHANGED folders
      BY DEF NoteCommand, CreateNote, Duplicate, Attach, PatchSpace, FileNotes, MoveNotes, DeleteNotes
    <2>2. TrashCommand => UNCHANGED folders
      BY DEF TrashCommand, ListTrash, RestoreNote, PurgeNote, RestoreTrash, EmptyTrash
    <2>3. UNCHANGED vars => UNCHANGED folders
      BY DEF vars
    <2> QED BY <1>7, <2>1, <2>2, <2>3, DepthsStay
  <1> QED BY <1>2, <1>3, <1>4, <1>5, <1>6, <1>7 DEF Next, FolderCommand

(* It holds of every reachable state, with the rest.                        *)
LEMMA DepthAlways == Spec => [](Inv /\ NotTooDeep)
  <1>1. Init => NotTooDeep
    BY DEF Init, NotTooDeep, Here, Exists, Made
  <1> QED BY <1>1, InvInit, InvNext, DepthNext, PTL DEF Spec

(* No folder is ever deeper than MAX_DEPTH: not the one a command makes or  *)
(* moves, nothing it brings with it, nothing an undo puts back.             *)
THEOREM NoFolderIsTooDeep == Spec => []NotTooDeep
  BY DepthAlways, PTL

-------------------------------------------------------------------------------
(* What an undo asked at once does.                                         *)

(* The notes a deletion put in the trash come back where they were.         *)
LEMMA DeletionBack ==
  ASSUME Inv, NEW ids \in SUBSET Notes, \A n \in ids : Live(notes, n)
  PROVE  NotesBack(Deleted(ids), Deleting(ids)) = notes
  <1>1. PICK ns : ns = Deleted(ids)
    OBVIOUS
  <1>2. \A n \in Notes : ns[n] = IF n \in ids THEN [notes[n] EXCEPT !.trashed = TRUE] ELSE notes[n]
    BY <1>1 DEF Deleted
  <1>3. CASE ids = {}
    <2>1. Deleting(ids) = Nothing
      BY <1>3 DEF Deleting
    <2>2. ns = [n \in Notes |-> notes[n]]
      BY <1>1, <1>3 DEF Deleted
    <2>3. NotesBack(ns, Nothing) = ns
      BY DEF NotesBack, Nothing
    <2> QED BY <1>1, <2>1, <2>2, <2>3 DEF Inv, TypeOK
  <1>4. CASE ids # {}
    <2>1. Deleting(ids) = [kind |-> "deletion", ids |-> ids]
      BY <1>4 DEF Deleting
    <2>2. NotesBack(ns, Deleting(ids)) = Restored(ns, ids)
      BY <2>1 DEF NotesBack
    <2>3. ASSUME NEW n \in Notes
          PROVE  Restored(ns, ids)[n] = notes[n]
      <3>1. CASE n \in ids
        <4>1. notes[n] \in NoteRow /\ notes[n].trashed = FALSE
          BY <3>1, NoteRows DEF Live, Inv, NoteRow
        <4>2. PICK k : k = [notes[n] EXCEPT !.trashed = TRUE]
          OBVIOUS
        <4>3. k \in NoteRow /\ k.trashed = TRUE /\ [k EXCEPT !.trashed = FALSE] = notes[n]
          BY <4>1, <4>2 DEF NoteRow
        <4>4. ns[n] = k
          BY <1>2, <3>1, <4>2
        <4>5. InTrash(ns, n)
          BY <4>3, <4>4 DEF InTrash, IsNote, Made
        <4> QED BY <3>1, <4>3, <4>4, <4>5 DEF Restored
      <3>2. CASE n \notin ids
        BY <1>2, <3>2 DEF Restored
      <3> QED BY <3>1, <3>2
    <2>4. Restored(ns, ids) = [n \in Notes |-> notes[n]]
      BY <2>3 DEF Restored
    <2> QED BY <1>1, <2>2, <2>4 DEF Inv, TypeOK
  <1> QED BY <1>3, <1>4

(* The notes filed go back to the folders they were in.                     *)
LEMMA FilingBack ==
  ASSUME Inv, NEW ids \in SUBSET Notes, NEW f \in Here \cup {None}
  PROVE  NotesBack(Filed(ids, f), Filing(ids, f)) = notes
  <1>1. PICK ns, was, N : /\ ns = Filed(ids, f) /\ N = ToFile(ids, f)
                          /\ was = [n \in ToFile(ids, f) |-> notes[n].folder]
    OBVIOUS
  <1>2. /\ \A n \in Notes : ns[n] = IF n \in N THEN [notes[n] EXCEPT !.folder = f] ELSE notes[n]
        /\ DOMAIN was = N /\ \A n \in N : was[n] = notes[n].folder
        /\ N \subseteq Notes /\ \A n \in N : Live(notes, n)
    BY <1>1 DEF Filed, ToFile
  <1>3. NotesBack(ns, Filing(ids, f)) = FiledBack(ns, was)
    <2>1. Filing(ids, f) = [kind |-> "file", was |-> was]
      BY <1>1 DEF Filing
    <2> QED BY <2>1 DEF NotesBack
  <1>4. \A n \in N : was[n] = None \/ Exists(was[n])
    BY <1>2 DEF Inv, NoNoteIsStranded, HasAHome, Live
  <1>5. FiledBack(ns, was) =
          [n \in Notes |-> IF n \in N /\ Live(ns, n) THEN [ns[n] EXCEPT !.folder = was[n]] ELSE ns[n]]
    BY <1>2, <1>4 DEF FiledBack
  <1>6. ASSUME NEW n \in Notes
        PROVE  (IF n \in N /\ Live(ns, n) THEN [ns[n] EXCEPT !.folder = was[n]] ELSE ns[n]) = notes[n]
    <2>1. CASE n \in N
      <3>1. notes[n] \in NoteRow /\ ~notes[n].trashed
        BY <1>2, <2>1, NoteRows DEF Live, Inv
      <3>2. PICK k : k = [notes[n] EXCEPT !.folder = f]
        OBVIOUS
      <3>3. k \in NoteRow /\ ~k.trashed /\ [k EXCEPT !.folder = notes[n].folder] = notes[n]
        BY <3>1, <3>2 DEF NoteRow, Here
      <3>4. ns[n] = k
        BY <1>2, <2>1, <3>2
      <3>5. Live(ns, n)
        BY <3>3, <3>4 DEF Live, IsNote, Made
      <3> QED BY <1>2, <2>1, <3>3, <3>4, <3>5
    <2>2. CASE n \notin N
      BY <1>2, <2>2
    <2> QED BY <2>1, <2>2
  <1>7. FiledBack(ns, was) = [n \in Notes |-> notes[n]]
    BY <1>5, <1>6
  <1> QED BY <1>1, <1>3, <1>7 DEF Inv, TypeOK

Resited(row, s, f) == [row EXCEPT !.space = s, !.folder = f]

(* A note refiled is a note, and goes back.                                 *)
LEMMA ResitedIs ==
  ASSUME NEW row \in NoteRow, NEW s \in Spaces, NEW f \in Folders \cup {None}
  PROVE  /\ Resited(row, s, f) \in NoteRow
         /\ Resited(row, s, f).trashed = row.trashed
         /\ Resited(Resited(row, s, f), row.space, row.folder) = row
  BY DEF Resited, NoteRow

(* The notes moved to a space go back to theirs, and to their folders.      *)
LEMMA MovingBack ==
  ASSUME Inv, NEW ids \in SUBSET Notes, NEW s \in spaces,
         \A n \in ids : FiledInside(notes, folders, n)
  PROVE  NotesBack(Moved(ids, s), Moving(ids, s)) = notes
  <1>1. PICK N : N = ToMove(ids, s)
    OBVIOUS
  <1>2. PICK was : was = [n \in N |-> [space |-> notes[n].space, folder |-> notes[n].folder]]
    OBVIOUS
  <1>3. PICK ns : ns = Moved(ids, s)
    OBVIOUS
  <1>4. N \subseteq ids /\ N \subseteq Notes /\ \A n \in N : Live(notes, n)
    BY <1>1 DEF ToMove
  <1>5. /\ DOMAIN was = N
        /\ \A n \in N : was[n].space = notes[n].space /\ was[n].folder = notes[n].folder
    BY <1>2
  <1>6. NotesBack(ns, Moving(ids, s)) = MovedBack(ns, was)
    <2>1. Moving(ids, s) = [kind |-> "move", was |-> was]
      BY <1>1, <1>2 DEF Moving
    <2> QED BY <2>1 DEF NotesBack
  <1>7. ASSUME NEW n \in N
        PROVE  /\ was[n].space \in spaces
               /\ (IF BelongsTo(was[n].folder, was[n].space) THEN was[n].folder ELSE None) = notes[n].folder
    <2>1. HasAHome(n) /\ IsNote(notes, n) /\ FiledInside(notes, folders, n)
      BY <1>4 DEF Inv, NoNoteIsStranded, Live
    <2>2. notes[n].folder # None => BelongsTo(notes[n].folder, notes[n].space)
      BY <2>1 DEF HasAHome, FiledInside, BelongsTo
    <2> QED BY <1>5, <2>1, <2>2 DEF HasAHome
  <1>8. ASSUME NEW n \in Notes
        PROVE  MovedBack(ns, was)[n] = notes[n]
    <2>1. CASE n \in N
      <3>1. /\ notes[n] \in NoteRow /\ ~notes[n].trashed /\ s \in Spaces
            /\ notes[n].space \in Spaces /\ notes[n].folder \in Folders \cup {None}
        BY <1>4, <2>1, NoteRows DEF Live, Inv, TypeOK
      <3>2. PICK k : k = Resited(notes[n], s, None)
        OBVIOUS
      <3>3. /\ k \in NoteRow /\ ~k.trashed
            /\ Resited(k, notes[n].space, notes[n].folder) = notes[n]
        BY <3>1, <3>2, ResitedIs
      <3>4. ns[n] = k
        <4>1. ns[n] = [notes[n] EXCEPT !.space = s, !.folder = None]
          <5>1. n \in ToMove(ids, s)
            BY <1>1, <2>1
          <5>2. Moved(ids, s)[n] = [notes[n] EXCEPT !.space = s, !.folder = None]
            BY <5>1 DEF Moved
          <5> QED BY <1>3, <5>2
        <4> QED BY <3>2, <4>1 DEF Resited
      <3>5. Live(ns, n)
        BY <3>3, <3>4 DEF Live, IsNote, Made
      <3>6. PICK p, q :
              /\ p = was[n].space
              /\ q = IF BelongsTo(was[n].folder, was[n].space) THEN was[n].folder ELSE None
        OBVIOUS
      <3>7. p = notes[n].space /\ q = notes[n].folder /\ p \in spaces
        BY <1>5, <1>7, <2>1, <3>6
      <3>8. MovedBack(ns, was)[n] = [ns[n] EXCEPT !.space = p, !.folder = q]
        BY <1>5, <2>1, <3>5, <3>6, <3>7 DEF MovedBack
      <3> QED BY <3>3, <3>4, <3>7, <3>8 DEF Resited
    <2>2. CASE n \notin N
      <3>1. MovedBack(ns, was)[n] = ns[n]
        BY <1>5, <2>2 DEF MovedBack
      <3>2. ns[n] = notes[n]
        <4>1. n \notin ToMove(ids, s)
          BY <1>1, <2>2
        <4>2. Moved(ids, s)[n] = notes[n]
          BY <4>1 DEF Moved
        <4> QED BY <1>3, <4>2
      <3> QED BY <3>1, <3>2
    <2> QED BY <2>1, <2>2
  <1>9. PICK ms : ms = MovedBack(ns, was)
    OBVIOUS
  <1>10. \A n \in Notes : ms[n] = notes[n]
    BY <1>8, <1>9
  <1>11. ms = [n \in Notes |-> ms[n]]
    <2>1. \E r : MovedBack(ns, was) = [n \in Notes |-> r[n]]
      <3>1. MovedBack(ns, was) = [n \in Notes |-> MovedBack(ns, was)[n]]
        BY Zenon DEF MovedBack
      <3> QED BY <3>1
    <2> QED BY <1>9, <2>1
  <1>12. ms = notes
    BY <1>10, <1>11 DEF Inv, TypeOK
  <1> QED BY <1>3, <1>6, <1>9, <1>12

(* A folder moved goes back to its parent, and the tree is what it was.     *)
LEMMA FolderBack ==
  ASSUME Inv, NotTooDeep, NEW f \in Here, NEW p \in Here \cup {None},
         CheckMove(TreeOf(folders, f), f, p)
  PROVE  FoldersBack(Placed(folders, f, p), MovingFolder(f)) = folders
  <1>1. PICK gs, q : gs = Placed(folders, f, p) /\ q = folders[f].parent
    OBVIOUS
  <1>2. Forest(folders) /\ f \in HereOf(folders) /\ p \in Folders \cup {None}
    BY InvForest DEF Here
  <1>3. /\ HereOf(gs) = HereOf(folders) /\ gs[f].space = folders[f].space
        /\ Lineage(gs, folders[f].space) = Hung(TreeOf(folders, f), f, p)
    BY <1>1, <1>2, PlacedHangs
  <1>4. PICK t : t = TreeOf(folders, f)
    OBVIOUS
  <1>5. TreeOf(gs, f) = Hung(t, f, p)
    BY <1>3, <1>4 DEF TreeOf
  <1>6. IsTree(t) /\ f \in DOMAIN t /\ t[f] = q
    BY <1>1, <1>2, <1>4, LineageIs DEF TreeOf
  <1>7. Shallow(t)
    <2>1. folders[f].space \in Spaces
      BY FolderRows DEF Inv
    <2> QED BY <1>4, <2>1, DeepIs DEF TreeOf
  <1>8. CheckMove(TreeOf(gs, f), f, q)
    BY <1>4, <1>5, <1>6, <1>7, MovesBack
  <1>9. MovingFolder(f) = [kind |-> "folder", folder |-> f, parent |-> q]
    BY <1>1 DEF MovingFolder
  <1>10. Made(gs[f])
    BY <1>2, <1>3 DEF HereOf
  <1>11. FoldersBack(gs, MovingFolder(f)) = Placed(gs, f, q)
    BY <1>8, <1>9, <1>10 DEF FoldersBack
  <1>12. Placed(gs, f, q) = folders
    <2>1. folders[f] \in FolderRow /\ f \in Folders
      BY FolderRows DEF Here, Inv
    <2>2. PICK k : k = [folders[f] EXCEPT !.parent = p]
      OBVIOUS
    <2>3. [k EXCEPT !.parent = q] = folders[f]
      BY <1>1, <2>1, <2>2 DEF FolderRow
    <2>4. gs = [folders EXCEPT ![f] = k]
      BY <1>1, <2>2 DEF Placed
    <2>5. gs[f] = k
      BY <2>1, <2>4 DEF Inv, TypeOK
    <2>6. Placed(gs, f, q) = [gs EXCEPT ![f] = folders[f]]
      BY <2>3, <2>5 DEF Placed
    <2> QED BY <2>1, <2>4, <2>6 DEF Inv, TypeOK
  <1> QED BY <1>1, <1>11, <1>12

(* Put back at once, a deletion, a filing, a move of notes or of a folder   *)
(* leaves the notes and the folders as they were, in every reachable state: *)
(* the folder's check lets it go back, since what it left was deep enough.  *)
THEOREM UndoAlwaysPutsBack == Spec => []UndoPutsBack
  <1>1. Inv /\ NotTooDeep => UndoPutsBack
    BY DeletionBack, FilingBack, MovingBack, FolderBack DEF UndoPutsBack
  <1> QED BY <1>1, DepthAlways, PTL
===============================================================================
