----------------------------- MODULE NotesIndex -----------------------------
(***************************************************************************)
(* NoteIndex: the live notes of the open library, decrypted, in memory.    *)
(* An unlock starts it and spawns a fill, a tokio task that reads one      *)
(* slice per job of the db thread, newest notes first; writes refresh what *)
(* they touched, a corpus-wide one clears everything; a list answers with  *)
(* what is in while a fill runs, and reads the rest itself otherwise.      *)
(*                                                                         *)
(* A job of the db thread is one step: it holds the library and the index. *)
(* Between two jobs of a fill come the jobs of the interface, and a fill   *)
(* outlives the library it began in: only its own steps off the db thread, *)
(* which tell and give up, are not jobs.                                   *)
(***************************************************************************)
EXTENDS Naturals, FiniteSets

CONSTANTS
  Notes,       \* the ids of the notes
  Instants,    \* what updated_at can be
  Texts,       \* what a note can say
  Slice,       \* SLICE: the notes a job of a fill reads
  MaxUnlocks,  \* bound: unlocks in a life of the process
  Faults,      \* where SQLite may answer an error
  Gone,        \* no live row: never created, in the trash or purged; no entry
  NoCursor,    \* nothing read yet
  Uncounted    \* no facets counted

ASSUME IdAssumption == Notes \subseteq Nat /\ Instants \subseteq Nat
ASSUME SliceAssumption == Slice \in Nat \ {0} /\ MaxUnlocks \in Nat

Row == [at : Instants, text : Texts]
Cursor == [at : Instants, id : Notes]
Rows == [Notes -> Row \cup {Gone}]
NoRows == [n \in Notes |-> Gone]

ASSUME SentinelAssumption ==
  Gone \notin Row /\ NoCursor \notin Cursor /\ Uncounted \notin Rows
ASSUME FaultAssumption ==
  Faults \subseteq {"announce", "start", "slice", "mapLess", "answer"}

(* Library numbers start at 1; 0 is no library.                            *)
None == 0
Numbers == 0 .. MaxUnlocks
Fills == 1 .. MaxUnlocks
Alive == {"start", "slice", "tell", "failed"}
Stages == Alive \cup {"none", "ready", "done"}

Index ==
  [library : Numbers, entries : Rows, next : Cursor \cup {NoCursor},
   complete : BOOLEAN, filling : BOOLEAN, counted : Rows \cup {Uncounted}]

VARIABLES
  open,    \* the number of the library in the Db mutex, or None
  opened,  \* the last library number drawn
  rows,    \* the live notes of the open library, as SQLite holds them
  index,   \* the NoteIndex
  fills,   \* where each unlock's fill is
  unanswered \* history: the notes of the open library whose last write
             \* committed and answered an error, before the index was told

vars == <<open, opened, rows, index, fills, unanswered>>

TypeOK ==
  /\ open \in Numbers /\ opened \in Numbers
  /\ rows \in Rows
  /\ index \in Index
  /\ fills \in [Fills -> Stages]
  /\ unanswered \subseteq Notes

(* Started on the library `lib`, and nothing read yet.                     *)
Blank(lib) ==
  [library |-> lib, entries |-> NoRows, next |-> NoCursor,
   complete |-> FALSE, filling |-> FALSE, counted |-> Uncounted]

Cleared == Blank(None)

Init ==
  /\ open = None /\ opened = 0
  /\ rows = NoRows
  /\ index = Cleared
  /\ fills = [f \in Fills |-> "none"]
  /\ unanswered = {}

-----------------------------------------------------------------------------
(* Reading the library into an index.                                      *)

(* Mutant: an index started is an index being filled. *)
StartedFilling(ix, lib) ==
  IF ix.library = lib THEN ix ELSE [Blank(lib) EXCEPT !.filling = TRUE]

(* NoteIndex::start on the library numbered `lib`.                         *)
Started(ix, lib) ==
  IF ix.library = lib THEN ix ELSE Blank(lib)

(* The order of store::newest: updated_at falling, then id rising.         *)
Newer(n, m) ==
  \/ rows[n].at > rows[m].at
  \/ rows[n].at = rows[m].at /\ n < m

(* Mutant: a note as old as the last one read is taken for read. *)
BeyondByInstant(n, c) == c = NoCursor \/ rows[n].at < c.at

(* Its keyset: the live note `n` comes after the cursor `c`.               *)
Beyond(n, c) ==
  \/ c = NoCursor
  \/ rows[n].at < c.at
  \/ rows[n].at = c.at /\ n > c.id

Rest(ix) == {n \in Notes : rows[n] # Gone /\ Beyond(n, ix.next)}

(* The beginnings of what is left to read.                                 *)
Prefixes(ix) ==
  {s \in SUBSET Rest(ix) : \A n \in s, m \in Rest(ix) \ s : Newer(n, m)}

(* LIMIT Slice: full, unless it reaches the end.                           *)
Slices(ix) ==
  {s \in Prefixes(ix) :
     Cardinality(s) = Slice \/ (Cardinality(s) < Slice /\ s = Rest(ix))}

(* Where the next slice starts, once `s` is read: after its last note.     *)
Cursors(ix, s) ==
  IF s = {} THEN {ix.next}
  ELSE {[at |-> rows[n].at, id |-> n] :
          n \in {l \in s : \A m \in s : m = l \/ Newer(m, l)}}

(* `ix` once the notes of `s` are read, the last of them at `c`.           *)
With(ix, s, c, whole) ==
  [ix EXCEPT !.entries = [n \in Notes |-> IF n \in s THEN rows[n] ELSE @[n]],
             !.next = c,
             !.complete = whole,
             !.filling = @ /\ ~whole,
             !.counted = Uncounted]

(* NoteIndex::next_slice: what it may leave of `ix`.                       *)
NextSlice(ix) ==
  IF ix.complete \/ ix.library # open
  THEN {ix}
  ELSE UNION {{With(ix, s, c, Cardinality(s) < Slice) : c \in Cursors(ix, s)} :
                s \in Slices(ix)}

(* NoteIndex::ready: every slice up to the end.                            *)
Whole(ix) ==
  IF ix.complete
  THEN {ix}
  ELSE {With(ix, Rest(ix), c, TRUE) : c \in Cursors(ix, Rest(ix))}

(* NoteIndex::ready cut short by an error: whole slices, never the end.    *)
CutShort(ix) ==
  IF ix.complete
  THEN {}
  ELSE {ix} \cup
       UNION {{With(ix, s, c, FALSE) : c \in Cursors(ix, s)} :
                s \in {p \in Prefixes(ix) : p # {} /\ Cardinality(p) % Slice = 0}}

(* NoteIndex::enough_to_list: a first slice while a fill brings the rest.  *)
EnoughToList(ix) ==
  IF ~ix.filling THEN Whole(Started(ix, open))
  ELSE IF ix.entries = NoRows THEN NextSlice(ix) ELSE {ix}

(* NoteIndex::facets: counted once, until a note changes.                  *)
Counted(ix) ==
  IF ix.counted = Uncounted THEN [ix EXCEPT !.counted = ix.entries] ELSE ix

-----------------------------------------------------------------------------
(* The gate: jobs that open and close the library.                         *)

(* Mutant: the number is drawn twice. *)
InstallNextNumber(r) ==
  /\ opened < MaxUnlocks
  /\ opened' = opened + 1
  /\ IF open = None THEN open' = opened' + 1 /\ rows' = r ELSE UNCHANGED <<open, rows>>

(* unlock_vault, create_vault: the library opened, one of its own number,  *)
(* unless one already is ("a second unlock is a race: keep the first").    *)
Install(r) ==
  /\ opened < MaxUnlocks
  /\ opened' = opened + 1
  /\ IF open = None THEN open' = opened' /\ rows' = r ELSE UNCHANGED <<open, rows>>

(* ... then announced in the same job, and its fill spawned.               *)
Unlock(r) ==
  /\ Install(r)
  /\ index' = [Started(index, open') EXCEPT !.filling = TRUE]
  /\ fills' = [fills EXCEPT ![opened'] = "start"]
  /\ UNCHANGED unanswered

(* announce fails: the library stays open, but nothing fills its index.    *)
UnlockUnannounced(r) ==
  /\ "announce" \in Faults
  /\ Install(r)
  /\ index.library # open'
  /\ index' = Cleared
  /\ UNCHANGED <<fills, unanswered>>

(* Mutant: the index is left as it is. *)
CloseKeepingIndex ==
  /\ open' = None
  /\ rows' = NoRows
  /\ unanswered' = {}
  /\ UNCHANGED <<opened, index, fills>>

(* open_library, restore_backup: the Db emptied, let_go_of_the_network.    *)
Close ==
  /\ open' = None
  /\ rows' = NoRows
  /\ index' = Cleared
  /\ unanswered' = {}
  /\ UNCHANGED <<opened, fills>>

-----------------------------------------------------------------------------
(* The fill of the unlock `f`.                                             *)

At(f, stage) == fills[f] = stage
Goes(f, stage) == fills' = [fills EXCEPT ![f] = stage]

(* The first job: the count, and start again.                              *)
FillStart(f) ==
  /\ At(f, "start") /\ open # None
  /\ index' = Started(index, open)
  /\ Goes(f, "slice")
  /\ UNCHANGED <<open, opened, rows, unanswered>>

(* What next_slice answers: there is more to read.                         *)
ReadsOn == index.library = open /\ ~index.complete /\ ~index'.complete

(* A job for each slice.  The index may by then be that of another library.*)
FillSlice(f) ==
  /\ At(f, "slice") /\ open # None
  /\ index' \in NextSlice(index)
  /\ Goes(f, IF ReadsOn THEN "tell" ELSE IF index'.complete THEN "ready" ELSE "done")
  /\ UNCHANGED <<open, opened, rows, unanswered>>

(* What makes it give up: the library is closed, ...                       *)
FillLocked(f) ==
  /\ fills[f] \in {"start", "slice"} /\ open = None
  /\ Goes(f, "failed")
  /\ UNCHANGED <<open, opened, rows, index, unanswered>>

(* ... the count or the decorations cannot be read, ...                    *)
FillStartFails(f) ==
  /\ "start" \in Faults
  /\ At(f, "start") /\ open # None
  /\ index' \in {index, IF index.library = open THEN index ELSE Cleared}
  /\ Goes(f, "failed")
  /\ UNCHANGED <<open, opened, rows, unanswered>>

(* ... nor a slice, ...                                                    *)
FillSliceFails(f) ==
  /\ "slice" \in Faults
  /\ At(f, "slice") /\ open # None
  /\ ~index.complete /\ index.library = open
  /\ Goes(f, "failed")
  /\ UNCHANGED <<open, opened, rows, index, unanswered>>

(* ... or, all of it read, the file cannot be mapped less.                 *)
FillMapLessFails(f) ==
  /\ "mapLess" \in Faults
  /\ At(f, "slice") /\ open # None
  /\ index' \in NextSlice(index)
  /\ ~ReadsOn
  /\ Goes(f, "failed")
  /\ UNCHANGED <<open, opened, rows, unanswered>>

(* IndexProgress, then the next slice; or IndexReady, and the end.         *)
Tell(f) ==
  /\ \/ At(f, "tell") /\ Goes(f, "slice")
     \/ At(f, "ready") /\ Goes(f, "done")
  /\ UNCHANGED <<open, opened, rows, index, unanswered>>

(* Mutant: nothing says the fill has ended. *)
GiveUpSilently(f) ==
  /\ At(f, "failed")
  /\ Goes(f, "done")
  /\ UNCHANGED <<open, opened, rows, index, unanswered>>

(* give_up: off the db thread, between any two of its jobs.                *)
GiveUp(f) ==
  /\ At(f, "failed")
  /\ index' = [index EXCEPT !.filling = FALSE]
  /\ Goes(f, "done")
  /\ UNCHANGED <<open, opened, rows, unanswered>>

-----------------------------------------------------------------------------
(* Writes: Engine::write.                                                  *)

(* Any notes written: created, edited, filed, trashed, restored, purged.   *)
(* updated_at moves or not, and follows a clock that may be put back.      *)
Commit(changed, new) ==
  /\ open # None
  /\ rows' = [n \in Notes |-> IF n \in changed THEN new[n] ELSE rows[n]]
  /\ UNCHANGED <<open, opened, fills>>

(* Mutant: what is no longer live stays in the index. *)
RefreshedInserting(changed, new) ==
  [index EXCEPT !.entries =
                  [n \in Notes |-> IF n \in changed /\ new[n] # Gone THEN new[n] ELSE @[n]],
                !.counted = IF changed = {} THEN @ ELSE Uncounted]

(* NoteIndex::refresh of the notes named.                                  *)
Refreshed(changed, new) ==
  [index EXCEPT !.entries = [n \in Notes |-> IF n \in changed THEN new[n] ELSE @[n]],
                !.counted = IF changed = {} THEN @ ELSE Uncounted]

(* A write that names its notes, the index refreshed once it has committed.*)
Write(changed, new) ==
  /\ Commit(changed, new)
  /\ index' = IF index.library = open THEN Refreshed(changed, new) ELSE index
  /\ unanswered' = unanswered \ changed

(* A corpus-wide write, Changed::everything; or a refresh that failed.     *)
WriteClearing(changed, new) ==
  /\ Commit(changed, new)
  /\ index' = IF index.library = open THEN Cleared ELSE index
  /\ unanswered' = {}

(* A write whose job fails after its commit: `display` reads again what    *)
(* the answer shows, and its error leaves before the refresh.              *)
WriteUnanswered(changed, new) ==
  /\ "answer" \in Faults
  /\ Commit(changed, new)
  /\ unanswered' = IF index.library = open THEN unanswered \cup changed ELSE unanswered
  /\ UNCHANGED index

-----------------------------------------------------------------------------
(* Reads.                                                                  *)

(* query_notes: the list and the palette, with the facets of the space.    *)
List ==
  /\ open # None
  /\ \E ix \in EnoughToList(index) : index' = Counted(ix)
  /\ UNCHANGED <<open, opened, rows, fills, unanswered>>

(* board_view, list_tags: never from part of the index.                    *)
Board ==
  /\ open # None
  /\ \E ix \in Whole(Started(index, open)) : index' = Counted(ix)
  /\ UNCHANGED <<open, opened, rows, fills, unanswered>>

(* SQLite fails a read: on the decorations, or on one of the slices.       *)
ReadFails ==
  /\ open # None
  /\ \/ "start" \in Faults /\ index.library # open /\ index' = Cleared
     \/ "slice" \in Faults /\ index' \in CutShort(Started(index, open))
  /\ UNCHANGED <<open, opened, rows, fills, unanswered>>

FillStep(f) ==
  \/ FillStart(f) \/ FillSlice(f) \/ Tell(f) \/ GiveUp(f)
  \/ FillLocked(f) \/ FillStartFails(f) \/ FillSliceFails(f) \/ FillMapLessFails(f)

Next ==
  \/ \E r \in Rows : Unlock(r) \/ UnlockUnannounced(r)
  \/ Close
  \/ \E f \in Fills : FillStep(f)
  \/ \E changed \in SUBSET Notes : \E new \in [changed -> Row \cup {Gone}] :
       Write(changed, new) \/ WriteClearing(changed, new) \/ WriteUnanswered(changed, new)
  \/ List \/ Board \/ ReadFails

Spec == Init /\ [][Next]_vars
-----------------------------------------------------------------------------
(* What a reader of the index may rely on.                                 *)

(* The facets counted are those of the entries there are now.              *)
FacetsCurrent == index.counted # Uncounted => index.counted = index.entries

(* Never stale: an entry is the live row of its note, as last committed,   *)
(* whatever slices, writes and switches of library came in between, but    *)
(* for a write that committed and answered an error, until the next one;   *)
(* and the facets are those of the entries.                                *)
NeverStale ==
  /\ FacetsCurrent
  /\ index.library = open =>
       \A n \in Notes \ unanswered :
         index.entries[n] # Gone => index.entries[n] = rows[n]

(* Nothing skipped: a live note the index lacks is still to come, after    *)
(* the cursor, though notes move across it while the slices are read.      *)
NothingSkipped ==
  index.library = open =>
    \A n \in Notes \ unanswered :
      rows[n] # Gone /\ index.entries[n] = Gone => ~index.complete /\ Beyond(n, index.next)

(* No decrypted note outlives its library: the index holds the open one's, *)
(* or nothing at all.                                                      *)
NothingOutlivesItsLibrary ==
  index.library # open => index = Cleared

(* A list answers from part of the index only while some fill is still to  *)
(* read the rest, or to say that it gives up.                              *)
PartOnlyWhileFilling ==
  index.filling /\ ~index.complete => \E f \in Fills : fills[f] \in Alive
=============================================================================
