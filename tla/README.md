# DevNotes in TLA+

Specifications, model-checking runs and machine-checked proofs for DevNotes, a desktop application
of encrypted notes with a REST client beside them (`crates/engine` is its core, `crates/ui` its
interface). `PROJECT.json` lists the components, the runs, the hazards and, for every definition,
the lines it stands for; this file says how they fit together. Paths below are relative to
`src/crates/engine/src/` unless they say otherwise.

## The system and what is hard in it

DevNotes is one process. Its interface draws frames on a thread of its own and never waits: it hands
its work to the core through three queues (`src/crates/ui/src/backend.rs`) and polls the answers.
What touches the database goes through **one db thread**, a job at a time in the order sent
(`db/queue.rs`); the network and the filling of the notes index run on tokio and come back to the db
thread for every read or write.

| component | state it keeps | operations | what makes it correct |
|---|---|---|---|
| vault and gate (`vault.rs`, `vault/`) | `vault.json`: the library key wrapped under a passphrase | create, unlock, change of passphrase, `vault_state` | no key is ever lost; a new phrase retires the old ones; the gate always has a way out |
| rolling copies (`backup.rs`, `backup/copies.rs`) | `backups/`, `replaced/` | rotate at launch, list, restore, rewrap | a copy that opens is not lost to a rotation; a restore that fails puts back what it moved |
| recovery (`recovery.rs`) | `damaged/`, `archived/` | set aside a damaged or a forgotten library | nothing is deleted; the next library starts on a clean directory |
| attachments (`attachments/`) | sealed files, their records | store, delete, the orphan sweep | a record's file stays; only what no record claims is swept |
| launch sweep (`lib.rs`) | - | copy, expired trash, history, orphans, decrypted copies | in this order, on the library just opened |
| notes, trash, revisions (`notes/`) | rows of SQLite, sealed | create, edit, move, trash, restore, purge | one transaction each; a live note is never purged, a purged one leaves no file |
| spaces and folders (`spaces/`, `folders/`) | trees of bounded depth, notes filed in them | create, move, file, delete, each move with its undo | always trees; no note is left where nothing shows it |
| notes index (`index.rs`) | the live notes, decrypted, in memory | fill by slices, refresh after a write, clear | never stale for the library open |
| HTTP (`http.rs`, `http/`) | sends, runs, sockets; history, cookies, environments | send, cancel, run, connect | nothing is written to a library other than the one a send began in |
| libraries (`libraries/`) | the registry | create, open, rename, delete | the open library is never deleted |
| interface (`src/crates/ui/src/state`) | queries, drafts, undo, the trash panel | ask, adopt, save, put back | no stale answer replaces a newer one; a draft is created once and what was left of it is what is kept |

What is hard: a file operation cut short by a crash or an error between two renames; folders that
outlive the library they came from; jobs, frames and tokio tasks interleaving; answers that arrive
after what they answer has changed. The `hazards` of `PROJECT.json` place each at its line.

## Modules

| module | models |
|---|---|
| `LibraryFiles` | one library on disk and every operation that writes, copies or moves its files |
| `NotesLedger` | the abstract promise: a record is held until it is purged |
| `MCLibraryFiles` | the small instances and the sets of steps that may fail |
| `LibraryFilesProofs`, `LibraryFilesLedgerProofs`, `LibraryFilesCopiesProofs` | the theorems about it: what is kept; the ledger; the copies, restores, changes of passphrase and attachments |
| `NotesIndex` | the index of the open library: fills, writes, reads, unlocks and closings, a job a step |
| `NotesIndexProofs` | the theorems about it |
| `NotesList`, `NotesListProofs` | the interface over that index: the db queue, the frames, the events and answers, the list shown |
| `HttpSends`, `HttpSendsProofs` | the sends and the runs of the REST client: tokio tasks between db jobs, cancels and libraries left |
| `NoteEditor`, `NoteEditorProofs` | the editor of the interface: drafts, their creation, what is left and saved, formatting, the window's close |
| `Notebook`, `NotebookProofs` | spaces, folders, notes, trash and the one undo, as the commands of the interface change them |
| `MCNotesIndex`, `MCNotesList`, `MCHttpSends`, `MCNoteEditor`, `MCNotebook` | their small instances |

`NotesList` extends `NotesIndex`, and `LibraryFiles` implements `NotesLedger`; the others share no state.
What joins them in the code is the db thread, which each takes as given: a job is a step.

### LibraryFiles

`live` is the library's own directory: whether the database is there, the records in it, the key file
and the names in `attachments/`. `copies` is `backups/`, newest first; `asides` are the folders of
`replaced/`, `damaged/` and `archived/`. `sound` stands for `PRAGMA quick_check`, `young` for "the
newest copy is less than `MIN_AGE` old". In the process, `open` is the key of the library in the `Db`
mutex, `step` the point the db thread has reached in the operation it runs, and `at`, `item`, `wrap`,
`left`, `aside`, `moved` its local variables.

An operation is a chain of actions, one per call of the file system: a rotation is `MakeCopy`,
`Vacuum`, `CopyKeyOut`, `FillKeyOut`, `LinkOut`, `Prune`; a restore is `StartRestore`, `MoveDb`,
`MoveKey`, `MoveFiles`, `CopyDb`, `FillDb`, `CopyKey`, `FillKey`, `LinkBack`, or from any of them
`Abandon` and then `put_back`, as `Drop` and `Return` for each name and `PutBackEnds`; a set-aside is
`SetDb`, `SetKey`, `SetFiles`. `std::fs::copy` is two steps, with a torn file between them; a staged
rename (`write_wrapped`) is one. The operations never interleave, because all of them run on the db
thread: what can come between two steps is `Crash`, at the steps in `Crashes`, or an error, at the
steps in `Faults`. The transaction of a SQLite write is one step.

An item stands for an attachment, its record and its note. A master key is fresh when it is drawn
(`Vault::random`); `seal` remembers the one each item was sealed under, which is how the model knows
what a key file opens. A wrong passphrase changes nothing and is no step.

`MaxCopies` bounds the copies when a rotation starts and `MaxAsides` the folders when a library is
moved aside; they only keep the state finite. `Keep` is `KEEP`, which is 3 in the code.

### NotesLedger

The ledger holds a set of records; one is added once, and leaves only by a purge. `LibraryFiles`
implements it with `held` mapped to the records found both in a database outside `backups/` and under
a key still wrapped outside `backups/`: a restore, a set-aside, a rotation or a crash is a stutter.

### NotesIndex

`open` and `opened` are the library in the `Db` mutex and the last number drawn for one; `rows` are its
live notes as SQLite holds them, `index` the `NoteIndex` (`entries`, the cursor `next`, `complete`,
`filling`, the cached facets as the entries they were counted from). `fills` gives where the fill of
each unlock is, since a fill outlives its library.

A job of the db thread holds the library and the index, and is one step: `Unlock` (install, then
announce), `Close`, `FillStart`, `FillSlice`, `Write` and `WriteClearing` (`Engine::write`, the refresh
with the commit), `List`, `Board`. The fill's own steps off the db thread are `Tell` and `GiveUp`, and
come between any two jobs. A slice is defined by the order and the keyset of `store::newest`, on the
rows of that moment: `Slices` are the beginnings of what lies beyond the cursor, full unless they reach
the end, so the ties at a cursor and a last slice exactly full are in the model. A write changes any
notes to anything, `updated_at` included, which a note put back or a clock set back makes possible;
`Gone` is a note that is not live, whether it was never made, is in the trash or was purged. `Faults`
names where SQLite may answer an error; `"answer"` is an error between a commit and the refresh, after
which the code leaves the index alone (`notes.rs:216`). `unanswered` remembers, for the properties only,
the notes such a write changed: they are the one exception of `NeverStale` and `NothingSkipped`, until
they are written again or the library is.

### NotesList

`NotesList` extends `NotesIndex` and takes its actions as what the jobs do. `queue` is the db queue,
first in, first out. The UI thread sends lists, writes and leaves to it; an unlock is given to a task
that sends it in its own time, and so is each job of a fill. `gate`, `canvas`, `write` and `undo` are
the `Gate`, the list's `QueryCell`, the write whose answer is awaited and the library of the write the
undo bar offers; `inbox` holds the events not drained, `woken` says that a repaint is requested. A call
goes through `spawned` (an unlock), `queued`, `ran` and `arrived`: its answer travels by a task of its
own, so answers and events overtake one another. `Frame` is one call of `logic`: it drains the events,
adopts what the gate awaits, resets what belongs to a library (`Scope`), adopts the write, then adopts
the list's answer or drops it and asks again. Of a list's parameters only the revision is kept: the
others (search, filters, day) change the question the same way.

### HttpSends

A task is one call of `send_http_request` or `run_http_collection`, and a step is a db job or what it
does between two awaits. A flight reads the request and the number of the library (`Prepare`), runs the
scripts before in a host that a cancel can kill (`StartHost`, `HostEnds`), writes what they changed
(`Write`), composes, spawns the request (`Compose`), registers it under its id (`Register`), joins it
(`Joined`), goes through the scripts after and the extractions, and keeps history and jar (`Keep`). A
run is a loop around flights: `ReadTree`, `StartRun`, `Check`, `GetRequest`, `Result`, `Wait`,
`Finish`. `runs`, `running` and `hosts` are `Runs.running`, `Sending.running` and `Sending.hosts`, keyed
by ids; `asked` the counters those ids are drawn from, which start over with each library, so two tasks
may bear one id. `LetGo` and `Leave` are the two halves of the job that leaves a library: tasks go on
between and after them. `told` and `late` count, for the properties, what leaves after a cancel.

### NoteEditor

`open` is `EditorState.open`, `creating` the drafts being written with what was left meanwhile, `held`
the bodies held back by the formatter, `view` the field. The user's actions are between two frames
(`NewNote`, `OpenNote`, `Type`, `Blur`, `Close`, `Mark`, `Convert`, `Drop`, `ShowArea`, `Quit`); `RunJob`
runs the head of the db queue or refuses it; the actions of `Frame` adopt the answers, in any order. A
note is one text and one mark, for each of the fields the editor sends and for what changes a draft in
place. `open.behind` says that another area is shown, by its key or the palette: the editor stays open
there, read and written to, and only what a frame draws of it waits - its field, and its closing. The
palette also opens a note over the one open, as a new one does, and both bring the notes back.
`left` is the history the properties need: what may have been left last in the fields of each note.

### Notebook

`folders` and `notes` map each id to its row, to `Unmade` or to `Gone`; ids are random and never given
twice. `Lineage` is the tree the code builds of one space's rows, `CheckChild` and `CheckMove` are
`check_child` and `check_move` over it. Each batch write has three operators: what it touches
(`ToFile`, `ToMove`), what it makes of the rows (`Filed`, `Moved`, `Deleted`), and the record it answers
(`Filing`, `Moving`, `Deleting`, `MovingFolder`), which `NotesBack` and `FoldersBack` put back on the
rows there are *by then*. Commands are transactions of the db thread, one step each. `coming` is the
answer no frame has adopted, `last` the record Ctrl+Z reads, `listed` the trash panel as last loaded:
the steps that act on stale knowledge are the undo and the panel's rows. `files` is what is in
`attachments/`, at most one for a note.

## Runs

| run | shows |
|---|---|
| `LibraryFiles_interrupted` | with a crash at every step and an error at every step but a rename of `put_back`: `RowsKept`, `KeysKept`, `PutBackRestores`, `RestoreLeavesALibrary`, `ACopyRemains`, `ChangeRetiresEveryPhrase`, and that the files implement the ledger |
| `LibraryFiles_losses` | with a damaged database or a lost key file, and outside the window between a database going aside and its attachments following, nothing costs a record its file |
| `LibraryFiles_rewrap` | *violated*: a change of passphrase writes the new library's key into the copies of the old one |
| `NotesIndex_kept` | with every read and every job failing, before its commit or after: no entry stale and no note skipped but those of a write that was not answered, nothing kept of a library closed, part of an index served only while a fill is under way |
| `NotesList_whole` | at rest the list is the whole library, and never a part again once it was whole |
| `NotesList_faults` | whatever fails, at rest the list answers what is wanted now, of the library open |
| `NotesList_live` | the gate and the engine agree at rest, and a library opened is shown whole in the end |
| `HttpSends_calls` | a send and a run, cancelled or left behind at any step: written only where read, the running set exact, what was answered kept, what a cancel hit kept in, and every send and every cancelled run ends |
| `NoteEditor_kept` | drafts written, left, marked, converted, given a file, formatted, refused: created once, settled on what was left, the note shown current, and the window closes if the notes are always shown again |
| `Notebook_trees` | folders of two spaces made, moved, deleted and put back: always trees, never too deep, no note stranded, and only the undo of a filing files a note across spaces |
| `Notebook_kept` | two notes moved, copied, trashed, put back and purged from stale rows: a live note is never purged, no file outlives its note, and a write put back at once leaves all as it was |
| `Notebook_purge` | *violated*: a row of the trash panel purged after its note was restored takes the files of a live note |

The two violations are disagreements between the code and its own comments or documents; `findings`
quotes both sides.

### Other disagreements met while modelling

No run shows these. Those of a module can be seen by changing one constant, or by checking the property
that is named.

The files and the index:

- `backup/copies.rs:222`: `put_back` ignores a rename that fails (against 197). With a crash-free
  `LibraryFiles` and `Faults <- CopyAndReturn`, `RestoreLeavesALibrary` is violated.
- `backup/copies.rs:191`: `replace` only notes whether `attachments/` could be renamed. When it could
  not, the files added since the copy stay beside a database without their records, and the next sweep
  deletes them (the comment at 156-157 calls them "kept aside, not lost"). `LibraryFiles_losses` with
  `Faults <- MoveFilesOnly` violates `FilesKept`.
- `recovery.rs:94`: `set_aside` moves the database first and does not bring it back when `attachments/`
  cannot follow; the fresh library's sweep deletes them (against 58-59). The same run with
  `Faults <- SetFilesOnly`.
- `recovery.rs:89`: an archive whose key file cannot be renamed leaves a key file and no database: the
  gate asks for the forgotten phrase, a retry finds nothing to set aside, and creating is refused.
- `notes.rs:216`: a job that fails after its commit leaves the index with the entry of before, until the
  note is written again; the module's own words (`lib.rs:74-76`) are that a write refreshes what it touched.
- `index.rs:433`: a fill that gives up emits no event, so a list already answered from the first slice
  is not asked again (`src/crates/ui/src/app.rs:335` expects it to be). `NotesList_whole` with
  `Faults <- SliceFault` violates `QuietMeansWhole`.
- `index.rs:456`: a fill goes on in the next library, as `next_slice` compares the index's library and
  not the fill's with the one open (422-423: "or another library was opened meanwhile"). The index stays
  sound, and `NotesIndex_kept` checks so; only the progress told is wrong.
- `index.rs:280`: lists asked during a fill are answered from the slices that are in
  (`docs/architecture.md:6206-6208` says that they finish the fill first).
- `src/crates/ui/src/gate/mod.rs:230`: adopting an unlock resets what the gate knew of the index, also
  when the end of the fill was heard in the frame before (`docs/architecture.md:4626-4627`).
- `src/crates/ui/src/state/mod.rs:1992`: `reset_library_scope` leaves the awaited writes: one answered
  with the leave that follows it is offered for undo in the next library.
- `libraries.rs:47`: `open_library` closes the library before the registry is written; if that fails,
  the interface stays open over none. `NotesList_live` with `RegistryFails = TRUE` violates
  `GateFollowsTheEngine`.

The sends:

- `HttpSends!RunIsKnown`: run ids start over with each library
  (`src/crates/ui/src/state/http/runner.rs:389-390`), and a run that goes on after its library was left
  shares `Runs.running` with the next one of its id: each insert and each removal
  (`http/runner.rs:426, 451, 466`) is the other's too, and a run in its loop may be one no cancel finds (against "`None` when no run of
  that id is under way", 450). A run cancelled as its library was left takes the next one's `false` for
  its own and goes on, sending what it reads in that library: with `Runs <- TwoRuns`,
  `HttpSends_calls` violates `CancelKeepsItIn` and `AllEnd`, and `RunIsKnown` does not hold.
- A cancel answers `false` while its send is between the spawn and `running.insert`; the request then
  leaves, even if the library it read was closed in between. One that comes before `runs.start` is lost.
- The cookies of a send that was aborted are dropped with it.

The editor:

- `NoteEditor!TypingWins`: "Still open, the field follows unless it was typed into since"
  (`docs/architecture.md:577`, `src/crates/ui/src/notes/overlays/editor/format.rs:181`). The comparison
  at 186 is with a body set in the same frame (`editor/mod.rs:268`) and always equal: a body formatted
  in the background replaces what was typed since. `NoteEditor` models what the code does; with
  `Texts <- TwoTexts`, `Typed <- Anything` and `Pretty <- XToY` the property is violated.
- `NoteEditor!OneNotePerDraft`: a file dropped, or a mark set, on an empty draft has it written; converted
  before the answer, it is a session of its own and is written a second time, against "created once"
  (`src/crates/ui/src/state/editor.rs:3-4`).
- `NoteEditor!QuitKeepsTheDrafts`: the window goes while a body is held back or fields wait behind a
  creation (`src/crates/ui/src/state/mod.rs:1125-1139`, `src/crates/ui/src/app.rs:449`),
  and they are lost.
- `NoteEditor!WindowFollowsAnywhere`: "a note open closes by its own path, which writes its drafts, and
  the window follows" (`src/crates/ui/src/state/mod.rs:1124-1125`). `closing_editor` is read in one place,
  where the editor is drawn (`editor/mod.rs:179`), and that is only while the notes are shown
  (`src/crates/ui/src/app.rs:398-403`). With a note open behind another area - Ctrl+2 or Ctrl+3
  (`src/crates/ui/src/keys.rs:35-38`), or the palette - `may_close` refuses each time and the window
  stays, without a word, until the notes are shown again; then it closes at once, whether or not that is
  still wanted. `NoteEditor_kept` with this property in place of `WindowFollows` violates it: a draft,
  another area, the window asked to close.
- A file waiting for a draft whose creation SQLite refuses asks for it again at each answer
  (`src/crates/ui/src/state/mod.rs:306-312`, `editor.rs:437-453`).
- A new note from the tray or the global key replaces the opening without saving its fields
  (`src/crates/ui/src/app.rs:191-211`, `state/mod.rs:733`), and so does a note chosen in the palette while
  another area is shown (`state/mod.rs:1799`).
- A text left, then changed back to what was last read before the note is read again, is not written
  (`Saved`); two bodies formatted at once may be written in the other order. `SettlesOnWhatWasLeft`
  keeps both texts in these cases, and one in all others.

The notebook:

- `docs/architecture.md:2999` and `folders/store.rs:414-416` say that a note cannot be filed across
  spaces. Putting a filing back does not look at the space the note is in by then
  (`folders/store.rs:504-516`). `OnlyAStaleFilingCrosses` checks that nothing else does.
- `folders/store.rs:503`: "A folder deleted since is not an error: that note simply stays loose". It
  skips the note, and then `lineage_of` (525) asks for the deleted folder and fails the whole undo.
- Deleting a folder raises what it held without looking at names: two siblings may share one
  (`folders/store.rs:173`, against `docs/architecture.md:2991-2993`).
- The record of a deletion carries the ids asked, those already in the trash included, though each
  variant "carries what the core answered" (`api/undo.rs:15`): putting it back also restores a note
  trashed before. `UndoPutsBack` supposes the ids live.

## Bounds

*Files.* One item is enough for every property: each is about a record, a file or a key of its own, and
items do not interact. Two masters are the old library and the new one; two phrases, the old and the
new. Two copies, one to keep and one being made, and one folder aside let a library be archived, or a
copy of it be restored, and another be created beside what is left. Masters and phrases are symmetric:
nothing compares two of them but for equality.

*Index and list.* Two notes and a slice of one give a fill several slices with a write between any two,
two instants give the ties at a cursor, two unlocks let a fill meet the next library. Three notes with a
slice of two, and three unlocks, pass too and are too large for every check. In `NotesList` the user
makes one write, because the properties are about what follows the last.

*Sends.* One send and one run in two libraries: what the two share is the tables and the libraries. The
turns of a run are told apart up to `MaxTurns`, the later ones being one. One run is not enough for
what two do to each other, and the run does not claim it: that is the first of the sends' disagreements
above. One run is what a library has under way, so the bound leaves out only the run of a library left.

*Editor.* Two openings, a conversion counted as one, one text besides the blank one, two jobs, answers or
bodies under way when the user acts (`MaxBusy`), one file. With one text a field differs from what was read
only when one of them is blank. Beyond the run, its properties pass with one opening, two texts, one
of them formatted into the other, anything typed and any job refused (1.2M states), and its invariants
with two openings and a text that is erased (5.5M states).

*Notebook.* `Notebook_trees` has three folders, two spaces, one note and a depth of two: enough for a
folder to be moved under a former sibling, its old parent deleted, and the move put back. Four folders
and a depth of three pass as well, and so do two notes with two folders in two spaces. One write is
answered at a time, as `coming` waits for its frame; spaces are only deleted.

Symmetry is used in `LibraryFiles` and `Notebook`, where ids are only compared for equality. Deadlock is
not checked anywhere: a library whose user asks for nothing stands still, and so does one whose bounds
are reached.

## Fairness

None is assumed for `LibraryFiles`, `NotesIndex` and `Notebook`, whose properties are safety properties;
an operation under way may stop for ever, which is what a crash looks like before the next launch.

`NotesList!LiveSpec` assumes weak fairness of what the runtime schedules: the db thread runs its queue,
each task is polled, and a frame is drawn *when a repaint is requested* (`WF(woken /\ Frame)`). A frame
nobody asked for may be drawn and is never counted on, nor is anything of the user, so a wake-up the
code forgot would show as a list that never comes.

`HttpSends!LiveSpec`: tokio polls each task, and each wait of one ends, because scripts and requests have
their delays in the code (a host is killed, a request times out); the job that leaves a library, once
begun, ends. The user need not do anything. A run that nobody cancels is not said to end.

`NoteEditor!LiveSpec`: the db thread runs its queue, each answer wakes a frame, and each frame that draws
the editor of a window on its way out closes it (`closing_editor`, set at `src/crates/ui/src/state/mod.rs:1137`
and read at `notes/overlays/editor/mod.rs:179`). Such a frame comes as soon as there is a note to draw and
the notes are shown: a change of area is followed by a frame, so `Closing` leaves no room to change it
again. That the notes *are* shown again is the user's to do, and no fairness says so: `WindowFollows` has it
as its hypothesis, `[]<>~Behind`, and without it the property fails, as told above. Which answer a frame
adopts first is left open, and a format need not come.

## Proofs

The three proof modules of `LibraryFiles` prove, for every value of the constants - any number of
items, masters and phrases, any `Keep`, any bounds, any set of steps at which the process may end -

| theorem | establishes |
|---|---|
| `TypeCorrect` | `Spec => []TypeOK`, for every set of faults |
| `RowsAreKept` | `Spec => []RowsKept` |
| `KeysAreKept` | `Spec => []KeysKept` |
| `PutBackIsExact` | `Spec => PutBackRestores` |
| `LedgerIsKept` | `Spec => LedgerKept`: every step is a step of the ledger or a stutter |
| `RestoresLeaveALibrary` | `Spec => []RestoreLeavesALibrary` |
| `FilesAreKept` | `Spec => []FilesKept` |
| `ACopyAlwaysRemains` | `Spec => ACopyRemains`, for every set of faults |
| `ChangesRetireEveryPhrase` | `Spec => ChangeRetiresEveryPhrase`, likewise |

But where the table says so, they assume `"return" \notin Faults`: the renames of `put_back` succeed.
That the assumption is needed is the first of the other disagreements above. `LedgerIsKept` also assumes
`~Losses`: nothing outside the application drops the key file. `FilesAreKept` also assumes that the
process does not end, and no rename fails, between a database going aside and its attachments following
(`TogetherAssumption`); the second and the third of those disagreements show what happens otherwise.

The invariants are not inductive as they stand. `TypeOK` needs `Position`, which says what the local
variables hold at each step: a rotation that is past `mkdir` has a copy to fill, a rewrap a key to
write, a `Return` a name to return. `RowsSafe` and `KeysSafe` say of each step where the records and the
keys of the library under a restore are: in `live`, or in `aside` for the names in `moved`, and never
both gone, with the copies and folders holding only keys that were made. `Filling` says what a new copy
has so far. The ledger adds `KeysKnown`, every key file anywhere wraps a key that was made, and
`Sealed`, a record kept was sealed under a key that was made. `RestoresLeaveALibrary` follows from what
`Before` was when the restore began and from `PutBackIsExact`. `FilesSafe` says of each record that its
file is in a folder set aside for good, or that the two lie side by side, both moved or neither, so that
no sweep takes it for an orphan. `RotateInv` says that the copy a rotation makes is whole by the time it
prunes, and that it never prunes the first; `RewrapInv`, that a change without a miss so far has reached
every copy before `at`. The parts that are not obvious were first checked as invariants of a TLC run.
The step is proved action by action; the temporal theorems add only PTL.

`NotesIndexProofs` proves, for any set of notes, instants and texts, any `Slice` and any number of
unlocks -

| theorem | establishes |
|---|---|
| `TypeCorrect` | `Spec => []TypeOK`, for every set of faults |
| `LibrariesAreLetGo` | `Spec => []NothingOutlivesItsLibrary`, likewise |
| `FacetsAreCurrent` | `Spec => []FacetsCurrent`, likewise |
| `PartsAreFilled` | `Spec => []PartOnlyWhileFilling`, likewise |
| `NeverIsStale` | `Spec => []NeverStale`, likewise |
| `NothingIsSkipped` | `Spec => []NothingSkipped`, likewise |

The two exempt the notes of a write that was not answered (`unanswered`), and the proof shows that
nothing else need be. The inductive invariant has two parts.
`Shape` holds whatever fails: an index not of the open library is empty, also when no library is open
(`HoldsOrCleared`, which `NothingOutlivesItsLibrary` alone does not say), and its cached facets are
those of its entries. `Sound(index)` is `NeverStale` and `NothingSkipped` together; neither is
inductive without the other's conjunct on `complete`. What reading does is proved once, for any index:
`ReadOf(ix, r)` says that `r` is `ix` with a beginning of what was left, `ReadKeeps` that it is then as
sound as `ix`, and `NextSliceReads`, `ReadyReads`, `EnoughToListReads` that every read of the module is
of that form. The argument that no note is skipped is `CursorsAreBefore`: what is left out of a
beginning of the rest lies beyond the cursor put on its last note.

`HttpSendsProofs` proves, for any sends and runs, any number of libraries and of turns -

| theorem | establishes |
|---|---|
| `TypeCorrect` | `Spec => []TypeOK` |
| `WritesStay` | `Spec => []WritesStayHome` |
| `RunningExact` | `Spec => []RunningIsExact` |
| `AnsweredKept` | `Spec => []AnsweredIsKept` |
| `CancelsKeepItIn` | `Spec => []CancelKeepsItIn`, for one run beside any number of sends |

`WritesStayHome` rests on the type invariant's own conjunct on flights, that one which has not failed has
read its library. `RunningIsExact` is inductive because `Register` aborts the send it replaces, and
`Joined` takes off its own entry only. `AnsweredIsKept` needs to know that a flight which ends answered
has something to keep (`SendKeeps`), and that the number of a library once left is never drawn again
(`NumbersDrawn`). `CancelsKeepItIn` follows a cancel to where it bites: what
it hits is in a script that is killed or has its request out (`HostsExact`, `Exact`), what accepts it asks
before its next turn and finds itself cancelled (`AsksAreAnswered`). That needs the entry of a run to be
its own (`RunsExact`), hence `OneRunAssumption`, without which the property is false.

`NotebookProofs` proves, for any spaces, folders and notes and any `MaxDepth` but 0 -

| theorem | establishes |
|---|---|
| `TypeCorrect` | `Spec => []TypeOK` |
| `TreesAreKept` | `Spec => []FoldersAreTrees` |
| `NoNoteIsStrandedEver` | `Spec => []NoNoteIsStranded` |
| `NoFileStaysBehind` | `Spec => []NoFileIsLeftBehind` |
| `LiveNotesStay` | `Spec => OnlyTheTrashIsPurged` |
| `OnlyAnUndoFilesAcross` | `Spec => OnlyAStaleFilingCrosses` |
| `NoFolderIsTooDeep` | `Spec => []NotTooDeep` |
| `UndoAlwaysPutsBack` | `Spec => []UndoPutsBack` |

The first four together are inductive. That there is no loop is said without paths: no set of folders
holds the parent of each of its members. A folder moved out of what it holds keeps it, because the set
that would violate it, less the folder's subtree, violated it before (`PlacedMakesTrees`); one deleted
keeps it, because that set with the folder in it did (`RaisedMakesTrees`). For the notes, every step is
brought to one of a few forms - a note where it was, trashed in place, or filed elsewhere - each shown
once to keep a home (`HomesStay`, `TrashedInPlace`, `FiledElsewhere`) and not to file it across spaces;
only `FiledBack` does not satisfy the latter, and that is the exception of `OnlyAnUndoFilesAcross`.

`NotTooDeep` needs no other conjunct, but it needs to know what a depth is. `IsTree` says of a function
what `FoldersAreTrees` says of the rows, and `DepthIs` derives from it that the folders above one are
finitely many and that a folder is one deeper than its parent, the only thing the rest asks of `Depth`.
Where one would argue by induction down a tree, the proofs take the set of counterexamples and a member
whose parent is not in it. A folder that moves brings what is under it, deeper or shallower
by as much as itself (`DepthsMoved`), so the sum `CheckMove` refuses on is the depth that would result
(`MovedIsShallow`); what a deletion raises, or leaves, is no deeper (`RaisedIsShallow`). `UndoPutsBack`
is then a consequence of the invariant and of `NotTooDeep` in any one state: the move back passes the
check because what it gives back was deep enough before (`MovesBack`), which would be false of a library
already too deep.

`NotesListProofs` proves, for any set of notes, any slice, any number of writes and of libraries -

| theorem | establishes |
|---|---|
| `ListTypeCorrect` | `ListSpec => []ListTypeOK`, for every set of faults |
| `ListImplementsIndex` | `ListSpec => Spec`: the list runs the index as `NotesIndex` says |
| `ShownIsOfItsLibrary` | `ListSpec => []ShownIsOfTheOpenLibrary`, for every set of faults |
| `RestIsAnswered` | `ListSpec => []QuietIsAnswered`, likewise |
| `GateFollows` | `ListSpec => []GateFollowsTheEngine`, if the registry does not fail |
| `WholeForGood` | `ListSpec => NeverPartAgain`, if no write fails once it has committed |
| `RestIsWhole` | `ListSpec => []QuietMeansWhole`, if nothing fails but an announcement |

By `ListImplementsIndex` the theorems on the index hold under the list, and the proofs use them. The
hypotheses exclude no more than the runs that check the same properties. The invariant has one part for
each thing that may be overtaken. `GateJobs`: a job that opens or closes is what the gate waits for, and
there is one. `ScopeInv`: what is shown or on its way is of the library open, for a frame empties the
canvas when the gate closes. `AskedInv`: a list at rest was answered at the revision. `WholeInv`: once a
whole library is shown or on its way, no read from the index is a part. `RestIsWhole` needs two more.
`FillingInv`: an index part filled has a fill going on, the one in `fills`, whose end is told.
`CurrentInv`: what answers the revision is the rows as they are, or the revision is about to move
(`Stirring`): a write's answer not adopted, an end of a fill in the inbox or to come.

`NoteEditorProofs` proves, for any texts, any `Pretty`, any number of openings, jobs and files -

| theorem | establishes |
|---|---|
| `EditorTypeCorrect` | `Spec => []TypeOK` |
| `DraftsCreatedOnce` | `Spec => []CreatedOnce` |
| `ReadsAreCurrent` | `Spec => []ReadIsCurrent` |
| `RestHoldsWhatWasLeft` | `Spec => []SettlesOnWhatWasLeft` |

Beside the assumptions on its constants (formatting a formatted text changes nothing), the module
assumes `NothingAssumption`: that nothing waits behind a creation is not itself a text, which in the
code is the difference between `None` and `Some`. `DraftsCreatedOnce` rests on two facts: a creation
asked for is the only one of its opening, has made no note yet and is waited for (`CreationsOnce`); a
draft that nothing creates has made none (`DraftUnborn`). `ReadsAreCurrent` follows what the editor last
read with the answers of writes not yet adopted (`wrote`): with none, what is fresh is the row.
`RestHoldsWhatWasLeft` is the largest. It is proved from `Coming`: of each note, the last creation or
write in the queue, or with none the row, has a text last left (`LastIsLeft`), or one waits behind the
creation (`WaitsBehind`), or a body held back will be written once formatted (`BodyFollows`); and every
such text, in whatever place it waits, is one of `left` (`BodiesLeft`, `WaitingLeft`, `DraftLeft`). A
save that writes nothing is the hard case: the text is that of the last read, and `ReadCurrent` with
`Coming` says what became of it. TLC checked this invariant on a million states before it was proved.

Model-checked only: the liveness properties (`OpenedComesWhole`, `AllEnd`, `WindowFollows`), which are
out of the prover's reach, and the two violations. Every other property of a passing run is a theorem.

## Not modelled

- the `-wal` and `-shm` sidecars, and what SQLite recovers from them: the database is one file that is
  there or not, whole or torn;
- the rescued copy of a damaged database, which nothing reads back;
- the stamps that name folders: their order is kept, and every folder is new;
- the preference that switches the copies off: a launch may or may not rotate;
- key derivation, sealing and migrations;
- the index's decorations (attachment counts, folders, global values) and the search over its entries;
- in `NotesList`, the wait for the library's preferences and samples before its first list, the search's
  debounce, the board and the palette, and writes in flight beside one another;
- a poisoned lock, and a panic in a job: both answer as an error;
- `Inbox::post` and the wake-up after it are one step, as are the end of a fill and its own wake-up;
- of a send: what a run tells of itself (`Started`, `Ended`, `Finished`), the console, bodies, redirects
  and the sockets; of a script, only that it may change variables and the jar, fail, or be killed;
- of the editor: restoring a revision, pictures, calculations, converting a note already written, the copy
  of a note, which opens in the area shown, and what else may refuse the window (`ask_leave`);
- of the notebook: names and colours, the geometry of the board, tags, pins, priorities, arrangements,
  the search over the trash and the creation of spaces; an undo whose name is taken is a choice (`taken`);
- pure code - calculations, views, JSON, code generation, extraction, the text buffers, the drawing -
  whose results no state machine depends on, and which the repository tests input by input; the drawing
  of the panels, the platform's calls, wording and the end-to-end scenarios. Most of the repository's
  lines are of this kind;
- everything else `PROJECT.json` lists as `not_modelled`, with its reason.

## Plan

Done: the files and their ledger, the index and the list over it, the sends, the editor, the notebook,
and the proofs of every safety property of theirs. What would come next:

1. The revisions of a note kept and pruned, and the order in which bodies held back are written.
2. The HTTP history's bound and the cookie jar across redirects.
3. The registry, and what the deletion of a library may take.
4. Pure algorithms with reference definitions: the keyset of `store::newest`, the pruning of revisions.
5. That a list over the index is a list over the rows, as a refinement of an abstract one without index,
   queue or frames.
