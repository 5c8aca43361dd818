----------------------------- MODULE NoteEditor -----------------------------
(***************************************************************************)
(* The note editor of the interface: the fields the user types in, the     *)
(* draft that becomes a note once it is worth keeping, the note read again *)
(* at each revision, and the body held back while Prettier formats it.     *)
(*                                                                         *)
(* Everything it asks goes to the db queue, which runs its jobs in order;  *)
(* the answers come in any order, and a format on a pool that has none.    *)
(* A note is its text, standing for each of the fields the editor sends,   *)
(* and whether it is marked, standing for what changes a draft in place    *)
(* and makes it worth keeping: its pin and its priority.  A session is its *)
(* number, and that of the opening it is a conversion in: <<opening, n>>.  *)
(***************************************************************************)
EXTENDS Naturals, Sequences, FiniteSets

CONSTANTS
  Texts, Typed, \* the texts, and what the user types
  Blank,        \* the text nobody would keep
  Pretty,       \* what Prettier makes of a text
  FormatOnSave, \* the library's setting
  Failures,     \* the jobs SQLite may refuse
  MaxSessions,  \* bound: openings, and conversions of a draft
  MaxBusy,      \* bound: jobs, answers and bodies held back when the user does something
  MaxFiles      \* bound: files dropped

ASSUME TextsAssumption ==
  /\ Blank \notin Texts /\ Typed \subseteq Texts \cup {Blank}
  /\ Pretty \in [Texts -> Texts] /\ \A t \in Texts : Pretty[Pretty[t]] = Pretty[t]
ASSUME SettingsAssumption ==
  FormatOnSave \in BOOLEAN /\ Failures \subseteq {"create", "write", "read"}
ASSUME BoundsAssumption ==
  MaxSessions \in Nat /\ MaxBusy \in Nat /\ MaxFiles \in Nat

VARIABLES
  rows,     \* the library's notes, with the session each was made by
  queue,    \* the db queue
  open,     \* EditorState.open
  sessions, \* EditorState.sessions: the last one given
  creating, \* EditorState.creating: the drafts being written, and what was left meanwhile
  created,  \* the answers to them that came
  wrote,    \* the answers to the writes that came, and are not adopted
  held,     \* FormattingState.saving: the bodies held back
  view,     \* EditorView: the field
  files,    \* AttachmentsState.queue: what waits for a note, and where it was dropped
  dropped,  \* how many files were
  quit,     \* whether the window was asked to close, and has
  left,     \* what may have been left last in the fields of each session's note
  failed    \* whether an error was reported

editing == <<open, sessions, creating, view>>
answers == <<created, wrote>>
vars == <<rows, queue, editing, answers, held, files, dropped, quit, left, failed>>

Contents == Texts \cup {Blank}
Sessions == (1 .. MaxSessions) \X (1 .. MaxSessions)
Note == [text : Contents, marked : BOOLEAN]
None == [none |-> TRUE]
Nothing == [nothing |-> TRUE]

(* That nothing waits is no text. *)
ASSUME NothingAssumption == Nothing \notin Contents

(* read is the note last read, and fresh whether it was at this revision;  *)
(* reading is the read in flight, and current whether it was asked for at  *)
(* this revision; behind is that the window shows another area, which      *)
(* draws nothing of it.                                                    *)
Opened ==
  [session : Sessions, id : Nat, draft : Note \cup {None}, read : Note \cup {None}, fresh : BOOLEAN,
   reading : {"no", "asked", "answered"}, current : BOOLEAN, got : Note \cup {None},
   behind : BOOLEAN]

Job == [op : {"create", "write", "read", "attach"}, session : Sessions, id : Nat, note : Note]

TypeOK ==
  /\ rows \in Seq([made : Sessions, note : Note])
  /\ queue \in Seq(Job)
  /\ open \in Opened \cup {None} /\ sessions \in 0 .. MaxSessions
  /\ creating \subseteq [session : Sessions, waiting : Contents \cup {Nothing}]
  /\ created \subseteq [session : Sessions, id : Nat, text : Contents] /\ wrote \in Nat
  /\ held \subseteq [session : Sessions, id : Nat, text : Texts \cup {Blank}]
  /\ view \in [session : Sessions, text : Contents] \cup {None}
  /\ view # None => open # None /\ view.session = open.session
  /\ files \subseteq Sessions /\ dropped \in 0 .. MaxFiles
  /\ quit \in {"no", "asked", "gone"}
  /\ left \in [Sessions -> SUBSET Contents] /\ failed \in BOOLEAN

Init ==
  /\ rows = <<>> /\ queue = <<>>
  /\ open = None /\ sessions = 0 /\ creating = {} /\ view = None
  /\ created = {} /\ wrote = 0 /\ held = {}
  /\ files = {} /\ dropped = 0
  /\ quit = "no" /\ left = [s \in Sessions |-> {}] /\ failed = FALSE

-----------------------------------------------------------------------------
(* What the editor knows of its note.                                      *)

NoteOf(o) == IF o.read # None THEN o.read ELSE o.draft

(* Mutant: the field goes on with another note. *)
SeenKept(o, v) ==
  IF o = None \/ NoteOf(o) = None THEN None
  ELSE IF v # None THEN v
  ELSE [session |-> o.session, text |-> NoteOf(o).text]

(* The field starts again with each session, once there is a note to show  *)
(* and its area is drawn; behind another, it stays as it was.              *)
Seen(o, v) ==
  IF o = None \/ NoteOf(o) = None THEN None
  ELSE IF v # None /\ v.session = o.session THEN v
  ELSE IF o.behind THEN None
  ELSE [session |-> o.session, text |-> NoteOf(o).text]

Opening(session, id, draft) ==
  [session |-> session, id |-> id, draft |-> draft, read |-> None, fresh |-> FALSE,
   reading |-> "no", current |-> FALSE, got |-> None, behind |-> FALSE]
NewSession == <<sessions + 1, sessions + 1>>
Untitled == [text |-> Blank, marked |-> FALSE]

(* A revision: what was read, or is being read, is no longer it.           *)
Bumped(o) == IF o = None THEN o ELSE [o EXCEPT !.fresh = FALSE, !.current = FALSE]

(* Its note is read before anything else once it is not at the revision.   *)
Due == open # None /\ open.id # 0 /\ ~open.fresh /\ open.reading = "no"

WorthKeeping(note) == note.text # Blank \/ note.marked
Creating(s) == \E c \in creating : c.session = s

CreateJob(s, note) == [op |-> "create", session |-> s, id |-> 0, note |-> note]
WriteJob(id, t) ==
  [op |-> "write", session |-> rows[id].made, id |-> id, note |-> [text |-> t, marked |-> FALSE]]
ReadJob(o) == [op |-> "read", session |-> o.session, id |-> o.id, note |-> Untitled]
AttachJob(id) == [op |-> "attach", session |-> rows[id].made, id |-> id, note |-> Untitled]

Write(id, t) == Append(queue, WriteJob(id, t))

(* A creation asked for: what it holds, and nothing waiting behind it yet. *)
Created(s, note) ==
  [creating |-> creating \cup {[session |-> s, waiting |-> Nothing]},
   queue |-> Append(queue, CreateJob(s, note))]
Unasked == [creating |-> creating, queue |-> queue]

(* Mutant: a draft is written each time it changes. *)
DraftRewritten(o, note) == IF WorthKeeping(note) THEN Created(o.session, note) ELSE Unasked

(* keep_draft: one creation per draft.                                     *)
DraftWritten(o, note) ==
  IF WorthKeeping(note) /\ ~Creating(o.session) THEN Created(o.session, note) ELSE Unasked

DraftKept(o, note) == [asked |-> DraftWritten(o, note), open |-> [o EXCEPT !.draft = note]]

(* Mutant: what is left while a draft is written is forgotten. *)
UnwaitedFor(s, t) == creating

(* The later field wins.                                                   *)
Waiting(s, t) ==
  {IF c.session = s THEN [c EXCEPT !.waiting = t] ELSE c : c \in creating}

(* EditorState.save: behind the creation under way, into the draft, or to  *)
(* the note, unless it is what was last read of it.                        *)
Saved(o, t) ==
  IF Creating(o.session)
  THEN [asked |-> [creating |-> Waiting(o.session, t), queue |-> queue], open |-> o]
  ELSE IF o.id = 0 THEN DraftKept(o, [o.draft EXCEPT !.text = t])
  ELSE [asked |-> [creating |-> creating,
                   queue |-> IF t = NoteOf(o).text THEN queue ELSE Write(o.id, t)],
        open |-> o]

Asks(asked) == creating' = asked.creating /\ queue' = asked.queue

(* Nothing of a session's note is on its way any more.                     *)
Settled(s) ==
  /\ ~Creating(s) /\ wrote = 0
  /\ \A i \in 1 .. Len(queue) : queue[i].op \in {"create", "write"} => queue[i].session # s
  /\ \A h \in held : rows[h.id].made # s
  /\ open # None /\ open.id # 0 /\ rows[open.id].made = s => open.fresh

Made(o) == IF o.id = 0 THEN o.session ELSE rows[o.id].made

(* It is not what was last read, and nothing of that note may come after   *)
(* it: no body held back, nor what waits in another opening.               *)
Follows(o, t) ==
  /\ Creating(o.session) \/ o.id = 0 \/ t # NoteOf(o).text
  /\ \A h \in held : rows[h.id].made # Made(o)
  /\ \A c \in creating : c.session = Made(o) => c.session = o.session

Leaves(o, t, last) ==
  left' = [left EXCEPT ![Made(o)] = IF Settled(Made(o)) \/ last THEN {t} ELSE @ \cup {t}]

-----------------------------------------------------------------------------
(* What the user does, between two frames: the note open has been asked    *)
(* for.                                                                    *)

InFrame == quit # "gone"
Busy == Len(queue) + Cardinality(created) + wrote + Cardinality(held)
CanAsk == InFrame /\ ~Due /\ Busy < MaxBusy
CanType == CanAsk /\ quit = "no" /\ view # None /\ ~open.behind

(* The frame that closes the editor of a window on its way out leaves no   *)
(* key to read.                                                            *)
Closing == quit = "asked" /\ view # None /\ ~open.behind

(* From the canvas, the palette, another window or the tray: the area      *)
(* comes back, and the note open gives way.  Holding its content already,  *)
(* or nothing.                                                             *)
NewNote(t) ==
  /\ CanAsk /\ sessions < MaxSessions /\ sessions' = sessions + 1
  /\ LET o == Opening(NewSession, 0, Untitled)
         kept == IF t = Blank THEN [asked |-> Unasked, open |-> o] ELSE Saved(o, t)
     IN  /\ open' = kept.open /\ Asks(kept.asked)
         /\ view' = Seen(open', view)
         /\ left' = [left EXCEPT ![NewSession] = {t}]
  /\ UNCHANGED <<rows, answers, held, files, dropped, quit, failed>>

(* A card, or the palette, over the note open, which gives way.            *)
OpenNote(id) ==
  /\ CanAsk /\ ~Closing /\ sessions < MaxSessions
  /\ sessions' = sessions + 1 /\ open' = Opening(NewSession, id, None)
  /\ view' = Seen(open', view)
  /\ UNCHANGED <<rows, queue, creating, answers, held, files, dropped, quit, left, failed>>

Type(t) ==
  /\ CanType /\ view' = [view EXCEPT !.text = t]
  /\ UNCHANGED <<rows, queue, open, sessions, creating, answers, held, files, dropped, quit, left,
                 failed>>

(* The body is held back until it is formatted, when the library asks for  *)
(* it and Prettier reads the note's language; a draft's is not.            *)
HoldBack(t) ==
  /\ FormatOnSave /\ open.read # None /\ t # open.read.text
  /\ held' = held \cup {[session |-> open.session, id |-> open.id, text |-> t]}
  /\ UNCHANGED <<creating, queue>>

(* The field as it is, written; then the editor may close.                 *)
Leave(t, closes) ==
  /\ \/ /\ HoldBack(t) /\ Leaves(open, t, FALSE)
        /\ open' = IF closes THEN None ELSE open
     \/ /\ Asks(Saved(open, t).asked) /\ Leaves(open, t, Follows(open, t)) /\ UNCHANGED held
        /\ open' = IF closes THEN None ELSE Saved(open, t).open
  /\ view' = Seen(open', view)
  /\ UNCHANGED <<rows, sessions, answers, files, dropped, quit, failed>>

Blur == CanType /\ Leave(view.text, FALSE)

(* The one closing path; the window on its way out takes it too, and only  *)
(* a frame that draws the editor does.                                     *)
Close ==
  /\ quit = "asked" \/ Busy < MaxBusy
  /\ InFrame /\ ~Due /\ view # None /\ ~open.behind
  /\ Leave(view.text, TRUE)

(* change_draft: pinned or prioritised, or no longer.                      *)
Mark(marked) ==
  /\ CanType /\ open.id = 0
  /\ LET kept == DraftKept(open, [open.draft EXCEPT !.marked = marked])
     IN  Asks(kept.asked) /\ open' = kept.open
  /\ UNCHANGED <<rows, sessions, view, answers, held, files, dropped, quit, left, failed>>

(* Saved, then of another kind if it holds nothing: in a session of its    *)
(* own, the field starting again.                                          *)
Convert ==
  /\ CanType /\ open.id = 0 /\ sessions < MaxSessions
  /\ LET kept == Saved(open, view.text)
         again == <<open.session[1], sessions + 1>>
     IN  /\ Asks(kept.asked)
         /\ IF WorthKeeping(kept.open.draft)
            THEN /\ open' = kept.open /\ UNCHANGED sessions
                 /\ Leaves(open, view.text, Follows(open, view.text))
            ELSE /\ open' = [kept.open EXCEPT !.session = again] /\ sessions' = sessions + 1
                 /\ left' = [left EXCEPT ![open.session] = @ \cup {view.text}, ![again] = {Blank}]
  /\ view' = Seen(open', view)
  /\ UNCHANGED <<rows, answers, held, files, dropped, quit, failed>>

(* A file dropped on the editor waits for its note.                        *)
Drop ==
  /\ CanType /\ dropped < MaxFiles /\ dropped' = dropped + 1
  /\ files' = files \cup {open.session}
  /\ UNCHANGED <<rows, queue, editing, answers, held, quit, left, failed>>

(* Another area by its key or the palette, which the editor lets through,  *)
(* and the notes again.                                                    *)
ShowArea ==
  /\ CanAsk /\ ~Closing /\ open # None
  /\ open' = [open EXCEPT !.behind = ~@]
  /\ view' = Seen(open', view)
  /\ UNCHANGED <<rows, queue, sessions, creating, answers, held, files, dropped, quit, left, failed>>

(* The window asked to close: a note open closes first.                    *)
Quit ==
  /\ quit = "no" /\ ~Due
  /\ quit' = IF open = None THEN "gone" ELSE "asked"
  /\ UNCHANGED <<rows, queue, editing, answers, held, files, dropped, left, failed>>

-----------------------------------------------------------------------------
(* The db thread, which runs the queue to its end after the window is gone.*)

Ran(job) ==
  CASE job.op = "create" ->
         /\ rows' = Append(rows, [made |-> job.session, note |-> job.note])
         /\ created' = created \cup
              {[session |-> job.session, id |-> Len(rows) + 1, text |-> job.note.text]}
         /\ UNCHANGED <<open, wrote>>
    [] job.op = "write" ->
         /\ rows' = [rows EXCEPT ![job.id].note.text = job.note.text]
         /\ wrote' = wrote + 1
         /\ UNCHANGED <<open, created>>
    [] job.op = "attach" -> wrote' = wrote + 1 /\ UNCHANGED <<rows, open, created>>
    [] job.op = "read" ->
         /\ open' = IF open # None /\ open.session = job.session
                    THEN [open EXCEPT !.reading = "answered", !.got = rows[job.id].note]
                    ELSE open
         /\ UNCHANGED <<rows, answers>>

(* Refused, nothing is done; the interface says so, but of a read its      *)
(* editor no longer waits for.                                             *)
Refused(job) ==
  /\ job.op \in Failures /\ failed' = TRUE /\ UNCHANGED <<rows, wrote>>
  /\ created' = IF job.op # "create" THEN created
                ELSE created \cup {[session |-> job.session, id |-> 0, text |-> job.note.text]}
  /\ open' = IF job.op = "read" /\ open # None /\ open.session = job.session
             THEN [open EXCEPT !.reading = "answered", !.got = None] ELSE open

RunJob ==
  /\ queue # <<>> /\ queue' = Tail(queue)
  /\ \/ Ran(Head(queue)) /\ UNCHANGED failed
     \/ Refused(Head(queue))
  /\ UNCHANGED <<sessions, creating, view, held, files, dropped, quit, left>>

-----------------------------------------------------------------------------
(* A frame: the answers that came are adopted, in any order.               *)

(* What was left while it was written follows, unless it is what was       *)
(* written.  Refused, what was left is let go of.                          *)
AdoptCreated(a) ==
  /\ InFrame
  /\ a \in created /\ created' = created \ {a}
  /\ creating' = {c \in creating : c.session # a.session}
  /\ LET waiting == {c.waiting : c \in {x \in creating : x.session = a.session}} \ {Nothing, a.text}
     IN  queue' = IF a.id = 0 \/ waiting = {} THEN queue
                  ELSE Write(a.id, CHOOSE t \in waiting : TRUE)
  /\ open' = IF a.id = 0 THEN open
             ELSE IF open # None /\ open.session = a.session
             THEN [Bumped(open) EXCEPT !.id = a.id] ELSE Bumped(open)
  /\ UNCHANGED <<rows, sessions, view, wrote, held, files, dropped, quit, left, failed>>

(* Mutant: an answer moves nothing. *)
AdoptWroteQuietly ==
  /\ InFrame /\ wrote > 0 /\ wrote' = wrote - 1
  /\ UNCHANGED <<rows, queue, editing, created, held, files, dropped, quit, left, failed>>

AdoptWrote ==
  /\ InFrame /\ wrote > 0 /\ wrote' = wrote - 1
  /\ open' = Bumped(open)
  /\ UNCHANGED <<rows, queue, sessions, creating, view, created, held, files, dropped, quit, left,
                 failed>>

Ask ==
  /\ InFrame /\ Due
  /\ queue' = Append(queue, ReadJob(open))
  /\ open' = [open EXCEPT !.reading = "asked", !.current = TRUE]
  /\ UNCHANGED <<rows, sessions, creating, view, answers, held, files, dropped, quit, left, failed>>

(* Mutant: an editor with nothing to show stays. *)
AdoptedOrKept(o, got) ==
  IF got # None THEN [o EXCEPT !.read = got, !.draft = None, !.fresh = TRUE]
  ELSE [o EXCEPT !.fresh = TRUE]

(* What the read answered replaces what was read before, and the draft; an *)
(* error leaves them, and closes an editor that has neither.               *)
Adopted(o, got) ==
  IF got # None THEN [o EXCEPT !.read = got, !.draft = None, !.fresh = TRUE]
  ELSE IF NoteOf(o) = None THEN None
  ELSE [o EXCEPT !.fresh = TRUE]

(* An answer asked for at another revision is dropped.                     *)
AdoptRead ==
  /\ InFrame /\ open # None /\ open.reading = "answered"
  /\ LET o == [open EXCEPT !.reading = "no", !.current = FALSE, !.got = None]
     IN  open' = IF open.current THEN Adopted(o, open.got) ELSE o
  /\ view' = Seen(open', view)
  /\ UNCHANGED <<rows, queue, sessions, creating, answers, held, files, dropped, quit, left, failed>>

(* A file waits for a note, and the one open has none.                     *)
WriteDraft ==
  /\ InFrame /\ files # {} /\ open # None /\ open.id = 0 /\ ~Creating(open.session)
  /\ Asks(Created(open.session, open.draft))
  /\ UNCHANGED <<rows, open, sessions, view, answers, held, files, dropped, quit, left, failed>>

Attach(s) ==
  /\ InFrame /\ open # None /\ open.id # 0
  /\ s \in files /\ files' = files \ {s}
  /\ queue' = Append(queue, AttachJob(open.id))
  /\ UNCHANGED <<rows, editing, answers, held, dropped, quit, left, failed>>

PrettyOf(t) == IF t \in Texts THEN Pretty[t] ELSE t

(* Formatted, or as it was typed: into the opening if it is still open, by *)
(* id once it is closed.  Formatted, the field follows.                    *)
AdoptFormatted(h) ==
  /\ InFrame /\ ~Due /\ h \in held /\ held' = held \ {h}
  /\ \E t \in {h.text, PrettyOf(h.text)} :
       /\ IF open # None /\ open.session = h.session
          THEN Asks(Saved(open, t).asked) /\ open' = Saved(open, t).open
          ELSE queue' = Write(h.id, t) /\ UNCHANGED <<creating, open>>
       /\ view' = IF view # None /\ view.session = h.session /\ t # h.text
                  THEN [view EXCEPT !.text = t] ELSE view
  /\ UNCHANGED <<rows, sessions, answers, files, dropped, quit, left, failed>>

(* The window follows its editor.                                          *)
Exit ==
  /\ quit = "asked" /\ open = None /\ quit' = "gone"
  /\ UNCHANGED <<rows, queue, editing, answers, held, files, dropped, left, failed>>

-----------------------------------------------------------------------------
User ==
  \/ \E t \in Typed \cup {Blank} : NewNote(t)
  \/ \E t \in Typed : Type(t)
  \/ \E id \in 1 .. Len(rows) : OpenNote(id)
  \/ Blur \/ Close \/ Convert \/ Drop \/ ShowArea \/ Quit
  \/ \E marked \in BOOLEAN : Mark(marked)

Frame ==
  \/ \E a \in created : AdoptCreated(a)
  \/ AdoptWrote \/ Ask \/ AdoptRead \/ WriteDraft \/ Exit
  \/ \E s \in files : Attach(s)
  \/ \E h \in held : AdoptFormatted(h)

Next == User \/ RunJob \/ Frame

Spec == Init /\ [][Next]_vars

(* The db thread runs its queue, a frame follows each answer, and each     *)
(* frame that draws it closes the editor of a window on its way out.       *)
Fairness ==
  /\ WF_vars(RunJob) /\ WF_vars(Frame)
  /\ WF_vars(quit = "asked" /\ Close)

LiveSpec == Spec /\ Fairness

-----------------------------------------------------------------------------
(* "One creation per draft": however its fields are left, its pin changed  *)
(* and its files dropped while it is written, a session's draft becomes at *)
(* most one note.                                                          *)
CreatedOnce ==
  \A i, j \in 1 .. Len(rows) : rows[i].made = rows[j].made => i = j

(* Once nothing of a note is on its way, the library holds the text last   *)
(* left in its field, or what Prettier made of it, whatever was created,   *)
(* written, read, formatted or closed meanwhile.  Two texts may be the     *)
(* last: what is left while a body is held back, or what waits for a       *)
(* creation in another opening, and what is left back to what was read     *)
(* before the last write.                                                  *)
SettlesOnWhatWasLeft ==
  ~failed => \A i \in 1 .. Len(rows) :
    LET texts == left[rows[i].made]
    IN  Settled(rows[i].made) => rows[i].note.text \in texts \cup {PrettyOf(t) : t \in texts}

(* "Read again whenever the revision moves": once no write is on its way,  *)
(* the note the fields are compared with is the one the library holds.     *)
ReadIsCurrent ==
  ~failed /\ open # None /\ open.id # 0 /\ open.fresh /\ Settled(rows[open.id].made)
    => open.read = rows[open.id].note

Behind == open # None /\ open.behind

(* "The window follows": asked to close, it does, whether its editor has a *)
(* note to show, waits for one or is refused one, was replaced meanwhile   *)
(* or left behind another area, provided the notes are shown again; no     *)
(* visit to them is missed.                                                *)
WindowFollows == []<>~Behind => (quit = "asked" ~> quit = "gone")

-----------------------------------------------------------------------------
(* What follows is said of the editor and is not so: no run checks it, the *)
(* README says how each comes to fail.                                     *)

(* "Still open, the field follows unless it was typed into since."         *)
TypingWins ==
  [][\A h \in held \ held' : view # None /\ view.text # h.text => view' = view]_vars

(* "A new note is a draft that writes nothing until it is worth keeping,   *)
(* then is created once", whatever it is converted into meanwhile.         *)
OneNotePerDraft ==
  \A i, j \in 1 .. Len(rows) : rows[i].made[1] = rows[j].made[1] => i = j

(* "And the window follows", whichever area is shown.                      *)
WindowFollowsAnywhere == quit = "asked" ~> quit = "gone"

(* The text last left is the one kept.                                     *)
QuitKeepsTheDrafts ==
  quit = "gone" /\ queue = <<>> => held = {} /\ \A c \in creating : c.waiting = Nothing

=============================================================================
