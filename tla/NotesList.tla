----------------------------- MODULE NotesList ------------------------------
(***************************************************************************)
(* The list the interface shows, over the index that answers it.  The UI   *)
(* thread never waits: it sends jobs to the db queue, draws a frame when   *)
(* something wakes it, and adopts in that frame the events and answers     *)
(* that have arrived.  A list is asked again when the Revision among its   *)
(* parameters moves; the end of a fill moves it, for what was listed from  *)
(* the first slice.                                                        *)
(*                                                                         *)
(* The db queue is first in, first out, the UI thread and the tokio tasks  *)
(* both sending to it.  An answer and an event each reach the interface by *)
(* a task of their own, in any order.                                      *)
(***************************************************************************)
EXTENDS NotesIndex, Sequences

CONSTANTS
  MaxWrites,     \* bound: writes the user asks for
  RegistryFails, \* whether a library can be closed and no other pointed at
  Nothing        \* no list yet

VARIABLES
  queue,   \* the jobs sent to the db thread and not run
  gate,    \* Gate: whether the library is open, its Work, what the index said
  canvas,  \* the QueryCell of the list
  write,   \* the answer of the write under way, if there is one
  undo,    \* UndoState: the library of the write it offers to put back, or None
  inbox,   \* the fills' events not drained
  revision,
  woken,   \* a repaint is requested
  writes   \* the writes asked for so far

ui == <<gate, canvas, write, undo, inbox, revision, woken, writes>>
listVars == <<vars, queue, ui>>

Answer == [library : Numbers, notes : Rows, whole : BOOLEAN]
ASSUME NothingAssumption == Nothing \notin Answer
ASSUME ListBoundAssumption == MaxWrites \in Nat /\ RegistryFails \in BOOLEAN

(* A call: given to a task, in the queue, run but its answer not sent, or  *)
(* answered.                                                               *)
Calls == {"idle", "spawned", "queued", "ran", "arrived"}

(* A fill's job names its fill, a list's the revision it was asked at.     *)
Job == [kind : {"unlock", "leave", "write", "list", "fill"}, of : Nat]
Plain(kind) == [kind |-> kind, of |-> 0]

ListTypeOK ==
  /\ TypeOK
  /\ queue \in Seq(Job)
  /\ gate \in [open : BOOLEAN, work : {"none", "unlock", "leave"}, call : Calls,
               ok : BOOLEAN, index : {"empty", "filling", "ready"}]
  /\ canvas \in [shown : Answer \cup {Nothing}, failed : BOOLEAN, answered : Nat,
                 asked : Nat, call : Calls, ok : BOOLEAN, answer : Answer \cup {Nothing}]
  /\ write \in [call : Calls, ok : BOOLEAN, library : Numbers] /\ undo \in Numbers
  /\ inbox \in Seq({"progress", "ready"})
  /\ revision \in Nat /\ writes \in Nat /\ woken \in BOOLEAN

ClosedGate ==
  [open |-> FALSE, work |-> "none", call |-> "idle", ok |-> FALSE, index |-> "empty"]
BlankCanvas ==
  [shown |-> Nothing, failed |-> FALSE, answered |-> 0,
   asked |-> 0, call |-> "idle", ok |-> FALSE, answer |-> Nothing]
NoWrite == [call |-> "idle", ok |-> FALSE, library |-> None]

ListInit ==
  /\ Init
  /\ queue = <<>>
  /\ gate = ClosedGate /\ canvas = BlankCanvas /\ write = NoWrite /\ undo = None
  /\ inbox = <<>> /\ revision = 1 /\ woken = FALSE /\ writes = 0

-----------------------------------------------------------------------------
(* What the user asks for, in a frame that requests the next one.          *)

Send(job) == queue' = Append(queue, job) /\ woken' = TRUE /\ UNCHANGED vars

(* To a task: it reaches the queue in its own time.                        *)
AskUnlock ==
  /\ ~gate.open /\ gate.work = "none" /\ opened < MaxUnlocks
  /\ gate' = [gate EXCEPT !.work = "unlock", !.call = "spawned"]
  /\ woken' = TRUE
  /\ UNCHANGED <<vars, queue, canvas, write, undo, inbox, revision, writes>>

SendUnlock ==
  /\ gate.call = "spawned"
  /\ queue' = Append(queue, Plain("unlock"))
  /\ gate' = [gate EXCEPT !.call = "queued"]
  /\ UNCHANGED <<vars, canvas, write, undo, inbox, revision, woken, writes>>

(* Another library, or a copy put back.                                    *)
AskLeave ==
  /\ gate.open /\ gate.work = "none"
  /\ Send(Plain("leave"))
  /\ gate' = [gate EXCEPT !.work = "leave", !.call = "queued"]
  /\ UNCHANGED <<canvas, write, undo, inbox, revision, writes>>

(* One write under way at a time; the interface may have several.          *)
AskWrite ==
  /\ gate.open /\ write.call = "idle" /\ writes < MaxWrites
  /\ Send(Plain("write"))
  /\ write' = [write EXCEPT !.call = "queued"]
  /\ writes' = writes + 1
  /\ UNCHANGED <<gate, canvas, undo, inbox, revision>>

-----------------------------------------------------------------------------
(* The db thread, and the tasks that carry its answers.                    *)

Runs(kind) == queue # <<>> /\ Head(queue).kind = kind /\ queue' = Tail(queue)

(* The phrase is wrong, or the library opens.                              *)
RunUnlock ==
  /\ Runs("unlock")
  /\ \/ UNCHANGED vars /\ gate' = [gate EXCEPT !.call = "ran", !.ok = FALSE]
     \/ \E r \in Rows : Unlock(r) /\ gate' = [gate EXCEPT !.call = "ran", !.ok = TRUE]
     \/ \E r \in Rows :
          UnlockUnannounced(r) /\ gate' = [gate EXCEPT !.call = "ran", !.ok = FALSE]
  /\ UNCHANGED <<canvas, write, undo, inbox, revision, woken, writes>>

(* open_library empties the Db first, and points the registry after.       *)
RunLeave ==
  /\ Runs("leave")
  /\ Close
  /\ \E ok \in {TRUE, ~RegistryFails} : gate' = [gate EXCEPT !.call = "ran", !.ok = ok]
  /\ UNCHANGED <<canvas, write, undo, inbox, revision, woken, writes>>

WriteRan(ok) == write' = [call |-> "ran", ok |-> ok, library |-> open]

RunWrite ==
  /\ Runs("write")
  /\ \/ \E changed \in SUBSET Notes : \E new \in [changed -> Row \cup {Gone}] :
          \/ (Write(changed, new) \/ WriteClearing(changed, new)) /\ WriteRan(TRUE)
          \/ WriteUnanswered(changed, new) /\ WriteRan(FALSE)
     \/ open = None /\ UNCHANGED vars /\ WriteRan(FALSE)
  /\ UNCHANGED <<gate, canvas, undo, inbox, revision, woken, writes>>

(* The answer of a list the screen no longer waits for goes nowhere.       *)
ListRan(ok, answer) ==
  canvas' = IF canvas.call = "queued" /\ canvas.asked = Head(queue).of
            THEN [canvas EXCEPT !.call = "ran", !.ok = ok, !.answer = answer]
            ELSE canvas

RunList ==
  /\ Runs("list")
  /\ \/ /\ List
        /\ ListRan(TRUE, [library |-> open, notes |-> index'.entries,
                          whole |-> index'.entries = rows])
     \/ ReadFails /\ ListRan(FALSE, Nothing)
     \/ open = None /\ UNCHANGED vars /\ ListRan(FALSE, Nothing)
  /\ UNCHANGED <<gate, write, undo, inbox, revision, woken, writes>>

RunFill ==
  /\ Runs("fill")
  /\ LET f == Head(queue).of
     IN  FillStart(f) \/ FillSlice(f) \/ FillLocked(f)
           \/ FillStartFails(f) \/ FillSliceFails(f) \/ FillMapLessFails(f)
  /\ UNCHANGED ui

RunJob == RunUnlock \/ RunLeave \/ RunWrite \/ RunList \/ RunFill

(* The task of a fill sends its next job.                                  *)
SendFill(f) ==
  /\ fills[f] \in {"start", "slice"}
  /\ \A i \in DOMAIN queue : queue[i] # [kind |-> "fill", of |-> f]
  /\ queue' = Append(queue, [kind |-> "fill", of |-> f])
  /\ UNCHANGED <<vars, ui>>

(* It posts an event, which wakes the interface.                           *)
TellFill(f) ==
  /\ Tell(f)
  /\ inbox' = Append(inbox, IF fills[f] = "ready" THEN "ready" ELSE "progress")
  /\ woken' = TRUE
  /\ UNCHANGED <<queue, gate, canvas, write, undo, revision, writes>>

(* Its end lets go of the Background, which wakes the interface as well.   *)
GiveUpFill(f) ==
  /\ GiveUp(f)
  /\ woken' = TRUE
  /\ UNCHANGED <<queue, gate, canvas, write, undo, inbox, revision, writes>>

(* Mutant: the answer is sent, and nothing wakes the interface. *)
ArriveUnseen ==
  /\ canvas.call = "ran" /\ canvas' = [canvas EXCEPT !.call = "arrived"]
  /\ UNCHANGED <<vars, queue, gate, write, undo, inbox, revision, woken, writes>>

(* The answer of a list is sent, which wakes the interface.                *)
ListArrives ==
  /\ canvas.call = "ran" /\ canvas' = [canvas EXCEPT !.call = "arrived"]
  /\ woken' = TRUE
  /\ UNCHANGED <<vars, queue, gate, write, undo, inbox, revision, writes>>

WriteArrives ==
  /\ write.call = "ran" /\ write' = [write EXCEPT !.call = "arrived"]
  /\ woken' = TRUE
  /\ UNCHANGED <<vars, queue, gate, canvas, undo, inbox, revision, writes>>

GateArrives ==
  /\ gate.call = "ran" /\ gate' = [gate EXCEPT !.call = "arrived"]
  /\ woken' = TRUE
  /\ UNCHANGED <<vars, queue, canvas, write, undo, inbox, revision, writes>>

-----------------------------------------------------------------------------
(* A frame: the events, then the gate, then the list.                      *)

Events(event) == {i \in DOMAIN inbox : inbox[i] = event}

(* Mutant: the end of a fill asks for nothing again. *)
HeardNothing == 0

(* Each IndexReady moves the revision.                                     *)
Heard == Cardinality(Events("ready"))

(* Mutant: the event is taken for the state. *)
ToldRaw == IF inbox = <<>> THEN gate.index ELSE inbox[Len(inbox)]

(* What the gate knows of the index: the last event.                       *)
Told ==
  IF inbox = <<>> THEN gate.index
  ELSE IF inbox[Len(inbox)] = "ready" THEN "ready" ELSE "filling"

Answered(work) == gate.work = work /\ gate.call = "arrived" /\ gate.ok
Reset == Answered("unlock") \/ Answered("leave")

(* Mutant: the library left, the gate stays as it was. *)
GateAfterKept ==
  IF Answered("unlock") THEN [ClosedGate EXCEPT !.open = TRUE]
  ELSE IF gate.call = "arrived"
  THEN [gate EXCEPT !.work = "none", !.call = "idle", !.index = Told]
  ELSE [gate EXCEPT !.index = Told]

(* Gate::update.  What an event said goes with the gate that heard it.     *)
GateAfter ==
  IF Reset THEN [ClosedGate EXCEPT !.open = Answered("unlock")]
  ELSE IF gate.call = "arrived"
  THEN [gate EXCEPT !.work = "none", !.call = "idle", !.index = Told]
  ELSE [gate EXCEPT !.index = Told]

WriteAdopted == GateAfter.open /\ write.call = "arrived"

RevisionAfter ==
  revision + Heard + (IF Reset THEN 1 ELSE 0) + (IF WriteAdopted /\ write.ok THEN 1 ELSE 0)

(* Mutant: a list asked of the library before, or shown of it, is kept. *)
ScopeKept == canvas

(* reset_library_scope: the list starts over when another library opens.   *)
Scope == IF Reset THEN BlankCanvas ELSE canvas

(* QueryCell::update: an answer is dropped if newer parameters are wanted. *)
Adopted(c, wanted) ==
  LET idle == [c EXCEPT !.asked = 0, !.call = "idle", !.ok = FALSE, !.answer = Nothing]
  IN  IF c.call # "arrived" THEN c
      ELSE IF c.asked # wanted THEN idle
      ELSE IF c.ok THEN [idle EXCEPT !.shown = c.answer, !.failed = FALSE, !.answered = wanted]
      ELSE [idle EXCEPT !.failed = TRUE, !.answered = wanted]

(* Mutant: asked before the frame's answer is adopted. *)
AsksFirst(c, wanted) == canvas.call = "idle" /\ c.answered # wanted

(* ... then what is wanted is asked for, one call in flight at a time.     *)
Asks(c, wanted) == c.call = "idle" /\ c.answered # wanted

Frame ==
  /\ inbox' = <<>> /\ woken' = FALSE
  /\ gate' = GateAfter
  /\ write' = IF WriteAdopted THEN NoWrite ELSE write
  /\ undo' = IF WriteAdopted /\ write.ok THEN write.library ELSE IF Reset THEN None ELSE undo
  /\ revision' = RevisionAfter
  /\ LET c == IF GateAfter.open THEN Adopted(Scope, RevisionAfter) ELSE Scope
     IN  IF GateAfter.open /\ Asks(c, RevisionAfter)
         THEN /\ canvas' = [c EXCEPT !.call = "queued", !.asked = RevisionAfter]
              /\ queue' = Append(queue, [kind |-> "list", of |-> RevisionAfter])
         ELSE canvas' = c /\ UNCHANGED queue
  /\ UNCHANGED <<vars, writes>>

ListNext ==
  \/ AskUnlock \/ SendUnlock \/ AskLeave \/ AskWrite
  \/ RunJob
  \/ \E f \in Fills : SendFill(f) \/ TellFill(f) \/ GiveUpFill(f)
  \/ ListArrives \/ WriteArrives \/ GateArrives
  \/ Frame

ListSpec == ListInit /\ [][ListNext]_listVars

(* The db thread runs its queue, tokio its tasks, and egui the frames that *)
(* are requested, never another; the user need not ask for anything.       *)
Fairness ==
  /\ WF_listVars(RunJob) /\ WF_listVars(SendUnlock)
  /\ \A f \in Fills :
       WF_listVars(SendFill(f)) /\ WF_listVars(TellFill(f)) /\ WF_listVars(GiveUpFill(f))
  /\ WF_listVars(ListArrives) /\ WF_listVars(WriteArrives) /\ WF_listVars(GateArrives)
  /\ WF_listVars(woken /\ Frame)

LiveSpec == ListSpec /\ Fairness
-----------------------------------------------------------------------------
(* Nothing is under way, and nothing will happen unless the user asks.     *)
Quiet ==
  /\ queue = <<>> /\ inbox = <<>> /\ ~woken
  /\ {gate.call, canvas.call, write.call} = {"idle"}
  /\ \A f \in Fills : fills[f] \in {"none", "done"}

ShowsTheLibrary ==
  canvas.shown # Nothing /\ canvas.shown.library = open /\ canvas.shown.notes = rows

(* Once everything has come to rest, the list is the whole library as it   *)
(* now is, or says it failed: a list answered from the first slice, or     *)
(* before a write, was asked again, and no wake-up was lost.               *)
QuietMeansWhole ==
  Quiet /\ gate.open /\ open # None => ShowsTheLibrary \/ canvas.failed

(* Whatever failed, the list at rest is the answer to what is wanted now:  *)
(* an answer dropped for being too old is always followed by another.      *)
QuietIsAnswered == Quiet /\ gate.open => canvas.answered = revision

(* A list of one library is never shown over another.                      *)
ShownIsOfTheOpenLibrary ==
  gate.open /\ gate.work = "none" /\ open # None /\ canvas.shown # Nothing
    => canvas.shown.library = open

(* Once a list showed the whole of a library, it never again shows a part. *)
NeverPartAgain ==
  [][canvas.shown # Nothing /\ canvas'.shown # Nothing /\ canvas.shown.whole
       /\ canvas.shown.library = canvas'.shown.library => canvas'.shown.whole]_listVars

(* A library opened is shown whole in the end, unless it is left, a write  *)
(* keeps changing it or the list says it failed.                           *)
OpenedComesWhole ==
  gate.open /\ gate.work = "none" ~> ShowsTheLibrary \/ canvas.failed \/ gate.work = "leave"

(* "Another library is open, so nothing of the previous one may stay": the *)
(* undo bar offers no write of a library left.                             *)
UndoIsOfTheOpenLibrary ==
  gate.open /\ gate.work = "none" /\ open # None /\ undo # None => undo = open

(* "They all answer Locked afterwards, which sends the interface back to   *)
(* the gate": unless the registry fails, at rest the interface is not open *)
(* over a library that is closed, whatever was in flight as it was left.   *)
GateFollowsTheEngine == Quiet /\ gate.open => open # None

=============================================================================
