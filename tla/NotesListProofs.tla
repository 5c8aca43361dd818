--------------------------- MODULE NotesListProofs ---------------------------
(* Theorems about NotesList, for every set of notes, any slice and any     *)
(* number of writes and of libraries: that it runs the index as NotesIndex *)
(* says, so that what is proved of the index holds under the list; and     *)
(* what the list shows at rest.                                            *)
EXTENDS NotesList, NotesIndexProofs, SequenceTheorems, FiniteSetTheorems

USE NothingAssumption, ListBoundAssumption

-----------------------------------------------------------------------------
(* The invariants.                                                         *)

(* A fill's job names a fill: its steps are those of NotesIndex.           *)
FillJobsAreFills == \A i \in 1 .. Len(queue) : queue[i].kind = "fill" => queue[i].of \in Fills

(* The gate works on one thing at a time, the one its state calls for.     *)
GateShape ==
  /\ gate.work = "none" <=> gate.call = "idle"
  /\ gate.call = "spawned" => gate.work = "unlock"
  /\ gate.work = "leave" => gate.open
  /\ gate.work = "unlock" => ~gate.open

(* A job of the queue that opens or closes the library is what it waits    *)
(* for, and there is one at most.                                          *)
OfGate(kind) == kind \in {"unlock", "leave"}
GateJobs ==
  /\ \A i \in 1 .. Len(queue) :
       OfGate(queue[i].kind) => gate.work = queue[i].kind /\ gate.call = "queued"
  /\ \A i, j \in 1 .. Len(queue) : OfGate(queue[i].kind) /\ OfGate(queue[j].kind) => i = j

GateInv == GateShape /\ GateJobs

(* The answer of a list, on its way to the screen.                         *)
Coming == canvas.call \in {"ran", "arrived"} /\ canvas.ok

(* Nothing is asked or shown at the gate; what is shown, or on its way, is *)
(* of the library open, if one is.                                         *)
ScopeInv ==
  /\ ~gate.open => canvas = BlankCanvas
  /\ Coming => canvas.answer # Nothing
  /\ gate.open /\ open # None =>
       /\ canvas.shown # Nothing => canvas.shown.library = open
       /\ Coming => canvas.answer.library = open

(* Unless the registry fails: a library closed under an open gate is one   *)
(* being left, and the gate opens over one that is open.                   *)
FollowInv ==
  /\ gate.open /\ open = None =>
       gate.work = "leave" /\ gate.call \in {"ran", "arrived"} /\ gate.ok
  /\ gate.work = "unlock" /\ gate.call \in {"ran", "arrived"} /\ gate.ok => open # None

(* A list is asked for until its answer is that of the revision.           *)
AskedInv ==
  /\ revision > 0
  /\ canvas.asked <= revision /\ canvas.answered <= revision
  /\ canvas.answered # 0 /\ ~canvas.failed => canvas.shown # Nothing
  /\ gate.open => canvas.call # "idle" \/ canvas.answered = revision

(* What a list reads from now on is the whole library.                     *)
Entire == index.library # open \/ ~index.filling \/ index.entries = rows

WholeInv ==
  /\ gate.open /\ open # None =>
       /\ canvas.shown # Nothing /\ canvas.shown.whole => Entire
       /\ Coming /\ canvas.answer.whole => Entire
  /\ canvas.shown # Nothing /\ canvas.shown.whole /\ Coming =>
       canvas.answer.whole \/ canvas.answer.library # canvas.shown.library

(* A fill that goes on, and says so in the end.                            *)
Filling == \E f \in Fills : fills[f] \in {"start", "slice", "tell"}
FillingInv == index.filling /\ ~index.complete => Filling
FillUnderWay == \E f \in Fills : fills[f] \in {"start", "slice", "tell", "ready"}

(* The revision is about to move: for a write, for a fill that ended, or   *)
(* for one that will.                                                      *)
WriteToHear == write.call \in {"ran", "arrived"} /\ write.ok
EndToHear == \E i \in 1 .. Len(inbox) : inbox[i] = "ready"
EndToCome == index.library = open /\ FillUnderWay
Stirring == WriteToHear \/ EndToHear \/ EndToCome

(* What is shown of this revision, or on its way, is the library as it is, *)
(* unless the revision is about to move.                                   *)
CurrentInv ==
  gate.open /\ open # None =>
    /\ canvas.shown # Nothing /\ canvas.answered = revision /\ ~canvas.failed
         => canvas.shown.notes = rows \/ Stirring
    /\ Coming /\ canvas.asked = revision => canvas.answer.notes = rows \/ Stirring

-----------------------------------------------------------------------------
(* The queue.                                                              *)

(* A job sent is the last of the queue.                                    *)
LEMMA Sent ==
  ASSUME queue \in Seq(Job), NEW j \in Job, queue' = Append(queue, j)
  PROVE  /\ queue' \in Seq(Job) /\ Len(queue) \in Nat /\ Len(queue') = Len(queue) + 1
         /\ \A i \in 1 .. Len(queue') :
              queue'[i] = IF i <= Len(queue) THEN queue[i] ELSE j
  BY AppendProperties, LenProperties

(* A job run was the first.                                                *)
LEMMA Ran ==
  ASSUME queue \in Seq(Job), NEW kind, Runs(kind)
  PROVE  /\ queue' \in Seq(Job) /\ Len(queue) \in Nat \ {0} /\ Len(queue') = Len(queue) - 1
         /\ Head(queue) = queue[1] /\ Head(queue) \in Job /\ Head(queue).kind = kind
         /\ \A i \in 1 .. Len(queue') : i + 1 \in 1 .. Len(queue) /\ queue'[i] = queue[i + 1]
  <1>1. queue # <<>> /\ Head(queue).kind = kind /\ queue' = Tail(queue)
    BY DEF Runs
  <1>2. Len(queue) \in Nat \ {0} /\ Head(queue) = queue[1]
    BY <1>1, EmptySeq
  <1> QED BY <1>1, <1>2, HeadTailProperties

(* What the jobs and the answers are made of.                              *)
LEMMA Kinds ==
  /\ \A kind \in {"unlock", "leave", "write"} : Plain(kind) \in Job /\ Plain(kind).kind = kind
  /\ \A n \in Nat : /\ [kind |-> "fill", of |-> n] \in Job
                    /\ [kind |-> "list", of |-> n] \in Job
  BY DEF Plain, Job

-----------------------------------------------------------------------------
(* The list implements the index.                                          *)

(* A step of the index that neither opens a library nor closes it.         *)
WhileOpen ==
  \/ \E f \in Fills : FillStep(f)
  \/ \E changed \in SUBSET Notes : \E new \in [changed -> Row \cup {Gone}] :
       Write(changed, new) \/ WriteClearing(changed, new) \/ WriteUnanswered(changed, new)
  \/ List \/ ReadFails

(* Every step of the list is one of those, or leaves the index alone, but  *)
(* for the two jobs of the gate.                                           *)
LEMMA StepsWhileOpen ==
  ASSUME queue \in Seq(Job), FillJobsAreFills, [ListNext]_listVars
  PROVE  RunUnlock \/ RunLeave \/ WhileOpen \/ UNCHANGED vars
  <1>1. CASE AskUnlock \/ SendUnlock \/ AskLeave \/ AskWrite \/ Frame
    BY <1>1 DEF AskUnlock, SendUnlock, AskLeave, AskWrite, Frame, Send
  <1>2. CASE ListArrives \/ WriteArrives \/ GateArrives
    BY <1>2 DEF ListArrives, WriteArrives, GateArrives
  <1>3. CASE RunWrite
    BY <1>3 DEF RunWrite, WhileOpen
  <1>4. CASE RunList
    BY <1>4 DEF RunList, WhileOpen
  <1>5. CASE RunFill
    <2>1. Head(queue).of \in Fills
      BY <1>5, Ran DEF RunFill, FillJobsAreFills
    <2> QED BY <1>5, <2>1 DEF RunFill, WhileOpen, FillStep
  <1>6. ASSUME NEW f \in Fills, SendFill(f) \/ TellFill(f) \/ GiveUpFill(f)
        PROVE  WhileOpen \/ UNCHANGED vars
    BY <1>6 DEF SendFill, TellFill, GiveUpFill, WhileOpen, FillStep
  <1>7. CASE UNCHANGED listVars
    BY <1>7 DEF listVars
  <1> QED BY <1>1, <1>2, <1>3, <1>4, <1>5, <1>6, <1>7 DEF ListNext, RunJob

(* So every step is a step of the index, or leaves it alone.               *)
LEMMA StepsOfTheIndex ==
  ASSUME queue \in Seq(Job), FillJobsAreFills, [ListNext]_listVars
  PROVE  [Next]_vars
  <1>1. RunUnlock \/ RunLeave => [Next]_vars
    BY DEF RunUnlock, RunLeave, Next
  <1>2. WhileOpen => Next
    BY DEF WhileOpen, Next
  <1> QED BY <1>1, <1>2, StepsWhileOpen

(* The types of the gate, of a list and of a write.                        *)
Gates ==
  [open : BOOLEAN, work : {"none", "unlock", "leave"}, call : Calls,
   ok : BOOLEAN, index : {"empty", "filling", "ready"}]
Cells ==
  [shown : Answer \cup {Nothing}, failed : BOOLEAN, answered : Nat,
   asked : Nat, call : Calls, ok : BOOLEAN, answer : Answer \cup {Nothing}]
Writes == [call : Calls, ok : BOOLEAN, library : Numbers]

ListTyped ==
  /\ queue \in Seq(Job) /\ FillJobsAreFills
  /\ gate \in Gates /\ canvas \in Cells /\ write \in Writes /\ undo \in Numbers
  /\ inbox \in Seq({"progress", "ready"})
  /\ revision \in Nat /\ writes \in Nat /\ woken \in BOOLEAN

(* What the proofs suppose of the values is the type invariant.             *)
LEMMA ListTypes == TypeOK /\ ListTyped => ListTypeOK
  BY DEF ListTyped, ListTypeOK, Gates, Cells, Writes

(* Events told, one by one.                                                *)
LEMMA HeardIsANumber ==
  ASSUME inbox \in Seq({"progress", "ready"})
  PROVE  /\ Heard \in Nat
         /\ \A i \in 1 .. Len(inbox) : inbox[i] = "ready" => Heard > 0
  <1>1. Len(inbox) \in Nat /\ DOMAIN inbox = 1 .. Len(inbox)
    BY LenProperties
  <1>2. IsFiniteSet(1 .. Len(inbox))
    BY <1>1, FS_Interval
  <1>3. Events("ready") \in SUBSET (1 .. Len(inbox))
    BY <1>1 DEF Events
  <1>4. IsFiniteSet(Events("ready"))
    BY <1>2, <1>3, FS_Subset
  <1>5. Heard \in Nat /\ (Heard = 0 <=> Events("ready") = {})
    BY <1>4, FS_CardinalityType, FS_EmptySet DEF Heard
  <1>6. \A i \in 1 .. Len(inbox) : inbox[i] = "ready" => i \in Events("ready")
    BY <1>1 DEF Events
  <1> QED BY <1>5, <1>6

(* What a frame makes of the gate and of the list.                         *)
LEMMA FrameIsTyped ==
  ASSUME ListTyped
  PROVE  /\ GateAfter \in Gates
         /\ RevisionAfter \in Nat /\ RevisionAfter >= revision
         /\ Scope \in Cells
         /\ \A c \in Cells, wanted \in Nat : Adopted(c, wanted) \in Cells
  <1>1. Told \in {"empty", "filling", "ready"}
    BY DEF ListTyped, Gates, Told
  <1>2. GateAfter \in Gates
    BY <1>1 DEF ListTyped, Gates, GateAfter, ClosedGate, Answered, Calls
  <1>3. RevisionAfter \in Nat /\ RevisionAfter >= revision
    BY HeardIsANumber DEF ListTyped, RevisionAfter
  <1>4. Scope \in Cells
    BY DEF ListTyped, Scope, BlankCanvas, Cells, Calls
  <1>5. ASSUME NEW c \in Cells, NEW wanted \in Nat
        PROVE  Adopted(c, wanted) \in Cells
    BY DEF Adopted, Cells, Calls
  <1> QED BY <1>2, <1>3, <1>4, <1>5

(* At the start everything is empty.                                       *)
LEMMA ListInitIsTyped == ListInit => ListTyped
  <1>1. None \in Numbers
    BY SliceAssumption DEF None, Numbers
  <1>2. ClosedGate \in Gates /\ BlankCanvas \in Cells /\ NoWrite \in Writes
    BY <1>1 DEF ClosedGate, BlankCanvas, NoWrite, Gates, Cells, Writes, Calls
  <1>3. ListInit => queue \in Seq(Job) /\ FillJobsAreFills /\ inbox \in Seq({"progress", "ready"})
    BY EmptySeq DEF ListInit, FillJobsAreFills
  <1>4. ListInit => gate \in Gates /\ canvas \in Cells /\ write \in Writes
    BY <1>2 DEF ListInit
  <1>5. ListInit => undo \in Numbers /\ revision \in Nat /\ writes \in Nat
    BY <1>1 DEF ListInit
  <1>6. ListInit => woken \in BOOLEAN
    BY Zenon DEF ListInit
  <1> QED BY <1>3, <1>4, <1>5, <1>6 DEF ListTyped

(* A job sent of a fill is that of one there is.                           *)
LEMMA SentJobs ==
  ASSUME queue \in Seq(Job), FillJobsAreFills, NEW j \in Job, queue' = Append(queue, j),
         j.kind = "fill" => j.of \in Fills
  PROVE  queue' \in Seq(Job) /\ FillJobsAreFills'
  <1>1. ASSUME NEW i \in 1 .. Len(queue'), queue'[i].kind = "fill"
        PROVE  queue'[i].of \in Fills
    <2>1. CASE i <= Len(queue)
      BY <1>1, <2>1, Sent DEF FillJobsAreFills
    <2>2. CASE ~(i <= Len(queue))
      BY <1>1, <2>2, Sent
    <2> QED BY <2>1, <2>2
  <1> QED BY <1>1, Sent DEF FillJobsAreFills

(* Every step of the list keeps its variables of their types.              *)
LEMMA ListStepIsTyped ==
  ASSUME TypeOK, TypeOK', ListTyped, [ListNext]_listVars
  PROVE  ListTyped'
  <1> USE DEF ListTyped
  <1>0. Fills \subseteq Nat /\ None \in Numbers /\ open \in Numbers
    BY SliceAssumption DEF Fills, Numbers, None, TypeOK
  <1>1. CASE AskUnlock
    BY <1>1 DEF AskUnlock, Gates, Calls, FillJobsAreFills
  <1>2. CASE SendUnlock
    <2>1. gate' \in Gates /\ queue' = Append(queue, Plain("unlock"))
      BY <1>2 DEF SendUnlock, Gates, Calls
    <2> QED BY <1>2, <2>1, Sent, Kinds DEF SendUnlock, FillJobsAreFills
  <1>3. CASE AskLeave
    <2>1. gate' \in Gates /\ queue' = Append(queue, Plain("leave"))
      BY <1>3 DEF AskLeave, Send, Gates, Calls
    <2> QED BY <1>3, <2>1, Sent, Kinds DEF AskLeave, Send, FillJobsAreFills
  <1>4. CASE AskWrite
    <2>1. write' \in Writes /\ queue' = Append(queue, Plain("write"))
      BY <1>4 DEF AskWrite, Send, Writes, Calls
    <2> QED BY <1>4, <2>1, Sent, Kinds DEF AskWrite, Send, FillJobsAreFills
  <1>5. ASSUME RunJob
        PROVE  queue' \in Seq(Job) /\ FillJobsAreFills'
    BY <1>5, Ran DEF RunJob, RunUnlock, RunLeave, RunWrite, RunList, RunFill, FillJobsAreFills
  <1>6. CASE RunUnlock \/ RunLeave
    <2>1. gate' \in Gates
      BY <1>6 DEF RunUnlock, RunLeave, Gates, Calls
    <2> QED BY <1>5, <1>6, <2>1 DEF RunUnlock, RunLeave, RunJob
  <1>7. CASE RunWrite
    <2>1. \E ok \in BOOLEAN : WriteRan(ok)
      BY <1>7 DEF RunWrite
    <2>2. write' \in Writes
      BY <1>0, <2>1 DEF WriteRan, Writes, Calls
    <2> QED BY <1>5, <1>7, <2>2 DEF RunWrite, RunJob
  <1>8. CASE RunList
    <2>1. index'.entries \in Rows
      BY IndexFields DEF TypeOK
    <2>2. [library |-> open, notes |-> index'.entries, whole |-> index'.entries = rows] \in Answer
      BY <1>0, <2>1 DEF Answer
    <2>3. ASSUME NEW ok \in BOOLEAN, NEW answer \in Answer \cup {Nothing}, ListRan(ok, answer)
          PROVE  canvas' \in Cells
      BY <2>3 DEF ListRan, Cells, Calls
    <2>4. canvas' \in Cells
      BY <1>8, <2>2, <2>3 DEF RunList
    <2> QED BY <1>5, <1>8, <2>4 DEF RunList, RunJob
  <1>9. CASE RunFill
    BY <1>5, <1>9 DEF RunFill, ui, RunJob
  <1>10. ASSUME NEW f \in Fills, SendFill(f)
         PROVE  ListTyped'
    <2>1. f \in Nat /\ queue' = Append(queue, [kind |-> "fill", of |-> f])
      BY <1>0, <1>10 DEF SendFill
    <2>2. queue' \in Seq(Job) /\ FillJobsAreFills'
      BY <2>1, SentJobs, Kinds
    <2> QED BY <1>10, <2>2 DEF SendFill, ui
  <1>11. ASSUME NEW f \in Fills, TellFill(f)
         PROVE  ListTyped'
    <2>1. inbox' \in Seq({"progress", "ready"})
      BY <1>11, AppendProperties DEF TellFill
    <2> QED BY <1>11, <2>1 DEF TellFill, FillJobsAreFills
  <1>12. ASSUME NEW f \in Fills, GiveUpFill(f)
         PROVE  ListTyped'
    BY <1>12 DEF GiveUpFill, FillJobsAreFills
  <1>13. CASE ListArrives \/ WriteArrives \/ GateArrives
    <2>1. canvas' \in Cells /\ write' \in Writes /\ gate' \in Gates
      BY <1>13 DEF ListArrives, WriteArrives, GateArrives, Gates, Cells, Writes, Calls
    <2> QED BY <1>13, <2>1 DEF ListArrives, WriteArrives, GateArrives, FillJobsAreFills
  <1>14. CASE Frame
    <2> DEFINE c == IF GateAfter.open THEN Adopted(Scope, RevisionAfter) ELSE Scope
    <2>1. c \in Cells /\ RevisionAfter \in Nat /\ GateAfter \in Gates
      BY FrameIsTyped
    <2>2. [c EXCEPT !.call = "queued", !.asked = RevisionAfter] \in Cells
      BY <2>1 DEF Cells, Calls
    <2>3. canvas' \in Cells
      BY <1>14, <2>1, <2>2 DEF Frame
    <2>4. ASSUME queue' = Append(queue, [kind |-> "list", of |-> RevisionAfter])
          PROVE  queue' \in Seq(Job) /\ FillJobsAreFills'
      <3>1. [kind |-> "list", of |-> RevisionAfter].kind # "fill"
        OBVIOUS
      <3> QED BY <2>1, <2>4, <3>1, SentJobs, Kinds
    <2>5. queue' \in Seq(Job) /\ FillJobsAreFills'
      BY <1>14, <2>4 DEF Frame, FillJobsAreFills
    <2>6. write' \in Writes /\ undo' \in Numbers
      BY <1>0, <1>14 DEF Frame, NoWrite, Writes, Calls
    <2>7. /\ gate' = GateAfter /\ revision' = RevisionAfter
          /\ writes' = writes /\ woken' = FALSE
      BY <1>14 DEF Frame
    <2>8. inbox' \in Seq({"progress", "ready"})
      BY <1>14, EmptySeq DEF Frame
    <2> QED BY <2>1, <2>3, <2>5, <2>6, <2>7, <2>8
  <1>15. CASE UNCHANGED listVars
    BY <1>15 DEF listVars, ui, FillJobsAreFills
  <1> QED BY <1>1, <1>2, <1>3, <1>4, <1>6, <1>7, <1>8, <1>9, <1>10, <1>11, <1>12, <1>13,
             <1>14, <1>15 DEF ListNext, RunJob

(* Every variable keeps its type, those of the index included.             *)
LEMMA ListIsTyped == ListSpec => [](ListTyped /\ Shape)
  <1>1. ListInit => ListTyped /\ Shape
    BY ListInitIsTyped, InitShape DEF ListInit
  <1>2. ListTyped /\ Shape /\ [ListNext]_listVars => ListTyped' /\ Shape'
    <2> SUFFICES ASSUME ListTyped, Shape, [ListNext]_listVars PROVE ListTyped' /\ Shape'
      OBVIOUS
    <2>1. Shape'
      BY StepsOfTheIndex, NextShape DEF ListTyped
    <2> QED BY <2>1, ListStepIsTyped DEF Shape
  <1> QED BY <1>1, <1>2, PTL DEF ListSpec

(* The jobs, the answers and the events keep their shape, whatever the     *)
(* order in which they come.                                               *)
THEOREM ListTypeCorrect == ListSpec => []ListTypeOK
  <1>1. ListTyped /\ Shape => ListTypeOK
    BY ListTypes DEF Shape
  <1> QED BY <1>1, ListIsTyped, PTL

(* The list, with its queue and its frames, runs the index as NotesIndex   *)
(* says: the theorems about the index are theorems about the list.         *)
THEOREM ListImplementsIndex == ListSpec => Spec
  <1>1. ListInit => Init
    BY DEF ListInit
  <1>2. ListTyped /\ [ListNext]_listVars => [Next]_vars
    BY StepsOfTheIndex DEF ListTyped
  <1> QED BY <1>1, <1>2, ListIsTyped, PTL DEF ListSpec, Spec

-----------------------------------------------------------------------------
(* The gate.                                                               *)

(* Its jobs when another is sent, ...                                      *)
LEMMA OtherJobSent ==
  ASSUME ListTyped, GateJobs, NEW j \in Job, queue' = Append(queue, j), ~OfGate(j.kind),
         gate.call = "queued" => gate'.work = gate.work /\ gate'.call = gate.call
  PROVE  GateJobs'
  <1>1. ASSUME NEW i \in 1 .. Len(queue'), OfGate(queue'[i].kind)
        PROVE  i \in 1 .. Len(queue) /\ queue'[i] = queue[i]
    BY <1>1, Sent DEF ListTyped
  <1> QED BY <1>1 DEF GateJobs

(* ... when one of the gate is, which waited for none, ...                 *)
LEMMA GateJobSent ==
  ASSUME ListTyped, GateJobs, NEW j \in Job, queue' = Append(queue, j), gate.call # "queued",
         gate'.work = j.kind, gate'.call = "queued"
  PROVE  GateJobs'
  <1>1. ASSUME NEW i \in 1 .. Len(queue'), OfGate(queue'[i].kind)
        PROVE  i = Len(queue) + 1 /\ queue'[i] = j
    BY <1>1, Sent DEF ListTyped, GateJobs
  <1> QED BY <1>1 DEF GateJobs

(* ... when another is run, ...                                            *)
LEMMA OtherJobRun ==
  ASSUME ListTyped, GateJobs, NEW kind, Runs(kind), UNCHANGED gate
  PROVE  GateJobs'
  <1>1. ASSUME NEW i \in 1 .. Len(queue')
        PROVE  i + 1 \in 1 .. Len(queue) /\ queue'[i] = queue[i + 1]
    BY <1>1, Ran DEF ListTyped
  <1>2. ASSUME NEW i \in 1 .. Len(queue'), NEW j \in 1 .. Len(queue'),
               OfGate(queue'[i].kind), OfGate(queue'[j].kind)
        PROVE  i = j
    <2>1. i + 1 = j + 1
      BY <1>1, <1>2 DEF GateJobs
    <2>2. i \in Int /\ j \in Int
      BY Ran DEF ListTyped
    <2> QED BY <2>1, <2>2
  <1>3. ASSUME NEW i \in 1 .. Len(queue'), OfGate(queue'[i].kind)
        PROVE  gate'.work = queue'[i].kind /\ gate'.call = "queued"
    BY <1>1, <1>3 DEF GateJobs
  <1> QED BY <1>2, <1>3 DEF GateJobs

(* ... and when one of the gate is: it waited for that one.                *)
LEMMA GateJobRun ==
  ASSUME ListTyped, GateJobs, NEW kind, Runs(kind), OfGate(kind)
  PROVE  GateJobs' /\ gate.work = kind /\ gate.call = "queued"
  <1>1. /\ Len(queue) \in Nat \ {0} /\ queue[1].kind = kind
        /\ \A i \in 1 .. Len(queue') : i + 1 \in 1 .. Len(queue) /\ queue'[i] = queue[i + 1]
        /\ Len(queue') \in Nat
    BY Ran DEF ListTyped
  <1>2. 1 \in 1 .. Len(queue)
    BY <1>1
  <1>3. ASSUME NEW i \in 1 .. Len(queue')
        PROVE  ~OfGate(queue'[i].kind)
    <2>1. i + 1 # 1
      BY <1>1
    <2> QED BY <1>1, <1>2, <2>1 DEF GateJobs
  <1> QED BY <1>1, <1>2, <1>3 DEF GateJobs

(* The gate and the job it awaits agree, whatever overtakes what.           *)
LEMMA GateStep ==
  ASSUME ListTyped, GateInv, [ListNext]_listVars
  PROVE  GateInv'
  <1> USE DEF GateInv
  <1>0. gate \in Gates /\ Fills \subseteq Nat
    BY SliceAssumption DEF ListTyped, Fills
  <1>1. CASE AskUnlock
    <2>1. GateShape'
      BY <1>0, <1>1 DEF AskUnlock, GateShape, Gates
    <2>2. GateJobs'
      BY <1>0, <1>1 DEF AskUnlock, GateShape, GateJobs, Gates
    <2> QED BY <2>1, <2>2
  <1>2. CASE SendUnlock
    <2>1. GateShape'
      BY <1>0, <1>2 DEF SendUnlock, GateShape, Gates
    <2>2. gate.call # "queued" /\ gate'.work = "unlock" /\ gate'.call = "queued"
      BY <1>0, <1>2 DEF SendUnlock, GateShape, Gates
    <2> QED BY <1>2, <2>1, <2>2, GateJobSent, Kinds DEF SendUnlock
  <1>3. CASE AskLeave
    <2>1. GateShape'
      BY <1>0, <1>3 DEF AskLeave, GateShape, Gates
    <2>2. gate.call # "queued" /\ gate'.work = "leave" /\ gate'.call = "queued"
      BY <1>0, <1>3 DEF AskLeave, GateShape, Gates
    <2> QED BY <1>3, <2>1, <2>2, GateJobSent, Kinds DEF AskLeave, Send
  <1>4. CASE AskWrite
    BY <1>4, OtherJobSent, Kinds DEF AskWrite, Send, GateShape, OfGate
  <1>5. CASE RunUnlock
    <2>1. GateJobs' /\ gate.work = "unlock"
      BY <1>5, GateJobRun DEF RunUnlock, OfGate
    <2>2. gate'.open = gate.open /\ gate'.work = "unlock" /\ gate'.call = "ran"
      BY <1>0, <1>5, <2>1 DEF RunUnlock, Gates
    <2> QED BY <2>1, <2>2 DEF GateShape
  <1>6. CASE RunLeave
    <2>1. GateJobs' /\ gate.work = "leave"
      BY <1>6, GateJobRun DEF RunLeave, OfGate
    <2>2. gate'.open = gate.open /\ gate'.work = "leave" /\ gate'.call = "ran"
      BY <1>0, <1>6, <2>1 DEF RunLeave, Gates
    <2> QED BY <2>1, <2>2 DEF GateShape
  <1>7. CASE RunWrite \/ RunList \/ RunFill
    BY <1>7, OtherJobRun DEF RunWrite, RunList, RunFill, ui, GateShape
  <1>8. ASSUME NEW f \in Fills, SendFill(f)
        PROVE  GateInv'
    <2>1. f \in Nat
      BY <1>0
    <2> QED BY <1>8, <2>1, OtherJobSent, Kinds DEF SendFill, ui, GateShape, OfGate
  <1>9. ASSUME NEW f \in Fills, TellFill(f) \/ GiveUpFill(f)
        PROVE  GateInv'
    BY <1>9 DEF TellFill, GiveUpFill, GateShape, GateJobs
  <1>10. CASE ListArrives \/ WriteArrives
    BY <1>10 DEF ListArrives, WriteArrives, GateShape, GateJobs
  <1>11. CASE GateArrives
    <2>1. GateShape'
      BY <1>0, <1>11 DEF GateArrives, GateShape, Gates
    <2>2. GateJobs'
      BY <1>0, <1>11 DEF GateArrives, GateJobs, Gates
    <2> QED BY <2>1, <2>2
  <1>12. CASE Frame
    <2>1. gate' = GateAfter
      BY <1>12 DEF Frame
    <2>2. GateShape'
      BY <1>0, <2>1 DEF GateAfter, Answered, Reset, ClosedGate, GateShape, Gates
    <2>3. gate.call = "queued" => gate'.work = gate.work /\ gate'.call = gate.call
      BY <1>0, <2>1 DEF GateAfter, Answered, Reset, Gates
    <2>4. GateJobs'
      <3>1. CASE UNCHANGED queue
        BY <2>3, <3>1 DEF GateJobs
      <3>2. CASE queue' = Append(queue, [kind |-> "list", of |-> RevisionAfter])
        <4>1. ~OfGate([kind |-> "list", of |-> RevisionAfter].kind)
          BY DEF OfGate
        <4> QED BY <2>3, <3>2, <4>1, OtherJobSent, Kinds, FrameIsTyped
      <3> QED BY <1>12, <3>1, <3>2 DEF Frame
    <2> QED BY <2>2, <2>4
  <1>13. CASE UNCHANGED listVars
    BY <1>13 DEF listVars, ui, GateShape, GateJobs
  <1> QED BY <1>1, <1>2, <1>3, <1>4, <1>5, <1>6, <1>7, <1>8, <1>9, <1>10, <1>11, <1>12, <1>13
          DEF ListNext, RunJob

-----------------------------------------------------------------------------
(* The library at the gate.                                                *)

(* What the steps do to the library open: only the jobs of the gate touch  *)
(* it.                                                                     *)
LEMMA LibraryStep ==
  ASSUME [ListNext]_listVars
  PROVE  \/ RunUnlock \/ RunLeave
         \/ UNCHANGED open /\ (UNCHANGED gate \/ AskUnlock \/ SendUnlock \/ AskLeave \/ GateArrives \/ Frame)
  <1>1. CASE AskUnlock \/ SendUnlock \/ AskLeave \/ AskWrite \/ Frame
    BY <1>1 DEF AskUnlock, SendUnlock, AskLeave, AskWrite, Frame, Send, vars
  <1>2. CASE ListArrives \/ WriteArrives \/ GateArrives
    BY <1>2 DEF ListArrives, WriteArrives, GateArrives, vars
  <1>3. CASE RunWrite
    BY <1>3 DEF RunWrite, Write, WriteClearing, WriteUnanswered, Commit, vars
  <1>4. CASE RunList
    BY <1>4 DEF RunList, List, ReadFails, vars
  <1>5. CASE RunFill
    BY <1>5 DEF RunFill, ui, FillStart, FillSlice, FillLocked, FillStartFails, FillSliceFails,
                FillMapLessFails
  <1>6. ASSUME NEW f \in Fills, SendFill(f) \/ TellFill(f) \/ GiveUpFill(f)
        PROVE  UNCHANGED <<open, gate>>
    BY <1>6 DEF SendFill, TellFill, GiveUpFill, ui, vars, Tell, GiveUp
  <1>7. CASE UNCHANGED listVars
    BY <1>7 DEF listVars, vars, ui
  <1> QED BY <1>1, <1>2, <1>3, <1>4, <1>5, <1>6, <1>7 DEF ListNext, RunJob

(* The gate follows the engine, or an answer is on its way that makes it.   *)
LEMMA FollowStep ==
  ASSUME ~RegistryFails, TypeOK, ListTyped, GateInv, FollowInv, [ListNext]_listVars
  PROVE  FollowInv'
  <1>0. gate \in Gates /\ open \in Numbers /\ opened \in Numbers
    BY DEF ListTyped, TypeOK
  <1>1. CASE RunUnlock
    <2>1. gate.work = "unlock" /\ ~gate.open
      BY <1>1, GateJobRun DEF RunUnlock, OfGate, GateInv, GateShape
    <2>2. gate'.open = gate.open
      BY <1>0, <1>1 DEF RunUnlock, Gates
    <2>3. gate'.ok => open' # None
      <3>1. ASSUME NEW r \in Rows, Unlock(r)
            PROVE  open' # None
        BY <1>0, <3>1, SliceAssumption DEF Unlock, Install, None, Numbers
      <3> QED BY <1>0, <1>1, <3>1 DEF RunUnlock, Gates
    <2> QED BY <2>1, <2>2, <2>3 DEF FollowInv
  <1>2. CASE RunLeave
    <2>1. gate.work = "leave" /\ gate.open
      BY <1>2, GateJobRun DEF RunLeave, OfGate, GateInv, GateShape
    <2>2. gate'.work = "leave" /\ gate'.call = "ran" /\ gate'.ok
      BY <1>0, <1>2, <2>1 DEF RunLeave, Gates
    <2> QED BY <2>2 DEF FollowInv
  <1>3. CASE UNCHANGED <<open, gate>>
    BY <1>3 DEF FollowInv
  <1>4. CASE UNCHANGED open /\ (AskUnlock \/ SendUnlock \/ AskLeave)
    BY <1>0, <1>4 DEF AskUnlock, SendUnlock, AskLeave, FollowInv, GateInv, GateShape, Gates
  <1>5. CASE UNCHANGED open /\ GateArrives
    BY <1>0, <1>5 DEF GateArrives, FollowInv, Gates
  <1>6. CASE UNCHANGED open /\ Frame
    <2>1. gate' = GateAfter
      BY <1>6 DEF Frame
    <2> QED BY <1>0, <1>6, <2>1
            DEF GateAfter, Answered, Reset, ClosedGate, FollowInv, GateInv, GateShape, Gates
  <1> QED BY <1>1, <1>2, <1>3, <1>4, <1>5, <1>6, LibraryStep

(* Unless the registry fails, the interface at rest is not open over a     *)
(* library that is closed, whatever was in flight when it was left: jobs   *)
(* of the queue, fills, writes and answers.                                *)
THEOREM GateFollows == ~RegistryFails => (ListSpec => []GateFollowsTheEngine)
  <1> SUFFICES ASSUME ~RegistryFails PROVE ListSpec => []GateFollowsTheEngine
    OBVIOUS
  <1>1. ListInit => GateInv /\ FollowInv
    BY EmptySeq DEF ListInit, GateInv, GateShape, GateJobs, FollowInv, ClosedGate
  <1>2. ListTyped /\ Shape /\ GateInv /\ FollowInv /\ [ListNext]_listVars => GateInv' /\ FollowInv'
    BY GateStep, FollowStep DEF Shape
  <1>3. GateInv /\ FollowInv => GateFollowsTheEngine
    BY DEF FollowInv, GateFollowsTheEngine, Quiet
  <1> QED BY <1>1, <1>2, <1>3, ListIsTyped, PTL DEF ListSpec

-----------------------------------------------------------------------------
(* The list, from a frame to the next.                                     *)

(* Only three steps touch it.                                              *)
LEMMA CanvasStep ==
  ASSUME [ListNext]_listVars
  PROVE  UNCHANGED canvas \/ RunList \/ ListArrives \/ Frame
  <1>1. CASE AskUnlock \/ SendUnlock \/ AskLeave \/ AskWrite \/ WriteArrives \/ GateArrives
    BY <1>1 DEF AskUnlock, SendUnlock, AskLeave, AskWrite, WriteArrives, GateArrives
  <1>2. CASE RunUnlock \/ RunLeave \/ RunWrite \/ RunFill
    BY <1>2 DEF RunUnlock, RunLeave, RunWrite, RunFill, ui
  <1>3. ASSUME NEW f \in Fills, SendFill(f) \/ TellFill(f) \/ GiveUpFill(f)
        PROVE  UNCHANGED canvas
    BY <1>3 DEF SendFill, TellFill, GiveUpFill, ui
  <1>4. CASE UNCHANGED listVars
    BY <1>4 DEF listVars, ui
  <1> QED BY <1>1, <1>2, <1>3, <1>4 DEF ListNext, RunJob

(* The revision only moves in a frame.                                     *)
LEMMA RevisionStep ==
  ASSUME [ListNext]_listVars
  PROVE  UNCHANGED revision \/ Frame
  <1>1. CASE AskUnlock \/ SendUnlock \/ AskLeave \/ AskWrite \/ WriteArrives \/ GateArrives \/ ListArrives
    BY <1>1 DEF AskUnlock, SendUnlock, AskLeave, AskWrite, WriteArrives, GateArrives, ListArrives
  <1>2. CASE RunUnlock \/ RunLeave \/ RunWrite \/ RunFill \/ RunList
    BY <1>2 DEF RunUnlock, RunLeave, RunWrite, RunFill, RunList, ui
  <1>3. ASSUME NEW f \in Fills, SendFill(f) \/ TellFill(f) \/ GiveUpFill(f)
        PROVE  UNCHANGED revision
    BY <1>3 DEF SendFill, TellFill, GiveUpFill, ui
  <1>4. CASE UNCHANGED listVars
    BY <1>4 DEF listVars, ui
  <1> QED BY <1>1, <1>2, <1>3, <1>4 DEF ListNext, RunJob

(* The answer of a list that ran.                                          *)
Listed == [library |-> open, notes |-> index'.entries, whole |-> index'.entries = rows]

(* A list run is answered, if the screen still waits for it.               *)
LEMMA ListedCell ==
  ASSUME TypeOK, TypeOK', ListTyped, RunList
  PROVE  /\ UNCHANGED <<open, rows, gate, revision, write, inbox, fills>>
         /\ \/ UNCHANGED canvas
            \/ /\ canvas.call = "queued" /\ canvas'.call = "ran"
               /\ canvas'.shown = canvas.shown /\ canvas'.failed = canvas.failed
               /\ canvas'.answered = canvas.answered /\ canvas'.asked = canvas.asked
               /\ canvas'.ok => open # None /\ List /\ canvas'.answer = Listed
         /\ Listed \in Answer /\ Listed # Nothing
         /\ Listed.library = open /\ Listed.notes = index'.entries
         /\ Listed.whole <=> index'.entries = rows
  <1>1. /\ UNCHANGED <<open, rows, gate, revision, write, inbox, fills>>
        /\ \/ List /\ ListRan(TRUE, Listed)
           \/ ListRan(FALSE, Nothing)
    BY DEF RunList, List, ReadFails, vars, Listed
  <1>2. open \in Numbers /\ index'.entries \in Rows
    BY IndexFields DEF TypeOK
  <1>3. Listed \in Answer /\ Listed # Nothing
    <2>1. Listed \in Answer
      BY <1>2 DEF Listed, Answer
    <2> QED BY <2>1
  <1>4. /\ Listed.library = open /\ Listed.notes = index'.entries
        /\ Listed.whole <=> index'.entries = rows
    BY DEF Listed
  <1>5. ASSUME NEW ok \in BOOLEAN, NEW answer \in Answer \cup {Nothing}, ListRan(ok, answer)
        PROVE  \/ UNCHANGED canvas
               \/ /\ canvas.call = "queued" /\ canvas'.call = "ran"
                  /\ canvas'.shown = canvas.shown /\ canvas'.failed = canvas.failed
                  /\ canvas'.answered = canvas.answered /\ canvas'.asked = canvas.asked
                  /\ canvas'.ok = ok /\ canvas'.answer = answer
    BY <1>5 DEF ListTyped, Cells, ListRan
  <1>6. List => open # None
    BY DEF List
  <1> QED BY <1>1, <1>3, <1>4, <1>5, <1>6

(* What a frame leaves of a list: as it was, or the answer it waited for,  *)
(* or its error; and then the next one asked for, when it is due.          *)
LEMMA FrameCell ==
  ASSUME ListTyped, Frame
  PROVE  /\ gate' = GateAfter /\ revision' = RevisionAfter /\ revision' >= revision
         /\ Scope = IF Reset THEN BlankCanvas ELSE canvas
         /\ ~gate'.open => canvas' = Scope
         /\ gate'.open =>
              /\ canvas'.call # "idle" \/ canvas'.answered = revision'
              /\ Coming' => canvas' = Scope
              /\ canvas'.asked \in {0, revision', Scope.asked}
              /\ \/ canvas'.shown = Scope.shown /\ canvas'.failed = Scope.failed
                    /\ canvas'.answered = Scope.answered
                 \/ Scope.call = "arrived" /\ Scope.ok /\ canvas'.shown = Scope.answer
                    /\ canvas'.failed = FALSE /\ canvas'.answered = revision'
                    /\ Scope.asked = revision'
                 \/ canvas'.shown = Scope.shown /\ canvas'.failed = TRUE
                    /\ canvas'.answered = revision'
  <1> DEFINE c == Adopted(Scope, RevisionAfter)
  <1>1. /\ Scope \in Cells /\ c \in Cells
        /\ RevisionAfter \in Nat /\ RevisionAfter >= revision
    BY FrameIsTyped
  <1>2. gate' = GateAfter /\ revision' = RevisionAfter
    BY DEF Frame
  <1>3. ~gate'.open => canvas' = Scope
    BY <1>2 DEF Frame
  <1>4. gate'.open => canvas' = IF Asks(c, RevisionAfter)
                                THEN [c EXCEPT !.call = "queued", !.asked = RevisionAfter]
                                ELSE c
    BY <1>2 DEF Frame
  <1>5. /\ c.call \in {"ran", "arrived"} => c = Scope /\ c.call = "ran"
        /\ c.asked \in {0, Scope.asked}
        /\ \/ c.shown = Scope.shown /\ c.failed = Scope.failed /\ c.answered = Scope.answered
           \/ Scope.call = "arrived" /\ Scope.ok /\ c.shown = Scope.answer /\ c.failed = FALSE
              /\ c.answered = RevisionAfter /\ Scope.asked = RevisionAfter
           \/ c.shown = Scope.shown /\ c.failed = TRUE /\ c.answered = RevisionAfter
    BY <1>1 DEF Adopted, Cells
  <1> HIDE DEF c
  <1>6. ASSUME gate'.open
        PROVE  /\ canvas'.call # "idle" \/ canvas'.answered = revision'
               /\ Coming' => canvas' = c /\ c.call \in {"ran", "arrived"}
               /\ canvas'.asked \in {revision', c.asked}
               /\ canvas'.shown = c.shown /\ canvas'.failed = c.failed
               /\ canvas'.answered = c.answered
    BY <1>1, <1>2, <1>4, <1>6 DEF Asks, Cells, Coming
  <1> QED BY <1>1, <1>2, <1>3, <1>5, <1>6 DEF Scope

(* What is shown is of the library open, or a frame resets it first.        *)
LEMMA ScopeStep ==
  ASSUME TypeOK, TypeOK', ListTyped, ListTyped', GateInv, ScopeInv, [ListNext]_listVars
  PROVE  ScopeInv'
  <1>0. canvas \in Cells /\ gate \in Gates /\ open \in Numbers
    BY DEF ListTyped, TypeOK
  <1>1. ASSUME UNCHANGED <<canvas, open>>, gate'.open = gate.open
        PROVE  ScopeInv'
    BY <1>1 DEF ScopeInv, Coming
  <1>2. CASE RunUnlock
    <2>1. ~gate.open /\ gate'.open = gate.open /\ UNCHANGED canvas
      BY <1>0, <1>2, GateJobRun DEF RunUnlock, OfGate, GateInv, GateShape, Gates
    <2> QED BY <2>1 DEF ScopeInv, Coming
  <1>3. CASE RunLeave
    <2>1. open' = None /\ gate'.open = gate.open /\ UNCHANGED canvas
      BY <1>0, <1>3 DEF RunLeave, Close, Gates
    <2> QED BY <2>1 DEF ScopeInv, Coming
  <1>4. CASE RunList
    <2>1. canvas.call = "queued" => gate.open
      BY DEF ScopeInv, BlankCanvas
    <2> QED BY <1>1, <1>4, <2>1, ListedCell DEF ScopeInv, Coming
  <1>5. CASE ListArrives
    <2>1. /\ canvas.call = "ran" /\ UNCHANGED <<gate, open>>
          /\ canvas' = [canvas EXCEPT !.call = "arrived"]
      BY <1>5 DEF ListArrives, vars
    <2>2. /\ canvas'.shown = canvas.shown /\ canvas'.answer = canvas.answer
          /\ canvas'.ok = canvas.ok
      BY <1>0, <2>1 DEF Cells
    <2>3. gate.open
      BY <2>1 DEF ScopeInv, BlankCanvas
    <2> QED BY <2>1, <2>2, <2>3 DEF ScopeInv, Coming
  <1>6. CASE Frame
    <2>1. /\ gate' = GateAfter /\ UNCHANGED open
          /\ Scope = IF Reset THEN BlankCanvas ELSE canvas
      BY <1>6, FrameCell DEF Frame, vars
    <2>2. gate'.open => Scope = BlankCanvas \/ (gate.open /\ Scope = canvas)
      BY <2>1 DEF ScopeInv
    <2>3. ~gate'.open => Scope = BlankCanvas
      BY <1>0, <2>1 DEF GateAfter, Reset, ClosedGate, Gates, ScopeInv, GateInv, GateShape, Answered
    <2>4. /\ BlankCanvas.shown = Nothing /\ BlankCanvas.call = "idle"
      BY DEF BlankCanvas
    <2>5. CASE ~gate'.open
      BY <1>6, <2>3, <2>4, <2>5, FrameCell DEF ScopeInv, Coming
    <2>6. CASE gate'.open
      <3>1. CASE Scope = BlankCanvas
        BY <1>6, <2>4, <2>6, <3>1, FrameCell DEF ScopeInv, Coming
      <3>2. CASE gate.open /\ Scope = canvas
        BY <1>6, <2>1, <2>6, <3>2, FrameCell DEF ScopeInv, Coming
      <3> QED BY <2>2, <2>6, <3>1, <3>2
    <2> QED BY <2>5, <2>6
  <1>7. CASE UNCHANGED canvas /\ ~(RunUnlock \/ RunLeave \/ Frame)
    <2>1. UNCHANGED open /\ gate'.open = gate.open
      BY <1>0, <1>7, LibraryStep DEF AskUnlock, SendUnlock, AskLeave, GateArrives, Gates
    <2> QED BY <1>1, <1>7, <2>1
  <1> QED BY <1>2, <1>3, <1>4, <1>5, <1>6, <1>7, CanvasStep

(* What is asked, shown or answered is not ahead of what is wanted.         *)
LEMMA AskedStep ==
  ASSUME TypeOK, TypeOK', ListTyped, ListTyped', GateInv, ScopeInv, AskedInv, [ListNext]_listVars
  PROVE  AskedInv'
  <1>0. canvas \in Cells /\ gate \in Gates /\ revision \in Nat
    BY DEF ListTyped
  <1>1. CASE Frame
    <2>1. /\ gate' = GateAfter /\ revision' \in Nat /\ revision' >= revision
          /\ Scope = IF Reset THEN BlankCanvas ELSE canvas
      BY <1>1, FrameCell DEF ListTyped
    <2>2. /\ Scope.asked <= revision' /\ Scope.answered <= revision'
          /\ Scope.asked \in Nat /\ Scope.answered \in Nat
          /\ Scope.answered # 0 /\ ~Scope.failed => Scope.shown # Nothing
      BY <1>0, <2>1 DEF AskedInv, BlankCanvas, Cells
    <2>3. Scope.call = "arrived" /\ Scope.ok => Scope.answer # Nothing
      BY <2>1 DEF ScopeInv, Coming, BlankCanvas
    <2>4. revision' > 0
      BY <1>0, <2>1 DEF AskedInv
    <2>5. CASE gate'.open
      <3>1. /\ canvas'.call # "idle" \/ canvas'.answered = revision'
            /\ canvas'.asked \in {0, revision', Scope.asked}
            /\ canvas'.answered \in {revision', Scope.answered}
        BY <1>1, <2>5, FrameCell
      <3>2. canvas'.asked <= revision' /\ canvas'.answered <= revision'
        BY <2>1, <2>2, <3>1
      <3>3. canvas'.answered # 0 /\ ~canvas'.failed => canvas'.shown # Nothing
        <4>1. CASE /\ canvas'.shown = Scope.shown /\ canvas'.failed = Scope.failed
                   /\ canvas'.answered = Scope.answered
          BY <2>2, <4>1
        <4>2. CASE Scope.call = "arrived" /\ Scope.ok /\ canvas'.shown = Scope.answer
          BY <2>3, <4>2
        <4>3. CASE canvas'.failed = TRUE
          BY <4>3
        <4> QED BY <1>1, <2>5, <4>1, <4>2, <4>3, FrameCell
      <3> QED BY <2>4, <3>1, <3>2, <3>3 DEF AskedInv
    <2>6. CASE ~gate'.open
      BY <1>1, <2>2, <2>4, <2>6, FrameCell DEF AskedInv
    <2> QED BY <2>5, <2>6
  <1>2. CASE RunList
    BY <1>2, RevisionStep, ListedCell DEF AskedInv
  <1>3. CASE ListArrives
    <2>1. /\ canvas' = [canvas EXCEPT !.call = "arrived"] /\ UNCHANGED <<gate, revision>>
      BY <1>3 DEF ListArrives
    <2>2. /\ canvas'.shown = canvas.shown /\ canvas'.failed = canvas.failed
          /\ canvas'.answered = canvas.answered /\ canvas'.asked = canvas.asked
          /\ canvas'.call # "idle"
      BY <1>0, <2>1 DEF Cells
    <2> QED BY <2>1, <2>2 DEF AskedInv
  <1>4. CASE UNCHANGED canvas /\ ~Frame
    <2>1. gate'.open = gate.open
      <3>1. CASE RunUnlock \/ RunLeave
        BY <1>0, <3>1 DEF RunUnlock, RunLeave, Gates
      <3> QED BY <1>0, <1>4, <3>1, LibraryStep DEF AskUnlock, SendUnlock, AskLeave, GateArrives, Gates
    <2> QED BY <1>4, <2>1, RevisionStep DEF AskedInv
  <1> QED BY <1>1, <1>2, <1>3, <1>4, CanvasStep

(* What holds of a list whatever fails.                                    *)
ListInv == ListTyped /\ Shape /\ GateInv /\ ScopeInv /\ AskedInv

(* Together they hold of every reachable state.                             *)
LEMMA ListInvIsKept == ListSpec => []ListInv
  <1>1. ListInit => GateInv /\ ScopeInv /\ AskedInv
    BY EmptySeq DEF ListInit, GateInv, GateShape, GateJobs, ScopeInv, AskedInv, ClosedGate,
                    BlankCanvas, Coming
  <1>2. /\ ListTyped /\ ListTyped' /\ Shape /\ Shape' /\ GateInv /\ ScopeInv /\ AskedInv
        /\ [ListNext]_listVars
        => GateInv' /\ ScopeInv' /\ AskedInv'
    BY GateStep, ScopeStep, AskedStep DEF Shape
  <1>3. ListTyped /\ Shape /\ GateInv /\ ScopeInv /\ AskedInv => ListInv
    BY DEF ListInv
  <1> QED BY <1>1, <1>2, <1>3, ListIsTyped, PTL DEF ListSpec

(* Whatever fails, and however the answers of one library meet the opening *)
(* of the next, no list is shown over another library than its own.        *)
THEOREM ShownIsOfItsLibrary == ListSpec => []ShownIsOfTheOpenLibrary
  <1>1. ListInv => ShownIsOfTheOpenLibrary
    BY DEF ListInv, ScopeInv, ShownIsOfTheOpenLibrary
  <1> QED BY <1>1, ListInvIsKept, PTL

(* Whatever fails, a list at rest is the answer to what is wanted now: no  *)
(* answer dropped is the last.                                             *)
THEOREM RestIsAnswered == ListSpec => []QuietIsAnswered
  <1>1. ListInv => QuietIsAnswered
    BY DEF ListInv, AskedInv, Quiet, QuietIsAnswered
  <1> QED BY <1>1, ListInvIsKept, PTL

-----------------------------------------------------------------------------
(* Once whole, whole for good, unless a write fails once committed.        *)

NoLostWrite == "answer" \notin Faults

(* The index is told of every write.                                       *)
LEMMA NoneUnanswered ==
  ASSUME NoLostWrite, unanswered = {}, [Next]_vars
  PROVE  unanswered' = {}
  <1>1. ASSUME NEW r, Unlock(r) \/ UnlockUnannounced(r)
        PROVE  unanswered' = {}
    BY <1>1 DEF Unlock, UnlockUnannounced
  <1>2. ASSUME NEW f, FillStep(f)
        PROVE  unanswered' = {}
    BY <1>2 DEF FillStep, FillStart, FillSlice, Tell, GiveUp, FillLocked, FillStartFails,
                FillSliceFails, FillMapLessFails
  <1>3. ASSUME NEW changed, NEW new,
               \/ Write(changed, new) \/ WriteClearing(changed, new)
               \/ WriteUnanswered(changed, new)
        PROVE  unanswered' = {}
    BY <1>3 DEF Write, WriteClearing, WriteUnanswered, NoLostWrite
  <1> QED BY <1>1, <1>2, <1>3 DEF Next, Close, List, Board, ReadFails, vars

(* An index that is complete is then the whole library.                    *)
LEMMA CompleteIsWhole ==
  ASSUME TypeOK, unanswered = {}, NEW ix \in Index, Sound(ix), ix.library = open, ix.complete
  PROVE  ix.entries = rows
  <1>1. ix.entries \in Rows /\ rows \in Rows
    BY IndexFields DEF TypeOK
  <1>2. \A n \in Notes : ix.entries[n] = rows[n]
    BY DEF Sound
  <1> QED BY <1>1, <1>2 DEF Rows

(* What is read of an index next is the whole library.                     *)
EntireOf(ix) == ix.library # open \/ ~ix.filling \/ ix.entries = rows

(* The whole library, as said of any index.                                 *)
LEMMA EntireIs == Entire <=> EntireOf(index)
  BY DEF Entire, EntireOf

(* A read ends no fill but by its end, and takes nothing out.              *)
LEMMA ReadGoesOn ==
  ASSUME TypeOK, NEW ix \in Index, NEW r, ReadOf(ix, r)
  PROVE  /\ ~r.complete => r.filling = ix.filling
         /\ ix.entries = rows => r.entries = rows
         /\ EntireOf(ix) => EntireOf(r)
  <1>1. CASE r = ix
    BY <1>1
  <1>2. CASE r # ix
    <2>1. PICK s \in Prefixes(ix), w \in BOOLEAN : \E c \in Cursors(ix, s) : r = With(ix, s, c, w)
      BY <1>2 DEF ReadOf
    <2>2. PICK c \in Cursors(ix, s) : r = With(ix, s, c, w)
      BY <2>1
    <2>3. /\ r.complete = w /\ r.filling = (ix.filling /\ ~w) /\ r.library = ix.library
          /\ r.entries = [n \in Notes |-> IF n \in s THEN rows[n] ELSE ix.entries[n]]
      BY <2>2, WithFields
    <2>4. rows \in Rows /\ ix.entries \in Rows /\ ix.filling \in BOOLEAN
      BY IndexFields DEF TypeOK
    <2>5. ~r.complete => r.filling = ix.filling
      BY <2>3, <2>4
    <2>6. ix.entries = rows => r.entries = rows
      BY <2>3, <2>4 DEF Rows
    <2>7. r.filling => ix.filling
      BY <2>3
    <2> QED BY <2>3, <2>5, <2>6, <2>7 DEF EntireOf
  <1> QED BY <1>1, <1>2

(* A list reads the whole library, or a part a fill goes on with; and the  *)
(* whole of it, once one did.                                              *)
LEMMA WholeListed ==
  ASSUME Shape, Sound(index), unanswered = {}, List
  PROVE  /\ index'.library = open
         /\ index'.entries = rows \/ (index'.filling /\ ~index'.complete)
         /\ Entire => index'.entries = rows
  <1>1. /\ open # None /\ TypeOK /\ Typed(index) /\ index \in Index
        /\ index.library # open => ~index.filling
    BY ClearedIsTyped DEF List, Shape, TypeOK, HoldsOrCleared
  <1>2. PICK r \in EnoughToList(index) : index' = Counted(r)
    BY DEF List
  <1> DEFINE whole == Started(index, open)
  <1>3. Typed(whole) /\ whole.library = open /\ Sound(whole) /\ whole \in Index
    BY <1>1, Starts DEF Typed
  <1> HIDE DEF whole
  <1>4. /\ Typed(r) /\ r.library = open
        /\ r.entries = rows \/ (r.filling /\ ~r.complete)
        /\ Entire => r.entries = rows
    <2>1. CASE ~index.filling
      <3>1. r \in Whole(whole)
        BY <1>2, <2>1 DEF EnoughToList, whole
      <3>2. ReadOf(whole, r) /\ r.complete
        BY <1>3, <3>1, ReadyReads, ReadsNeverUnread
      <3>3. Typed(r) /\ r.library = open /\ Sound(r)
        BY <1>1, <1>3, <3>2, ReadKeeps
      <3>4. r.entries = rows
        BY <1>1, <3>2, <3>3, CompleteIsWhole DEF Typed
      <3> QED BY <3>3, <3>4
    <2>2. CASE index.filling
      <3>1. index.library = open
        BY <1>1, <2>2
      <3>2. ReadOf(index, r)
        BY <1>2, <2>2, NextSliceReads DEF EnoughToList, ReadOf
      <3>3. Typed(r) /\ r.library = open /\ Sound(r)
        BY <1>1, <3>1, <3>2, ReadKeeps
      <3>4. r.complete => r.entries = rows
        BY <1>1, <3>3, CompleteIsWhole DEF Typed
      <3>5. ~r.complete => r.filling
        BY <1>1, <2>2, <3>2, ReadGoesOn
      <3>6. Entire => r.entries = rows
        BY <1>1, <2>2, <3>1, <3>2, ReadGoesOn DEF Entire
      <3> QED BY <3>3, <3>4, <3>5, <3>6
    <2> QED BY <2>1, <2>2
  <1> QED BY <1>2, <1>4, CountedKeeps

(* Nothing but an unlock undoes it: no slice, no write, no fill given up.   *)
LEMMA EntireStays ==
  ASSUME Shape, NoLostWrite, open # None, Entire, WhileOpen
  PROVE  Entire'
  <1>0. /\ TypeOK /\ Typed(index) /\ index \in Index /\ EntireOf(index)
        /\ rows \in Rows /\ index.entries \in Rows
    BY EntireIs, IndexFields DEF Shape, TypeOK
  <1>1. ASSUME UNCHANGED <<open, rows>>, EntireOf(index')
        PROVE  Entire'
    BY <1>1 DEF Entire, EntireOf
  <1>2. CASE index'.filling = FALSE
    BY <1>2 DEF Entire
  <1>3. Cleared.filling = FALSE
    BY ClearedIsTyped
  <1> DEFINE whole == Started(index, open)
  <1>4. Typed(whole) /\ whole \in Index /\ whole.library = open /\ EntireOf(whole)
    BY <1>0, Starts, BlankIsTyped DEF Started, EntireOf, Typed
  <1> HIDE DEF whole
  <1>5. ASSUME NEW f \in Fills, FillStep(f)
        PROVE  Entire'
    <2>1. CASE FillStart(f)
      BY <1>1, <1>4, <2>1 DEF FillStart, whole
    <2>2. CASE FillSlice(f) \/ FillMapLessFails(f)
      <3>1. index' \in NextSlice(index) /\ UNCHANGED <<open, rows>>
        BY <2>2 DEF FillSlice, FillMapLessFails
      <3> QED BY <1>0, <1>1, <3>1, NextSliceReads, ReadGoesOn
    <2>3. CASE Tell(f) \/ FillLocked(f) \/ FillSliceFails(f)
      BY <1>0, <1>1, <2>3 DEF Tell, FillLocked, FillSliceFails
    <2>4. CASE GiveUp(f)
      <3>1. index' = [index EXCEPT !.filling = FALSE]
        BY <2>4 DEF GiveUp
      <3>2. index'.filling = FALSE
        BY <1>0, <3>1 DEF Index
      <3> QED BY <1>2, <3>2
    <2>5. CASE FillStartFails(f)
      <3>1. UNCHANGED <<open, rows>> /\ index' \in {index, Cleared}
        BY <2>5 DEF FillStartFails
      <3> QED BY <1>0, <1>1, <1>2, <1>3, <3>1
    <2> QED BY <1>5, <2>1, <2>2, <2>3, <2>4, <2>5 DEF FillStep
  <1>6. ASSUME NEW changed \in SUBSET Notes, NEW new \in [changed -> Row \cup {Gone}],
               Write(changed, new)
        PROVE  Entire'
    <2>1. /\ open' = open
          /\ rows' = [n \in Notes |-> IF n \in changed THEN new[n] ELSE rows[n]]
      BY <1>6 DEF Write, Commit
    <2>2. CASE index.library # open
      BY <1>6, <2>1, <2>2 DEF Write, Entire
    <2>3. CASE index.library = open
      <3>1. index' = Refreshed(changed, new)
        BY <1>6, <2>3 DEF Write
      <3>2. /\ index'.filling = index.filling
            /\ index'.entries =
                 [n \in Notes |-> IF n \in changed THEN new[n] ELSE index.entries[n]]
        BY <1>0, <3>1 DEF Refreshed, Index
      <3> QED BY <1>0, <2>1, <2>3, <3>2 DEF Entire, EntireOf
    <2> QED BY <2>2, <2>3
  <1>7. ASSUME NEW changed, NEW new, WriteClearing(changed, new)
        PROVE  Entire'
    <2>1. open' = open /\ index' = IF index.library = open THEN Cleared ELSE index
      BY <1>7 DEF WriteClearing, Commit
    <2> QED BY <1>3, <2>1 DEF Entire
  <1>8. CASE List
    <2>1. PICK r \in EnoughToList(index) : index' = Counted(r)
      BY <1>8 DEF List
    <2>2. Typed(r) /\ EntireOf(r)
      <3>1. CASE ReadOf(index, r)
        BY <1>0, <3>1, ReadGoesOn, ReadKeeps
      <3>2. CASE ReadOf(whole, r)
        BY <1>0, <1>4, <3>2, ReadGoesOn, ReadKeeps
      <3> QED BY <1>0, <2>1, <3>1, <3>2, EnoughToListReads DEF whole
    <2>3. EntireOf(index')
      BY <2>1, <2>2, CountedKeeps DEF EntireOf
    <2> QED BY <1>1, <1>8, <2>3 DEF List
  <1>9. CASE ReadFails
    <2>1. UNCHANGED <<open, rows>> /\ (index' = Cleared \/ index' \in CutShort(whole))
      BY <1>9 DEF ReadFails, whole
    <2>2. index' \in CutShort(whole) => EntireOf(index')
      BY <1>0, <1>4, ReadyReads, ReadGoesOn
    <2> QED BY <1>1, <1>2, <1>3, <2>1, <2>2
  <1>10. ~\E changed, new : WriteUnanswered(changed, new)
    BY DEF WriteUnanswered, NoLostWrite
  <1> QED BY <1>5, <1>6, <1>7, <1>8, <1>9, <1>10 DEF WhileOpen

(* Once the list was whole, no answer that is a part is adopted.            *)
LEMMA WholeStep ==
  ASSUME NoLostWrite, Shape, Sound(index), unanswered = {}, ListTyped, ListTyped', GateInv,
         ScopeInv, ScopeInv', WholeInv, [ListNext]_listVars
  PROVE  WholeInv'
  <1>0. canvas \in Cells /\ gate \in Gates /\ TypeOK
    BY DEF ListTyped, Shape
  <1>1. CASE RunUnlock
    <2>1. ~gate.open /\ gate'.open = gate.open /\ UNCHANGED canvas
      BY <1>0, <1>1, GateJobRun DEF RunUnlock, OfGate, GateInv, GateShape, Gates
    <2> QED BY <2>1 DEF WholeInv, Coming
  <1>2. CASE RunLeave
    <2>1. open' = None /\ UNCHANGED canvas
      BY <1>0, <1>2 DEF RunLeave, Close
    <2> QED BY <2>1 DEF WholeInv, Coming
  <1>3. ASSUME ~RunUnlock, ~RunLeave, ~Frame
        PROVE  UNCHANGED open /\ gate'.open = gate.open
               /\ (gate.open /\ open # None /\ Entire => Entire')
    <2>1. UNCHANGED open /\ gate'.open = gate.open
      BY <1>0, <1>3, LibraryStep DEF AskUnlock, SendUnlock, AskLeave, GateArrives, Gates
    <2>2. WhileOpen \/ UNCHANGED vars
      BY <1>3, StepsWhileOpen DEF ListTyped
    <2>3. UNCHANGED vars /\ Entire => Entire'
      BY DEF vars, Entire
    <2> QED BY <2>1, <2>2, <2>3, EntireStays
  <1>4. CASE UNCHANGED canvas /\ ~RunUnlock /\ ~RunLeave /\ ~Frame
    BY <1>3, <1>4 DEF WholeInv, Coming
  <1>5. CASE RunList /\ ~UNCHANGED canvas
    <2>1. UNCHANGED <<open, rows, gate>>
      BY <1>0, <1>5, ListedCell, NextShape, StepsOfTheIndex DEF Shape, ListTyped
    <2>2. /\ canvas.call = "queued" /\ canvas'.shown = canvas.shown
          /\ canvas'.ok => open # None /\ List /\ canvas'.answer = Listed
      BY <1>0, <1>5, ListedCell, NextShape, StepsOfTheIndex DEF Shape, ListTyped
    <2>3. Listed.library = open /\ (Listed.whole <=> index'.entries = rows)
      BY DEF Listed
    <2>4. gate.open
      BY <2>2 DEF ScopeInv, BlankCanvas
    <2>5. canvas.shown # Nothing /\ canvas.shown.whole /\ open # None => Entire
      BY <2>4 DEF WholeInv
    <2>6. ASSUME Entire, open # None
          PROVE  Entire'
      <3>1. WhileOpen
        BY <1>5, <2>6 DEF RunList, WhileOpen
      <3> QED BY <2>6, <3>1, EntireStays
    <2> QED BY <2>1, <2>2, <2>3, <2>4, <2>5, <2>6, WholeListed DEF WholeInv, Coming, Entire
  <1>6. CASE ListArrives
    <2>1. /\ canvas.call = "ran" /\ UNCHANGED <<gate, open, index, rows>>
          /\ canvas' = [canvas EXCEPT !.call = "arrived"]
      BY <1>6 DEF ListArrives, vars
    <2>2. /\ canvas'.shown = canvas.shown /\ canvas'.answer = canvas.answer
          /\ canvas'.ok = canvas.ok
      BY <1>0, <2>1 DEF Cells
    <2> QED BY <2>1, <2>2 DEF WholeInv, Coming, Entire
  <1>7. CASE Frame
    <2>1. UNCHANGED <<open, index, rows>>
      BY <1>7 DEF Frame, vars
    <2>2. CASE ~gate'.open
      BY <2>2 DEF ScopeInv, BlankCanvas, WholeInv, Coming
    <2>3. CASE gate'.open /\ Scope = BlankCanvas
      <3>1. BlankCanvas.shown = Nothing /\ BlankCanvas.call = "idle"
        BY DEF BlankCanvas
      <3>2. canvas'.shown = Nothing /\ ~Coming'
        BY <1>7, <2>3, <3>1, FrameCell DEF Coming
      <3> QED BY <3>2 DEF WholeInv
    <2>4. CASE gate'.open /\ Scope # BlankCanvas
      <3>1. Scope = canvas /\ gate.open
        BY <1>7, <2>4, FrameCell DEF ScopeInv
      <3>2. canvas'.shown = canvas.shown \/ (Coming /\ canvas'.shown = canvas.answer)
        BY <1>7, <2>4, <3>1, FrameCell DEF Coming
      <3>3. Coming' => canvas' = canvas
        BY <1>7, <2>4, <3>1, FrameCell
      <3>4. Coming => canvas.answer # Nothing
        BY DEF ScopeInv
      <3>5. CASE Coming'
        BY <2>1, <3>1, <3>3, <3>5 DEF WholeInv, Coming, Entire
      <3>6. CASE ~Coming'
        BY <2>1, <3>1, <3>2, <3>6 DEF WholeInv, Entire
      <3> QED BY <3>5, <3>6
    <2> QED BY <2>2, <2>3, <2>4
  <1> QED BY <1>1, <1>2, <1>4, <1>5, <1>6, <1>7, CanvasStep

(* What NeverPartAgain rests on, from a state to the next.                 *)
WholeNow == Sound(index) /\ unanswered = {} /\ WholeInv

(* So it stays, and the index it is read from is sound.                     *)
LEMMA WholeIsKept == NoLostWrite => (ListSpec => []WholeNow)
  <1> SUFFICES ASSUME NoLostWrite PROVE ListSpec => []WholeNow
    OBVIOUS
  <1>1. ListInit => WholeNow
    BY InitSound DEF ListInit, Init, WholeNow, WholeInv, BlankCanvas, Coming
  <1>2. ListInv /\ ListInv' /\ WholeNow /\ [ListNext]_listVars => WholeNow'
    <2>1. ListTyped /\ Shape /\ [ListNext]_listVars => [Next]_vars
      BY StepsOfTheIndex DEF ListTyped
    <2> QED BY <2>1, WholeStep, NoneUnanswered, NextSound DEF ListInv, WholeNow
  <1> QED BY <1>1, <1>2, ListInvIsKept, PTL DEF ListSpec

(* A list that showed the whole of a library never shows a part of it      *)
(* again, through the fills, the clearings and the answers dropped, unless *)
(* a write fails once it has committed.                                    *)
THEOREM WholeForGood == "answer" \notin Faults => (ListSpec => NeverPartAgain)
  <1> SUFFICES ASSUME NoLostWrite PROVE ListSpec => NeverPartAgain
    BY DEF NoLostWrite
  <1>1. ListInv /\ ListInv' /\ WholeNow /\ [ListNext]_listVars =>
          [canvas.shown # Nothing /\ canvas'.shown # Nothing /\ canvas.shown.whole
             /\ canvas.shown.library = canvas'.shown.library => canvas'.shown.whole]_listVars
    <2> SUFFICES ASSUME ListInv, ListInv', WholeNow, [ListNext]_listVars,
                        canvas.shown # Nothing, canvas'.shown # Nothing, canvas.shown.whole,
                        canvas.shown.library = canvas'.shown.library
                 PROVE  canvas'.shown.whole
      OBVIOUS
    <2>0. canvas \in Cells /\ ListTyped /\ TypeOK /\ TypeOK'
      BY DEF ListInv, ListTyped, Shape
    <2>1. CASE Frame
      <3>1. CASE Scope = BlankCanvas
        <4>1. BlankCanvas.shown = Nothing /\ BlankCanvas.call = "idle"
          BY DEF BlankCanvas
        <4> QED BY <2>0, <2>1, <3>1, <4>1, FrameCell
      <3>2. CASE Scope = canvas
        <4>1. canvas'.shown = canvas.shown \/ (Coming /\ canvas'.shown = canvas.answer)
          BY <2>0, <2>1, <3>2, FrameCell DEF Coming
        <4> QED BY <4>1 DEF WholeNow, WholeInv
      <3> QED BY <3>1, <3>2 DEF Scope
    <2>2. CASE RunList
      BY <2>0, <2>2, ListedCell
    <2>3. CASE ListArrives
      BY <2>0, <2>3 DEF ListArrives, Cells
    <2> QED BY <2>1, <2>2, <2>3, CanvasStep
  <1>2. ListSpec => []WholeNow
    BY WholeIsKept
  <1> QED BY <1>1, <1>2, ListInvIsKept, PTL DEF NeverPartAgain, ListSpec

-----------------------------------------------------------------------------
(* What a list at rest shows, when only an announcement can fail.          *)

OnlyUnannounced == Faults \subseteq {"announce"}

(* A fill never stops before the end while it is the open library's.       *)
LEMMA FillGoesOn ==
  ASSUME OnlyUnannounced, Shape, open # None, NEW f \in Fills,
         FillStart(f) \/ FillSlice(f) \/ FillLocked(f)
           \/ FillStartFails(f) \/ FillSliceFails(f) \/ FillMapLessFails(f)
  PROVE  /\ UNCHANGED <<open, rows>>
         /\ index.library = open => index'.library = open /\ FillUnderWay'
         /\ index'.filling /\ ~index'.complete => index.filling /\ ~index.complete /\ Filling'
  <1>0. /\ fills \in [Fills -> Stages] /\ index \in Index /\ Typed(index) /\ TypeOK
        /\ index.filling => index.library = open
    BY ClearedIsTyped DEF Shape, TypeOK, HoldsOrCleared
  <1>1. CASE FillStart(f)
    <2>1. /\ UNCHANGED <<open, rows>> /\ index' = Started(index, open)
          /\ fills'[f] = "slice"
      BY <1>0, <1>1 DEF FillStart, Goes
    <2>2. index'.library = open /\ (index'.filling => index' = index)
      BY <2>1, BlankIsTyped DEF Started
    <2> QED BY <2>1, <2>2 DEF FillUnderWay, Filling
  <1>2. CASE FillSlice(f)
    <2>1. /\ UNCHANGED <<open, rows>> /\ index' \in NextSlice(index)
          /\ fills'[f] = IF ReadsOn THEN "tell" ELSE IF index'.complete THEN "ready" ELSE "done"
      BY <1>0, <1>2 DEF FillSlice, Goes
    <2>2. /\ index'.library = index.library /\ (index'.filling => index.filling)
          /\ index.complete => index' = index
      BY <1>0, <2>1, NextSliceReads, ReadKeeps, ReadsNeverUnread
    <2>3. index.library = open /\ ~index'.complete => fills'[f] = "tell"
      BY <2>1, <2>2 DEF ReadsOn
    <2> QED BY <1>0, <2>1, <2>2, <2>3 DEF FillUnderWay, Filling
  <1>3. ~FillLocked(f) /\ ~FillStartFails(f) /\ ~FillSliceFails(f) /\ ~FillMapLessFails(f)
    BY DEF FillLocked, FillStartFails, FillSliceFails, FillMapLessFails, OnlyUnannounced
  <1> QED BY <1>1, <1>2, <1>3

(* Until it has said that it is over, or in a library where it cannot.     *)
LEMMA FillIsHeard ==
  ASSUME Shape, ListTyped, NEW f \in Fills, TellFill(f) \/ GiveUpFill(f)
  PROVE  /\ UNCHANGED <<open, rows, write>> /\ index'.library = index.library
         /\ FillUnderWay => FillUnderWay' \/ EndToHear'
         /\ EndToHear => EndToHear'
         /\ index'.filling /\ ~index'.complete => index.filling /\ ~index.complete
         /\ index'.filling /\ Filling => Filling'
  <1>0. fills \in [Fills -> Stages] /\ index \in Index /\ inbox \in Seq({"progress", "ready"})
    BY DEF Shape, TypeOK, ListTyped
  <1>1. CASE TellFill(f)
    <2> DEFINE event == IF fills[f] = "ready" THEN "ready" ELSE "progress"
    <2>1. /\ UNCHANGED <<open, rows, index, write>> /\ inbox' = Append(inbox, event)
          /\ \A g \in Fills \ {f} : fills'[g] = fills[g]
          /\ \/ fills[f] = "tell" /\ fills'[f] = "slice"
             \/ fills[f] = "ready" /\ fills'[f] = "done"
      BY <1>0, <1>1 DEF TellFill, Tell, Goes, At
    <2>2. event \in {"progress", "ready"}
      OBVIOUS
    <2> HIDE DEF event
    <2>3. /\ Len(inbox) \in Nat /\ Len(inbox') = Len(inbox) + 1 /\ inbox'[Len(inbox')] = event
          /\ \A i \in 1 .. Len(inbox) : inbox'[i] = inbox[i]
      BY <1>0, <2>1, <2>2, AppendProperties, LenProperties
    <2>4. event = "ready" => EndToHear'
      BY <2>3 DEF EndToHear
    <2>5. EndToHear => EndToHear'
      BY <2>3 DEF EndToHear
    <2>6. fills[f] = "ready" => event = "ready"
      BY DEF event
    <2>7. FillUnderWay => FillUnderWay' \/ fills[f] = "ready"
      BY <2>1 DEF FillUnderWay
    <2>8. Filling => Filling'
      BY <2>1 DEF Filling
    <2> QED BY <2>1, <2>4, <2>5, <2>6, <2>7, <2>8
  <1>2. CASE GiveUpFill(f)
    <2>1. /\ UNCHANGED <<open, rows, inbox, write>> /\ index' = [index EXCEPT !.filling = FALSE]
          /\ fills[f] = "failed" /\ \A g \in Fills \ {f} : fills'[g] = fills[g]
      BY <1>0, <1>2 DEF GiveUpFill, GiveUp, Goes, At
    <2>2. index'.library = index.library /\ index'.filling = FALSE
      BY <1>0, <2>1 DEF Index
    <2>3. FillUnderWay => FillUnderWay'
      BY <2>1 DEF FillUnderWay
    <2> QED BY <2>1, <2>2, <2>3 DEF EndToHear
  <1> QED BY <1>1, <1>2

(* A list starts no fill.                                                  *)
LEMMA ListFillsNothing ==
  ASSUME Shape, List
  PROVE  index'.filling /\ ~index'.complete => index.filling /\ ~index.complete
  <1>1. open # None /\ TypeOK /\ Typed(index) /\ index \in Index
    BY DEF List, Shape, TypeOK
  <1>2. PICK r \in EnoughToList(index) : index' = Counted(r)
    BY DEF List
  <1>3. CASE ~index.filling
    <2>1. Typed(Started(index, open)) /\ Started(index, open).library = open
      BY <1>1, Starts
    <2>2. r \in Whole(Started(index, open))
      BY <1>2, <1>3 DEF EnoughToList
    <2>3. r.complete /\ Typed(r)
      BY <1>1, <2>1, <2>2, ReadyReads, ReadsNeverUnread, ReadKeeps DEF Typed
    <2> QED BY <1>2, <2>3, CountedKeeps
  <1>4. CASE index.filling
    <2>1. ReadOf(index, r) /\ (index.complete => r = index)
      BY <1>1, <1>2, <1>4, NextSliceReads, ReadsNeverUnread DEF EnoughToList, ReadOf
    <2>2. Typed(r)
      BY <1>1, <2>1, ReadKeeps
    <2> QED BY <1>2, <1>4, <2>1, <2>2, CountedKeeps
  <1> QED BY <1>3, <1>4

(* Nor does a write.                                                       *)
LEMMA WriteFillsNothing ==
  ASSUME index \in Index, NEW changed \in SUBSET Notes, NEW new \in [changed -> Row \cup {Gone}],
         Write(changed, new) \/ WriteClearing(changed, new) \/ WriteUnanswered(changed, new)
  PROVE  /\ index'.filling /\ ~index'.complete => index.filling /\ ~index.complete
         /\ open # None /\ UNCHANGED <<open, fills>>
  <1>1. open # None /\ UNCHANGED <<open, fills>>
    BY DEF Write, WriteClearing, WriteUnanswered, Commit
  <1>2. CASE index' \in {index, Cleared}
    BY <1>1, <1>2, ClearedIsTyped
  <1>3. CASE index' = Refreshed(changed, new)
    BY <1>1, <1>3 DEF Refreshed, Index
  <1> QED BY <1>2, <1>3 DEF Write, WriteClearing, WriteUnanswered

(* A part is served while a fill is under way, or its end is still to be    *)
(* told.                                                                    *)
LEMMA FillingStep ==
  ASSUME OnlyUnannounced, Shape, ListTyped, FillingInv, [ListNext]_listVars
  PROVE  FillingInv'
  <1>0. /\ index \in Index /\ fills \in [Fills -> Stages] /\ opened \in Numbers
        /\ open = None => ~index.filling
    BY ClearedIsTyped DEF Shape, TypeOK, HoldsOrCleared
  <1>1. CASE index' = Cleared
    BY <1>1, ClearedIsTyped DEF FillingInv
  <1>2. ASSUME UNCHANGED fills,
               index'.filling /\ ~index'.complete => index.filling /\ ~index.complete
        PROVE  FillingInv'
    BY <1>2 DEF FillingInv, Filling
  <1>3. CASE RunUnlock
    <2>1. ASSUME NEW r \in Rows, Unlock(r)
          PROVE  FillingInv'
      <3>1. opened' \in Fills /\ fills' = [fills EXCEPT ![opened'] = "start"]
        BY <1>0, <2>1, SliceAssumption DEF Unlock, Install, Numbers, Fills
      <3> QED BY <1>0, <3>1 DEF FillingInv, Filling
    <2>2. ASSUME NEW r \in Rows, UnlockUnannounced(r)
          PROVE  FillingInv'
      BY <1>1, <2>2 DEF UnlockUnannounced
    <2> QED BY <1>2, <1>3, <2>1, <2>2 DEF RunUnlock, vars
  <1>4. CASE RunLeave
    BY <1>1, <1>4 DEF RunLeave, Close
  <1>5. CASE RunList
    <2>1. ~ReadFails
      BY DEF ReadFails, OnlyUnannounced
    <2> QED BY <1>2, <1>5, <2>1, ListFillsNothing DEF RunList, List, vars
  <1>6. CASE RunWrite
    BY <1>0, <1>2, <1>6, WriteFillsNothing DEF RunWrite, vars
  <1>7. ASSUME NEW f \in Fills,
               FillStart(f) \/ FillSlice(f) \/ FillLocked(f)
                 \/ FillStartFails(f) \/ FillSliceFails(f) \/ FillMapLessFails(f)
        PROVE  FillingInv'
    <2>1. CASE open # None
      BY <1>7, <2>1, FillGoesOn DEF FillingInv
    <2>2. CASE open = None
      BY <1>0, <1>7, <2>2 DEF FillStart, FillSlice, FillLocked, FillStartFails, FillSliceFails,
                              FillMapLessFails, FillingInv
    <2> QED BY <2>1, <2>2
  <1>8. CASE RunFill
    <2>1. Head(queue).of \in Fills
      BY <1>8, Ran DEF RunFill, FillJobsAreFills, ListTyped
    <2> QED BY <1>7, <1>8, <2>1 DEF RunFill
  <1>9. ASSUME NEW f \in Fills, TellFill(f) \/ GiveUpFill(f)
        PROVE  FillingInv'
    BY <1>9, FillIsHeard DEF FillingInv
  <1>10. CASE AskUnlock \/ SendUnlock \/ AskLeave \/ AskWrite \/ Frame \/ UNCHANGED listVars
              \/ ListArrives \/ WriteArrives \/ GateArrives \/ \E f \in Fills : SendFill(f)
    BY <1>2, <1>10 DEF AskUnlock, SendUnlock, AskLeave, AskWrite, Frame, Send, ListArrives,
                       WriteArrives, GateArrives, SendFill, listVars, vars
  <1> QED BY <1>3, <1>4, <1>5, <1>6, <1>8, <1>9, <1>10 DEF ListNext, RunJob

(* But for a frame, which hears it, nothing undoes that the revision is to *)
(* move, and the library only changes with a write to hear of.             *)
LEMMA StirringStays ==
  ASSUME OnlyUnannounced, Shape, Sound(index), unanswered = {}, ListTyped, open # None,
         [ListNext]_listVars, ~RunUnlock, ~RunLeave, ~Frame
  PROVE  /\ Stirring => Stirring'
         /\ rows' = rows \/ Stirring'
  <1>0. write \in Writes /\ open # None
    BY DEF ListTyped
  <1>1. CASE AskUnlock \/ SendUnlock \/ AskLeave \/ GateArrives \/ ListArrives \/ UNCHANGED listVars
             \/ \E f \in Fills : SendFill(f)
    <2>1. UNCHANGED <<write, inbox>> /\ UNCHANGED vars
      BY <1>1 DEF AskUnlock, SendUnlock, AskLeave, Send, GateArrives, ListArrives, SendFill,
                  listVars, ui
    <2> QED BY <2>1 DEF vars, Stirring, WriteToHear, EndToHear, EndToCome, FillUnderWay
  <1>2. CASE AskWrite \/ WriteArrives
    <2>1. UNCHANGED inbox /\ UNCHANGED vars
      BY <1>2 DEF AskWrite, Send, WriteArrives
    <2>2. WriteToHear => WriteToHear'
      BY <1>0, <1>2 DEF AskWrite, WriteArrives, WriteToHear, Writes
    <2> QED BY <2>1, <2>2 DEF vars, Stirring, EndToHear, EndToCome, FillUnderWay
  <1>3. CASE RunWrite
    <2>1. \A changed, new : ~WriteUnanswered(changed, new)
      BY DEF WriteUnanswered, OnlyUnannounced
    <2>2. WriteRan(TRUE)
      BY <1>0, <1>3, <2>1 DEF RunWrite
    <2> QED BY <2>2 DEF WriteRan, Stirring, WriteToHear
  <1>4. CASE RunList
    <2>1. ~ReadFails
      BY DEF ReadFails, OnlyUnannounced
    <2>2. List /\ UNCHANGED <<write, inbox>>
      BY <1>0, <1>4, <2>1 DEF RunList
    <2>3. index'.library = open /\ UNCHANGED <<open, rows, fills>>
      BY <2>2, WholeListed DEF List
    <2> QED BY <2>2, <2>3 DEF Stirring, WriteToHear, EndToHear, EndToCome, FillUnderWay
  <1>5. CASE RunFill
    <2>1. Head(queue).of \in Fills /\ UNCHANGED <<write, inbox>>
      BY <1>5, Ran DEF RunFill, FillJobsAreFills, ListTyped, ui
    <2>2. UNCHANGED <<open, rows>> /\ (EndToCome => EndToCome')
      BY <1>0, <1>5, <2>1, FillGoesOn DEF RunFill, EndToCome
    <2> QED BY <2>1, <2>2 DEF Stirring, WriteToHear, EndToHear
  <1>6. ASSUME NEW f \in Fills, TellFill(f) \/ GiveUpFill(f)
        PROVE  /\ Stirring => Stirring'
               /\ rows' = rows
    <2>1. WriteToHear => WriteToHear'
      BY <1>6, FillIsHeard DEF WriteToHear
    <2>2. EndToCome => EndToCome' \/ EndToHear'
      BY <1>6, FillIsHeard DEF EndToCome
    <2> QED BY <1>6, <2>1, <2>2, FillIsHeard DEF Stirring
  <1> QED BY <1>1, <1>2, <1>3, <1>4, <1>5, <1>6 DEF ListNext, RunJob

(* A frame hears all there is to hear: the revision moves, unless what is  *)
(* about to move it still is.                                              *)
LEMMA FrameHears ==
  ASSUME ListTyped, Frame, gate'.open, Stirring
  PROVE  revision' > revision \/ Stirring'
  <1>1. /\ gate' = GateAfter /\ revision' = RevisionAfter /\ UNCHANGED <<index, open, fills>>
        /\ write' = IF WriteAdopted THEN NoWrite ELSE write
    BY DEF Frame, vars
  <1>2. Heard \in Nat /\ revision \in Nat /\ (EndToHear => Heard > 0)
    BY HeardIsANumber DEF ListTyped, EndToHear
  <1>3. CASE EndToHear
    BY <1>1, <1>2, <1>3 DEF RevisionAfter
  <1>4. CASE EndToCome
    BY <1>1, <1>4 DEF Stirring, EndToCome, FillUnderWay
  <1>5. CASE WriteToHear /\ WriteAdopted
    BY <1>1, <1>2, <1>5 DEF RevisionAfter, WriteToHear
  <1>6. CASE WriteToHear /\ ~WriteAdopted
    BY <1>1, <1>6 DEF Stirring, WriteToHear
  <1> QED BY <1>3, <1>4, <1>5, <1>6 DEF Stirring

(* What is shown is what the index would answer, or is asked again.         *)
LEMMA CurrentStep ==
  ASSUME OnlyUnannounced, Shape, Shape', Sound(index), unanswered = {}, ListTyped, ListTyped',
         GateInv, ScopeInv, ScopeInv', AskedInv, FillingInv', CurrentInv, [ListNext]_listVars
  PROVE  CurrentInv'
  <1>0. canvas \in Cells /\ gate \in Gates /\ TypeOK /\ TypeOK' /\ revision \in Nat
    BY DEF ListTyped, Shape
  <1>1. CASE RunUnlock
    <2>1. ~gate.open /\ gate'.open = gate.open
      BY <1>0, <1>1, GateJobRun DEF RunUnlock, OfGate, GateInv, GateShape, Gates
    <2> QED BY <2>1 DEF CurrentInv
  <1>2. CASE RunLeave
    BY <1>2 DEF RunLeave, Close, CurrentInv
  <1>3. ASSUME ~RunUnlock, ~RunLeave, ~Frame
        PROVE  /\ UNCHANGED <<open, revision>> /\ gate'.open = gate.open
               /\ open # None => (Stirring => Stirring') /\ (rows' = rows \/ Stirring')
    <2>1. UNCHANGED <<open, revision>> /\ gate'.open = gate.open
      BY <1>0, <1>3, LibraryStep, RevisionStep
      DEF AskUnlock, SendUnlock, AskLeave, GateArrives, Gates
    <2> QED BY <1>3, <2>1, StirringStays
  <1>4. CASE UNCHANGED canvas /\ ~RunUnlock /\ ~RunLeave /\ ~Frame
    BY <1>3, <1>4 DEF CurrentInv, Coming
  <1>5. CASE RunList /\ ~UNCHANGED canvas
    <2>1. /\ UNCHANGED <<open, rows, gate, revision, fills>>
          /\ canvas.call = "queued" /\ canvas'.shown = canvas.shown
          /\ canvas'.failed = canvas.failed /\ canvas'.answered = canvas.answered
          /\ canvas'.ok => open # None /\ List /\ canvas'.answer = Listed
          /\ Listed.notes = index'.entries
      BY <1>0, <1>5, ListedCell
    <2>2. ~RunUnlock /\ ~RunLeave /\ ~Frame
      <3>1. Head(queue).kind = "list"
        BY <1>5 DEF RunList, Runs
      <3>2. Len(queue') = Len(queue) - 1 /\ Len(queue) \in Nat
        BY <1>5, Ran DEF RunList, ListTyped
      <3>3. queue' = Append(queue, [kind |-> "list", of |-> RevisionAfter])
            => Len(queue') = Len(queue) + 1
        BY FrameIsTyped, Kinds, Sent DEF ListTyped
      <3> QED BY <3>1, <3>2, <3>3 DEF RunUnlock, RunLeave, Runs, Frame
    <2>3. open # None => (Stirring => Stirring')
      BY <1>3, <2>2
    <2>4. ASSUME canvas'.ok
          PROVE  index'.entries = rows' \/ Stirring'
      <3>1. List /\ open # None
        BY <2>1, <2>4
      <3>2. index'.library = open /\ (index'.entries = rows \/ (index'.filling /\ ~index'.complete))
        BY <3>1, WholeListed
      <3>3. index'.filling /\ ~index'.complete => FillUnderWay'
        BY DEF FillingInv, Filling, FillUnderWay
      <3> QED BY <2>1, <3>2, <3>3 DEF Stirring, EndToCome
    <2> QED BY <2>1, <2>3, <2>4 DEF CurrentInv, Coming
  <1>6. CASE ListArrives
    <2>1. /\ canvas.call = "ran" /\ UNCHANGED <<gate, revision, open, rows>>
          /\ canvas' = [canvas EXCEPT !.call = "arrived"]
          /\ Stirring => Stirring'
      BY <1>6 DEF ListArrives, vars, Stirring, WriteToHear, EndToHear, EndToCome, FillUnderWay
    <2>2. /\ canvas'.shown = canvas.shown /\ canvas'.failed = canvas.failed
          /\ canvas'.answered = canvas.answered /\ canvas'.asked = canvas.asked
          /\ canvas'.answer = canvas.answer /\ canvas'.ok = canvas.ok
      BY <1>0, <2>1 DEF Cells
    <2> QED BY <2>1, <2>2 DEF CurrentInv, Coming
  <1>7. CASE Frame
    <2>1. UNCHANGED <<open, rows>> /\ revision' \in Nat /\ revision' >= revision
      BY <1>7, FrameCell DEF Frame, vars, ListTyped
    <2>2. CASE ~gate'.open
      BY <2>2 DEF CurrentInv
    <2>3. CASE gate'.open /\ Scope = BlankCanvas
      <3>1. BlankCanvas.shown = Nothing /\ BlankCanvas.call = "idle"
        BY DEF BlankCanvas
      <3>2. canvas'.shown = Nothing /\ ~Coming'
        BY <1>7, <2>3, <3>1, FrameCell DEF Coming
      <3> QED BY <3>2 DEF CurrentInv
    <2>4. CASE gate'.open /\ Scope # BlankCanvas
      <3>1. Scope = canvas /\ gate.open
        BY <1>7, <2>4, FrameCell DEF ScopeInv
      <3>2. canvas.asked <= revision /\ canvas.answered <= revision
            /\ canvas.asked \in Nat /\ canvas.answered \in Nat
        BY <1>0 DEF AskedInv, Cells
      <3>3. \/ canvas'.shown = canvas.shown /\ canvas'.failed = canvas.failed
               /\ canvas'.answered = canvas.answered
            \/ Coming /\ canvas'.shown = canvas.answer /\ canvas.asked = revision'
            \/ canvas'.failed = TRUE
        BY <1>7, <2>4, <3>1, FrameCell DEF Coming
      <3>4. Coming' => canvas' = canvas
        BY <1>7, <2>4, <3>1, FrameCell
      <3>5. CASE revision' > revision
        <4>1. canvas.asked # revision' /\ canvas.answered # revision'
          BY <1>0, <2>1, <3>2, <3>5
        <4> QED BY <3>3, <3>4, <4>1 DEF CurrentInv
      <3>6. CASE revision' = revision
        <4>1. Stirring => Stirring'
          BY <1>0, <1>7, <2>4, <3>6, FrameHears
        <4>2. Coming' => Coming
          BY <3>4 DEF Coming
        <4>3. gate.open /\ open # None =>
                /\ canvas.shown # Nothing /\ canvas.answered = revision /\ ~canvas.failed
                     => canvas.shown.notes = rows \/ Stirring
                /\ Coming /\ canvas.asked = revision => canvas.answer.notes = rows \/ Stirring
          BY DEF CurrentInv
        <4>4. open' # None /\ canvas'.shown # Nothing /\ canvas'.answered = revision' /\ ~canvas'.failed
              => canvas'.shown.notes = rows' \/ Stirring'
          BY <2>1, <3>1, <3>3, <3>6, <4>1, <4>3
        <4>5. open' # None /\ Coming' /\ canvas'.asked = revision'
              => canvas'.answer.notes = rows' \/ Stirring'
          BY <2>1, <3>1, <3>4, <3>6, <4>1, <4>2, <4>3
        <4> QED BY <4>4, <4>5 DEF CurrentInv
      <3> QED BY <1>0, <2>1, <3>5, <3>6
    <2> QED BY <2>2, <2>3, <2>4
  <1> QED BY <1>1, <1>2, <1>4, <1>5, <1>6, <1>7, CanvasStep

(* When nothing fails but an announcement, a list at rest is the whole     *)
(* library as it now is, or says that it failed: however the slices of the *)
(* fills, the writes, the events and the answers met, each was heard.      *)
THEOREM RestIsWhole == Faults \subseteq {"announce"} => (ListSpec => []QuietMeansWhole)
  <1> SUFFICES ASSUME OnlyUnannounced PROVE ListSpec => []QuietMeansWhole
    BY DEF OnlyUnannounced
  <1>1. NoLostWrite
    BY DEF OnlyUnannounced, NoLostWrite
  <1>2. ListSpec => []WholeNow
    BY <1>1, WholeIsKept
  <1>3. ListInit => FillingInv /\ CurrentInv
    BY ClearedIsTyped DEF ListInit, Init, FillingInv, CurrentInv, ClosedGate
  <1>4. ListInv /\ ListInv' /\ WholeNow /\ FillingInv /\ CurrentInv /\ [ListNext]_listVars
        => FillingInv' /\ CurrentInv'
    BY FillingStep, CurrentStep DEF ListInv, WholeNow
  <1>5. ListInv /\ CurrentInv => QuietMeansWhole
    <2> SUFFICES ASSUME ListInv, CurrentInv, Quiet, gate.open, open # None, ~canvas.failed
                 PROVE  ShowsTheLibrary
      BY DEF QuietMeansWhole
    <2>1. canvas.call = "idle" /\ write.call = "idle" /\ inbox = <<>>
      BY DEF Quiet
    <2>2. canvas.answered = revision /\ canvas.shown # Nothing /\ revision > 0
      BY <2>1 DEF ListInv, AskedInv
    <2>3. ~Stirring
      BY <2>1 DEF Quiet, Stirring, WriteToHear, EndToHear, EndToCome, FillUnderWay
    <2> QED BY <2>2, <2>3 DEF CurrentInv, ShowsTheLibrary, ListInv, ScopeInv
  <1> QED BY <1>2, <1>3, <1>4, <1>5, ListInvIsKept, PTL DEF ListSpec
=============================================================================
