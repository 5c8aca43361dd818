-------------------------- MODULE NoteEditorProofs --------------------------
(* Theorems about NoteEditor, for every set of texts, any formatter, any   *)
(* number of openings, and whatever SQLite refuses: a draft becomes one    *)
(* note at most, and what the library holds at rest is what was left.      *)
EXTENDS NoteEditor, TLAPS, SequenceTheorems, FiniteSetTheorems

USE DEF Contents

-----------------------------------------------------------------------------
(* The types, and what ids name.                                           *)

Row == [made : Sessions, note : Note]
Creations == [session : Sessions, waiting : Contents \cup {Nothing}]
CreatedAnswers == [session : Sessions, id : Nat, text : Contents]
Bodies == [session : Sessions, id : Nat, text : Contents]
Fields == [session : Sessions, text : Contents]

RowOf(id) == id \in 1 .. Len(rows)

(* A job that is not a creation is on a note there is; a write knows the   *)
(* session that made it.                                                   *)
JobOK(j) ==
  /\ j.op # "create" => RowOf(j.id)
  /\ j.op = "write" => j.session = rows[j.id].made
QueueOK(q) == q \in Seq(Job) /\ \A i \in 1 .. Len(q) : JobOK(q[i])

(* An editor with no note yet has a draft, and reads nothing.              *)
OpenOK(o) ==
  /\ o \in Opened
  /\ o.id = 0 \/ RowOf(o.id)
  /\ o.id = 0 => o.draft \in Note /\ o.read = None /\ o.reading = "no"

ViewOK(o, v) ==
  /\ v \in Fields \cup {None}
  /\ v # None => o # None /\ v.session = o.session

EditorTyped ==
  /\ rows \in Seq(Row)
  /\ QueueOK(queue)
  /\ open # None => OpenOK(open)
  /\ sessions \in 0 .. MaxSessions
  /\ creating \subseteq Creations
  /\ created \subseteq CreatedAnswers
  /\ \A a \in created : a.id = 0 \/ (RowOf(a.id) /\ rows[a.id].made = a.session)
  /\ wrote \in Nat
  /\ held \subseteq Bodies /\ \A h \in held : RowOf(h.id)
  /\ ViewOK(open, view)
  /\ files \subseteq Sessions /\ dropped \in 0 .. MaxFiles
  /\ quit \in {"no", "asked", "gone"}
  /\ left \in [Sessions -> SUBSET Contents] /\ failed \in BOOLEAN

(* None is no note and no editor.                                          *)
LEMMA Nones == None \notin Note /\ None \notin Opened /\ None \notin Fields
  <1>1. None \notin Note
    BY DEF None, Note
  <1>2. None \notin Opened
    BY DEF None, Opened
  <1>3. None \notin Fields
    BY DEF None, Fields
  <1> QED BY <1>1, <1>2, <1>3

(* What the proofs suppose of the values is the type invariant, and more.   *)
LEMMA TypedIsTypeOK == EditorTyped => TypeOK
  <1> SUFFICES ASSUME EditorTyped PROVE TypeOK
    OBVIOUS
  <1>1. open \in Opened \cup {None}
    BY DEF EditorTyped, OpenOK
  <1> QED BY <1>1 DEF EditorTyped, TypeOK, QueueOK, ViewOK, Row, Creations, CreatedAnswers, Bodies, Fields

(* A row there is.                                                         *)
LEMMA RowFields ==
  ASSUME rows \in Seq(Row), NEW id, RowOf(id)
  PROVE  /\ id \in Nat /\ id # 0 /\ Len(rows) \in Nat
         /\ rows[id] \in Row /\ rows[id].made \in Sessions /\ rows[id].note \in Note
  <1>1. Len(rows) \in Nat /\ id \in 1 .. Len(rows)
    BY LenProperties DEF RowOf
  <1>2. rows[id] \in Row
    BY <1>1, ElementOfSeq
  <1> QED BY <1>1, <1>2 DEF Row

(* The jobs asked for.                                                     *)
LEMMA Jobs ==
  /\ \A s \in Sessions, note \in Note :
       /\ CreateJob(s, note) \in Job /\ JobOK(CreateJob(s, note))
       /\ CreateJob(s, note).op = "create" /\ CreateJob(s, note).session = s
       /\ CreateJob(s, note).note = note
  /\ rows \in Seq(Row) =>
       \A id : RowOf(id) =>
         /\ \A t \in Contents :
              /\ WriteJob(id, t) \in Job /\ JobOK(WriteJob(id, t))
              /\ WriteJob(id, t).op = "write" /\ WriteJob(id, t).id = id
              /\ WriteJob(id, t).session = rows[id].made /\ WriteJob(id, t).note.text = t
         /\ AttachJob(id) \in Job /\ JobOK(AttachJob(id)) /\ AttachJob(id).op = "attach"
  /\ \A o \in Opened : RowOf(o.id) =>
       /\ ReadJob(o) \in Job /\ JobOK(ReadJob(o))
       /\ ReadJob(o).op = "read" /\ ReadJob(o).id = o.id /\ ReadJob(o).session = o.session
  <1>1. Untitled \in Note
    BY DEF Untitled, Note
  <1>2. ASSUME NEW s \in Sessions, NEW note \in Note
        PROVE  /\ CreateJob(s, note) \in Job /\ JobOK(CreateJob(s, note))
               /\ CreateJob(s, note).op = "create" /\ CreateJob(s, note).session = s
               /\ CreateJob(s, note).note = note
    BY DEF CreateJob, Job, JobOK
  <1>3. ASSUME rows \in Seq(Row), NEW id, RowOf(id)
        PROVE  /\ \A t \in Contents :
                    /\ WriteJob(id, t) \in Job /\ JobOK(WriteJob(id, t))
                    /\ WriteJob(id, t).op = "write" /\ WriteJob(id, t).id = id
                    /\ WriteJob(id, t).session = rows[id].made /\ WriteJob(id, t).note.text = t
               /\ AttachJob(id) \in Job /\ JobOK(AttachJob(id)) /\ AttachJob(id).op = "attach"
    <2>1. id \in Nat /\ rows[id].made \in Sessions
      BY <1>3, RowFields
    <2>2. \A t \in Contents : [text |-> t, marked |-> FALSE] \in Note
      BY DEF Note
    <2> QED BY <1>1, <1>3, <2>1, <2>2 DEF WriteJob, AttachJob, Job, JobOK
  <1>4. ASSUME NEW o \in Opened, RowOf(o.id)
        PROVE  /\ ReadJob(o) \in Job /\ JobOK(ReadJob(o))
               /\ ReadJob(o).op = "read" /\ ReadJob(o).id = o.id /\ ReadJob(o).session = o.session
    <2>1. o.id \in Nat /\ o.session \in Sessions
      BY DEF Opened
    <2> QED BY <1>1, <1>4, <2>1 DEF ReadJob, Job, JobOK
  <1> QED BY <1>2, <1>3, <1>4

(* A job sent is the last of the queue.                                    *)
LEMMA Sent ==
  ASSUME NEW q \in Seq(Job), NEW j \in Job
  PROVE  /\ Append(q, j) \in Seq(Job) /\ Len(q) \in Nat /\ Len(Append(q, j)) = Len(q) + 1
         /\ Append(q, j)[Len(q) + 1] = j
         /\ \A i \in 1 .. Len(q) : Append(q, j)[i] = q[i]
         /\ \A i \in 1 .. Len(Append(q, j)) : i \in 1 .. Len(q) \/ i = Len(q) + 1
         /\ QueueOK(q) /\ JobOK(j) => QueueOK(Append(q, j))
  <1>1. /\ Append(q, j) \in Seq(Job) /\ Len(q) \in Nat /\ Len(Append(q, j)) = Len(q) + 1
        /\ Append(q, j)[Len(q) + 1] = j
        /\ \A i \in 1 .. Len(q) : Append(q, j)[i] = q[i]
    BY AppendProperties, LenProperties
  <1>2. \A i \in 1 .. Len(Append(q, j)) : i \in 1 .. Len(q) \/ i = Len(q) + 1
    BY <1>1
  <1>3. QueueOK(q) /\ JobOK(j) => QueueOK(Append(q, j))
    BY <1>1, <1>2 DEF QueueOK
  <1> QED BY <1>1, <1>2, <1>3

(* A job run was the first.                                                *)
LEMMA First ==
  ASSUME QueueOK(queue), queue # <<>>
  PROVE  /\ Len(queue) \in Nat \ {0} /\ Head(queue) = queue[1] /\ 1 \in 1 .. Len(queue)
         /\ Head(queue) \in Job /\ JobOK(Head(queue))
         /\ Tail(queue) \in Seq(Job) /\ Len(Tail(queue)) = Len(queue) - 1
         /\ \A i \in 1 .. Len(Tail(queue)) :
              i + 1 \in 1 .. Len(queue) /\ Tail(queue)[i] = queue[i + 1]
  <1>1. queue \in Seq(Job) /\ Len(queue) \in Nat \ {0} /\ Head(queue) = queue[1]
    BY EmptySeq DEF QueueOK
  <1>2. /\ Tail(queue) \in Seq(Job) /\ Len(Tail(queue)) = Len(queue) - 1
        /\ \A i \in 1 .. Len(Tail(queue)) :
             i + 1 \in 1 .. Len(queue) /\ Tail(queue)[i] = queue[i + 1]
    BY <1>1, HeadTailProperties
  <1>3. 1 \in 1 .. Len(queue) /\ queue[1] \in Job
    BY <1>1, ElementOfSeq
  <1> QED BY <1>1, <1>2, <1>3 DEF QueueOK

(* The fields of an editor.                                                *)
LEMMA OpenFields ==
  ASSUME NEW o \in Opened
  PROVE  /\ o.session \in Sessions /\ o.id \in Nat
         /\ o.draft \in Note \cup {None} /\ o.read \in Note \cup {None}
         /\ o.fresh \in BOOLEAN /\ o.current \in BOOLEAN /\ o.got \in Note \cup {None}
         /\ o.reading \in {"no", "asked", "answered"}
         /\ NoteOf(o) \in Note \cup {None}
         /\ NoteOf(o) # None => NoteOf(o).text \in Contents
  BY Nones DEF Opened, NoteOf, Note

(* What leaving a text in the fields of an editor asks for: behind the     *)
(* creation under way; a creation, the draft being worth one, or nothing;  *)
(* nothing, being what was read, or a write.                               *)
LEMMA SavedIs ==
  ASSUME NEW o, OpenOK(o), NEW t \in Contents
  PROVE  LET note == [o.draft EXCEPT !.text = t]
             q == Saved(o, t).asked.queue
             c == Saved(o, t).asked.creating
             after == Saved(o, t).open
         IN  \/ /\ Creating(o.session)
                /\ c = Waiting(o.session, t) /\ q = queue /\ after = o
             \/ /\ ~Creating(o.session) /\ o.id = 0 /\ after = [o EXCEPT !.draft = note]
                /\ note \in Note /\ note.text = t
                /\ \/ /\ WorthKeeping(note)
                      /\ c = creating \cup {[session |-> o.session, waiting |-> Nothing]}
                      /\ q = Append(queue, CreateJob(o.session, note))
                   \/ ~WorthKeeping(note) /\ c = creating /\ q = queue
             \/ /\ ~Creating(o.session) /\ RowOf(o.id) /\ after = o /\ c = creating
                /\ q = IF t = NoteOf(o).text THEN queue ELSE Append(queue, WriteJob(o.id, t))
  <1>1. CASE Creating(o.session)
    BY <1>1 DEF Saved
  <1>2. CASE ~Creating(o.session) /\ o.id = 0
    <2>1. o.draft \in Note
      BY <1>2 DEF OpenOK
    <2>2. [o.draft EXCEPT !.text = t] \in Note /\ [o.draft EXCEPT !.text = t].text = t
      BY <2>1 DEF Note
    <2> QED BY <1>2, <2>2 DEF Saved, DraftKept, DraftWritten, Created, Unasked
  <1>3. CASE ~Creating(o.session) /\ o.id # 0
    BY <1>3 DEF Saved, Write, OpenOK
  <1> QED BY <1>1, <1>2, <1>3

(* What waits, waits behind the creation of its session.                   *)
LEMMA WaitingIs ==
  ASSUME creating \subseteq Creations, NEW s, NEW t \in Contents
  PROVE  /\ Waiting(s, t) \subseteq Creations
         /\ \A c \in Waiting(s, t) : \E d \in creating :
              c.session = d.session /\ c.waiting = IF d.session = s THEN t ELSE d.waiting
         /\ \A d \in creating : \E c \in Waiting(s, t) : c.session = d.session
  <1>1. ASSUME NEW d \in creating
        PROVE  LET c == IF d.session = s THEN [d EXCEPT !.waiting = t] ELSE d
               IN  c \in Creations /\ c.session = d.session
                   /\ c.waiting = IF d.session = s THEN t ELSE d.waiting
    BY DEF Creations
  <1> QED BY <1>1 DEF Waiting

(* An editor whose draft changed is an editor.                             *)
LEMMA DraftFields ==
  ASSUME NEW o, OpenOK(o), NEW note \in Note, o.id = 0
  PROVE  LET n == [o EXCEPT !.draft = note] IN
         /\ OpenOK(n) /\ n.session = o.session /\ n.id = o.id /\ n.draft = note /\ n.read = o.read
         /\ n.fresh = o.fresh /\ n.reading = o.reading /\ n.current = o.current /\ n.got = o.got
         /\ NoteOf(n) # None /\ NoteOf(n) = note
  BY Nones DEF OpenOK, Opened, NoteOf

(* All of what a field left asks for is typed.                             *)
LEMMA SavedIsTyped ==
  ASSUME EditorTyped, NEW o, OpenOK(o), NEW t \in Contents
  PROVE  LET k == Saved(o, t) IN
         /\ QueueOK(k.asked.queue) /\ k.asked.creating \subseteq Creations
         /\ OpenOK(k.open) /\ k.open.session = o.session /\ k.open.id = o.id
         /\ k.open # None /\ (NoteOf(o) # None => NoteOf(k.open) # None)
         /\ o.id # 0 => k.open = o
  <1>0. /\ QueueOK(queue) /\ queue \in Seq(Job) /\ creating \subseteq Creations
        /\ rows \in Seq(Row) /\ o \in Opened /\ o.session \in Sessions /\ o # None
    BY OpenFields, Nones DEF EditorTyped, QueueOK, OpenOK
  <1> DEFINE k == Saved(o, t)
             note == [o.draft EXCEPT !.text = t]
             one == creating \cup {[session |-> o.session, waiting |-> Nothing]}
             Good == /\ QueueOK(k.asked.queue) /\ k.asked.creating \subseteq Creations
                     /\ OpenOK(k.open) /\ k.open.session = o.session /\ k.open.id = o.id
                     /\ k.open # None /\ (NoteOf(o) # None => NoteOf(k.open) # None)
                     /\ o.id # 0 => k.open = o
  <1>1. ASSUME k.asked.queue = queue, k.open = o, k.asked.creating = Waiting(o.session, t)
        PROVE  Good
    BY <1>0, <1>1, WaitingIs
  <1>2. ASSUME o.id = 0, k.open = [o EXCEPT !.draft = note], note \in Note,
               k.asked.creating = creating \/ k.asked.creating = one,
               k.asked.queue = queue \/ k.asked.queue = Append(queue, CreateJob(o.session, note))
        PROVE  Good
    <2> HIDE DEF k, note
    <2>1. /\ OpenOK(k.open) /\ k.open.session = o.session /\ k.open.id = o.id /\ k.open # None
          /\ NoteOf(k.open) # None
      BY <1>2, DraftFields, Nones DEF OpenOK
    <2>2. [session |-> o.session, waiting |-> Nothing] \in Creations
      BY <1>0 DEF Creations
    <2>3. QueueOK(Append(queue, CreateJob(o.session, note)))
      BY <1>0, <1>2, Jobs, Sent
    <2> QED BY <1>0, <1>2, <2>1, <2>2, <2>3
  <1>3. ASSUME RowOf(o.id), k.open = o, k.asked.creating = creating,
               k.asked.queue = queue \/ k.asked.queue = Append(queue, WriteJob(o.id, t))
        PROVE  Good
    <2>1. QueueOK(Append(queue, WriteJob(o.id, t)))
      BY <1>0, <1>3, Jobs, Sent
    <2> QED BY <1>0, <1>3, <2>1
  <1>4. \/ /\ Creating(o.session)
           /\ k.asked.creating = Waiting(o.session, t) /\ k.asked.queue = queue /\ k.open = o
        \/ /\ ~Creating(o.session) /\ o.id = 0 /\ k.open = [o EXCEPT !.draft = note]
           /\ note \in Note /\ note.text = t
           /\ \/ /\ WorthKeeping(note) /\ k.asked.creating = one
                 /\ k.asked.queue = Append(queue, CreateJob(o.session, note))
              \/ ~WorthKeeping(note) /\ k.asked.creating = creating /\ k.asked.queue = queue
        \/ /\ ~Creating(o.session) /\ RowOf(o.id) /\ k.open = o /\ k.asked.creating = creating
           /\ k.asked.queue = IF t = NoteOf(o).text THEN queue
                              ELSE Append(queue, WriteJob(o.id, t))
    BY SavedIs
  <1>5. Good
    <2> HIDE DEF k, note, one, Good
    <2> QED BY <1>1, <1>2, <1>3, <1>4
  <1> QED BY <1>5

(* A frame that shows another note, or none.                               *)
LEMMA SeenIsTyped ==
  ASSUME NEW o, o # None => OpenOK(o), NEW v \in Fields \cup {None}
  PROVE  ViewOK(o, Seen(o, v))
  <1>1. CASE o = None \/ NoteOf(o) = None
    BY <1>1 DEF Seen, ViewOK
  <1>2. CASE ~(o = None \/ NoteOf(o) = None)
    <2>1. o.session \in Sessions /\ NoteOf(o).text \in Contents
      BY <1>2, OpenFields DEF OpenOK
    <2> QED BY <1>2, <2>1, Nones DEF Seen, ViewOK, Fields
  <1> QED BY <1>1, <1>2

(* Typed again, once the notes there are did not change.                   *)
LEMMA TypedAgain ==
  ASSUME rows \in Seq(Row), UNCHANGED rows,
         QueueOK(queue'), open' # None => OpenOK(open'), ViewOK(open', view'),
         sessions' \in 0 .. MaxSessions, creating' \subseteq Creations,
         created' \subseteq CreatedAnswers,
         \A a \in created' : a.id = 0 \/ (RowOf(a.id) /\ rows[a.id].made = a.session),
         wrote' \in Nat, held' \subseteq Bodies, \A h \in held' : RowOf(h.id),
         files' \subseteq Sessions, dropped' \in 0 .. MaxFiles, quit' \in {"no", "asked", "gone"},
         left' \in [Sessions -> SUBSET Contents], failed' \in BOOLEAN
  PROVE  EditorTyped'
  <1>1. QueueOK(queue)'
    BY DEF QueueOK, JobOK, RowOf
  <1>2. open' # None => OpenOK(open)'
    BY DEF OpenOK, RowOf
  <1>3. ViewOK(open, view)'
    BY DEF ViewOK
  <1>4. /\ \A a \in created' : a.id = 0 \/ (RowOf(a.id)' /\ rows'[a.id].made = a.session)
        /\ \A h \in held' : RowOf(h.id)'
    BY DEF RowOf
  <1> QED BY <1>1, <1>2, <1>3, <1>4 DEF EditorTyped

(* Whose note an editor has.                                               *)
LEMMA MadeIs ==
  ASSUME rows \in Seq(Row), NEW o, OpenOK(o)
  PROVE  /\ Made(o) \in Sessions
         /\ o.id = 0 => Made(o) = o.session
         /\ o.id # 0 => Made(o) = rows[o.id].made /\ RowOf(o.id)
  BY RowFields, OpenFields DEF Made, OpenOK

(* What is left last.                                                      *)
LEMMA LeavesIs ==
  ASSUME EditorTyped, NEW o, OpenOK(o), NEW t \in Contents, NEW last, Leaves(o, t, last)
  PROVE  /\ left' \in [Sessions -> SUBSET Contents]
         /\ t \in left'[Made(o)]
         /\ \A m \in Sessions \ {Made(o)} : left'[m] = left[m]
         /\ left'[Made(o)] = {t} \/ left'[Made(o)] = left[Made(o)] \cup {t}
         /\ ~Settled(Made(o)) /\ ~last => left'[Made(o)] = left[Made(o)] \cup {t}
  <1>1. Made(o) \in Sessions /\ left \in [Sessions -> SUBSET Contents]
    BY MadeIs DEF EditorTyped
  <1> QED BY <1>1 DEF Leaves

(* A session is given, ...                                                 *)
LEMMA NewSessions ==
  ASSUME EditorTyped, sessions < MaxSessions
  PROVE  /\ NewSession \in Sessions /\ sessions + 1 \in 0 .. MaxSessions
         /\ NewSession[2] = sessions + 1
  <1>1. sessions \in 0 .. MaxSessions /\ MaxSessions \in Nat
    BY BoundsAssumption DEF EditorTyped
  <1> QED BY <1>1 DEF NewSession, Sessions

(* ... and an editor opens in it, ...                                      *)
LEMMA OpeningIs ==
  ASSUME NEW s \in Sessions, NEW id \in Nat, NEW draft \in Note \cup {None}, NEW o,
         o = Opening(s, id, draft)
  PROVE  /\ o \in Opened /\ o.session = s /\ o.id = id /\ o.draft = draft
         /\ ~o.fresh /\ o.read = None /\ o.reading = "no" /\ NoteOf(o) = draft
         /\ o # None
  <1>1. /\ o \in Opened /\ o.session = s /\ o.id = id /\ o.draft = draft
        /\ ~o.fresh /\ o.read = None /\ o.reading = "no"
    BY DEF Opening, Opened
  <1>2. o # None /\ NoteOf(o) = draft
    BY <1>1, Nones DEF NoteOf
  <1> QED BY <1>1, <1>2

(* ... on a draft, or on a note.                                           *)
LEMMA NewEditor ==
  ASSUME EditorTyped, sessions < MaxSessions, NEW id, NEW draft, NEW o,
         o = Opening(NewSession, id, draft),
         (id = 0 /\ draft \in Note) \/ (RowOf(id) /\ draft = None)
  PROVE  /\ OpenOK(o) /\ o.session = NewSession /\ o.id = id /\ o.draft = draft
         /\ ~o.fresh /\ o.read = None /\ o.reading = "no" /\ NoteOf(o) = draft
         /\ o # None
  <1>1. NewSession \in Sessions
    BY NewSessions
  <1>2. id \in Nat /\ (RowOf(id) => id # 0)
    BY RowFields DEF EditorTyped
  <1>3. /\ o \in Opened /\ o.session = NewSession /\ o.id = id /\ o.draft = draft
        /\ ~o.fresh /\ o.read = None /\ o.reading = "no" /\ NoteOf(o) = draft
        /\ o # None
    BY <1>1, <1>2, OpeningIs
  <1> QED BY <1>2, <1>3 DEF OpenOK

(* Moved by a revision, an editor is one still.                            *)
LEMMA BumpedFields ==
  ASSUME NEW o, o # None => OpenOK(o)
  PROVE  /\ Bumped(o) # None <=> o # None
         /\ o # None =>
              /\ OpenOK(Bumped(o)) /\ Bumped(o).session = o.session /\ Bumped(o).id = o.id
              /\ Bumped(o).draft = o.draft /\ Bumped(o).read = o.read
              /\ Bumped(o).reading = o.reading /\ Bumped(o).got = o.got
              /\ ~Bumped(o).fresh /\ ~Bumped(o).current
         /\ \A v : ViewOK(o, v) => ViewOK(Bumped(o), v)
  <1>1. CASE o = None
    BY <1>1 DEF Bumped
  <1>2. CASE o # None
    <2>1. Bumped(o) = [o EXCEPT !.fresh = FALSE, !.current = FALSE] /\ OpenOK(o)
      BY <1>2 DEF Bumped
    <2>2. /\ Bumped(o) \in Opened /\ Bumped(o).session = o.session /\ Bumped(o).id = o.id
          /\ Bumped(o).draft = o.draft /\ Bumped(o).read = o.read
          /\ Bumped(o).reading = o.reading /\ Bumped(o).got = o.got
          /\ ~Bumped(o).fresh /\ ~Bumped(o).current
      BY <2>1 DEF OpenOK, Opened
    <2> QED BY <1>2, <2>1, <2>2, Nones DEF OpenOK, ViewOK
  <1> QED BY <1>1, <1>2

(* Shown again or left behind, an editor is otherwise what it was.         *)
LEMMA ShownFields ==
  ASSUME NEW o, OpenOK(o), NEW n, n = [o EXCEPT !.behind = ~@]
  PROVE  /\ OpenOK(n) /\ n # None /\ n.session = o.session /\ n.id = o.id /\ n.draft = o.draft
         /\ n.read = o.read /\ n.fresh = o.fresh /\ n.reading = o.reading
         /\ n.current = o.current /\ n.got = o.got
  <1>1. /\ n \in Opened /\ n.session = o.session /\ n.id = o.id /\ n.draft = o.draft
        /\ n.read = o.read /\ n.fresh = o.fresh /\ n.reading = o.reading
        /\ n.current = o.current /\ n.got = o.got
    BY DEF OpenOK, Opened
  <1> QED BY <1>1, Nones DEF OpenOK

(* What a user does keeps the types.                                       *)
LEMMA UserIsTyped ==
  ASSUME EditorTyped, User
  PROVE  EditorTyped'
  <1>0. /\ rows \in Seq(Row) /\ QueueOK(queue) /\ (open # None => OpenOK(open))
        /\ sessions \in 0 .. MaxSessions /\ creating \subseteq Creations
        /\ created \subseteq CreatedAnswers
        /\ \A a \in created : a.id = 0 \/ (RowOf(a.id) /\ rows[a.id].made = a.session)
        /\ wrote \in Nat /\ held \subseteq Bodies /\ \A h \in held : RowOf(h.id)
        /\ ViewOK(open, view) /\ files \subseteq Sessions /\ dropped \in 0 .. MaxFiles
        /\ quit \in {"no", "asked", "gone"}
        /\ left \in [Sessions -> SUBSET Contents] /\ failed \in BOOLEAN
    BY DEF EditorTyped
  <1>1. view \in Fields \cup {None} /\ (view # None => open # None /\ view.text \in Contents)
    BY <1>0 DEF ViewOK, Fields
  <1>2. ASSUME NEW t \in Typed \cup {Blank}, NewNote(t)
        PROVE  EditorTyped'
    <2> DEFINE o == Opening(NewSession, 0, Untitled)
               kept == IF t = Blank THEN [asked |-> Unasked, open |-> o] ELSE Saved(o, t)
    <2>1. Untitled \in Note /\ t \in Contents
      BY TextsAssumption DEF Untitled, Note
    <2>2. sessions < MaxSessions
      BY <1>2 DEF NewNote
    <2>8. NewSession \in Sessions /\ sessions + 1 \in 0 .. MaxSessions
      BY <2>2, NewSessions
    <2>3. OpenOK(o)
      BY <2>1, <2>2, NewEditor
    <2> HIDE DEF o
    <2>4. /\ OpenOK(kept.open) /\ QueueOK(kept.asked.queue)
          /\ kept.asked.creating \subseteq Creations
      <3>1. CASE t = Blank
        BY <1>0, <2>3, <3>1 DEF Unasked
      <3>2. CASE t # Blank
        BY <2>1, <2>3, <3>2, SavedIsTyped
      <3> QED BY <3>1, <3>2
    <2>5. /\ open' = kept.open /\ Asks(kept.asked) /\ view' = Seen(open', view)
          /\ left' = [left EXCEPT ![NewSession] = {t}] /\ sessions' = sessions + 1
          /\ UNCHANGED <<rows, answers, held, files, dropped, quit, failed>>
      BY <1>2 DEF NewNote, o
    <2> HIDE DEF kept
    <2>6. ViewOK(open', view')
      BY <1>1, <2>4, <2>5, SeenIsTyped
    <2>7. left' \in [Sessions -> SUBSET Contents]
      BY <1>0, <2>1, <2>5
    <2> QED BY <1>0, <2>4, <2>5, <2>6, <2>7, <2>8, TypedAgain DEF Asks, answers
  <1>3. ASSUME NEW id \in 1 .. Len(rows), OpenNote(id)
        PROVE  EditorTyped'
    <2>1. /\ open' = Opening(NewSession, id, None) /\ view' = Seen(open', view)
          /\ sessions < MaxSessions /\ sessions' = sessions + 1
          /\ UNCHANGED <<rows, queue, creating, answers, held, files, dropped, quit, left, failed>>
      BY <1>3 DEF OpenNote
    <2>2. OpenOK(open') /\ sessions + 1 \in 0 .. MaxSessions
      BY <2>1, NewEditor, NewSessions DEF RowOf
    <2>3. ViewOK(open', view')
      BY <1>1, <2>1, <2>2, SeenIsTyped
    <2> QED BY <1>0, <2>1, <2>2, <2>3, TypedAgain DEF answers
  <1>4. ASSUME NEW t \in Typed, Type(t)
        PROVE  EditorTyped'
    <2>1. /\ view' = [view EXCEPT !.text = t] /\ view # None
          /\ UNCHANGED <<rows, queue, open, sessions, creating, answers, held, files, dropped,
                         quit, left, failed>>
      BY <1>4 DEF Type, CanType
    <2>2. ViewOK(open', view')
      BY <1>0, <2>1, Nones, TextsAssumption DEF ViewOK, Fields
    <2> QED BY <1>0, <2>1, <2>2, TypedAgain DEF answers
  <1>5. ASSUME NEW closes \in BOOLEAN, view # None, Leave(view.text, closes)
        PROVE  EditorTyped'
    <2> DEFINE t == view.text
               kept == Saved(open, t)
    <2>1. OpenOK(open) /\ t \in Contents /\ open # None
      BY <1>0, <1>1, <1>5
    <2>2. /\ OpenOK(kept.open) /\ QueueOK(kept.asked.queue)
          /\ kept.asked.creating \subseteq Creations
      BY <2>1, SavedIsTyped
    <2> HIDE DEF kept, t
    <2>3. /\ view' = Seen(open', view)
          /\ UNCHANGED <<rows, sessions, answers, files, dropped, quit, failed>>
          /\ \E last \in BOOLEAN : Leaves(open, t, last)
      BY <1>5 DEF Leave, Follows, t
    <2>4. left' \in [Sessions -> SUBSET Contents]
      BY <2>1, <2>3, LeavesIs
    <2>5. CASE HoldBack(t) /\ open' = IF closes THEN None ELSE open
      <3>1. /\ held' = held \cup {[session |-> open.session, id |-> open.id, text |-> t]}
            /\ open.read # None /\ UNCHANGED <<creating, queue>>
        BY <2>5 DEF HoldBack
      <3>2. RowOf(open.id) /\ open.session \in Sessions /\ open.id \in Nat
        BY <2>1, <3>1, OpenFields DEF OpenOK
      <3>3. held' \subseteq Bodies /\ \A h \in held' : RowOf(h.id)
        BY <1>0, <2>1, <3>1, <3>2 DEF Bodies
      <3>4. ViewOK(open', view')
        BY <1>1, <2>1, <2>3, <2>5, SeenIsTyped
      <3> QED BY <1>0, <2>1, <2>3, <2>4, <2>5, <3>1, <3>3, <3>4, TypedAgain DEF answers
    <2>6. CASE Asks(kept.asked) /\ UNCHANGED held /\ open' = IF closes THEN None ELSE kept.open
      <3>1. ViewOK(open', view')
        BY <1>1, <2>2, <2>3, <2>6, SeenIsTyped
      <3> QED BY <1>0, <2>2, <2>3, <2>4, <2>6, <3>1, TypedAgain DEF answers, Asks
    <2> QED BY <1>5, <2>5, <2>6 DEF Leave, kept, t
  <1>6. CASE Blur \/ Close
    BY <1>5, <1>6 DEF Blur, Close, CanType
  <1>7. ASSUME NEW marked \in BOOLEAN, Mark(marked)
        PROVE  EditorTyped'
    <2> DEFINE note == [open.draft EXCEPT !.marked = marked]
    <2>1. open.id = 0 /\ OpenOK(open) /\ open # None
      BY <1>0, <1>1, <1>7 DEF Mark, CanType
    <2>2. note \in Note
      BY <2>1 DEF OpenOK, Note
    <2>3. /\ open' = [open EXCEPT !.draft = note] /\ Asks(DraftWritten(open, note))
          /\ UNCHANGED <<rows, sessions, view, answers, held, files, dropped, quit, left, failed>>
      BY <1>7 DEF Mark, DraftKept
    <2> HIDE DEF note
    <2>4. OpenOK(open') /\ open'.session = open.session /\ open' # None
      BY <2>1, <2>2, <2>3, DraftFields, Nones DEF OpenOK
    <2>5. QueueOK(queue') /\ creating' \subseteq Creations
      <3>1. open.session \in Sessions
        BY <2>1, OpenFields DEF OpenOK
      <3>2. [session |-> open.session, waiting |-> Nothing] \in Creations
        BY <3>1 DEF Creations
      <3>3. QueueOK(Append(queue, CreateJob(open.session, note)))
        BY <1>0, <2>2, <3>1, Jobs, Sent DEF QueueOK
      <3> QED BY <1>0, <2>3, <3>2, <3>3 DEF Asks, DraftWritten, Created, Unasked
    <2>6. ViewOK(open', view')
      BY <1>0, <2>1, <2>3, <2>4 DEF ViewOK
    <2> QED BY <1>0, <2>3, <2>4, <2>5, <2>6, TypedAgain DEF answers
  <1>8. CASE Convert
    <2> DEFINE kept == Saved(open, view.text)
               again == <<open.session[1], sessions + 1>>
    <2>1. /\ OpenOK(open) /\ view.text \in Contents /\ open # None /\ sessions < MaxSessions
          /\ open.id = 0
      BY <1>0, <1>1, <1>8 DEF Convert, CanType
    <2>2. /\ OpenOK(kept.open) /\ QueueOK(kept.asked.queue) /\ kept.open.id = 0
          /\ kept.asked.creating \subseteq Creations
      BY <2>1, SavedIsTyped
    <2> HIDE DEF kept
    <2>3. again \in Sessions /\ sessions + 1 \in 0 .. MaxSessions /\ open.session \in Sessions
      BY <1>0, <2>1, OpenFields, BoundsAssumption DEF OpenOK, Sessions
    <2>4. /\ Asks(kept.asked) /\ view' = Seen(open', view)
          /\ UNCHANGED <<rows, answers, held, files, dropped, quit, failed>>
      BY <1>8 DEF Convert, kept
    <2>5. CASE /\ open' = kept.open /\ UNCHANGED sessions
               /\ Leaves(open, view.text, Follows(open, view.text))
      <3>1. left' \in [Sessions -> SUBSET Contents]
        BY <2>1, <2>5, LeavesIs
      <3>2. ViewOK(open', view')
        BY <1>1, <2>2, <2>4, <2>5, SeenIsTyped
      <3> QED BY <1>0, <2>2, <2>4, <2>5, <3>1, <3>2, TypedAgain DEF answers, Asks
    <2>6. CASE /\ open' = [kept.open EXCEPT !.session = again] /\ sessions' = sessions + 1
               /\ left' = [left EXCEPT ![open.session] = @ \cup {view.text}, ![again] = {Blank}]
      <3> HIDE DEF again
      <3>1. OpenOK(open')
        BY <2>2, <2>3, <2>6 DEF OpenOK, Opened
      <3>2. left' \in [Sessions -> SUBSET Contents]
        BY <1>0, <2>1, <2>3, <2>6
      <3>3. ViewOK(open', view')
        BY <1>1, <2>4, <3>1, SeenIsTyped
      <3> QED BY <1>0, <2>2, <2>3, <2>4, <2>6, <3>1, <3>2, <3>3, TypedAgain DEF answers, Asks
    <2> QED BY <1>8, <2>5, <2>6 DEF Convert, kept
  <1>9. CASE Drop
    <2>1. /\ files' = files \cup {open.session} /\ dropped' = dropped + 1 /\ dropped < MaxFiles
          /\ UNCHANGED <<rows, queue, editing, answers, held, quit, left, failed>>
      BY <1>9 DEF Drop
    <2>2. open.session \in Sessions
      BY <1>0, <1>1, <1>9, OpenFields DEF Drop, CanType, OpenOK
    <2>3. files' \subseteq Sessions /\ dropped' \in 0 .. MaxFiles
      BY <1>0, <2>1, <2>2, BoundsAssumption
    <2> QED BY <1>0, <2>1, <2>3, TypedAgain DEF editing, answers
  <1>10. CASE Quit
    BY <1>0, <1>10, TypedAgain DEF Quit, editing, answers
  <1>11. CASE ShowArea
    <2>1. /\ open # None /\ open' = [open EXCEPT !.behind = ~@] /\ view' = Seen(open', view)
          /\ UNCHANGED <<rows, queue, sessions, creating, answers, held, files, dropped, quit, left,
                         failed>>
      BY <1>11 DEF ShowArea
    <2>2. OpenOK(open')
      BY <1>0, <2>1, ShownFields
    <2>3. ViewOK(open', view')
      BY <1>1, <2>1, <2>2, SeenIsTyped
    <2> QED BY <1>0, <2>1, <2>2, <2>3, TypedAgain DEF answers
  <1> QED BY <1>2, <1>3, <1>4, <1>6, <1>7, <1>8, <1>9, <1>10, <1>11 DEF User

(* An answer to a read, come or refused.                                   *)
Answered(o, got) == [o EXCEPT !.reading = "answered", !.got = got]

(* An opening whose note was read again is otherwise what it was.           *)
LEMMA ReadFields ==
  ASSUME NEW o, OpenOK(o), o.id # 0, NEW got \in Note \cup {None}, NEW n,
         n = Answered(o, got)
  PROVE  /\ OpenOK(n) /\ n # None /\ n.session = o.session /\ n.id = o.id /\ n.draft = o.draft
         /\ n.read = o.read /\ n.got = got /\ n.reading = "answered"
         /\ n.fresh = o.fresh /\ n.current = o.current /\ NoteOf(n) = NoteOf(o)
  <1>1. n = [o EXCEPT !.reading = "answered", !.got = got]
    BY DEF Answered
  <1>2. /\ n \in Opened /\ n.session = o.session /\ n.id = o.id /\ n.draft = o.draft
        /\ n.read = o.read /\ n.got = got /\ n.reading = "answered"
        /\ n.fresh = o.fresh /\ n.current = o.current
    BY <1>1 DEF OpenOK, Opened
  <1> QED BY <1>2, Nones DEF OpenOK, NoteOf

(* A read job of the session of the editor is of its note.                 *)
ReadJobs ==
  \A i \in 1 .. Len(queue) :
    queue[i].op = "read" /\ open # None /\ queue[i].session = open.session
      => queue[i].id = open.id

(* What the db thread makes of the notes: one more, or one written; none   *)
(* is removed.                                                             *)
LEMMA RanRows ==
  ASSUME rows \in Seq(Row), NEW job \in Job, JobOK(job),
         Ran(job) \/ Refused(job)
  PROVE  /\ rows' \in Seq(Row) /\ Len(rows) \in Nat
         /\ \A id : RowOf(id) => RowOf(id)' /\ rows'[id].made = rows[id].made
         /\ \/ UNCHANGED rows /\ (Refused(job) \/ job.op \in {"read", "attach"})
            \/ /\ job.op = "create" /\ Ran(job)
               /\ Len(rows') = Len(rows) + 1 /\ \A id : RowOf(id) => rows'[id] = rows[id]
               /\ rows'[Len(rows) + 1] = [made |-> job.session, note |-> job.note]
            \/ /\ job.op = "write" /\ Ran(job) /\ RowOf(job.id) /\ Len(rows') = Len(rows)
               /\ \A id : RowOf(id) /\ id # job.id => rows'[id] = rows[id]
               /\ rows'[job.id].note.text = job.note.text
  <1>0. /\ Len(rows) \in Nat /\ job.op \in {"create", "write", "read", "attach"}
        /\ job.session \in Sessions /\ job.note \in Note /\ job.note.text \in Contents
        /\ job.op # "create" => RowOf(job.id)
    BY LenProperties DEF Job, JobOK, Note
  <1>1. CASE rows' = rows /\ (Refused(job) \/ job.op \in {"read", "attach"})
    BY <1>0, <1>1 DEF RowOf
  <1>2. CASE /\ job.op = "create" /\ Ran(job)
             /\ rows' = Append(rows, [made |-> job.session, note |-> job.note])
    <2>1. [made |-> job.session, note |-> job.note] \in Row
      BY <1>0 DEF Row
    <2> QED BY <1>0, <1>2, <2>1, AppendProperties DEF RowOf
  <1>3. CASE /\ job.op = "write" /\ Ran(job)
             /\ rows' = [rows EXCEPT ![job.id].note.text = job.note.text]
    <2>1. job.id \in 1 .. Len(rows) /\ rows[job.id] \in Row
      BY <1>0, <1>3, RowFields DEF RowOf
    <2> DEFINE row == [rows[job.id] EXCEPT !.note.text = job.note.text]
    <2>2. row \in Row /\ row.note.text = job.note.text /\ row.made = rows[job.id].made
      BY <1>0, <2>1 DEF Row, Note
    <2>3. rows' = [rows EXCEPT ![job.id] = row]
      BY <1>3
    <2> HIDE DEF row
    <2>4. rows' \in Seq(Row) /\ Len(rows') = Len(rows)
      BY <2>1, <2>2, <2>3, ExceptSeq
    <2>5. rows'[job.id] = row /\ \A id \in 1 .. Len(rows) : id # job.id => rows'[id] = rows[id]
      BY <2>1, <2>3
    <2> QED BY <1>0, <1>3, <2>1, <2>2, <2>4, <2>5 DEF RowOf
  <1> QED BY <1>0, <1>1, <1>2, <1>3 DEF Ran, Refused

(* What it makes of the editor: an answer to the read of its note, ...     *)
LEMMA RanOpen ==
  ASSUME EditorTyped, ReadJobs, queue # <<>>, NEW job, job = Head(queue),
         Ran(job) \/ Refused(job)
  PROVE  \/ open' = open
         \/ /\ job.op = "read" /\ open # None /\ job.session = open.session
            /\ job.id = open.id /\ open.id # 0 /\ rows' = rows
            /\ \E got \in Note \cup {None} :
                 /\ open' = Answered(open, got)
                 /\ failed' \/ got = rows[open.id].note
  <1>0. /\ job \in Job /\ JobOK(job) /\ job = queue[1] /\ 1 \in 1 .. Len(queue)
        /\ rows \in Seq(Row) /\ (open # None => OpenOK(open))
    BY First DEF EditorTyped
  <1>1. job.op \in {"create", "write", "read", "attach"}
    BY <1>0 DEF Job
  <1>2. CASE job.op = "read"
    <2>1. RowOf(job.id) /\ rows[job.id].note \in Note /\ job.id # 0
      BY <1>0, <1>2, RowFields DEF JobOK
    <2>2. open # None /\ job.session = open.session => job.id = open.id
      BY <1>0, <1>2 DEF ReadJobs
    <2>3. CASE Ran(job)
      <3>1. /\ open' = IF open # None /\ open.session = job.session
                       THEN Answered(open, rows[job.id].note)
                       ELSE open
            /\ rows' = rows
        BY <1>2, <2>3 DEF Ran, Answered
      <3> QED BY <1>2, <2>1, <2>2, <3>1
    <2>4. CASE Refused(job)
      <3>1. /\ open' = IF open # None /\ open.session = job.session
                       THEN Answered(open, None) ELSE open
            /\ rows' = rows /\ failed'
        BY <1>2, <2>4 DEF Refused, Answered
      <3> QED BY <1>2, <2>1, <2>2, <3>1
    <2> QED BY <2>3, <2>4
  <1>3. CASE job.op = "create" \/ job.op = "write" \/ job.op = "attach"
    BY <1>3 DEF Ran, Refused
  <1> QED BY <1>1, <1>2, <1>3

(* ... and of the answers: to a creation, and to a write.                  *)
LEMMA RanAnswers ==
  ASSUME NEW job \in Job, Ran(job) \/ Refused(job)
  PROVE  /\ job.op # "create" => created' = created
         /\ job.op = "create" => wrote' = wrote
         /\ job.op = "create" =>
              \/ /\ rows' = rows /\ failed' = TRUE
                 /\ created' =
                      created \cup {[session |-> job.session, id |-> 0, text |-> job.note.text]}
              \/ /\ rows' = Append(rows, [made |-> job.session, note |-> job.note])
                 /\ created' = created \cup
                      {[session |-> job.session, id |-> Len(rows) + 1, text |-> job.note.text]}
         /\ wrote' = wrote \/ wrote' = wrote + 1
         /\ rows' # rows /\ job.op = "write" => wrote' = wrote + 1
  <1>1. job.op \in {"create", "write", "read", "attach"}
    BY DEF Job
  <1>2. CASE Ran(job)
    BY <1>1, <1>2 DEF Ran, answers
  <1>3. CASE Refused(job)
    BY <1>1, <1>3 DEF Refused
  <1> QED BY <1>2, <1>3

(* What the db thread runs keeps the types.                                *)
LEMMA RunIsTyped ==
  ASSUME EditorTyped, ReadJobs, RunJob
  PROVE  EditorTyped'
  <1>0. /\ rows \in Seq(Row) /\ QueueOK(queue) /\ (open # None => OpenOK(open))
        /\ sessions \in 0 .. MaxSessions /\ creating \subseteq Creations
        /\ created \subseteq CreatedAnswers
        /\ \A a \in created : a.id = 0 \/ (RowOf(a.id) /\ rows[a.id].made = a.session)
        /\ wrote \in Nat /\ held \subseteq Bodies /\ \A h \in held : RowOf(h.id)
        /\ ViewOK(open, view) /\ files \subseteq Sessions /\ dropped \in 0 .. MaxFiles
        /\ quit \in {"no", "asked", "gone"}
        /\ left \in [Sessions -> SUBSET Contents] /\ failed \in BOOLEAN
    BY DEF EditorTyped
  <1> DEFINE job == Head(queue)
  <1>1. /\ queue' = Tail(queue) /\ queue # <<>>
        /\ UNCHANGED <<sessions, creating, view, held, files, dropped, quit, left>>
        /\ Ran(job) \/ Refused(job)
    BY DEF RunJob
  <1>2. failed' \in BOOLEAN
    BY <1>0 DEF RunJob, Refused
  <1>3. /\ job \in Job /\ JobOK(job)
        /\ Tail(queue) \in Seq(Job) /\ \A i \in 1 .. Len(Tail(queue)) : JobOK(Tail(queue)[i])
    BY <1>0, <1>1, First DEF QueueOK
  <1>4. /\ rows' \in Seq(Row) /\ Len(rows) \in Nat
        /\ \A id : RowOf(id) => RowOf(id)' /\ rows'[id].made = rows[id].made
    BY <1>0, <1>1, <1>3, RanRows
  <1>5. QueueOK(queue)'
    BY <1>1, <1>3, <1>4 DEF QueueOK, JobOK
  <1>6. /\ open' # None <=> open # None
        /\ open' # None => OpenOK(open') /\ open'.session = open.session
    <2>1. CASE open' = open
      BY <1>0, <2>1
    <2>2. ASSUME open # None, open.id # 0, NEW got \in Note \cup {None},
                 open' = Answered(open, got)
          PROVE  open' # None /\ OpenOK(open') /\ open'.session = open.session
      BY <1>0, <2>2, ReadFields
    <2> QED BY <1>1, <2>1, <2>2, RanOpen
  <1>7. (open' # None => OpenOK(open)') /\ ViewOK(open, view)'
    <2>1. open' # None => OpenOK(open)'
      BY <1>4, <1>6 DEF OpenOK
    <2>2. ViewOK(open, view)'
      BY <1>0, <1>1, <1>6 DEF ViewOK
    <2> QED BY <2>1, <2>2
  <1>8. /\ created' \subseteq CreatedAnswers /\ wrote' \in Nat
        /\ \A a \in created' : a.id = 0 \/ (RowOf(a.id)' /\ rows'[a.id].made = a.session)
    <2> HIDE DEF job
    <2>1. /\ job.op # "create" => created' = created
          /\ job.op = "create" =>
               \/ created' =
                    created \cup {[session |-> job.session, id |-> 0, text |-> job.note.text]}
               \/ /\ rows' = Append(rows, [made |-> job.session, note |-> job.note])
                  /\ created' = created \cup
                       {[session |-> job.session, id |-> Len(rows) + 1, text |-> job.note.text]}
          /\ wrote' = wrote \/ wrote' = wrote + 1
      BY <1>1, <1>3, RanAnswers
    <2> DEFINE Good == /\ created' \subseteq CreatedAnswers
                       /\ \A a \in created' :
                            a.id = 0 \/ (RowOf(a.id)' /\ rows'[a.id].made = a.session)
    <2>2. ASSUME created' = created PROVE Good
      BY <1>0, <1>4, <2>2
    <2>3. ASSUME NEW id \in Nat,
                 id = 0 \/ (id \in 1 .. Len(rows') /\ rows'[id].made = job.session),
                 created' =
                   created \cup {[session |-> job.session, id |-> id, text |-> job.note.text]}
          PROVE  Good
      <3>1. job.session \in Sessions /\ job.note.text \in Contents
        BY <1>3 DEF Job, Note
      <3> QED BY <1>0, <1>4, <2>3, <3>1 DEF CreatedAnswers, RowOf
    <2>4. ASSUME rows' = Append(rows, [made |-> job.session, note |-> job.note])
          PROVE  Len(rows) + 1 \in 1 .. Len(rows') /\ rows'[Len(rows) + 1].made = job.session
      <3>1. [made |-> job.session, note |-> job.note] \in Row
        BY <1>3 DEF Job, Row
      <3>2. /\ Len(rows') = Len(rows) + 1
            /\ rows'[Len(rows) + 1] = [made |-> job.session, note |-> job.note]
        BY <1>0, <2>4, <3>1, AppendProperties
      <3> QED BY <1>4, <3>2
    <2>5. wrote' \in Nat
      BY <1>0, <2>1
    <2>6. Good
      <3>1. 0 \in Nat /\ Len(rows) + 1 \in Nat
        BY <1>4
      <3> HIDE DEF Good
      <3> QED BY <2>1, <2>2, <2>3, <2>4, <3>1
    <2> QED BY <2>5, <2>6
  <1>9. \A h \in held' : RowOf(h.id)'
    BY <1>0, <1>1, <1>4
  <1> QED BY <1>0, <1>1, <1>2, <1>4, <1>5, <1>6, <1>7, <1>8, <1>9 DEF EditorTyped

(* An answer taken, ...                                                    *)
LEMMA ReadTaken ==
  ASSUME NEW e, OpenOK(e), e.reading = "answered", NEW o,
         o = [e EXCEPT !.reading = "no", !.current = FALSE, !.got = None]
  PROVE  /\ e.id # 0 /\ RowOf(e.id)
         /\ OpenOK(o) /\ o # None /\ o.session = e.session /\ o.id = e.id /\ o.reading = "no"
         /\ ~o.current /\ o.fresh = e.fresh /\ o.read = e.read /\ o.draft = e.draft
  <1>1. e.id # 0 /\ RowOf(e.id) /\ e \in Opened
    BY DEF OpenOK
  <1>2. /\ o \in Opened /\ o.session = e.session /\ o.id = e.id /\ o.reading = "no"
        /\ ~o.current /\ o.fresh = e.fresh /\ o.read = e.read /\ o.draft = e.draft
    BY <1>1 DEF Opened
  <1> QED BY <1>1, <1>2, Nones DEF OpenOK

(* ... and adopted: the note read again, what was shown kept, or no note   *)
(* to show.                                                                *)
LEMMA ReadAdopted ==
  ASSUME NEW o, OpenOK(o), o.id # 0, NEW got \in Note \cup {None}, NEW n, n = Adopted(o, got)
  PROVE  \/ n = None /\ got = None
         \/ /\ OpenOK(n) /\ n # None /\ n.session = o.session /\ n.id = o.id
            /\ n.reading = o.reading /\ n.current = o.current /\ n.fresh
            /\ \/ got # None /\ n.read = got /\ n.draft = None
               \/ got = None /\ n.read = o.read /\ n.draft = o.draft
  <1>0. o \in Opened /\ RowOf(o.id)
    BY DEF OpenOK
  <1>1. CASE got # None
    <2>1. n = [o EXCEPT !.read = got, !.draft = None, !.fresh = TRUE]
      BY <1>1 DEF Adopted
    <2>2. /\ n \in Opened /\ n.session = o.session /\ n.id = o.id
          /\ n.reading = o.reading /\ n.current = o.current /\ n.fresh
          /\ n.read = got /\ n.draft = None
      BY <1>0, <2>1 DEF Opened
    <2> QED BY <1>0, <1>1, <2>2, Nones DEF OpenOK
  <1>2. CASE got = None /\ NoteOf(o) # None
    <2>1. n = [o EXCEPT !.fresh = TRUE]
      BY <1>2 DEF Adopted
    <2>2. /\ n \in Opened /\ n.session = o.session /\ n.id = o.id
          /\ n.reading = o.reading /\ n.current = o.current /\ n.fresh
          /\ n.read = o.read /\ n.draft = o.draft
      BY <1>0, <2>1 DEF Opened
    <2> QED BY <1>0, <1>2, <2>2, Nones DEF OpenOK
  <1>3. CASE got = None /\ NoteOf(o) = None
    BY <1>3 DEF Adopted
  <1> QED BY <1>1, <1>2, <1>3

(* What an answer to a creation asks for: the write of what waited, which  *)
(* is not what was written.                                                *)
LEMMA AdoptAsks ==
  ASSUME EditorTyped, NEW a \in created, AdoptCreated(a)
  PROVE  \/ /\ queue' = queue
            /\ a.id # 0 => \A c \in creating :
                 c.session = a.session => c.waiting \in {Nothing, a.text}
         \/ /\ a.id # 0 /\ RowOf(a.id) /\ rows[a.id].made = a.session
            /\ \E c \in creating :
                 /\ c.session = a.session /\ c.waiting \in Contents /\ c.waiting # a.text
                 /\ c.waiting # Nothing
                 /\ queue' = Append(queue, WriteJob(a.id, c.waiting))
  <1> DEFINE waiting ==
        {c.waiting : c \in {x \in creating : x.session = a.session}} \ {Nothing, a.text}
  <1>1. queue' = IF a.id = 0 \/ waiting = {} THEN queue
                 ELSE Append(queue, WriteJob(a.id, CHOOSE t \in waiting : TRUE))
    BY DEF AdoptCreated, Write
  <1>2. a.id = 0 \/ (RowOf(a.id) /\ rows[a.id].made = a.session)
    BY DEF EditorTyped
  <1>3. waiting # {} => (CHOOSE t \in waiting : TRUE) \in waiting
    OBVIOUS
  <1>4. \A t \in waiting : \E c \in creating :
          c.session = a.session /\ c.waiting = t /\ t \in Contents /\ t # a.text /\ t # Nothing
    BY DEF EditorTyped, Creations
  <1>5. waiting = {} =>
          \A c \in creating : c.session = a.session => c.waiting \in {Nothing, a.text}
    OBVIOUS
  <1> HIDE DEF waiting
  <1> QED BY <1>1, <1>2, <1>3, <1>4, <1>5

(* What it does to the editor: it has its note.                            *)
LEMMA AdoptOpens ==
  ASSUME EditorTyped, NEW a \in created, AdoptCreated(a)
  PROVE  /\ open' # None <=> open # None
         /\ open' # None =>
              /\ OpenOK(open') /\ open'.session = open.session
              /\ ~(a.id # 0 /\ open.session = a.session) => open'.id = open.id
              /\ open'.draft = open.draft /\ open'.read = open.read
              /\ open'.reading = open.reading
              /\ a.id = 0 => open' = open
              /\ a.id # 0 => ~open'.fresh /\ ~open'.current
              /\ a.id # 0 /\ open.session = a.session => open'.id = a.id
  <1>0. (open # None => OpenOK(open)) /\ (a.id = 0 \/ RowOf(a.id)) /\ rows \in Seq(Row)
    BY DEF EditorTyped
  <1>1. CASE a.id = 0 \/ open = None
    BY <1>0, <1>1 DEF AdoptCreated, Bumped
  <1>2. CASE a.id # 0 /\ open # None /\ open.session # a.session
    BY <1>0, <1>2, BumpedFields DEF AdoptCreated
  <1>3. CASE a.id # 0 /\ open # None /\ open.session = a.session
    <2> DEFINE b == Bumped(open)
    <2>1. open' = [b EXCEPT !.id = a.id]
      BY <1>3 DEF AdoptCreated
    <2>2. /\ OpenOK(b) /\ b # None /\ b.session = open.session
          /\ b.draft = open.draft /\ b.read = open.read
          /\ b.reading = open.reading /\ ~b.fresh /\ ~b.current
      BY <1>0, <1>3, BumpedFields
    <2> HIDE DEF b
    <2>3. a.id \in Nat /\ b \in Opened
      BY <1>0, <1>3, <2>2, RowFields DEF OpenOK
    <2>4. /\ open' \in Opened /\ open'.session = b.session /\ open'.id = a.id
          /\ open'.draft = b.draft /\ open'.read = b.read
          /\ open'.reading = b.reading /\ ~open'.fresh /\ ~open'.current
      BY <2>1, <2>2, <2>3 DEF Opened
    <2> QED BY <1>0, <1>3, <2>2, <2>4, Nones DEF OpenOK
  <1> QED BY <1>1, <1>2, <1>3

(* What a frame does keeps the types.                                      *)
LEMMA FrameIsTyped ==
  ASSUME EditorTyped, Frame
  PROVE  EditorTyped'
  <1>0. /\ rows \in Seq(Row) /\ QueueOK(queue) /\ queue \in Seq(Job)
        /\ (open # None => OpenOK(open))
        /\ sessions \in 0 .. MaxSessions /\ creating \subseteq Creations
        /\ created \subseteq CreatedAnswers
        /\ \A a \in created : a.id = 0 \/ (RowOf(a.id) /\ rows[a.id].made = a.session)
        /\ wrote \in Nat /\ held \subseteq Bodies /\ \A h \in held : RowOf(h.id)
        /\ ViewOK(open, view) /\ files \subseteq Sessions /\ dropped \in 0 .. MaxFiles
        /\ quit \in {"no", "asked", "gone"}
        /\ left \in [Sessions -> SUBSET Contents] /\ failed \in BOOLEAN
    BY DEF EditorTyped, QueueOK
  <1>1. ASSUME NEW a \in created, AdoptCreated(a)
        PROVE  EditorTyped'
    <2>1. /\ created' \subseteq created /\ creating' \subseteq creating
          /\ UNCHANGED <<rows, sessions, view, wrote, held, files, dropped, quit, left, failed>>
      BY <1>1 DEF AdoptCreated
    <2>2. QueueOK(queue')
      <3>1. \A id, t : RowOf(id) /\ t \in Contents => QueueOK(Append(queue, WriteJob(id, t)))
        BY <1>0, Jobs, Sent
      <3>2. \A c \in creating : c.waiting # Nothing => c.waiting \in Contents
        BY <1>0 DEF Creations
      <3>3. \/ queue' = queue
            \/ RowOf(a.id) /\ \E c \in creating : /\ c.waiting # Nothing
                                                /\ queue' = Append(queue, WriteJob(a.id, c.waiting))
        BY <1>1, AdoptAsks
      <3> QED BY <1>0, <3>1, <3>2, <3>3
    <2>3. (open' # None => OpenOK(open')) /\ ViewOK(open', view')
      BY <1>0, <1>1, <2>1, AdoptOpens DEF ViewOK
    <2> QED BY <1>0, <2>1, <2>2, <2>3, TypedAgain
  <1>2. CASE AdoptWrote
    <2>1. /\ wrote' \in Nat /\ open' = Bumped(open)
          /\ UNCHANGED <<rows, queue, sessions, creating, view, created, held, files, dropped,
                         quit, left, failed>>
      BY <1>0, <1>2 DEF AdoptWrote
    <2>2. (open' # None => OpenOK(open')) /\ ViewOK(open', view')
      BY <1>0, <2>1, BumpedFields
    <2> QED BY <1>0, <2>1, <2>2, TypedAgain
  <1>3. CASE Ask
    <2>1. /\ queue' = Append(queue, ReadJob(open)) /\ open # None /\ open.id # 0
          /\ open' = [open EXCEPT !.reading = "asked", !.current = TRUE]
          /\ UNCHANGED <<rows, sessions, creating, view, answers, held, files, dropped, quit, left,
                         failed>>
      BY <1>3 DEF Ask, Due
    <2>2. RowOf(open.id) /\ open \in Opened
      BY <1>0, <2>1 DEF OpenOK
    <2>3. QueueOK(queue')
      BY <1>0, <2>1, <2>2, Jobs, Sent
    <2>4. /\ open' \in Opened /\ open'.id = open.id /\ open'.session = open.session
      BY <2>1, <2>2 DEF Opened
    <2>5. OpenOK(open') /\ ViewOK(open', view')
      BY <1>0, <2>1, <2>2, <2>4, Nones DEF OpenOK, ViewOK
    <2> QED BY <1>0, <2>1, <2>3, <2>5, TypedAgain DEF answers
  <1>4. CASE AdoptRead
    <2> DEFINE o == [open EXCEPT !.reading = "no", !.current = FALSE, !.got = None]
    <2>1. /\ open # None /\ open.reading = "answered"
          /\ open' = o \/ open' = Adopted(o, open.got)
          /\ view' = Seen(open', view)
          /\ UNCHANGED <<rows, queue, sessions, creating, answers, held, files, dropped, quit, left,
                         failed>>
      BY <1>4 DEF AdoptRead
    <2>5. o = [open EXCEPT !.reading = "no", !.current = FALSE, !.got = None]
      OBVIOUS
    <2> HIDE DEF o
    <2>2. OpenOK(o) /\ o.id # 0 /\ open.got \in Note \cup {None}
      <3>1. OpenOK(open) /\ open.reading = "answered" /\ open \in Opened
        BY <1>0, <2>1 DEF OpenOK
      <3>2. OpenOK(o) /\ o.id = open.id /\ open.id # 0
        BY <2>5, <3>1, ReadTaken, Zenon
      <3>3. open.got \in Note \cup {None}
        BY <3>1, OpenFields
      <3> QED BY <3>2, <3>3
    <2>3. open' # None => OpenOK(open')
      BY <2>1, <2>2, ReadAdopted
    <2>4. ViewOK(open', view')
      BY <1>0, <2>1, <2>3, SeenIsTyped DEF ViewOK
    <2> QED BY <1>0, <2>1, <2>3, <2>4, TypedAgain DEF answers
  <1>5. CASE WriteDraft
    <2>1. /\ open # None /\ open.id = 0
          /\ creating' = creating \cup {[session |-> open.session, waiting |-> Nothing]}
          /\ queue' = Append(queue, CreateJob(open.session, open.draft))
          /\ UNCHANGED <<rows, open, sessions, view, answers, held, files, dropped, quit, left,
                         failed>>
      BY <1>5 DEF WriteDraft, Asks, Created
    <2>2. open.session \in Sessions /\ open.draft \in Note
      BY <1>0, <2>1, OpenFields DEF OpenOK
    <2>3. QueueOK(queue')
      BY <1>0, <2>1, <2>2, Jobs, Sent
    <2>4. creating' \subseteq Creations
      BY <1>0, <2>1, <2>2 DEF Creations
    <2> QED BY <1>0, <2>1, <2>3, <2>4, TypedAgain DEF answers
  <1>6. CASE Exit
    BY <1>0, <1>6, TypedAgain DEF Exit, editing, answers
  <1>7. ASSUME NEW s \in files, Attach(s)
        PROVE  EditorTyped'
    <2>1. /\ queue' = Append(queue, AttachJob(open.id)) /\ open # None /\ open.id # 0
          /\ files' \subseteq files
          /\ UNCHANGED <<rows, editing, answers, held, dropped, quit, left, failed>>
      BY <1>7 DEF Attach
    <2>2. RowOf(open.id)
      BY <1>0, <2>1 DEF OpenOK
    <2>3. QueueOK(queue')
      BY <1>0, <2>1, <2>2, Jobs, Sent
    <2> QED BY <1>0, <2>1, <2>3, TypedAgain DEF answers, editing
  <1>8. ASSUME NEW h \in held, AdoptFormatted(h)
        PROVE  EditorTyped'
    <2>1. PICK t \in {h.text, PrettyOf(h.text)} :
            /\ IF open # None /\ open.session = h.session
               THEN Asks(Saved(open, t).asked) /\ open' = Saved(open, t).open
               ELSE queue' = Write(h.id, t) /\ UNCHANGED <<creating, open>>
            /\ view' = IF view # None /\ view.session = h.session /\ t # h.text
                       THEN [view EXCEPT !.text = t] ELSE view
      BY <1>8 DEF AdoptFormatted
    <2>2. /\ held' \subseteq held
          /\ UNCHANGED <<rows, sessions, answers, files, dropped, quit, left, failed>>
      BY <1>8 DEF AdoptFormatted
    <2>3. t \in Contents
      BY <1>0, <2>1, TextsAssumption DEF Bodies, PrettyOf
    <2>4. /\ QueueOK(queue') /\ creating' \subseteq Creations
          /\ open' # None <=> open # None
          /\ open' # None => OpenOK(open') /\ open'.session = open.session
      <3>1. CASE open # None /\ open.session = h.session
        <4> DEFINE k == Saved(open, t)
        <4>1. /\ QueueOK(k.asked.queue) /\ k.asked.creating \subseteq Creations
              /\ OpenOK(k.open) /\ k.open.session = open.session /\ k.open # None
          BY <1>0, <2>3, <3>1, SavedIsTyped
        <4>2. Asks(k.asked) /\ open' = k.open
          BY <2>1, <3>1
        <4> HIDE DEF k
        <4> QED BY <3>1, <4>1, <4>2 DEF Asks
      <3>2. CASE ~(open # None /\ open.session = h.session)
        <4>1. queue' = Append(queue, WriteJob(h.id, t)) /\ UNCHANGED <<creating, open>>
          BY <2>1, <3>2 DEF Write
        <4>2. QueueOK(Append(queue, WriteJob(h.id, t)))
          BY <1>0, <2>3, Jobs, Sent
        <4> QED BY <1>0, <4>1, <4>2
      <3> QED BY <3>1, <3>2
    <2>5. ViewOK(open', view')
      <3>1. view' \in Fields \cup {None} /\ (view' # None => view # None)
            /\ (view' # None => view'.session = view.session)
        BY <1>0, <2>1, <2>3, Nones DEF ViewOK, Fields
      <3> QED BY <1>0, <2>4, <3>1 DEF ViewOK
    <2> QED BY <1>0, <2>2, <2>4, <2>5, TypedAgain DEF answers
  <1> QED BY <1>1, <1>2, <1>3, <1>4, <1>5, <1>6, <1>7, <1>8 DEF Frame

-----------------------------------------------------------------------------
(* What a step asks for, and what it makes of the editor.                  *)

(* Of the db thread, by an editor: nothing, more to write behind the       *)
(* creation of its note, that creation, or a write.                        *)
AskedBy(o, q, c) ==
  \/ q = queue /\ c = creating
  \/ /\ Creating(o.session) /\ q = queue
     /\ \E t \in Contents : c = Waiting(o.session, t)
  \/ /\ ~Creating(o.session) /\ o.id = 0
     /\ \E note \in Note : q = Append(queue, CreateJob(o.session, note))
     /\ c = creating \cup {[session |-> o.session, waiting |-> Nothing]}
  \/ /\ c = creating
     /\ \E id, t : RowOf(id) /\ t \in Contents /\ q = Append(queue, WriteJob(id, t))

(* The same opening, of the same note, with what was read of it.           *)
SameEditor(o, n) ==
  /\ OpenOK(n) /\ n # None /\ n.session = o.session /\ n.id = o.id
  /\ (n.fresh <=> o.fresh) /\ n.read = o.read
  /\ n.reading = o.reading /\ (n.current <=> o.current) /\ n.got = o.got

(* A save writes for the opening it was asked of, or waits for its draft.   *)
LEMMA SavedAsks ==
  ASSUME EditorTyped, NEW o, OpenOK(o), NEW t \in Contents, NEW k, k = Saved(o, t)
  PROVE  AskedBy(o, k.asked.queue, k.asked.creating) /\ SameEditor(o, k.open)
  <1> DEFINE note == [o.draft EXCEPT !.text = t]
  <1> DEFINE j == Saved(o, t)
  <1>0. \/ /\ Creating(o.session)
           /\ j.asked.creating = Waiting(o.session, t) /\ j.asked.queue = queue /\ j.open = o
        \/ /\ ~Creating(o.session) /\ o.id = 0 /\ j.open = [o EXCEPT !.draft = note]
           /\ note \in Note /\ note.text = t
           /\ \/ /\ WorthKeeping(note)
                 /\ j.asked.creating = creating \cup {[session |-> o.session, waiting |-> Nothing]}
                 /\ j.asked.queue = Append(queue, CreateJob(o.session, note))
              \/ ~WorthKeeping(note) /\ j.asked.creating = creating /\ j.asked.queue = queue
        \/ /\ ~Creating(o.session) /\ RowOf(o.id) /\ j.open = o /\ j.asked.creating = creating
           /\ j.asked.queue = IF t = NoteOf(o).text THEN queue
                              ELSE Append(queue, WriteJob(o.id, t))
    BY SavedIs
  <1>9. k = j
    OBVIOUS
  <1> HIDE DEF j
  <1>1. \/ /\ Creating(o.session)
           /\ k.asked.creating = Waiting(o.session, t) /\ k.asked.queue = queue /\ k.open = o
        \/ /\ ~Creating(o.session) /\ o.id = 0 /\ k.open = [o EXCEPT !.draft = note]
           /\ note \in Note /\ note.text = t
           /\ \/ /\ WorthKeeping(note)
                 /\ k.asked.creating = creating \cup {[session |-> o.session, waiting |-> Nothing]}
                 /\ k.asked.queue = Append(queue, CreateJob(o.session, note))
              \/ ~WorthKeeping(note) /\ k.asked.creating = creating /\ k.asked.queue = queue
        \/ /\ ~Creating(o.session) /\ RowOf(o.id) /\ k.open = o /\ k.asked.creating = creating
           /\ k.asked.queue = IF t = NoteOf(o).text THEN queue
                              ELSE Append(queue, WriteJob(o.id, t))
    BY <1>0, <1>9
  <1> HIDE DEF note
  <1>2. AskedBy(o, k.asked.queue, k.asked.creating)
    BY <1>1 DEF AskedBy
  <1>3. OpenOK(o) /\ o # None
    BY Nones DEF OpenOK
  <1>4. CASE k.open = o
    BY <1>2, <1>3, <1>4 DEF SameEditor
  <1>5. CASE o.id = 0 /\ k.open = [o EXCEPT !.draft = note] /\ note \in Note
    <2>1. /\ OpenOK(k.open) /\ k.open.session = o.session /\ k.open.id = o.id
          /\ k.open.read = o.read /\ k.open.reading = o.reading /\ k.open.got = o.got
      BY <1>5, DraftFields
    <2>2. k.open # None /\ (k.open.fresh <=> o.fresh) /\ (k.open.current <=> o.current)
      BY <1>5, <2>1, Nones DEF OpenOK, Opened
    <2> QED BY <1>2, <2>1, <2>2 DEF SameEditor
  <1> QED BY <1>1, <1>4, <1>5

(* A user changes neither the notes nor the answers, and asks through the  *)
(* editor open; opens a note; starts one; or converts the draft open.      *)
LEMMA UserDoes ==
  ASSUME EditorTyped, User
  PROVE  /\ UNCHANGED <<rows, created, wrote, failed>>
         /\ \/ UNCHANGED <<queue, creating, open, sessions, held>>
            \/ /\ open # None /\ AskedBy(open, queue', creating') /\ sessions' = sessions
               /\ open' = None \/ SameEditor(open, open')
               /\ \A h \in held' : h \in held \/ (h.session = open.session /\ h.id = open.id)
            \/ /\ open # None /\ open.id = 0 /\ AskedBy(open, queue', creating')
               /\ sessions < MaxSessions /\ sessions' = sessions + 1 /\ open' # None
               /\ open'.session = <<open.session[1], sessions + 1>> /\ open'.id = 0
               /\ held' = held
            \/ /\ sessions < MaxSessions /\ sessions' = sessions + 1 /\ open' # None
               /\ open'.session = NewSession /\ open'.id = 0 /\ held' = held
               /\ AskedBy(open', queue', creating')
            \/ /\ sessions < MaxSessions /\ sessions' = sessions + 1 /\ open' # None
               /\ open'.session = NewSession /\ RowOf(open'.id) /\ held' = held
               /\ ~open'.fresh /\ open'.reading = "no"
               /\ UNCHANGED <<queue, creating>>
  <1>0. /\ rows \in Seq(Row) /\ (open # None => OpenOK(open)) /\ ViewOK(open, view)
    BY DEF EditorTyped
  <1>1. view # None => open # None /\ view.text \in Contents
    BY <1>0, Nones DEF ViewOK, Fields
  <1>2. ASSUME NEW t \in Typed \cup {Blank}, NewNote(t)
        PROVE  /\ UNCHANGED <<rows, created, wrote, failed>>
               /\ sessions < MaxSessions /\ sessions' = sessions + 1 /\ open' # None
               /\ open'.session = NewSession /\ open'.id = 0 /\ held' = held
               /\ AskedBy(open', queue', creating')
    <2> DEFINE o == Opening(NewSession, 0, Untitled)
               kept == IF t = Blank THEN [asked |-> Unasked, open |-> o] ELSE Saved(o, t)
    <2>1. Untitled \in Note /\ t \in Contents
      BY TextsAssumption DEF Untitled, Note
    <2>2. sessions < MaxSessions
      BY <1>2 DEF NewNote
    <2>3. OpenOK(o) /\ o.session = NewSession /\ o.id = 0 /\ o # None
      BY <2>1, <2>2, NewEditor
    <2>4. /\ open' = kept.open /\ Asks(kept.asked) /\ sessions' = sessions + 1
          /\ UNCHANGED <<rows, answers, held, failed>>
      BY <1>2 DEF NewNote
    <2> HIDE DEF o
    <2>5. CASE t = Blank
      BY <2>2, <2>3, <2>4, <2>5 DEF Unasked, Asks, AskedBy, answers
    <2>6. CASE t # Blank
      <3> DEFINE k == Saved(o, t)
      <3>1. AskedBy(o, k.asked.queue, k.asked.creating) /\ SameEditor(o, k.open)
        BY <2>1, <2>3, SavedAsks
      <3>2. open' = k.open /\ queue' = k.asked.queue /\ creating' = k.asked.creating
        BY <2>4, <2>6 DEF Asks
      <3> HIDE DEF k
      <3>3. AskedBy(o, queue', creating') /\ SameEditor(o, open')
        BY <3>1, <3>2
      <3> QED BY <2>2, <2>3, <2>4, <3>3 DEF SameEditor, AskedBy, answers
    <2> QED BY <2>5, <2>6
  <1>3. ASSUME NEW id \in 1 .. Len(rows), OpenNote(id)
        PROVE  /\ UNCHANGED <<rows, created, wrote, failed>>
               /\ sessions < MaxSessions /\ sessions' = sessions + 1 /\ open' # None
               /\ open'.session = NewSession /\ RowOf(open'.id) /\ held' = held
               /\ ~open'.fresh /\ open'.reading = "no"
               /\ UNCHANGED <<queue, creating>>
    <2>1. sessions < MaxSessions /\ open' = Opening(NewSession, id, None) /\ RowOf(id)
      BY <1>3 DEF OpenNote, RowOf
    <2>2. /\ open' # None /\ open'.session = NewSession /\ open'.id = id
          /\ ~open'.fresh /\ open'.reading = "no"
      BY <2>1, NewEditor
    <2> QED BY <1>3, <2>1, <2>2 DEF OpenNote, answers
  <1> DEFINE AtHome ==
        /\ UNCHANGED <<rows, created, wrote, failed>>
        /\ open # None /\ AskedBy(open, queue', creating') /\ sessions' = sessions
        /\ open' = None \/ SameEditor(open, open')
        /\ \A h \in held' : h \in held \/ (h.session = open.session /\ h.id = open.id)
  <1>10. open # None => SameEditor(open, open) /\ AskedBy(open, queue, creating)
    BY <1>0 DEF SameEditor, AskedBy
  <1>4. ASSUME NEW t \in Typed, Type(t)
        PROVE  AtHome
    BY <1>1, <1>4, <1>10 DEF Type, CanType, answers
  <1>5. ASSUME NEW closes \in BOOLEAN, view # None, Leave(view.text, closes)
        PROVE  AtHome
    <2> DEFINE t == view.text
               kept == Saved(open, t)
    <2>1. OpenOK(open) /\ t \in Contents /\ open # None
      BY <1>0, <1>1, <1>5
    <2>2. AskedBy(open, kept.asked.queue, kept.asked.creating) /\ SameEditor(open, kept.open)
      BY <2>1, SavedAsks
    <2>3. /\ \/ /\ held' = held \cup {[session |-> open.session, id |-> open.id, text |-> t]}
                /\ UNCHANGED <<queue, creating>> /\ (open' = None \/ open' = open)
             \/ /\ queue' = kept.asked.queue /\ creating' = kept.asked.creating
                /\ held' = held /\ (open' = None \/ open' = kept.open)
          /\ UNCHANGED <<rows, sessions, created, wrote, failed>>
      BY <1>5 DEF Leave, HoldBack, Asks, answers
    <2> HIDE DEF kept
    <2>4. /\ AskedBy(open, queue', creating') /\ (open' = None \/ SameEditor(open, open'))
      BY <1>10, <2>1, <2>2, <2>3
    <2> QED BY <2>1, <2>3, <2>4
  <1>6. CASE Blur \/ Close
    BY <1>5, <1>6 DEF Blur, Close, CanType
  <1>7. ASSUME NEW marked \in BOOLEAN, Mark(marked)
        PROVE  AtHome
    <2> DEFINE note == [open.draft EXCEPT !.marked = marked]
    <2>1. open.id = 0 /\ OpenOK(open) /\ open # None
      BY <1>0, <1>1, <1>7 DEF Mark, CanType
    <2>2. note \in Note
      BY <2>1 DEF OpenOK, Note
    <2>3. /\ open' = [open EXCEPT !.draft = note] /\ Asks(DraftWritten(open, note))
          /\ UNCHANGED <<rows, sessions, created, wrote, held, failed>>
      BY <1>7 DEF Mark, DraftKept, answers
    <2> HIDE DEF note
    <2>4. /\ OpenOK(open') /\ open'.session = open.session /\ open'.id = open.id
          /\ open'.read = open.read /\ open'.reading = open.reading /\ open'.got = open.got
      BY <2>1, <2>2, <2>3, DraftFields
    <2>5. open' # None /\ (open'.fresh <=> open.fresh) /\ (open'.current <=> open.current)
      BY <2>1, <2>3, <2>4, Nones DEF OpenOK, Opened
    <2>6. AskedBy(open, queue', creating')
      BY <2>1, <2>2, <2>3 DEF AskedBy, Asks, DraftWritten, Created, Unasked
    <2> QED BY <2>1, <2>3, <2>4, <2>5, <2>6 DEF SameEditor
  <1>8. ASSUME Convert
        PROVE  \/ AtHome
               \/ /\ UNCHANGED <<rows, created, wrote, failed>>
                  /\ open # None /\ open.id = 0 /\ AskedBy(open, queue', creating')
                  /\ sessions < MaxSessions /\ sessions' = sessions + 1 /\ open' # None
                  /\ open'.session = <<open.session[1], sessions + 1>> /\ open'.id = 0
                  /\ held' = held
    <2> DEFINE kept == Saved(open, view.text)
    <2>1. /\ OpenOK(open) /\ view.text \in Contents /\ open # None /\ sessions < MaxSessions
          /\ open.id = 0
      BY <1>0, <1>1, <1>8 DEF Convert, CanType
    <2>2. AskedBy(open, kept.asked.queue, kept.asked.creating) /\ SameEditor(open, kept.open)
      BY <2>1, SavedAsks
    <2>3. /\ UNCHANGED <<rows, created, wrote, held, failed>>
          /\ queue' = kept.asked.queue /\ creating' = kept.asked.creating
          /\ \/ open' = kept.open /\ UNCHANGED sessions
             \/ /\ open' = [kept.open EXCEPT !.session = <<open.session[1], sessions + 1>>]
                /\ sessions' = sessions + 1
      BY <1>8 DEF Convert, Asks, answers
    <2> HIDE DEF kept
    <2>4. CASE open' = kept.open /\ UNCHANGED sessions
      BY <2>1, <2>2, <2>3, <2>4
    <2>5. CASE /\ open' = [kept.open EXCEPT !.session = <<open.session[1], sessions + 1>>]
               /\ sessions' = sessions + 1
      <3>1. /\ kept.open \in Opened /\ kept.open.id = 0
        BY <2>1, <2>2 DEF SameEditor, OpenOK
      <3> DEFINE again == <<open.session[1], sessions + 1>>
      <3>2. again \in Sessions
        BY <2>1, OpenFields, BoundsAssumption DEF EditorTyped, OpenOK, Sessions
      <3>3. open' \in Opened /\ open'.session = again /\ open'.id = 0
        <4> HIDE DEF again
        <4>1. open' = [kept.open EXCEPT !.session = again]
          BY <2>5 DEF again
        <4> QED BY <3>1, <3>2, <4>1 DEF Opened
      <3> QED BY <2>1, <2>2, <2>3, <2>5, <3>3, Nones
    <2> QED BY <2>3, <2>4, <2>5
  <1>9. CASE Drop \/ Quit
    BY <1>0, <1>1, <1>9, <1>10 DEF Drop, Quit, CanType, editing, answers
  <1>11. CASE ShowArea
    <2>1. /\ open # None /\ open' = [open EXCEPT !.behind = ~@]
          /\ UNCHANGED <<rows, queue, creating, created, wrote, sessions, held, failed>>
      BY <1>11 DEF ShowArea, answers
    <2>2. SameEditor(open, open')
      BY <1>0, <2>1, ShownFields DEF SameEditor
    <2> QED BY <1>10, <2>1, <2>2
  <1> HIDE DEF AtHome
  <1>12. CASE AtHome
    BY <1>12 DEF AtHome
  <1> QED BY <1>2, <1>3, <1>4, <1>6, <1>7, <1>8, <1>9, <1>11, <1>12 DEF User

-----------------------------------------------------------------------------
(* One creation per draft.                                                 *)

(* A session given; those in use were.                                     *)
Known(s) == s[2] <= sessions
KnownSessions ==
  /\ \A i \in 1 .. Len(rows) : Known(rows[i].made)
  /\ \A i \in 1 .. Len(queue) : Known(queue[i].session)
  /\ open # None => Known(open.session)
  /\ \A c \in creating : Known(c.session)
  /\ \A h \in held : Known(h.session)

Unborn(s) == \A i \in 1 .. Len(rows) : rows[i].made # s

(* A creation asked for is under way, the only one of its session, and has *)
(* made no note; nor has one answered with an error.                       *)
CreationsOnce ==
  /\ \A i, j \in 1 .. Len(queue) :
       queue[i].op = "create" /\ queue[j].op = "create" /\ queue[i].session = queue[j].session
         => i = j
  /\ \A i \in 1 .. Len(queue) : queue[i].op = "create" =>
       /\ Creating(queue[i].session) /\ Unborn(queue[i].session)
       /\ \A a \in created : a.session # queue[i].session
  /\ \A a \in created : Creating(a.session) /\ (a.id = 0 => Unborn(a.session))
  /\ \A a, b \in created : a.session = b.session => a = b

(* A draft that nothing creates has made no note; one that is created has  *)
(* no note in its editor.                                                  *)
DraftUnborn ==
  open # None =>
    /\ open.id = 0 /\ ~Creating(open.session) => Unborn(open.session)
    /\ Creating(open.session) => open.id = 0

OnceInv == EditorTyped /\ KnownSessions /\ ReadJobs /\ CreationsOnce /\ DraftUnborn /\ CreatedOnce

SessionsOf(c) == {x.session : x \in c}

(* No creation is asked for; or that of a session.                         *)
SameCreations(q, c) ==
  /\ \A i \in 1 .. Len(q) : q[i].op = "create" => i \in 1 .. Len(queue) /\ q[i] = queue[i]
  /\ \A s : s \in SessionsOf(c) <=> Creating(s)
OneMore(s, q, c) ==
  /\ ~Creating(s)
  /\ \A i \in 1 .. Len(q) :
       \/ i \in 1 .. Len(queue) /\ q[i] = queue[i]
       \/ i = Len(queue) + 1 /\ q[i].op = "create" /\ q[i].session = s
  /\ \A x : x \in SessionsOf(c) <=> Creating(x) \/ x = s

(* Those are what an editor asks for, and every job is of its session or   *)
(* of that of a note.                                                      *)
LEMMA AskedIs ==
  ASSUME EditorTyped, NEW o, o.session \in Sessions, NEW q, NEW c, AskedBy(o, q, c)
  PROVE  /\ SameCreations(q, c) \/ (o.id = 0 /\ OneMore(o.session, q, c))
         /\ \A i \in 1 .. Len(q) :
              \/ i \in 1 .. Len(queue) /\ q[i] = queue[i]
              \/ /\ q[i].op # "read"
                 /\ \/ q[i].session = o.session
                    \/ \E id : RowOf(id) /\ q[i].session = rows[id].made
  <1>0. queue \in Seq(Job) /\ rows \in Seq(Row) /\ creating \subseteq Creations
        /\ Len(queue) \in Nat
    BY LenProperties DEF EditorTyped, QueueOK
  <1>1. \A s : s \in SessionsOf(creating) <=> Creating(s)
    BY DEF SessionsOf, Creating
  <1>2. CASE q = queue /\ c = creating
    BY <1>1, <1>2 DEF SameCreations
  <1>3. ASSUME q = queue, NEW t \in Contents, c = Waiting(o.session, t)
        PROVE  SameCreations(q, c)
    <2>1. \A s : s \in SessionsOf(c) <=> s \in SessionsOf(creating)
      BY <1>0, <1>3, WaitingIs DEF SessionsOf
    <2> QED BY <1>1, <1>3, <2>1 DEF SameCreations
  <1>4. ASSUME ~Creating(o.session), o.id = 0, NEW note \in Note,
               q = Append(queue, CreateJob(o.session, note)),
               c = creating \cup {[session |-> o.session, waiting |-> Nothing]}
        PROVE  /\ OneMore(o.session, q, c)
               /\ \A i \in 1 .. Len(q) :
                    \/ i \in 1 .. Len(queue) /\ q[i] = queue[i]
                    \/ q[i].op # "read" /\ q[i].session = o.session
    <2> DEFINE job == CreateJob(o.session, note)
    <2>1. job \in Job /\ job.op = "create" /\ job.session = o.session
      BY Jobs
    <2>2. \A x : x \in SessionsOf(c) <=> x \in SessionsOf(creating) \/ x = o.session
      <3> DEFINE one == [session |-> o.session, waiting |-> Nothing]
      <3>1. one.session = o.session /\ c = creating \cup {one}
        BY <1>4
      <3> HIDE DEF one
      <3> QED BY <3>1 DEF SessionsOf
    <2> HIDE DEF job
    <2>3. /\ q[Len(queue) + 1] = job /\ \A i \in 1 .. Len(queue) : q[i] = queue[i]
          /\ \A i \in 1 .. Len(q) : i \in 1 .. Len(queue) \/ i = Len(queue) + 1
      <3>1. q = Append(queue, job)
        BY <1>4 DEF job
      <3> QED BY <1>0, <2>1, <3>1, Sent
    <2> QED BY <1>1, <1>4, <2>1, <2>2, <2>3 DEF OneMore
  <1>5. ASSUME c = creating, NEW id, NEW t \in Contents, RowOf(id),
               q = Append(queue, WriteJob(id, t))
        PROVE  /\ SameCreations(q, c)
               /\ \A i \in 1 .. Len(q) :
                    \/ i \in 1 .. Len(queue) /\ q[i] = queue[i]
                    \/ q[i].op # "read" /\ q[i].session = rows[id].made
    <2> DEFINE job == WriteJob(id, t)
    <2>1. job \in Job /\ job.op = "write" /\ job.session = rows[id].made
      BY <1>0, <1>5, Jobs
    <2> HIDE DEF job
    <2>3. /\ q[Len(queue) + 1] = job /\ \A i \in 1 .. Len(queue) : q[i] = queue[i]
          /\ \A i \in 1 .. Len(q) : i \in 1 .. Len(queue) \/ i = Len(queue) + 1
      <3>1. q = Append(queue, job)
        BY <1>5 DEF job
      <3> QED BY <1>0, <2>1, <3>1, Sent
    <2> QED BY <1>1, <1>5, <2>1, <2>3 DEF SameCreations
  <1>6. CASE \E t \in Contents : q = queue /\ c = Waiting(o.session, t)
    BY <1>3, <1>6
  <1> QED BY <1>2, <1>4, <1>5, <1>6 DEF AskedBy

(* What keeps the creations keeps them once, ...                           *)
LEMMA SameIsOnce ==
  ASSUME CreationsOnce, SameCreations(queue', creating'), UNCHANGED <<rows, created>>
  PROVE  CreationsOnce' /\ \A s : Creating(s)' <=> Creating(s)
  <1>1. \A s : Creating(s)' <=> Creating(s)
    BY DEF SameCreations, SessionsOf, Creating
  <1>2. \A s : Unborn(s)' <=> Unborn(s)
    BY DEF Unborn
  <1>3. /\ \A i, j \in 1 .. Len(queue') :
             queue'[i].op = "create" /\ queue'[j].op = "create"
               /\ queue'[i].session = queue'[j].session => i = j
        /\ \A i \in 1 .. Len(queue') : queue'[i].op = "create" =>
             /\ Creating(queue'[i].session) /\ Unborn(queue'[i].session)
             /\ \A a \in created : a.session # queue'[i].session
    BY DEF CreationsOnce, SameCreations
  <1> QED BY <1>1, <1>2, <1>3 DEF CreationsOnce

(* ... and so does the creation of a session that has made no note.        *)
LEMMA OneMoreIsOnce ==
  ASSUME CreationsOnce, NEW s, Unborn(s), OneMore(s, queue', creating'),
         UNCHANGED <<rows, created>>, Len(queue) \in Nat
  PROVE  CreationsOnce' /\ \A x : Creating(x)' <=> Creating(x) \/ x = s
  <1>1. \A x : Creating(x)' <=> Creating(x) \/ x = s
    BY DEF OneMore, SessionsOf, Creating
  <1>2. \A x : Unborn(x)' <=> Unborn(x)
    BY DEF Unborn
  <1>3. /\ ~Creating(s) /\ (\A a \in created : a.session # s)
        /\ \A i \in 1 .. Len(queue) : queue[i].op = "create" => queue[i].session # s
    BY DEF OneMore, CreationsOnce
  <1>4. \A i \in 1 .. Len(queue') :
          \/ i \in 1 .. Len(queue) /\ queue'[i] = queue[i]
          \/ i = Len(queue) + 1 /\ queue'[i].op = "create" /\ queue'[i].session = s
    BY DEF OneMore
  <1>5. /\ \A i, j \in 1 .. Len(queue') :
             queue'[i].op = "create" /\ queue'[j].op = "create"
               /\ queue'[i].session = queue'[j].session => i = j
        /\ \A i \in 1 .. Len(queue') : queue'[i].op = "create" =>
             /\ Creating(queue'[i].session) \/ queue'[i].session = s
             /\ Unborn(queue'[i].session)
             /\ \A a \in created : a.session # queue'[i].session
    BY <1>3, <1>4 DEF CreationsOnce
  <1> QED BY <1>1, <1>2, <1>5 DEF CreationsOnce

(* Sessions are known as long as they are in use.                          *)
LEMMA StillKnown ==
  ASSUME EditorTyped, KnownSessions, EditorTyped', UNCHANGED rows, sessions' >= sessions,
         \A i \in 1 .. Len(queue') :
           Known(queue'[i].session) \/ queue'[i].session[2] <= sessions',
         open' # None => Known(open'.session) \/ open'.session[2] <= sessions',
         \A s \in SessionsOf(creating') : Creating(s) \/ s[2] <= sessions',
         \A h \in held' : Known(h.session)
  PROVE  KnownSessions'
  <1>1. sessions \in Int /\ sessions' \in Int
    BY BoundsAssumption DEF EditorTyped
  <1>2. \A s \in Sessions : Known(s) => s[2] <= sessions'
    BY <1>1 DEF Known, Sessions
  <1>3. /\ \A i \in 1 .. Len(rows) : rows[i].made \in Sessions
        /\ \A h \in held' : h.session \in Sessions
    BY RowFields DEF EditorTyped, RowOf, Bodies
  <1>4. /\ \A i \in 1 .. Len(queue') : queue'[i].session \in Sessions
        /\ open' # None => open'.session \in Sessions
        /\ \A c \in creating' : c.session \in Sessions
    <2>1. queue' \in Seq(Job) /\ creating' \subseteq Creations /\ (open' # None => open' \in Opened)
      BY DEF EditorTyped, QueueOK, OpenOK
    <2>2. \A i \in 1 .. Len(queue') : queue'[i] \in Job
      BY <2>1, ElementOfSeq
    <2> QED BY <2>1, <2>2 DEF Job, Creations, Opened
  <1>5. \A c \in creating' : Creating(c.session) \/ c.session[2] <= sessions'
    BY DEF SessionsOf
  <1>6. \A c \in creating' : c.session[2] <= sessions'
    <2>1. \A s : Creating(s) => Known(s)
      BY DEF Creating, KnownSessions
    <2> QED BY <1>2, <1>4, <1>5, <2>1
  <1> QED BY <1>2, <1>3, <1>4, <1>6 DEF KnownSessions, Known

(* A step that keeps the notes and the answers, and the opening, keeps     *)
(* drafts created once.                                                    *)
LEMMA OnceAgain ==
  ASSUME OnceInv, EditorTyped', UNCHANGED <<rows, created, sessions>>,
         \/ SameCreations(queue', creating')
         \/ open # None /\ open.id = 0 /\ OneMore(open.session, queue', creating'),
         \A i \in 1 .. Len(queue') :
           \/ i \in 1 .. Len(queue) /\ queue'[i] = queue[i]
           \/ /\ queue'[i].op # "read" \/ (open # None /\ queue'[i].id = open.id)
              /\ Known(queue'[i].session),
         open' # None => open # None /\ open'.session = open.session /\ open'.id = open.id,
         \A h \in held' : h \in held \/ (open # None /\ h.session = open.session)
  PROVE  OnceInv'
  <1>0. /\ EditorTyped /\ KnownSessions /\ ReadJobs /\ CreationsOnce /\ DraftUnborn /\ CreatedOnce
        /\ Len(queue) \in Nat /\ sessions' >= sessions
        /\ (open # None => Known(open.session))
    BY LenProperties, BoundsAssumption DEF OnceInv, EditorTyped, QueueOK, KnownSessions
  <1>1. CreationsOnce' /\ DraftUnborn' /\ \A s \in SessionsOf(creating') : Creating(s) \/ Known(s)
    <2>1. \A s : Unborn(s)' <=> Unborn(s)
      BY DEF Unborn
    <2>2. CASE SameCreations(queue', creating')
      <3>1. CreationsOnce' /\ \A s : Creating(s)' <=> Creating(s)
        BY <1>0, <2>2, SameIsOnce
      <3> QED BY <1>0, <2>1, <2>2, <3>1 DEF DraftUnborn, SameCreations
    <2>3. CASE open # None /\ open.id = 0 /\ OneMore(open.session, queue', creating')
      <3>1. Unborn(open.session)
        BY <1>0, <2>3 DEF DraftUnborn, OneMore
      <3>2. CreationsOnce' /\ \A x : Creating(x)' <=> Creating(x) \/ x = open.session
        BY <1>0, <2>3, <3>1, OneMoreIsOnce
      <3> QED BY <1>0, <2>1, <2>3, <3>2 DEF DraftUnborn, OneMore
    <2> QED BY <2>2, <2>3
  <1>2. KnownSessions'
    <2>1. \A i \in 1 .. Len(queue') : Known(queue'[i].session)
      BY <1>0 DEF KnownSessions
    <2>2. \A h \in held' : Known(h.session)
      BY <1>0 DEF KnownSessions
    <2>3. \A s \in SessionsOf(creating') : Creating(s) \/ s[2] <= sessions'
      BY <1>1 DEF Known
    <2> QED BY <1>0, <2>1, <2>2, <2>3, StillKnown
  <1>3. ReadJobs'
    BY <1>0 DEF ReadJobs
  <1>4. CreatedOnce'
    BY <1>0 DEF CreatedOnce
  <1> QED BY <1>1, <1>2, <1>3, <1>4 DEF OnceInv

(* What a user does creates no draft twice.                                *)
LEMMA UserIsOnce ==
  ASSUME OnceInv, User
  PROVE  OnceInv'
  <1>0. /\ EditorTyped /\ KnownSessions /\ ReadJobs /\ CreationsOnce /\ DraftUnborn /\ CreatedOnce
        /\ Len(queue) \in Nat
    BY LenProperties DEF OnceInv, EditorTyped, QueueOK
  <1>1. EditorTyped' /\ UNCHANGED <<rows, created, wrote, failed>>
    BY <1>0, UserIsTyped, UserDoes
  <1>2. CASE UNCHANGED <<queue, creating, open, sessions, held>>
    <2>1. SameCreations(queue, creating)
      BY DEF SameCreations, SessionsOf, Creating
    <2> QED BY <1>1, <1>2, <2>1, OnceAgain
  <1>3. CASE /\ open # None /\ AskedBy(open, queue', creating') /\ sessions' = sessions
             /\ open' = None \/ SameEditor(open, open')
             /\ \A h \in held' : h \in held \/ (h.session = open.session /\ h.id = open.id)
    <2>1. open.session \in Sessions /\ Known(open.session)
      BY <1>0, <1>3, OpenFields DEF EditorTyped, OpenOK, KnownSessions
    <2>2. /\ \/ SameCreations(queue', creating')
             \/ open.id = 0 /\ OneMore(open.session, queue', creating')
          /\ \A i \in 1 .. Len(queue') :
               \/ i \in 1 .. Len(queue) /\ queue'[i] = queue[i]
               \/ /\ queue'[i].op # "read"
                  /\ \/ queue'[i].session = open.session
                     \/ \E id : RowOf(id) /\ queue'[i].session = rows[id].made
      BY <1>0, <1>3, <2>1, AskedIs
    <2>3. \A id : RowOf(id) => Known(rows[id].made)
      BY <1>0 DEF KnownSessions, RowOf
    <2> QED BY <1>1, <1>3, <2>1, <2>2, <2>3, OnceAgain DEF SameEditor
  <1>4. ASSUME NEW s \in Sessions, s = open'.session, s[2] = sessions + 1, open' # None, held' = held, sessions < MaxSessions, sessions' = sessions + 1,
               \/ SameCreations(queue', creating')
               \/ /\ OneMore(open'.session, queue', creating') /\ open'.id = 0
               \/ /\ open # None /\ open.id = 0 /\ OneMore(open.session, queue', creating'),
               \A i \in 1 .. Len(queue') :
                 \/ i \in 1 .. Len(queue) /\ queue'[i] = queue[i]
                 \/ /\ queue'[i].op # "read"
                    /\ Known(queue'[i].session) \/ queue'[i].session = s
        PROVE  OnceInv'
    <2>1. ~Known(s) /\ sessions' >= sessions /\ s[2] <= sessions' /\ s \in Sessions
      BY <1>0, <1>4, BoundsAssumption DEF EditorTyped, Known
    <2>2. Unborn(s) /\ ~Creating(s) /\ (open # None => s # open.session)
      BY <1>0, <2>1 DEF KnownSessions, Unborn, Creating
    <2>3. \A x : Unborn(x)' <=> Unborn(x)
      BY <1>1 DEF Unborn
    <2>4. /\ CreationsOnce' /\ (Creating(s)' => open'.id = 0)
          /\ \A x \in SessionsOf(creating') : Creating(x) \/ x = s \/ Known(x)
      <3>1. CASE SameCreations(queue', creating')
        BY <1>0, <1>1, <2>2, <3>1, SameIsOnce DEF SameCreations
      <3>2. CASE OneMore(s, queue', creating') /\ open'.id = 0
        BY <1>0, <1>1, <2>2, <3>2, OneMoreIsOnce DEF OneMore
      <3>3. CASE open # None /\ open.id = 0 /\ OneMore(open.session, queue', creating')
        <4>1. Unborn(open.session) /\ Known(open.session)
          BY <1>0, <3>3 DEF DraftUnborn, OneMore, KnownSessions
        <4>2. CreationsOnce' /\ \A x : Creating(x)' <=> Creating(x) \/ x = open.session
          BY <1>0, <1>1, <3>3, <4>1, OneMoreIsOnce
        <4> QED BY <2>2, <3>3, <4>1, <4>2 DEF OneMore
      <3> QED BY <1>4, <3>1, <3>2, <3>3
    <2>5. DraftUnborn'
      BY <1>4, <2>2, <2>3, <2>4 DEF DraftUnborn
    <2>6. KnownSessions'
      <3>1. \A i \in 1 .. Len(queue') : Known(queue'[i].session) \/ queue'[i].session[2] <= sessions'
        BY <1>0, <1>4, <2>1 DEF KnownSessions
      <3>2. \A x \in SessionsOf(creating') : Creating(x) \/ x[2] <= sessions'
        <4>1. ASSUME NEW x \in SessionsOf(creating'), Known(x)
              PROVE  x[2] <= sessions'
          <5>1. x \in Sessions
            BY <1>1 DEF SessionsOf, EditorTyped, Creations
          <5>2. sessions \in Int
            BY <1>0 DEF EditorTyped
          <5> QED BY <1>4, <4>1, <5>1, <5>2 DEF Known, Sessions
        <4> QED BY <2>1, <2>4, <4>1
      <3>3. \A h \in held' : Known(h.session)
        BY <1>0, <1>4 DEF KnownSessions
      <3> QED BY <1>0, <1>1, <1>4, <2>1, <3>1, <3>2, <3>3, StillKnown
    <2>7. ReadJobs'
      <3>1. \A i \in 1 .. Len(queue) : queue[i].session # s
        BY <1>0, <2>1 DEF KnownSessions
      <3> QED BY <1>4, <3>1 DEF ReadJobs
    <2>8. CreatedOnce'
      BY <1>0, <1>1 DEF CreatedOnce
    <2> QED BY <1>1, <2>4, <2>5, <2>6, <2>7, <2>8 DEF OnceInv
  <1>5. CASE /\ open # None /\ open.id = 0 /\ AskedBy(open, queue', creating')
             /\ sessions < MaxSessions /\ sessions' = sessions + 1 /\ open' # None
             /\ open'.session = <<open.session[1], sessions + 1>> /\ open'.id = 0
             /\ held' = held
    <2>1. open.session \in Sessions /\ Known(open.session) /\ open'.session \in Sessions
      BY <1>0, <1>1, <1>5, OpenFields DEF EditorTyped, OpenOK, KnownSessions
    <2>2. /\ \/ SameCreations(queue', creating')
             \/ open.id = 0 /\ OneMore(open.session, queue', creating')
          /\ \A i \in 1 .. Len(queue') :
               \/ i \in 1 .. Len(queue) /\ queue'[i] = queue[i]
               \/ /\ queue'[i].op # "read"
                  /\ \/ queue'[i].session = open.session
                     \/ \E id : RowOf(id) /\ queue'[i].session = rows[id].made
      BY <1>0, <1>5, <2>1, AskedIs
    <2>3. \A id : RowOf(id) => Known(rows[id].made)
      BY <1>0 DEF KnownSessions, RowOf
    <2>4. open'.session[2] = sessions + 1
      BY <1>5
    <2> QED BY <1>4, <1>5, <2>1, <2>2, <2>3, <2>4
  <1>6. CASE /\ sessions < MaxSessions /\ sessions' = sessions + 1 /\ open' # None
             /\ open'.session = NewSession /\ open'.id = 0 /\ held' = held
             /\ AskedBy(open', queue', creating')
    <2>1. open'.session \in Sessions /\ open'.session[2] = sessions + 1
      BY <1>0, <1>6, NewSessions
    <2>2. /\ \/ SameCreations(queue', creating')
             \/ open'.id = 0 /\ OneMore(open'.session, queue', creating')
          /\ \A i \in 1 .. Len(queue') :
               \/ i \in 1 .. Len(queue) /\ queue'[i] = queue[i]
               \/ /\ queue'[i].op # "read"
                  /\ \/ queue'[i].session = open'.session
                     \/ \E id : RowOf(id) /\ queue'[i].session = rows[id].made
      BY <1>0, <1>6, <2>1, AskedIs
    <2>3. \A id : RowOf(id) => Known(rows[id].made)
      BY <1>0 DEF KnownSessions, RowOf
    <2> QED BY <1>4, <1>6, <2>1, <2>2, <2>3
  <1>7. CASE /\ sessions < MaxSessions /\ sessions' = sessions + 1 /\ open' # None
             /\ open'.session = NewSession /\ RowOf(open'.id) /\ held' = held
             /\ UNCHANGED <<queue, creating>>
    <2>1. open'.session \in Sessions /\ open'.session[2] = sessions + 1
      BY <1>0, <1>7, NewSessions
    <2>2. SameCreations(queue', creating')
      BY <1>7 DEF SameCreations, SessionsOf, Creating
    <2> QED BY <1>4, <1>7, <2>1, <2>2
  <1> QED BY <1>0, <1>2, <1>3, <1>5, <1>6, <1>7, UserDoes

(* What the db thread runs creates no draft twice.                         *)
LEMMA RunIsOnce ==
  ASSUME OnceInv, RunJob
  PROVE  OnceInv'
  <1>0. /\ EditorTyped /\ KnownSessions /\ ReadJobs /\ CreationsOnce /\ DraftUnborn /\ CreatedOnce
        /\ rows \in Seq(Row) /\ QueueOK(queue) /\ Len(rows) \in Nat
        /\ (open # None => OpenOK(open))
    BY LenProperties DEF OnceInv, EditorTyped
  <1>1. PICK job : job = Head(queue)
    OBVIOUS
  <1>2. /\ queue' = Tail(queue) /\ queue # <<>> /\ (Ran(job) \/ Refused(job))
        /\ UNCHANGED <<sessions, creating, view, held, files, dropped, quit, left>>
    BY <1>1 DEF RunJob
  <1>3. /\ job = queue[1] /\ 1 \in 1 .. Len(queue) /\ Len(queue) \in Nat
        /\ \A i \in 1 .. Len(queue') : i + 1 \in 1 .. Len(queue) /\ queue'[i] = queue[i + 1]
        /\ job \in Job /\ JobOK(job)
    BY <1>0, <1>1, <1>2, First
  <1>4. EditorTyped'
    BY <1>0, RunIsTyped
  <1>5. /\ open' # None => open # None /\ open'.session = open.session /\ open'.id = open.id
        /\ job.op = "create" => open' = open
    <2>1. ASSUME open # None, open.id # 0, NEW got \in Note \cup {None}, open' = Answered(open, got)
          PROVE  open'.session = open.session /\ open'.id = open.id
      BY <1>0, <2>1, ReadFields
    <2>2. job.op = "create" => open' = open
      BY <1>0, <1>1, <1>2, RanOpen
    <2> QED BY <1>0, <1>1, <1>2, <2>1, <2>2, RanOpen
  <1>6. ReadJobs'
    BY <1>0, <1>3, <1>5 DEF ReadJobs
  <1>7. \A s : Creating(s)' <=> Creating(s)
    BY <1>2 DEF Creating
  <1>8. /\ \A i \in 1 .. Len(queue') : Known(queue'[i].session)
        /\ open' # None => Known(open'.session)
        /\ \A c \in creating' : Known(c.session)
        /\ \A h \in held' : Known(h.session)
        /\ UNCHANGED sessions
    BY <1>0, <1>2, <1>3, <1>5 DEF KnownSessions
  <1>9. CASE job.op # "create"
    <2>1. /\ \A id : RowOf(id) => RowOf(id)' /\ rows'[id].made = rows[id].made
          /\ Len(rows') = Len(rows) /\ created' = created
      <3>1. rows' = rows \/ Len(rows') = Len(rows)
        BY <1>0, <1>2, <1>3, <1>9, RanRows
      <3> QED BY <1>0, <1>2, <1>3, <1>9, <3>1, RanRows, RanAnswers
    <2>2. (\A s : Unborn(s)' <=> Unborn(s)) /\ CreatedOnce'
      BY <1>0, <2>1 DEF Unborn, CreatedOnce, RowOf
    <2>3. CreationsOnce'
      <3>1. \A i, j \in 1 .. Len(queue') :
               queue'[i].op = "create" /\ queue'[j].op = "create"
                 /\ queue'[i].session = queue'[j].session => i = j
        <4>1. ASSUME NEW i \in 1 .. Len(queue'), NEW j \in 1 .. Len(queue'),
                     queue'[i].op = "create", queue'[j].op = "create",
                     queue'[i].session = queue'[j].session
              PROVE  i = j
          <5>1. i + 1 = j + 1
            BY <1>0, <1>3, <4>1 DEF CreationsOnce
          <5> QED BY <5>1
        <4> QED BY <4>1
      <3>2. \A i \in 1 .. Len(queue') : queue'[i].op = "create" =>
               /\ Creating(queue'[i].session) /\ Unborn(queue'[i].session)
               /\ \A a \in created' : a.session # queue'[i].session
        BY <1>0, <1>3, <2>1 DEF CreationsOnce
      <3>3. /\ \A a \in created' : Creating(a.session) /\ (a.id = 0 => Unborn(a.session))
            /\ \A a, b \in created' : a.session = b.session => a = b
        BY <1>0, <2>1 DEF CreationsOnce
      <3> QED BY <1>7, <2>2, <3>1, <3>2, <3>3 DEF CreationsOnce
    <2>4. DraftUnborn'
      BY <1>0, <1>5, <1>7, <2>2 DEF DraftUnborn
    <2>5. KnownSessions'
      <3>1. \A i \in 1 .. Len(rows') : Known(rows'[i].made)
        BY <1>0, <2>1 DEF KnownSessions, RowOf
      <3> QED BY <1>8, <3>1 DEF KnownSessions, Known
    <2> QED BY <1>4, <1>6, <2>2, <2>3, <2>4, <2>5 DEF OnceInv
  <1>10. CASE job.op = "create"
    <2> DEFINE s == job.session
    <2>1. /\ Creating(s) /\ Unborn(s) /\ (\A a \in created : a.session # s) /\ Known(s)
          /\ \A i \in 1 .. Len(queue') : queue'[i].op = "create" => queue'[i].session # s
      BY <1>0, <1>3, <1>10 DEF CreationsOnce, KnownSessions
    <2>2. /\ \/ rows' = rows
             \/ /\ Len(rows') = Len(rows) + 1 /\ \A i \in 1 .. Len(rows) : rows'[i] = rows[i]
                /\ rows'[Len(rows) + 1].made = s
          /\ \E id \in {0, Len(rows) + 1} :
               /\ created' =
                    created \cup {[session |-> s, id |-> id, text |-> job.note.text]}
               /\ id = 0 => rows' = rows
      <3>1. [made |-> job.session, note |-> job.note] \in Row
        BY <1>3 DEF Job, Row
      <3>2. CASE /\ rows' = Append(rows, [made |-> job.session, note |-> job.note])
                 /\ created' = created \cup
                      {[session |-> job.session, id |-> Len(rows) + 1, text |-> job.note.text]}
        BY <1>0, <3>1, <3>2, AppendProperties
      <3>3. CASE /\ rows' = rows
                 /\ created' =
                      created \cup {[session |-> job.session, id |-> 0, text |-> job.note.text]}
        BY <3>3
      <3> QED BY <1>2, <1>3, <1>10, <3>2, <3>3, RanAnswers
    <2> HIDE DEF s
    <2>3. (\A x : x # s => (Unborn(x)' <=> Unborn(x))) /\ (rows' = rows => Unborn(s)')
          /\ CreatedOnce' /\ \A i \in 1 .. Len(rows') : Known(rows'[i].made)
      <3>1. CASE rows' = rows
        BY <1>0, <2>1, <3>1 DEF Unborn, CreatedOnce, KnownSessions
      <3>2. CASE /\ Len(rows') = Len(rows) + 1 /\ \A i \in 1 .. Len(rows) : rows'[i] = rows[i]
                 /\ rows'[Len(rows) + 1].made = s
        <4>1. \A i \in 1 .. Len(rows') : i \in 1 .. Len(rows) \/ i = Len(rows) + 1
          BY <1>0, <3>2
        <4>2. Len(rows) + 1 \in 1 .. Len(rows') /\ \A i \in 1 .. Len(rows) : i \in 1 .. Len(rows')
          BY <1>0, <3>2
        <4>3. rows' # rows
          BY <1>0, <3>2
        <4> QED BY <1>0, <2>1, <3>2, <4>1, <4>2, <4>3 DEF Unborn, CreatedOnce, KnownSessions
      <3> QED BY <2>2, <3>1, <3>2
    <2>4. PICK a : /\ created' = created \cup {a} /\ a.session = s
                   /\ a.id = 0 => rows' = rows
      <3>1. PICK id : /\ created' =
                           created \cup {[session |-> s, id |-> id, text |-> job.note.text]}
                      /\ id = 0 => rows' = rows
        BY <2>2
      <3> DEFINE a == [session |-> s, id |-> id, text |-> job.note.text]
      <3>2. a.session = s /\ a.id = id /\ created' = created \cup {a}
        BY <3>1
      <3> HIDE DEF a
      <3> QED BY <3>1, <3>2
    <2>5. CreationsOnce'
      <3>1. /\ \A i, j \in 1 .. Len(queue') :
                 queue'[i].op = "create" /\ queue'[j].op = "create"
                   /\ queue'[i].session = queue'[j].session => i = j
        BY <1>0, <1>3 DEF CreationsOnce
      <3>2. \A i \in 1 .. Len(queue') : queue'[i].op = "create" =>
               /\ Creating(queue'[i].session) /\ Unborn(queue'[i].session)
               /\ queue'[i].session # s
               /\ \A b \in created' : b.session # queue'[i].session
        BY <1>0, <1>3, <2>1, <2>4 DEF CreationsOnce
      <3>3. \A b \in created' : Creating(b.session)' /\ (b.id = 0 => Unborn(b.session)')
        BY <1>0, <1>7, <2>1, <2>3, <2>4 DEF CreationsOnce
      <3>4. \A b, d \in created' : b.session = d.session => b = d
        BY <1>0, <2>1, <2>4 DEF CreationsOnce
      <3> QED BY <1>7, <2>3, <3>1, <3>2, <3>3, <3>4 DEF CreationsOnce
    <2>6. DraftUnborn'
      BY <1>0, <1>5, <1>7, <1>10, <2>1, <2>3 DEF DraftUnborn
    <2>7. KnownSessions'
      <3>1. \A i \in 1 .. Len(rows') : Known(rows'[i].made)
        BY <2>3
      <3> QED BY <1>8, <3>1 DEF KnownSessions, Known
    <2> QED BY <1>4, <1>6, <2>3, <2>5, <2>6, <2>7 DEF OnceInv
  <1> QED BY <1>9, <1>10

(* An answer to a creation adopted ends it.                                *)
LEMMA AdoptCreatedIsOnce ==
  ASSUME OnceInv, NEW a \in created, AdoptCreated(a)
  PROVE  OnceInv'
  <1>0. /\ EditorTyped /\ KnownSessions /\ ReadJobs /\ CreationsOnce /\ DraftUnborn /\ CreatedOnce
        /\ rows \in Seq(Row) /\ QueueOK(queue) /\ queue \in Seq(Job) /\ Len(queue) \in Nat
        /\ (open # None => OpenOK(open))
    BY LenProperties DEF OnceInv, EditorTyped, QueueOK
  <1>1. EditorTyped'
    BY <1>0, FrameIsTyped DEF Frame
  <1>2. /\ created' = created \ {a} /\ creating' = {c \in creating : c.session # a.session}
        /\ UNCHANGED <<rows, sessions, held>>
    BY DEF AdoptCreated
  <1>3. /\ open' # None => open # None /\ open'.session = open.session
        /\ open' # None => \/ open'.id = open.id
                           \/ a.id # 0 /\ open.session = a.session /\ open'.id = a.id
        /\ open' # None /\ a.id # 0 /\ open.session = a.session => open'.id # 0
    BY <1>0, AdoptOpens
  <1>4. \A i \in 1 .. Len(queue') :
          \/ i \in 1 .. Len(queue) /\ queue'[i] = queue[i]
          \/ queue'[i].op = "write" /\ queue'[i].session = a.session
    <2>1. CASE queue' = queue
      BY <2>1
    <2>2. ASSUME RowOf(a.id), rows[a.id].made = a.session, NEW t \in Contents,
                 queue' = Append(queue, WriteJob(a.id, t))
          PROVE  \A i \in 1 .. Len(queue') :
                   \/ i \in 1 .. Len(queue) /\ queue'[i] = queue[i]
                   \/ queue'[i].op = "write" /\ queue'[i].session = a.session
      <3> DEFINE job == WriteJob(a.id, t)
      <3>1. job \in Job /\ job.op = "write" /\ job.session = a.session /\ queue' = Append(queue, job)
        BY <1>0, <2>2, Jobs
      <3> HIDE DEF job
      <3> QED BY <1>0, <3>1, Sent
    <2> QED BY <1>0, <2>1, <2>2, AdoptAsks
  <1>5. \A s : s # a.session => (Creating(s)' <=> Creating(s))
    BY <1>2 DEF Creating
  <1>6. ~Creating(a.session)' /\ \A s : Creating(s)' => Creating(s)
    BY <1>2 DEF Creating
  <1>7. \A s : Unborn(s)' <=> Unborn(s)
    BY <1>2 DEF Unborn
  <1>8. Creating(a.session) /\ Known(a.session) /\ (a.id = 0 => Unborn(a.session))
    <2>1. Creating(a.session) /\ (a.id = 0 => Unborn(a.session))
      BY <1>0 DEF CreationsOnce
    <2> QED BY <1>0, <2>1 DEF Creating, KnownSessions
  <1>9. CreationsOnce'
    <2>1. \A i \in 1 .. Len(queue') : queue'[i].op = "create" =>
            i \in 1 .. Len(queue) /\ queue'[i] = queue[i]
      BY <1>4
    <2>2. /\ \A i, j \in 1 .. Len(queue') :
               queue'[i].op = "create" /\ queue'[j].op = "create"
                 /\ queue'[i].session = queue'[j].session => i = j
          /\ \A i \in 1 .. Len(queue') : queue'[i].op = "create" =>
               /\ Creating(queue'[i].session) /\ Unborn(queue'[i].session)
               /\ queue'[i].session # a.session
               /\ \A b \in created' : b.session # queue'[i].session
      BY <1>0, <1>2, <2>1 DEF CreationsOnce
    <2>3. /\ \A b \in created' : /\ Creating(b.session) /\ b.session # a.session
                                 /\ b.id = 0 => Unborn(b.session)
          /\ \A b, d \in created' : b.session = d.session => b = d
      BY <1>0, <1>2 DEF CreationsOnce
    <2> QED BY <1>5, <1>7, <2>2, <2>3 DEF CreationsOnce
  <1>10. DraftUnborn'
    BY <1>0, <1>3, <1>5, <1>6, <1>7, <1>8 DEF DraftUnborn, OpenOK
  <1>11. KnownSessions'
    <2>1. \A i \in 1 .. Len(queue') : Known(queue'[i].session)
      BY <1>0, <1>4, <1>8 DEF KnownSessions
    <2>2. \A i \in 1 .. Len(rows') : Known(rows'[i].made)
      BY <1>0, <1>2 DEF KnownSessions
    <2>3. /\ open' # None => Known(open'.session)
          /\ \A c \in creating' : Known(c.session)
          /\ \A h \in held' : Known(h.session)
      BY <1>0, <1>2, <1>3 DEF KnownSessions
    <2> QED BY <1>2, <2>1, <2>2, <2>3 DEF KnownSessions, Known
  <1>12. ReadJobs'
    <2>1. \A i \in 1 .. Len(queue') : queue'[i].op = "read" =>
            i \in 1 .. Len(queue) /\ queue'[i] = queue[i]
      BY <1>4
    <2>2. \A i \in 1 .. Len(queue) : queue[i].op = "read" => queue[i].id # 0
      BY <1>0, RowFields DEF QueueOK, JobOK
    <2>3. open # None /\ open.session = a.session => open.id = 0
      BY <1>0, <1>8 DEF DraftUnborn
    <2> QED BY <1>0, <1>3, <2>1, <2>2, <2>3 DEF ReadJobs
  <1>13. CreatedOnce'
    BY <1>0, <1>2 DEF CreatedOnce
  <1> QED BY <1>1, <1>9, <1>10, <1>11, <1>12, <1>13 DEF OnceInv

(* What a frame does creates no draft twice.                               *)
LEMMA FrameIsOnce ==
  ASSUME OnceInv, Frame
  PROVE  OnceInv'
  <1>0. /\ EditorTyped /\ KnownSessions /\ QueueOK(queue) /\ queue \in Seq(Job)
        /\ rows \in Seq(Row) /\ Len(queue) \in Nat /\ (open # None => OpenOK(open))
        /\ held \subseteq Bodies /\ \A h \in held : RowOf(h.id)
    BY LenProperties DEF OnceInv, EditorTyped, QueueOK
  <1>1. EditorTyped'
    BY <1>0, FrameIsTyped
  <1>2. CASE \E a \in created : AdoptCreated(a)
    BY <1>2, AdoptCreatedIsOnce
  <1>3. SameCreations(queue, creating)
    BY DEF SameCreations, SessionsOf, Creating
  <1>4. ASSUME UNCHANGED <<rows, created, sessions, queue, creating, held>>,
               open' # None => open # None /\ open'.session = open.session /\ open'.id = open.id
        PROVE  OnceInv'
    BY <1>1, <1>3, <1>4, OnceAgain
  <1>5. CASE AdoptWrote \/ Exit
    <2>1. UNCHANGED <<rows, created, sessions, queue, creating, held>>
      BY <1>5 DEF AdoptWrote, Exit, editing, answers
    <2>2. open' # None => open # None /\ open'.session = open.session /\ open'.id = open.id
      BY <1>0, <1>5, BumpedFields DEF AdoptWrote, Exit, editing
    <2> QED BY <1>0, <1>4, <2>1, <2>2
  <1>6. CASE AdoptRead
    <2> DEFINE o == [open EXCEPT !.reading = "no", !.current = FALSE, !.got = None]
    <2>1. /\ open # None /\ open.reading = "answered"
          /\ open' = o \/ open' = Adopted(o, open.got)
          /\ UNCHANGED <<rows, created, sessions, queue, creating, held>>
      BY <1>6 DEF AdoptRead, answers
    <2>2. o = [open EXCEPT !.reading = "no", !.current = FALSE, !.got = None]
      OBVIOUS
    <2> HIDE DEF o
    <2>3. /\ OpenOK(o) /\ o.session = open.session /\ o.id = open.id /\ open.id # 0
          /\ open.got \in Note \cup {None}
      <3>1. OpenOK(open) /\ open \in Opened
        BY <1>0, <2>1 DEF OpenOK
      <3>2. OpenOK(o) /\ o.session = open.session /\ o.id = open.id /\ open.id # 0
        BY <2>1, <2>2, <3>1, ReadTaken, Zenon
      <3> QED BY <3>1, <3>2, OpenFields
    <2>4. open' # None => open # None /\ open'.session = open.session /\ open'.id = open.id
      BY <2>1, <2>3, ReadAdopted
    <2> QED BY <1>4, <2>1, <2>4
  <1>7. ASSUME NEW job \in Job, queue' = Append(queue, job), open # None,
               job.op # "create", job.op = "read" => job.id = open.id, Known(job.session),
               UNCHANGED <<rows, created, sessions, creating, held>>,
               open'.session = open.session, open'.id = open.id
        PROVE  OnceInv'
    <2>1. \A i \in 1 .. Len(queue') :
            (i \in 1 .. Len(queue) /\ queue'[i] = queue[i]) \/ queue'[i] = job
      BY <1>0, <1>7, Sent
    <2>2. SameCreations(queue', creating')
      BY <1>3, <1>7, <2>1 DEF SameCreations
    <2> QED BY <1>1, <1>7, <2>1, <2>2, OnceAgain
  <1>8. CASE Ask
    <2>1. /\ open # None /\ open.id # 0 /\ open' = [open EXCEPT !.reading = "asked", !.current = TRUE]
          /\ queue' = Append(queue, ReadJob(open))
          /\ UNCHANGED <<rows, created, sessions, creating, held>>
      BY <1>8 DEF Ask, Due, answers
    <2>2. open \in Opened /\ RowOf(open.id) /\ Known(open.session)
      BY <1>0, <2>1 DEF OpenOK, KnownSessions
    <2>3. open'.session = open.session /\ open'.id = open.id
      BY <2>1, <2>2 DEF Opened
    <2> DEFINE job == ReadJob(open)
    <2>4. job \in Job /\ job.op = "read" /\ job.id = open.id /\ job.session = open.session
      BY <2>2, Jobs
    <2> HIDE DEF job
    <2>5. queue' = Append(queue, job)
      BY <2>1 DEF job
    <2> QED BY <1>7, <2>1, <2>2, <2>3, <2>4, <2>5
  <1>9. ASSUME NEW s \in files, Attach(s)
        PROVE  OnceInv'
    <2>1. /\ open # None /\ open.id # 0 /\ queue' = Append(queue, AttachJob(open.id))
          /\ UNCHANGED <<rows, created, sessions, creating, held, open>>
      BY <1>9 DEF Attach, answers, editing
    <2>2. RowOf(open.id) /\ Known(rows[open.id].made)
      BY <1>0, <2>1 DEF OpenOK, KnownSessions, RowOf
    <2> DEFINE job == AttachJob(open.id)
    <2>4. job \in Job /\ job.op = "attach"
      BY <1>0, <2>2, Jobs
    <2>5. queue' = Append(queue, job) /\ job.session = rows[open.id].made
      BY <2>1 DEF AttachJob
    <2> HIDE DEF job
    <2> QED BY <1>7, <2>1, <2>2, <2>4, <2>5
  <1>10. ASSUME NEW o, o.session \in Sessions, AskedBy(o, queue', creating'), Known(o.session),
                (open # None /\ o.session = open.session /\ o.id = open.id) \/ o.id # 0,
                UNCHANGED <<rows, created, sessions>>, held' \subseteq held,
                open' # None => open # None /\ open'.session = open.session /\ open'.id = open.id
         PROVE  OnceInv'
    <2>1. /\ \/ SameCreations(queue', creating')
             \/ o.id = 0 /\ OneMore(o.session, queue', creating')
          /\ \A i \in 1 .. Len(queue') :
               \/ i \in 1 .. Len(queue) /\ queue'[i] = queue[i]
               \/ /\ queue'[i].op # "read"
                  /\ \/ queue'[i].session = o.session
                     \/ \E id : RowOf(id) /\ queue'[i].session = rows[id].made
      BY <1>0, <1>10, AskedIs
    <2>2. \A id : RowOf(id) => Known(rows[id].made)
      BY <1>0 DEF KnownSessions, RowOf
    <2>3. /\ \/ SameCreations(queue', creating')
             \/ open # None /\ open.id = 0 /\ OneMore(open.session, queue', creating')
          /\ \A i \in 1 .. Len(queue') :
               \/ i \in 1 .. Len(queue) /\ queue'[i] = queue[i]
               \/ queue'[i].op # "read" /\ Known(queue'[i].session)
      BY <1>10, <2>1, <2>2
    <2>4. \A h \in held' : h \in held
      BY <1>10
    <2> QED BY <1>1, <1>10, <2>3, <2>4, OnceAgain
  <1>11. open # None => open.session \in Sessions /\ Known(open.session)
    BY <1>0, OpenFields DEF OpenOK, KnownSessions
  <1>12. CASE WriteDraft
    <2>1. /\ open # None /\ open.id = 0 /\ ~Creating(open.session)
          /\ creating' = creating \cup {[session |-> open.session, waiting |-> Nothing]}
          /\ queue' = Append(queue, CreateJob(open.session, open.draft))
          /\ UNCHANGED <<rows, created, sessions, held, open>>
      BY <1>12 DEF WriteDraft, Asks, Created, answers
    <2>2. open.draft \in Note
      BY <1>0, <2>1 DEF OpenOK
    <2>3. AskedBy(open, queue', creating')
      BY <2>1, <2>2 DEF AskedBy
    <2> QED BY <1>10, <1>11, <2>1, <2>3
  <1>13. ASSUME NEW h \in held, AdoptFormatted(h)
         PROVE  OnceInv'
    <2>1. PICK t \in {h.text, PrettyOf(h.text)} :
            IF open # None /\ open.session = h.session
            THEN Asks(Saved(open, t).asked) /\ open' = Saved(open, t).open
            ELSE queue' = Write(h.id, t) /\ UNCHANGED <<creating, open>>
      BY <1>13 DEF AdoptFormatted
    <2>2. held' \subseteq held /\ UNCHANGED <<rows, sessions, created>>
      BY <1>13 DEF AdoptFormatted, answers
    <2>3. t \in Contents
      BY <1>0, <2>1, TextsAssumption DEF Bodies, PrettyOf
    <2>4. CASE open # None /\ open.session = h.session
      <3> DEFINE k == Saved(open, t)
      <3>1. AskedBy(open, k.asked.queue, k.asked.creating) /\ SameEditor(open, k.open)
        BY <1>0, <2>3, <2>4, SavedAsks
      <3>2. queue' = k.asked.queue /\ creating' = k.asked.creating /\ open' = k.open
        BY <2>1, <2>4 DEF Asks
      <3> HIDE DEF k
      <3> QED BY <1>10, <1>11, <2>2, <2>4, <3>1, <3>2 DEF SameEditor
    <2>5. CASE ~(open # None /\ open.session = h.session)
      <3>1. /\ RowOf(h.id) /\ h.id # 0 /\ h.session \in Sessions /\ Known(h.session)
        BY <1>0, RowFields DEF Bodies, KnownSessions
      <3>2. AskedBy(h, queue', creating') /\ open' = open
        BY <2>1, <2>3, <2>5, <3>1 DEF AskedBy, Write
      <3> QED BY <1>10, <2>2, <3>1, <3>2
    <2> QED BY <2>4, <2>5
  <1> QED BY <1>2, <1>5, <1>6, <1>8, <1>9, <1>12, <1>13 DEF Frame

(* One creation per draft holds of every behaviour, with what it rests on. *)
LEMMA OnceHolds == Spec => []OnceInv
  <1>1. Init => OnceInv
    <2> SUFFICES ASSUME Init PROVE OnceInv
      OBVIOUS
    <2>1. EditorTyped
      <3>1. QueueOK(queue) /\ rows \in Seq(Row)
        BY DEF Init, QueueOK
      <3>2. /\ sessions \in 0 .. MaxSessions /\ dropped \in 0 .. MaxFiles /\ ViewOK(open, view)
            /\ left \in [Sessions -> SUBSET Contents]
        BY BoundsAssumption DEF Init, ViewOK
      <3> QED BY <3>1, <3>2 DEF Init, EditorTyped
    <2> QED BY <2>1 DEF Init, OnceInv, KnownSessions, ReadJobs, CreationsOnce, DraftUnborn,
                        CreatedOnce
  <1>2. OnceInv /\ [Next]_vars => OnceInv'
    <2> SUFFICES ASSUME OnceInv, [Next]_vars PROVE OnceInv'
      OBVIOUS
    <2>1. CASE UNCHANGED vars
      <3>1. /\ UNCHANGED <<rows, queue, open, sessions, creating, created, wrote, held, view, files,
                           dropped, quit, left, failed>>
        BY <2>1 DEF vars, editing, answers
      <3>2. EditorTyped'
        BY <3>1 DEF OnceInv, EditorTyped, QueueOK, JobOK, OpenOK, ViewOK, RowOf
      <3>3. SameCreations(queue, creating)
        BY DEF SameCreations, SessionsOf, Creating
      <3> QED BY <3>1, <3>2, <3>3, OnceAgain
    <2> QED BY <2>1, UserIsOnce, RunIsOnce, FrameIsOnce DEF Next
  <1> QED BY <1>1, <1>2, PTL DEF Spec

(* The variables of the editor keep their types, and the jobs, the bodies  *)
(* held back and the answers name notes there are.                         *)
THEOREM EditorTypeCorrect == Spec => []TypeOK
  <1>1. OnceInv => TypeOK
    BY TypedIsTypeOK DEF OnceInv
  <1> QED BY <1>1, OnceHolds, PTL

(* keep_draft, "one creation per draft": however a draft's fields are left *)
(* while it is written, whatever is refused and however many drafts there  *)
(* are, it becomes one note at most.                                       *)
THEOREM DraftsCreatedOnce == Spec => []CreatedOnce
  <1>1. OnceInv => CreatedOnce
    BY DEF OnceInv
  <1> QED BY <1>1, OnceHolds, PTL

-----------------------------------------------------------------------------
(* What the fields are compared with is what the library holds.            *)

(* With no answer to a write to come, what was read at this revision, or   *)
(* is about to be adopted as read at it, is the note.                      *)
ReadCurrent ==
  ~failed /\ open # None /\ open.id # 0 /\ wrote = 0 =>
    /\ open.fresh => open.read = rows[open.id].note
    /\ open.reading = "answered" /\ open.current => open.got = rows[open.id].note

(* The same notes, answers, and what was read of the note open.            *)
LEMMA StillCurrent ==
  ASSUME ReadCurrent, UNCHANGED <<rows, wrote, failed>>,
         open' # None => \/ open'.id = 0
                         \/ ~open'.fresh /\ (~open'.current \/ open'.reading # "answered")
                         \/ /\ open # None /\ open'.id = open.id
                            /\ (open'.fresh <=> open.fresh) /\ open'.read = open.read
                            /\ open'.reading = open.reading /\ (open'.current <=> open.current)
                            /\ open'.got = open.got
  PROVE  ReadCurrent'
  BY DEF ReadCurrent

(* What the user does reads nothing, and a note just opened has not been    *)
(* read.                                                                    *)
LEMMA UserIsCurrent ==
  ASSUME OnceInv, ReadCurrent, User
  PROVE  ReadCurrent'
  <1>1. EditorTyped
    BY DEF OnceInv
  <1>2. /\ UNCHANGED <<rows, wrote, failed>>
        /\ open' # None => \/ open' = open \/ open'.id = 0
                           \/ SameEditor(open, open') /\ open # None
                           \/ ~open'.fresh /\ open'.reading = "no"
    BY <1>1, UserDoes
  <1> QED BY <1>2, StillCurrent DEF SameEditor

(* A read answers the row there is; a write that runs is still to be        *)
(* adopted.                                                                 *)
LEMMA RunIsCurrent ==
  ASSUME OnceInv, ReadCurrent, RunJob
  PROVE  ReadCurrent'
  <1>0. /\ EditorTyped /\ ReadJobs /\ rows \in Seq(Row) /\ QueueOK(queue)
        /\ (open # None => OpenOK(open)) /\ wrote \in Nat
    BY DEF OnceInv, EditorTyped
  <1>1. PICK job : job = Head(queue)
    OBVIOUS
  <1>2. /\ queue # <<>> /\ (Ran(job) \/ Refused(job)) /\ (failed' \/ failed' = failed)
    BY <1>1 DEF RunJob, Refused
  <1>3. job \in Job /\ JobOK(job)
    BY <1>0, <1>1, <1>2, First
  <1> SUFFICES ASSUME ~failed', open' # None, open'.id # 0, wrote' = 0
               PROVE  /\ open'.fresh => open'.read = rows'[open'.id].note
                      /\ open'.reading = "answered" /\ open'.current
                           => open'.got = rows'[open'.id].note
    BY DEF ReadCurrent
  <1>4. wrote = 0 /\ wrote' = wrote
    <2>1. wrote' = wrote \/ wrote' = wrote + 1
      BY <1>2, <1>3, RanAnswers
    <2> QED BY <1>0, <2>1
  <1>5. \A id : RowOf(id) => rows'[id] = rows[id]
    <2>1. rows' # rows /\ job.op = "write" => wrote' = wrote + 1
      BY <1>2, <1>3, RanAnswers
    <2>2. \/ rows' = rows
          \/ job.op = "create" /\ \A id : RowOf(id) => rows'[id] = rows[id]
          \/ job.op = "write"
      BY <1>0, <1>2, <1>3, RanRows
    <2> QED BY <1>0, <1>4, <2>1, <2>2
  <1>6. CASE open' = open
    <2>1. RowOf(open.id) /\ ~failed
      BY <1>0, <1>2, <1>6 DEF OpenOK
    <2> QED BY <1>4, <1>5, <1>6, <2>1 DEF ReadCurrent
  <1>7. CASE /\ open # None /\ open.id # 0
             /\ \E got \in Note \cup {None} :
                  /\ open' = Answered(open, got)
                  /\ failed' \/ got = rows[open.id].note
    <2>1. PICK got \in Note \cup {None} : open' = Answered(open, got) /\ got = rows[open.id].note
      BY <1>7
    <2>2. OpenOK(open) /\ RowOf(open.id) /\ ~failed
      BY <1>0, <1>2, <1>7 DEF OpenOK
    <2>3. /\ open'.id = open.id /\ open'.read = open.read /\ open'.got = got
          /\ (open'.fresh <=> open.fresh)
      BY <1>7, <2>1, <2>2, ReadFields
    <2> QED BY <1>4, <1>5, <1>7, <2>1, <2>2, <2>3 DEF ReadCurrent
  <1> QED BY <1>0, <1>1, <1>2, <1>6, <1>7, RanOpen

(* A read adopted is of the rows there are, or is asked again.              *)
LEMMA FrameIsCurrent ==
  ASSUME OnceInv, ReadCurrent, Frame
  PROVE  ReadCurrent'
  <1>0. /\ EditorTyped /\ rows \in Seq(Row) /\ (open # None => OpenOK(open)) /\ wrote \in Nat
        /\ held \subseteq Bodies
    BY DEF OnceInv, EditorTyped
  <1>1. ASSUME NEW a \in created, AdoptCreated(a)
        PROVE  ReadCurrent'
    <2>1. UNCHANGED <<rows, wrote, failed>>
      BY <1>1 DEF AdoptCreated
    <2>2. /\ open' # None => open # None
          /\ a.id = 0 => open' = open
          /\ a.id # 0 /\ open' # None => ~open'.fresh /\ ~open'.current
      BY <1>0, <1>1, AdoptOpens
    <2> QED BY <2>1, <2>2, StillCurrent
  <1>2. CASE AdoptWrote
    <2>1. UNCHANGED <<rows, failed>> /\ open' = Bumped(open)
      BY <1>2 DEF AdoptWrote
    <2>2. open' # None => ~open'.fresh /\ ~open'.current
      BY <1>0, <2>1, BumpedFields
    <2> QED BY <2>1, <2>2 DEF ReadCurrent
  <1>3. CASE Ask
    <2>1. /\ open # None /\ open.id # 0 /\ open' = [open EXCEPT !.reading = "asked", !.current = TRUE]
          /\ ~open.fresh /\ UNCHANGED <<rows, wrote, failed>>
      BY <1>3 DEF Ask, Due, answers
    <2>2. open \in Opened
      BY <1>0, <2>1 DEF OpenOK
    <2>3. ~open'.fresh /\ open'.reading = "asked"
      BY <2>1, <2>2 DEF Opened
    <2> QED BY <2>1, <2>3, StillCurrent
  <1>4. CASE AdoptRead
    <2> DEFINE o == [open EXCEPT !.reading = "no", !.current = FALSE, !.got = None]
    <2>1. /\ open # None /\ open.reading = "answered"
          /\ open' = IF open.current THEN Adopted(o, open.got) ELSE o
          /\ UNCHANGED <<rows, wrote, failed>>
      BY <1>4 DEF AdoptRead, answers
    <2>2. o = [open EXCEPT !.reading = "no", !.current = FALSE, !.got = None]
      OBVIOUS
    <2> HIDE DEF o
    <2>3. OpenOK(open) /\ open \in Opened /\ open.got \in Note \cup {None}
      <3>1. OpenOK(open) /\ open \in Opened
        BY <1>0, <2>1 DEF OpenOK
      <3> QED BY <3>1, OpenFields
    <2>4. /\ OpenOK(o) /\ o # None /\ o.session = open.session /\ o.id = open.id /\ open.id # 0
          /\ RowOf(open.id) /\ o.reading = "no" /\ ~o.current /\ o.fresh = open.fresh
          /\ o.read = open.read
      BY <2>1, <2>2, <2>3, ReadTaken, Zenon
    <2>5. rows[open.id].note \in Note
      BY <1>0, <2>4, RowFields
    <2>6. CASE ~open.current
      <3>1. open' = o
        BY <2>1, <2>6
      <3> QED BY <2>1, <2>4, <3>1 DEF ReadCurrent
    <2>7. CASE open.current
      <3>1. open' = Adopted(o, open.got)
        BY <2>1, <2>7
      <3>2. CASE open.got = None
        <4>1. ~(~failed /\ wrote = 0)
          BY <2>1, <2>4, <2>5, <2>7, <3>2, Nones DEF ReadCurrent
        <4> QED BY <2>1, <4>1 DEF ReadCurrent
      <3>3. CASE open.got # None
        <4>1. /\ open'.id = open.id /\ open'.reading = "no" /\ open'.read = open.got
          BY <2>3, <2>4, <3>1, <3>3, ReadAdopted
        <4> QED BY <2>1, <2>4, <2>7, <4>1 DEF ReadCurrent
      <3> QED BY <3>2, <3>3
    <2> QED BY <2>6, <2>7
  <1>5. CASE WriteDraft \/ Exit \/ \E s \in files : Attach(s)
    <2>1. UNCHANGED <<rows, wrote, failed, open>>
      BY <1>5 DEF WriteDraft, Exit, Attach, editing, answers
    <2> QED BY <2>1, StillCurrent
  <1>6. ASSUME NEW h \in held, AdoptFormatted(h)
        PROVE  ReadCurrent'
    <2>1. PICK t \in {h.text, PrettyOf(h.text)} :
            IF open # None /\ open.session = h.session
            THEN open' = Saved(open, t).open
            ELSE open' = open
      BY <1>6 DEF AdoptFormatted
    <2>2. UNCHANGED <<rows, wrote, failed>>
      BY <1>6 DEF AdoptFormatted, answers
    <2>3. t \in Contents
      BY <1>0, <2>1, TextsAssumption DEF Bodies, PrettyOf
    <2>4. open' = open \/ (open # None /\ SameEditor(open, open'))
      BY <1>0, <2>1, <2>3, SavedAsks
    <2> QED BY <2>2, <2>4, StillCurrent DEF SameEditor
  <1> QED BY <1>1, <1>2, <1>3, <1>4, <1>5, <1>6 DEF Frame

(* What was read is current, or is read again.                              *)
LEMMA CurrentHolds == Spec => []ReadCurrent
  <1>1. Init => ReadCurrent
    BY DEF Init, ReadCurrent
  <1>2. OnceInv /\ ReadCurrent /\ [Next]_vars => ReadCurrent'
    <2>1. ASSUME ReadCurrent, UNCHANGED vars PROVE ReadCurrent'
      BY <2>1, StillCurrent DEF vars, editing, answers
    <2> QED BY <2>1, UserIsCurrent, RunIsCurrent, FrameIsCurrent DEF Next
  <1> QED BY <1>1, <1>2, OnceHolds, PTL DEF Spec

(* "Read again whenever the revision moves": with no error, and nothing of *)
(* its note on its way, the note the fields are compared with, so that     *)
(* what is unchanged is not written, is the one the library holds.         *)
THEOREM ReadsAreCurrent == Spec => []ReadIsCurrent
  <1>1. ReadCurrent => ReadIsCurrent
    BY DEF ReadCurrent, ReadIsCurrent, Settled
  <1> QED BY <1>1, CurrentHolds, PTL

-----------------------------------------------------------------------------
(* What the library holds at rest is what was left.                        *)

(* What was left of a session's note, or what Prettier makes of it.        *)
LeftOrPretty(m) == left[m] \cup {PrettyOf(t) : t \in left[m]}

(* A job that writes a session's note.                                     *)
Writes(k, m) ==
  k \in 1 .. Len(queue) /\ queue[k].op \in {"create", "write"} /\ queue[k].session = m

(* The last of them writes what was left; with none, it is what the note   *)
(* holds.                                                                  *)
LastIsLeft(m) ==
  /\ \A k : Writes(k, m) /\ (\A l : Writes(l, m) => l <= k)
       => queue[k].note.text \in LeftOrPretty(m)
  /\ (\A k : ~Writes(k, m)) =>
       \A i : RowOf(i) /\ rows[i].made = m => rows[i].note.text \in LeftOrPretty(m)

CreatedAs(m, t) ==
  \/ \E k : Writes(k, m) /\ queue[k].op = "create" /\ queue[k].note.text = t
  \/ \E a \in created : a.session = m /\ a.text = t

(* Or what waits for the creation differs from it, and will follow.        *)
WaitsBehind(m) ==
  \E c \in creating : c.session = m /\ c.waiting # Nothing /\ ~CreatedAs(m, c.waiting)

(* Or a body is held back, and what it will be compared with is the note.  *)
HeldOf(m) == {h \in held : rows[h.id].made = m}
Matches(o, note) ==
  /\ o.read # None => o.read.text = note.text
  /\ o.reading = "answered" /\ o.current => o.got = note
OpenMatches(m) ==
  \A i : RowOf(i) /\ rows[i].made = m /\ open # None /\ open.id = i
           => Matches(open, rows[i].note)
BodyFollows(m) ==
  /\ \A k : ~Writes(k, m)
  /\ ~Creating(m) /\ HeldOf(m) # {} /\ OpenMatches(m)

Coming(m) == LastIsLeft(m) \/ WaitsBehind(m) \/ BodyFollows(m)

(* What is held back, waits, or is in a draft was left; a body held back   *)
(* is of a note that was read; an editor with no note yet is the only one  *)
(* of its draft.                                                           *)
BodiesLeft ==
  \A h \in held :
    /\ h.text \in left[rows[h.id].made]
    /\ open # None /\ h.session = open.session => open.id = h.id /\ open.read # None
WaitingLeft == \A c \in creating : c.waiting # Nothing => c.waiting \in left[c.session]
DraftLeft ==
  open # None /\ open.id = 0 /\ ~Creating(open.session) => open.draft.text \in left[open.session]
DraftAlone ==
  open # None /\ open.id = 0 =>
    /\ \A k : Writes(k, open.session) => queue[k].op = "create"
    /\ \A a \in created : a.session = open.session => rows[a.id].note.text = a.text
    /\ \A h \in held : rows[h.id].made # open.session

SettleInv ==
  ~failed =>
    /\ \A a \in created : a.id # 0
    /\ BodiesLeft /\ WaitingLeft /\ DraftLeft /\ DraftAlone
    /\ \A m \in Sessions : Coming(m)

(* The same jobs write a session's note.                                   *)
SameWrites(m) ==
  /\ \A k : Writes(k, m)' <=> Writes(k, m)
  /\ \A k : Writes(k, m) => queue'[k] = queue[k]

SameNotes(m) ==
  \A i : (RowOf(i) /\ rows[i].made = m)' => RowOf(i) /\ rows[i].made = m /\ rows'[i] = rows[i]

SameCreation(m) ==
  /\ \A c : c.session = m => (c \in creating' <=> c \in creating)
  /\ \A a : a.session = m => (a \in created' <=> a \in created)

(* What is left stays left, and so does what is made of it.                *)
LEMMA LeftGrows ==
  ASSUME NEW m, left[m] \subseteq left'[m]
  PROVE  LeftOrPretty(m) \subseteq LeftOrPretty(m)'
  BY DEF LeftOrPretty, PrettyOf

(* A body formatted is still one that was left, formatted.                 *)
LEMMA LeftIsIn ==
  ASSUME NEW m, NEW t \in left[m]
  PROVE  t \in LeftOrPretty(m) /\ PrettyOf(t) \in LeftOrPretty(m)
  BY DEF LeftOrPretty

(* A session whose note a step leaves alone is as it was.                  *)
LEMMA LastStays ==
  ASSUME NEW m, LastIsLeft(m), SameWrites(m), SameNotes(m), left[m] \subseteq left'[m]
  PROVE  LastIsLeft(m)'
  <1>1. LeftOrPretty(m) \subseteq LeftOrPretty(m)'
    BY LeftGrows
  <1>2. \A k : Writes(k, m)' /\ (\A l : Writes(l, m)' => l <= k)
          => queue'[k].note.text \in LeftOrPretty(m)'
    BY <1>1 DEF LastIsLeft, SameWrites
  <1>3. (\A k : ~Writes(k, m)') =>
          \A i : (RowOf(i) /\ rows[i].made = m)' => rows'[i].note.text \in LeftOrPretty(m)'
    BY <1>1 DEF LastIsLeft, SameWrites, SameNotes
  <1> QED BY <1>2, <1>3 DEF LastIsLeft

(* A creation nothing touched creates the same note.                        *)
LEMMA CreatedAsStays ==
  ASSUME NEW m, SameWrites(m), SameCreation(m), NEW t
  PROVE  CreatedAs(m, t)' <=> CreatedAs(m, t)
  BY DEF CreatedAs, SameWrites, SameCreation

(* What is coming still is, where the note and its writes are the same.     *)
LEMMA ComingStays ==
  ASSUME NEW m, Coming(m), SameWrites(m), SameNotes(m), SameCreation(m),
         left[m] \subseteq left'[m], HeldOf(m) \subseteq HeldOf(m)',
         OpenMatches(m) => OpenMatches(m)'
  PROVE  Coming(m)'
  <1>1. CASE LastIsLeft(m)
    BY <1>1, LastStays DEF Coming
  <1>2. CASE WaitsBehind(m)
    <2>1. PICK c \in creating : c.session = m /\ c.waiting # Nothing /\ ~CreatedAs(m, c.waiting)
      BY <1>2 DEF WaitsBehind
    <2>2. c \in creating' /\ ~CreatedAs(m, c.waiting)'
      BY <2>1, CreatedAsStays DEF SameCreation
    <2> QED BY <2>1, <2>2 DEF WaitsBehind, Coming
  <1>3. CASE BodyFollows(m)
    <2>1. (\A k : ~Writes(k, m)') /\ ~Creating(m)'
      BY <1>3 DEF BodyFollows, SameWrites, Creating, SameCreation
    <2> QED BY <1>3, <2>1 DEF BodyFollows, Coming
  <1> QED BY <1>1, <1>2, <1>3 DEF Coming

(* A job sent for another session, or that writes nothing, is not its own. *)
LEMMA SentElsewhere ==
  ASSUME queue \in Seq(Job), NEW m,
         \/ queue' = queue
         \/ \E j \in Job : /\ queue' = Append(queue, j)
                           /\ j.op \notin {"create", "write"} \/ j.session # m
  PROVE  SameWrites(m)
  <1>1. CASE queue' = queue
    BY <1>1 DEF SameWrites, Writes
  <1>2. ASSUME NEW j \in Job, queue' = Append(queue, j),
               j.op \notin {"create", "write"} \/ j.session # m
        PROVE  SameWrites(m)
    <2>1. /\ Len(queue) \in Nat /\ Len(queue') = Len(queue) + 1 /\ queue'[Len(queue) + 1] = j
          /\ \A i \in 1 .. Len(queue) : queue'[i] = queue[i]
          /\ \A i \in 1 .. Len(queue') : i \in 1 .. Len(queue) \/ i = Len(queue) + 1
      BY <1>2, Sent
    <2> QED BY <1>2, <2>1 DEF SameWrites, Writes
  <1> QED BY <1>1, <1>2

(* The job sent last for a session writes what was left.                   *)
LEMMA SentLast ==
  ASSUME queue \in Seq(Job), NEW m, NEW j \in Job, queue' = Append(queue, j),
         j.op \in {"create", "write"}, j.session = m, j.note.text \in LeftOrPretty(m)'
  PROVE  LastIsLeft(m)'
  <1>1. /\ Len(queue) \in Nat /\ Len(queue') = Len(queue) + 1 /\ queue'[Len(queue) + 1] = j
        /\ \A i \in 1 .. Len(queue') : i \in 1 .. Len(queue) \/ i = Len(queue) + 1
    BY Sent
  <1> QED BY <1>1 DEF LastIsLeft, Writes

(* A session no job and no note is of.                                     *)
LEMMA Untouched ==
  ASSUME NEW m, \A k : ~Writes(k, m)', \A i : RowOf(i)' => rows'[i].made # m
  PROVE  LastIsLeft(m)'
  BY DEF LastIsLeft

(* What leaving a text asks for, of a note whose text it is.               *)
Drafted(o, note) == [o EXCEPT !.draft = note]
SavesAs(o, t, k) ==
  \/ /\ Creating(o.session) /\ k.open = o
     /\ k.asked.creating = Waiting(o.session, t) /\ k.asked.queue = queue
  \/ /\ ~Creating(o.session) /\ o.id = 0
     /\ \E note \in Note :
          /\ note.text = t /\ k.open = Drafted(o, note)
          /\ \/ /\ k.asked.creating = creating \cup {[session |-> o.session, waiting |-> Nothing]}
                /\ k.asked.queue = Append(queue, CreateJob(o.session, note))
             \/ ~WorthKeeping(note) /\ k.asked.creating = creating /\ k.asked.queue = queue
  \/ /\ ~Creating(o.session) /\ o.id # 0 /\ RowOf(o.id) /\ k.open = o
     /\ k.asked.creating = creating
     /\ \/ t = NoteOf(o).text /\ k.asked.queue = queue
        \/ k.asked.queue = Append(queue, WriteJob(o.id, t))

(* A save is one of four things: it waits, creates, writes, or has nothing  *)
(* to.                                                                      *)
LEMMA SavedForms ==
  ASSUME EditorTyped, NEW o, OpenOK(o), NEW t \in Contents, NEW k, k = Saved(o, t)
  PROVE  SavesAs(o, t, k)
  <1> DEFINE j == Saved(o, t)
             note == [o.draft EXCEPT !.text = t]
  <1>1. \/ /\ Creating(o.session)
           /\ j.asked.creating = Waiting(o.session, t) /\ j.asked.queue = queue /\ j.open = o
        \/ /\ ~Creating(o.session) /\ o.id = 0 /\ j.open = [o EXCEPT !.draft = note]
           /\ note \in Note /\ note.text = t
           /\ \/ /\ WorthKeeping(note)
                 /\ j.asked.creating = creating \cup {[session |-> o.session, waiting |-> Nothing]}
                 /\ j.asked.queue = Append(queue, CreateJob(o.session, note))
              \/ ~WorthKeeping(note) /\ j.asked.creating = creating /\ j.asked.queue = queue
        \/ /\ ~Creating(o.session) /\ RowOf(o.id) /\ j.open = o /\ j.asked.creating = creating
           /\ j.asked.queue = IF t = NoteOf(o).text THEN queue
                              ELSE Append(queue, WriteJob(o.id, t))
    BY SavedIs
  <1>2. k = j
    OBVIOUS
  <1>3. RowOf(o.id) => o.id # 0
    BY RowFields DEF EditorTyped
  <1>7. [o EXCEPT !.draft = note] = Drafted(o, note)
    BY DEF Drafted
  <1> HIDE DEF j, note
  <1>4. CASE RowOf(o.id) /\ ~Creating(o.session)
    BY <1>1, <1>2, <1>3, <1>4 DEF SavesAs
  <1>5. CASE Creating(o.session)
    BY <1>1, <1>2, <1>5 DEF SavesAs
  <1>6. CASE o.id = 0 /\ ~Creating(o.session)
    BY <1>1, <1>2, <1>3, <1>6, <1>7 DEF SavesAs
  <1> QED BY <1>1, <1>4, <1>5, <1>6

(* A field left: whatever may have been left before it, what is to come to *)
(* its note, and to any other, is still what was left.                     *)
LEMMA Departs ==
  ASSUME OnceInv, ReadCurrent, SettleInv, ~failed,
         open # None, NEW t \in Contents, NEW k, k = Saved(open, t),
         queue' = k.asked.queue, creating' = k.asked.creating,
         UNCHANGED <<rows, created, held>>,
         open' = None \/ open' = k.open \/ open'.id = 0,
         t \in left'[Made(open)],
         left[Made(open)] \subseteq left'[Made(open)] \/ Settled(Made(open)) \/ Follows(open, t),
         NEW m \in Sessions, m # Made(open) => left[m] \subseteq left'[m]
  PROVE  Coming(m)'
  <1>0. /\ EditorTyped /\ CreationsOnce /\ DraftUnborn /\ CreatedOnce /\ Coming(m)
        /\ DraftAlone /\ (\A a \in created : a.id # 0)
        /\ queue \in Seq(Job) /\ rows \in Seq(Row) /\ creating \subseteq Creations
        /\ OpenOK(open) /\ open.session \in Sessions
    BY OpenFields DEF OnceInv, SettleInv, EditorTyped, QueueOK, OpenOK
  <1>13. PICK M : M = Made(open)
    OBVIOUS
  <1>1. /\ M \in Sessions /\ (open.id = 0 => M = open.session)
        /\ open.id # 0 => M = rows[open.id].made /\ RowOf(open.id)
    BY <1>0, <1>13, MadeIs
  <1>2. /\ SameNotes(m) /\ HeldOf(m) \subseteq HeldOf(m)'
        /\ OpenMatches(m) => OpenMatches(m)'
    <2>1. open' # None => open'.id = 0 \/ open' = open
      <3>1. k.open.id = open.id /\ (open.id # 0 => k.open = open)
        BY <1>0, SavedIsTyped
      <3> QED BY <3>1
    <2>2. ~RowOf(0)
      BY <1>0, RowFields
    <2>3. OpenMatches(m) => OpenMatches(m)'
      BY <2>1, <2>2 DEF OpenMatches, RowOf
    <2> QED BY <2>3 DEF SameNotes, HeldOf, RowOf
  <1>3. t \in LeftOrPretty(M)'
    BY <1>13 DEF LeftOrPretty
  <1>4. \/ /\ Creating(open.session) /\ creating' = Waiting(open.session, t) /\ queue' = queue
        \/ /\ ~Creating(open.session) /\ open.id = 0
           /\ creating' = creating \cup {[session |-> open.session, waiting |-> Nothing]}
           /\ \E note \in Note :
                note.text = t /\ queue' = Append(queue, CreateJob(open.session, note))
        \/ /\ ~Creating(open.session) /\ open.id = 0 /\ creating' = creating /\ queue' = queue
        \/ /\ open.id # 0 /\ creating' = creating
           /\ \/ t = NoteOf(open).text /\ queue' = queue
              \/ queue' = Append(queue, WriteJob(open.id, t))
    <2>1. SavesAs(open, t, k)
      BY <1>0, SavedForms
    <2> QED BY <2>1 DEF SavesAs
  <1>5. ASSUME SameWrites(m), m # M PROVE Coming(m)'
    <2>1. SameCreation(m)
      <3>1. ASSUME NEW c, c.session = m, open.session # m
            PROVE  c \in creating' <=> c \in creating
        <4>1. CASE creating' = creating
          BY <4>1
        <4>2. CASE creating' = creating \cup {[session |-> open.session, waiting |-> Nothing]}
          BY <3>1, <4>2
        <4>3. CASE creating' = Waiting(open.session, t)
          <5>1. c \in creating => c \in creating'
            BY <3>1, <4>3 DEF Waiting
          <5>2. ASSUME c \in creating' PROVE c \in creating
            <6>1. PICK d \in creating :
                    c = IF d.session = open.session THEN [d EXCEPT !.waiting = t] ELSE d
              BY <4>3, <5>2 DEF Waiting
            <6>2. CASE d.session = open.session
              BY <1>0, <3>1, <6>1, <6>2 DEF Creations
            <6> QED BY <6>1, <6>2
          <5> QED BY <5>1, <5>2
        <4> QED BY <1>4, <4>1, <4>2, <4>3
      <3>2. open.session = m => creating' = creating
        <4>1. open.session = m => open.id # 0 /\ ~Creating(open.session)
          BY <1>0, <1>1, <1>5 DEF DraftUnborn
        <4> QED BY <1>4, <4>1
      <3> QED BY <3>1, <3>2 DEF SameCreation
    <2> QED BY <1>0, <1>2, <1>5, <2>1, <1>13, ComingStays
  <1>6. CASE m # M
    <2>1. CASE queue' = queue
      BY <1>0, <1>5, <1>6, <2>1, SentElsewhere
    <2>2. ASSUME open.id = 0, NEW note \in Note,
                 queue' = Append(queue, CreateJob(open.session, note))
          PROVE  Coming(m)'
      <3>1. /\ CreateJob(open.session, note) \in Job
            /\ CreateJob(open.session, note).session = open.session
        BY <1>0, <2>2, Jobs
      <3> QED BY <1>0, <1>1, <1>5, <1>6, <2>2, <3>1, SentElsewhere
    <2>3. CASE open.id # 0 /\ queue' = Append(queue, WriteJob(open.id, t))
      <3>1. /\ WriteJob(open.id, t) \in Job
            /\ WriteJob(open.id, t).session = rows[open.id].made
        BY <1>0, <1>1, <2>3, Jobs
      <3> QED BY <1>0, <1>1, <1>5, <1>6, <2>3, <3>1, SentElsewhere
    <2> QED BY <1>4, <2>1, <2>2, <2>3
  <1>7. ASSUME m = M, NEW j \in Job, queue' = Append(queue, j),
               j.op \in {"create", "write"}, j.session = m, j.note.text = t
        PROVE  Coming(m)'
    BY <1>0, <1>3, <1>7, SentLast DEF Coming
  <1>8. CASE m = M /\ Creating(open.session) /\ creating' = Waiting(open.session, t) /\ queue' = queue
    <2>1. open.id = 0 /\ m = open.session
      BY <1>0, <1>1, <1>8 DEF DraftUnborn
    <2>2. CASE ~CreatedAs(m, t)
      <3>1. PICK d \in creating : d.session = m
        BY <1>8, <2>1 DEF Creating
      <3>2. PICK c \in creating' : c.session = m /\ c.waiting = t
        BY <1>0, <1>8, <2>1, <3>1, WaitingIs
      <3>3. ~CreatedAs(m, t)'
        BY <1>8, <2>2 DEF CreatedAs, Writes
      <3> QED BY <3>2, <3>3, NothingAssumption DEF Coming, WaitsBehind
    <2>3. CASE CreatedAs(m, t)
      <3>1. ASSUME NEW l, Writes(l, m) PROVE queue[l].note.text = t
        <4>1. queue[l].op = "create" /\ l \in 1 .. Len(queue) /\ queue[l].session = m
          BY <1>0, <2>1, <3>1 DEF DraftAlone, Writes
        <4>2. \A a \in created : a.session # m
          BY <1>0, <4>1 DEF CreationsOnce
        <4> QED BY <1>0, <2>3, <4>1, <4>2 DEF CreatedAs, CreationsOnce, Writes
      <3>2. ASSUME \A l : ~Writes(l, m), NEW i, RowOf(i), rows[i].made = m
            PROVE  rows[i].note.text = t
        <4>1. PICK a \in created : a.session = m /\ a.text = t
          BY <2>3, <3>2 DEF CreatedAs
        <4>2. RowOf(a.id) /\ rows[a.id].made = m /\ rows[a.id].note.text = t
          BY <1>0, <2>1, <4>1 DEF EditorTyped, DraftAlone
        <4> QED BY <1>0, <3>2, <4>2 DEF CreatedOnce, RowOf
      <3>3. /\ \A l : Writes(l, m)' <=> Writes(l, m)
            /\ \A i : (RowOf(i) /\ rows[i].made = m)' <=> (RowOf(i) /\ rows[i].made = m)
        BY <1>8 DEF Writes, RowOf
      <3> QED BY <1>3, <1>8, <3>1, <3>2, <3>3 DEF Coming, LastIsLeft
    <2> QED BY <2>2, <2>3
  <1>9. CASE m = M /\ ~Creating(open.session) /\ open.id = 0 /\ creating' = creating /\ queue' = queue
    <2>1. Unborn(m) /\ m = open.session
      BY <1>0, <1>1, <1>9 DEF DraftUnborn
    <2>2. \A l : ~Writes(l, m)
      <3>1. \A l : Writes(l, m) => queue[l].op = "create" /\ Creating(m)
        BY <1>0, <1>9, <2>1 DEF DraftAlone, CreationsOnce, Writes
      <3> QED BY <1>9, <2>1, <3>1
    <2> QED BY <1>9, <2>1, <2>2, Untouched DEF Coming, Unborn, RowOf, Writes
  <1>10. CASE m = M /\ open.id # 0 /\ creating' = creating /\ t = NoteOf(open).text /\ queue' = queue
    <2>1. ~Follows(open, t)
      BY <1>0, <1>10 DEF Follows, DraftUnborn
    <2>2. CASE left[M] \subseteq left'[M]
      <3>1. SameWrites(m) /\ SameCreation(m)
        BY <1>0, <1>10, SentElsewhere DEF SameCreation
      <3> QED BY <1>0, <1>2, <1>10, <2>2, <3>1, ComingStays
    <2>3. CASE Settled(M)
      <3>1. wrote = 0 /\ open.fresh
        BY <1>1, <1>10, <2>3 DEF Settled
      <3>2. open.read = rows[open.id].note /\ RowOf(open.id) /\ rows[open.id].note \in Note
        BY <1>0, <1>1, <1>10, <3>1, RowFields DEF ReadCurrent
      <3>3. rows[open.id].note.text = t
        BY <1>10, <3>2, Nones DEF NoteOf
      <3>4. \A l : ~Writes(l, m)
        BY <1>10, <2>3 DEF Settled, Writes
      <3>5. \A i : RowOf(i) /\ rows[i].made = m => i = open.id
        BY <1>0, <1>1, <1>10, <3>2 DEF CreatedOnce, RowOf
      <3>6. (\A l : ~Writes(l, m)') /\ \A i : (RowOf(i) /\ rows[i].made = m)' =>
                                                rows'[i].note.text = t
        BY <1>10, <3>3, <3>4, <3>5 DEF Writes, RowOf
      <3> QED BY <1>3, <1>10, <3>6 DEF Coming, LastIsLeft
    <2> QED BY <1>13, <2>1, <2>2, <2>3
  <1>11. ASSUME m = M, open.id = 0, NEW note \in Note, note.text = t,
                queue' = Append(queue, CreateJob(open.session, note))
         PROVE  Coming(m)'
    <2> DEFINE j == CreateJob(open.session, note)
    <2>1. j \in Job /\ j.op = "create" /\ j.session = m /\ j.note.text = t
      BY <1>0, <1>1, <1>11, Jobs
    <2>2. queue' = Append(queue, j)
      BY <1>11
    <2> HIDE DEF j
    <2> QED BY <1>7, <1>11, <2>1, <2>2
  <1>12. CASE m = M /\ open.id # 0 /\ queue' = Append(queue, WriteJob(open.id, t))
    <2> DEFINE j == WriteJob(open.id, t)
    <2>1. j \in Job /\ j.op = "write" /\ j.session = m /\ j.note.text = t
      BY <1>0, <1>1, <1>12, Jobs
    <2>2. queue' = Append(queue, j)
      BY <1>12
    <2> HIDE DEF j
    <2> QED BY <1>7, <1>12, <2>1, <2>2
  <1> QED BY <1>4, <1>6, <1>8, <1>9, <1>10, <1>11, <1>12

(* What waits, and what is held back, is still what was left; and a draft  *)
(* is still alone to be written.                                           *)
LEMMA DepartsLeft ==
  ASSUME OnceInv, SettleInv, ~failed,
         open # None, NEW t \in Contents, NEW k, k = Saved(open, t),
         queue' = k.asked.queue, creating' = k.asked.creating,
         UNCHANGED <<rows, created, held>>,
         NEW s, s = open.session, NEW M, M = Made(open), t \in left'[M],
         left[M] \subseteq left'[M] \/ Settled(M) \/ Follows(open, t),
         \A m \in Sessions \ {M} : Known(m) => left[m] \subseteq left'[m]
  PROVE  /\ WaitingLeft'
         /\ \A h \in held : h.text \in left'[rows[h.id].made]
         /\ open.id = 0 => \A l : Writes(l, s)' => queue'[l].op = "create"
         /\ open.id = 0 => Creating(s)' \/ k.open.draft.text = t
  <1>0. /\ EditorTyped /\ DraftUnborn /\ DraftAlone /\ BodiesLeft /\ WaitingLeft
        /\ queue \in Seq(Job) /\ rows \in Seq(Row) /\ creating \subseteq Creations
        /\ OpenOK(open) /\ open.session \in Sessions
        /\ \A h \in held : RowOf(h.id)
        /\ KnownSessions
    BY OpenFields DEF OnceInv, SettleInv, EditorTyped, QueueOK, OpenOK
  <1>1. /\ M \in Sessions /\ (open.id = 0 => M = s)
        /\ open.id # 0 => M = rows[open.id].made /\ RowOf(open.id)
    BY <1>0, MadeIs
  <1>2. SavesAs(open, t, k)
    BY <1>0, SavedForms
  <1>3. \A h \in held : h.text \in left'[rows[h.id].made]
    <2> SUFFICES ASSUME NEW h \in held PROVE h.text \in left'[rows[h.id].made]
      OBVIOUS
    <2>1. h.text \in left[rows[h.id].made] /\ rows[h.id].made \in Sessions
      BY <1>0, RowFields DEF BodiesLeft
    <2>2. CASE rows[h.id].made = M
      <3>1. left[M] \subseteq left'[M]
        BY <2>2 DEF Settled, Follows
      <3> QED BY <2>1, <2>2, <3>1
    <2>3. Known(rows[h.id].made)
      BY <1>0 DEF KnownSessions, RowOf
    <2> QED BY <2>1, <2>2, <2>3
  <1>4. ASSUME NEW d \in creating, d.waiting # Nothing, d.session # s
        PROVE  d.waiting \in left'[d.session]
    <2>1. d.waiting \in left[d.session] /\ d.session \in Sessions
      BY <1>0, <1>4 DEF WaitingLeft, Creations
    <2>2. CASE d.session = M
      <3>1. left[M] \subseteq left'[M]
        BY <1>4, <2>2 DEF Settled, Follows, Creating
      <3> QED BY <2>1, <2>2, <3>1
    <2>3. Known(d.session)
      BY <1>0 DEF KnownSessions
    <2> QED BY <2>1, <2>2, <2>3
  <1>5. open.id = 0 => \A l : Writes(l, s) => queue[l].op = "create"
    BY <1>0 DEF DraftAlone
  <1>6. CASE Creating(s) /\ creating' = Waiting(s, t) /\ queue' = queue
    <2>1. open.id = 0 /\ M = s
      BY <1>0, <1>1, <1>6 DEF DraftUnborn
    <2>2. ASSUME NEW c \in creating', c.waiting # Nothing
          PROVE  c.waiting \in left'[c.session]
      <3>1. PICK d \in creating :
              c.session = d.session /\ c.waiting = IF d.session = s THEN t ELSE d.waiting
        BY <1>0, <1>6, WaitingIs
      <3> QED BY <1>4, <2>1, <2>2, <3>1
    <2>3. \A l : Writes(l, s)' => queue'[l].op = "create"
      BY <1>5, <1>6, <2>1 DEF Writes
    <2>4. Creating(s)'
      <3>1. PICK d \in creating : d.session = s
        BY <1>6 DEF Creating
      <3> QED BY <1>0, <1>6, <3>1, WaitingIs DEF Creating
    <2> QED BY <1>3, <2>2, <2>3, <2>4 DEF WaitingLeft
  <1>7. ASSUME ~Creating(s), creating' = creating
        PROVE  WaitingLeft'
    <2>1. \A c \in creating : c.session # s
      BY <1>7 DEF Creating
    <2> QED BY <1>4, <1>7, <2>1 DEF WaitingLeft
  <1>8. ASSUME ~Creating(s), open.id = 0, NEW note \in Note, note.text = t,
               k.open = Drafted(open, note),
               \/ /\ creating' = creating \cup {[session |-> s, waiting |-> Nothing]}
                  /\ queue' = Append(queue, CreateJob(s, note))
               \/ creating' = creating /\ queue' = queue
        PROVE  /\ WaitingLeft'
               /\ \A l : Writes(l, s)' => queue'[l].op = "create"
               /\ k.open.draft.text = t
    <2>1. WaitingLeft'
      <3> DEFINE one == [session |-> s, waiting |-> Nothing]
      <3>1. one.waiting = Nothing /\ (creating' = creating \cup {one} \/ creating' = creating)
        BY <1>8
      <3> HIDE DEF one
      <3>2. CASE creating' = creating \cup {one}
        <4>1. \A c \in creating : c.session # s
          BY <1>8 DEF Creating
        <4> QED BY <1>4, <3>1, <3>2, <4>1 DEF WaitingLeft
      <3> QED BY <1>7, <1>8, <3>1, <3>2
    <2>2. \A l : Writes(l, s)' => queue'[l].op = "create"
      <3>1. CASE queue' = queue
        BY <1>5, <1>8, <3>1 DEF Writes
      <3>2. CASE queue' = Append(queue, CreateJob(s, note))
        <4> DEFINE j == CreateJob(s, note)
        <4>1. j \in Job /\ j.op = "create" /\ queue' = Append(queue, j)
          BY <1>0, <3>2, Jobs
        <4> HIDE DEF j
        <4>2. \A l \in 1 .. Len(queue') :
                (l \in 1 .. Len(queue) /\ queue'[l] = queue[l]) \/ queue'[l] = j
          BY <1>0, <4>1, Sent
        <4> QED BY <1>5, <1>8, <4>1, <4>2 DEF Writes
      <3> QED BY <1>8, <3>1, <3>2
    <2>3. k.open.draft.text = t
      <3>1. Drafted(open, note).draft = note
        BY <1>0 DEF Drafted, OpenOK, Opened
      <3> QED BY <1>8, <3>1
    <2> QED BY <2>1, <2>2, <2>3
  <1>9. CASE ~Creating(s) /\ open.id # 0 /\ creating' = creating
    BY <1>3, <1>7, <1>9
  <1> QED BY <1>2, <1>3, <1>6, <1>8, <1>9 DEF SavesAs

(* The editor after it: closed, or the same.                               *)
LEMMA SavedOpens ==
  ASSUME EditorTyped, open # None, NEW t \in Contents, NEW k, k = Saved(open, t)
  PROVE  /\ k.open # None /\ k.open.session = open.session /\ k.open.id = open.id
         /\ k.open.read = open.read /\ OpenOK(k.open)
         /\ (open.id # 0 => k.open = open)
  <1>1. OpenOK(open)
    BY DEF EditorTyped
  <1>2. SameEditor(open, k.open)
    BY <1>1, SavedAsks
  <1>3. open.id # 0 => k.open = open
    BY <1>1, SavedForms DEF SavesAs
  <1> QED BY <1>2, <1>3 DEF SameEditor

(* What was left is kept by a field left, in the editor or as it closes.   *)
LEMMA SavedIsSettled ==
  ASSUME OnceInv, ReadCurrent, SettleInv, ~failed, UNCHANGED <<rows, created, held>>,
         open # None, NEW t \in Contents, NEW k, k = Saved(open, t),
         queue' = k.asked.queue, creating' = k.asked.creating,
         open' = None \/ open' = k.open,
         Leaves(open, t, Follows(open, t))
  PROVE  SettleInv'
  <1>0. EditorTyped /\ OpenOK(open) /\ rows \in Seq(Row) /\ (\A a \in created : a.id # 0)
        /\ BodiesLeft /\ DraftAlone
    BY DEF OnceInv, SettleInv, EditorTyped
  <1>1. PICK M, s : M = Made(open) /\ s = open.session
    OBVIOUS
  <1>2. /\ t \in left'[M]
        /\ \A m \in Sessions \ {M} : left'[m] = left[m]
        /\ left[M] \subseteq left'[M] \/ Settled(M) \/ Follows(open, t)
    BY <1>0, <1>1, LeavesIs
  <1>3. ASSUME NEW m \in Sessions PROVE Coming(m)'
    <2>1. m # M => left[m] \subseteq left'[m]
      BY <1>2
    <2>2. open' = None \/ open' = k.open \/ open'.id = 0
      OBVIOUS
    <2> QED BY <1>1, <1>2, <2>1, <2>2, Departs
  <1>4. /\ WaitingLeft'
        /\ \A h \in held : h.text \in left'[rows[h.id].made]
        /\ open.id = 0 => \A l : Writes(l, s)' => queue'[l].op = "create"
        /\ open.id = 0 => Creating(s)' \/ k.open.draft.text = t
    BY <1>1, <1>2, DepartsLeft
  <1>5. open' # None =>
          /\ open' = k.open /\ open'.session = s /\ open'.id = open.id /\ open'.read = open.read
    BY <1>0, <1>1, SavedOpens
  <1>6. open.id = 0 => M = s
    BY <1>0, <1>1, MadeIs
  <1>7. BodiesLeft'
    BY <1>0, <1>1, <1>4, <1>5 DEF BodiesLeft
  <1>8. DraftLeft'
    BY <1>2, <1>4, <1>5, <1>6 DEF DraftLeft
  <1>9. DraftAlone'
    BY <1>0, <1>1, <1>4, <1>5 DEF DraftAlone
  <1> QED BY <1>0, <1>3, <1>4, <1>7, <1>8, <1>9 DEF SettleInv

(* And by one held back.                                                   *)
LEMMA HeldIsSettled ==
  ASSUME OnceInv, ReadCurrent, SettleInv, ~failed, UNCHANGED <<rows, created, queue, creating>>,
         open # None, open.read # None, NEW t \in Contents,
         held' = held \cup {[session |-> open.session, id |-> open.id, text |-> t]},
         open' = None \/ open' = open,
         Leaves(open, t, FALSE)
  PROVE  SettleInv'
  <1>0. /\ EditorTyped /\ OpenOK(open) /\ rows \in Seq(Row) /\ (\A a \in created : a.id # 0)
        /\ BodiesLeft /\ DraftAlone /\ WaitingLeft /\ \A m \in Sessions : Coming(m)
        /\ creating \subseteq Creations /\ \A h \in held : RowOf(h.id)
    BY DEF OnceInv, SettleInv, EditorTyped
  <1>1. PICK M, b : /\ M = Made(open)
                    /\ b = [session |-> open.session, id |-> open.id, text |-> t]
    OBVIOUS
  <1>2. open.id # 0 /\ RowOf(open.id) /\ M = rows[open.id].made /\ M \in Sessions
    BY <1>0, <1>1, MadeIs DEF OpenOK
  <1>3. /\ held' = held \cup {b}
        /\ b.session = open.session /\ b.id = open.id /\ b.text = t
    BY <1>1
  <1>4. /\ t \in left'[M]
        /\ \A m \in Sessions \ {M} : left'[m] = left[m]
        /\ left[M] \subseteq left'[M] \/ Settled(M)
    BY <1>0, <1>1, LeavesIs
  <1>5. BodiesLeft'
    <2>1. ASSUME NEW h \in held PROVE h.text \in left'[rows[h.id].made]
      <3>1. h.text \in left[rows[h.id].made] /\ rows[h.id].made \in Sessions
        BY <1>0, RowFields DEF BodiesLeft
      <3>2. Settled(M) => rows[h.id].made # M
        BY DEF Settled
      <3> QED BY <1>4, <3>1, <3>2
    <2> QED BY <1>0, <1>2, <1>3, <1>4, <2>1 DEF BodiesLeft
  <1>6. WaitingLeft'
    <2> SUFFICES ASSUME NEW c \in creating, c.waiting # Nothing
                 PROVE  c.waiting \in left'[c.session]
      BY DEF WaitingLeft
    <2>1. c.waiting \in left[c.session] /\ c.session \in Sessions
      BY <1>0 DEF WaitingLeft, Creations
    <2>2. Settled(M) => c.session # M
      BY DEF Settled, Creating
    <2> QED BY <1>4, <2>1, <2>2
  <1>7. DraftLeft' /\ DraftAlone'
    BY <1>2 DEF DraftLeft, DraftAlone
  <1>8. ASSUME NEW m \in Sessions, left[m] \subseteq left'[m] PROVE Coming(m)'
    <2>1. SameWrites(m) /\ SameNotes(m) /\ SameCreation(m)
      BY DEF SameWrites, Writes, SameNotes, RowOf, SameCreation
    <2>2. HeldOf(m) \subseteq HeldOf(m)'
      BY <1>3 DEF HeldOf
    <2>3. OpenMatches(m) => OpenMatches(m)'
      BY DEF OpenMatches, RowOf
    <2> QED BY <1>0, <1>8, <2>1, <2>2, <2>3, ComingStays
  <1>9. ASSUME Settled(M) PROVE Coming(M)'
    <2>1. (\A k : ~Writes(k, M)') /\ ~Creating(M)'
      BY <1>9 DEF Settled, Writes, Creating
    <2>2. b \in HeldOf(M)'
      BY <1>2, <1>3 DEF HeldOf
    <2>3. open.fresh /\ wrote = 0
      BY <1>2, <1>9 DEF Settled
    <2>4. Matches(open, rows[open.id].note)
      BY <1>2, <2>3 DEF ReadCurrent, Matches
    <2>5. OpenMatches(M)'
      BY <2>4 DEF OpenMatches, RowOf
    <2> QED BY <2>1, <2>2, <2>5 DEF BodyFollows, Coming
  <1>10. \A m \in Sessions : Coming(m)'
    <2> SUFFICES ASSUME NEW m \in Sessions PROVE Coming(m)'
      OBVIOUS
    <2> QED BY <1>4, <1>8, <1>9
  <1> QED BY <1>0, <1>5, <1>6, <1>7, <1>10 DEF SettleInv

(* A session not given yet is that of nothing.                             *)
LEMMA NewIsUnused ==
  ASSUME OnceInv, NEW s, ~Known(s)
  PROVE  /\ \A k : ~Writes(k, s)
         /\ \A i : RowOf(i) => rows[i].made # s
         /\ ~Creating(s) /\ \A a \in created : a.session # s
         /\ \A h \in held : rows[h.id].made # s /\ h.session # s
         /\ open # None => open.session # s
  <1>1. KnownSessions /\ CreationsOnce /\ EditorTyped
    BY DEF OnceInv
  <1>2. ~Creating(s)
    BY <1>1 DEF KnownSessions, Creating
  <1>3. \A h \in held : RowOf(h.id)
    BY <1>1 DEF EditorTyped
  <1> QED BY <1>1, <1>2, <1>3 DEF KnownSessions, CreationsOnce, Writes, RowOf

(* A draft written, whatever of it changed but its text, or nothing asked. *)
LEMMA DraftIsSettled ==
  ASSUME OnceInv, SettleInv, ~failed, UNCHANGED <<rows, created, held, left>>,
         open # None, open.id = 0, NEW s, s = open.session,
         open' # None, open'.session = s, open'.id = 0, open'.draft.text = open.draft.text,
         \/ queue' = queue /\ creating' = creating
         \/ /\ ~Creating(s) /\ creating' = creating \cup {[session |-> s, waiting |-> Nothing]}
            /\ \E note \in Note : /\ note.text = open.draft.text
                                  /\ queue' = Append(queue, CreateJob(s, note))
  PROVE  SettleInv'
  <1>0. /\ EditorTyped /\ OpenOK(open) /\ rows \in Seq(Row) /\ (\A a \in created : a.id # 0)
        /\ BodiesLeft /\ DraftAlone /\ WaitingLeft /\ DraftLeft /\ \A m \in Sessions : Coming(m)
        /\ queue \in Seq(Job) /\ s \in Sessions
    BY OpenFields DEF OnceInv, SettleInv, EditorTyped, QueueOK, OpenOK
  <1>1. ~RowOf(0)
    BY DEF RowOf
  <1>2. \A h \in held : h.session # s
    BY <1>0, <1>1 DEF BodiesLeft, EditorTyped
  <1>3. BodiesLeft'
    BY <1>0, <1>2 DEF BodiesLeft
  <1>4. WaitingLeft' /\ DraftLeft' /\ \A x : Creating(x) => Creating(x)'
    <2> DEFINE one == [session |-> s, waiting |-> Nothing]
    <2>1. /\ one.waiting = Nothing /\ one.session = s
          /\ creating' = creating \/ creating' = creating \cup {one}
      OBVIOUS
    <2> HIDE DEF one
    <2> QED BY <1>0, <2>1 DEF WaitingLeft, DraftLeft, Creating
  <1>5. ASSUME NEW m \in Sessions, SameWrites(m), SameCreation(m)
        PROVE  Coming(m)'
    <2>1. SameNotes(m)
      BY DEF SameNotes, RowOf
    <2>2. HeldOf(m) \subseteq HeldOf(m)' /\ left[m] \subseteq left'[m]
      BY DEF HeldOf
    <2>3. OpenMatches(m) => OpenMatches(m)'
      BY <1>1 DEF OpenMatches, RowOf
    <2> QED BY <1>0, <1>5, <2>1, <2>2, <2>3, ComingStays
  <1>6. CASE queue' = queue /\ creating' = creating
    <2>1. \A m \in Sessions : Coming(m)'
      <3> SUFFICES ASSUME NEW m \in Sessions PROVE Coming(m)'
        OBVIOUS
      <3>1. SameWrites(m) /\ SameCreation(m)
        BY <1>6 DEF SameWrites, Writes, SameCreation
      <3> QED BY <1>5, <3>1
    <2>2. DraftAlone'
      BY <1>0, <1>6 DEF DraftAlone, Writes
    <2> QED BY <1>0, <1>3, <1>4, <2>1, <2>2 DEF SettleInv
  <1>7. ASSUME ~Creating(s), creating' = creating \cup {[session |-> s, waiting |-> Nothing]},
               NEW note \in Note, note.text = open.draft.text,
               NEW j, j = CreateJob(s, note), queue' = Append(queue, j)
        PROVE  SettleInv'
    <2>1. j \in Job /\ j.op = "create" /\ j.session = s /\ j.note = note
      BY <1>0, <1>7, Jobs
    <2>2. DraftAlone'
      <3>1. \A l \in 1 .. Len(queue') :
              (l \in 1 .. Len(queue) /\ queue'[l] = queue[l]) \/ queue'[l] = j
        BY <1>0, <1>7, <2>1, Sent
      <3>2. \A l : Writes(l, s)' => queue'[l].op = "create"
        BY <1>0, <2>1, <3>1 DEF DraftAlone, Writes
      <3> QED BY <1>0, <3>2 DEF DraftAlone
    <2>3. Coming(s)'
      <3>1. j.note.text \in LeftOrPretty(s)'
        BY <1>0, <1>7, <2>1 DEF DraftLeft, LeftOrPretty
      <3> QED BY <1>0, <1>7, <2>1, <3>1, SentLast DEF Coming
    <2>4. ASSUME NEW m \in Sessions, m # s PROVE Coming(m)'
      <3>1. SameWrites(m)
        BY <1>0, <1>7, <2>1, <2>4, SentElsewhere
      <3>2. SameCreation(m)
        BY <1>7, <2>4 DEF SameCreation
      <3> QED BY <1>5, <3>1, <3>2
    <2> QED BY <1>0, <1>3, <1>4, <2>2, <2>3, <2>4 DEF SettleInv
  <1> QED BY <1>6, <1>7

(* A note open for the first time: nothing of it was read.                 *)
LEMMA OpenIsSettled ==
  ASSUME OnceInv, SettleInv, ~failed, NEW id \in 1 .. Len(rows), OpenNote(id)
  PROVE  SettleInv'
  <1>0. /\ EditorTyped /\ rows \in Seq(Row) /\ (\A a \in created : a.id # 0)
        /\ BodiesLeft /\ WaitingLeft /\ \A m \in Sessions : Coming(m)
    BY DEF OnceInv, SettleInv, EditorTyped
  <1>1. /\ sessions < MaxSessions /\ open' = Opening(NewSession, id, None) /\ RowOf(id)
        /\ UNCHANGED <<rows, queue, creating, created, held, left>>
    BY DEF OpenNote, answers, RowOf
  <1>2. /\ open' # None /\ open'.session = NewSession /\ open'.id = id /\ id # 0
        /\ open'.read = None /\ open'.reading = "no"
    BY <1>0, <1>1, NewEditor, RowFields
  <1>3. ~Known(NewSession)
    BY <1>0, <1>1, NewSessions DEF Known, EditorTyped
  <1>4. BodiesLeft' /\ WaitingLeft'
    BY <1>0, <1>1, <1>2, <1>3, NewIsUnused DEF BodiesLeft, WaitingLeft
  <1>5. DraftLeft' /\ DraftAlone'
    BY <1>2 DEF DraftLeft, DraftAlone
  <1>6. \A m \in Sessions : Coming(m)'
    <2> SUFFICES ASSUME NEW m \in Sessions PROVE Coming(m)'
      OBVIOUS
    <2>1. SameWrites(m) /\ SameNotes(m) /\ SameCreation(m)
      BY <1>1 DEF SameWrites, Writes, SameNotes, RowOf, SameCreation
    <2>2. HeldOf(m) \subseteq HeldOf(m)' /\ left[m] \subseteq left'[m]
      BY <1>1 DEF HeldOf
    <2>3. OpenMatches(m)'
      BY <1>2 DEF OpenMatches, Matches
    <2> QED BY <1>0, <2>1, <2>2, <2>3, ComingStays
  <1> QED BY <1>0, <1>1, <1>4, <1>5, <1>6 DEF SettleInv

(* A note started: its session is of nothing else.                         *)
LEMMA NewIsSettled ==
  ASSUME OnceInv, SettleInv, ~failed, NEW t \in Typed \cup {Blank}, NewNote(t)
  PROVE  SettleInv'
  <1>0. /\ EditorTyped /\ rows \in Seq(Row) /\ (\A a \in created : a.id # 0)
        /\ BodiesLeft /\ WaitingLeft /\ (\A m \in Sessions : Coming(m))
        /\ queue \in Seq(Job) /\ left \in [Sessions -> SUBSET Contents]
        /\ creating \subseteq Creations /\ \A h \in held : RowOf(h.id)
    BY DEF OnceInv, SettleInv, EditorTyped, QueueOK
  <1>1. PICK n, o : n = NewSession /\ o = Opening(n, 0, Untitled)
    OBVIOUS
  <1>2. /\ sessions < MaxSessions /\ UNCHANGED <<rows, created, held>>
        /\ left' = [left EXCEPT ![n] = {t}]
        /\ t = Blank => open' = o /\ queue' = queue /\ creating' = creating
        /\ t # Blank => /\ open' = Saved(o, t).open /\ queue' = Saved(o, t).asked.queue
                        /\ creating' = Saved(o, t).asked.creating
    BY <1>1 DEF NewNote, answers, Asks, Unasked
  <1>3. t \in Contents /\ Untitled \in Note /\ Untitled.text = Blank
    BY TextsAssumption DEF Untitled, Note
  <1>4. /\ OpenOK(o) /\ o.session = n /\ o.id = 0 /\ o.draft = Untitled /\ o # None
    BY <1>0, <1>1, <1>2, <1>3, NewEditor
  <1>5. n \in Sessions /\ ~Known(n)
    BY <1>0, <1>1, <1>2, NewSessions DEF Known, EditorTyped
  <1>6. /\ (\A k : ~Writes(k, n)) /\ (\A i : RowOf(i) => rows[i].made # n)
        /\ ~Creating(n) /\ (\A a \in created : a.session # n)
        /\ \A h \in held : rows[h.id].made # n /\ h.session # n
    BY <1>5, NewIsUnused
  <1>7. /\ open' # None /\ open'.session = n /\ open'.id = 0 /\ open'.draft.text = t
        /\ \/ queue' = queue /\ creating' = creating
           \/ /\ creating' = creating \cup {[session |-> n, waiting |-> Nothing]}
              /\ \E note \in Note : note.text = t /\ queue' = Append(queue, CreateJob(n, note))
    <2>1. CASE t = Blank
      BY <1>2, <1>3, <1>4, <2>1
    <2>2. CASE t # Blank
      <3>1. PICK k : k = Saved(o, t)
        OBVIOUS
      <3>2. open' = k.open /\ queue' = k.asked.queue /\ creating' = k.asked.creating
        BY <1>2, <2>2, <3>1
      <3>3. SavesAs(o, t, k)
        BY <1>0, <1>3, <1>4, <3>1, SavedForms
      <3>4. PICK note \in Note :
              /\ note.text = t /\ k.open = Drafted(o, note)
              /\ \/ /\ k.asked.creating = creating \cup {[session |-> n, waiting |-> Nothing]}
                    /\ k.asked.queue = Append(queue, CreateJob(n, note))
                 \/ k.asked.creating = creating /\ k.asked.queue = queue
        BY <1>4, <1>6, <3>3 DEF SavesAs
      <3>5. /\ Drafted(o, note) # None /\ Drafted(o, note).session = n
            /\ Drafted(o, note).id = 0 /\ Drafted(o, note).draft = note
        BY <1>4, DraftFields, Nones DEF Drafted, OpenOK
      <3> QED BY <3>2, <3>4, <3>5
    <2> QED BY <2>1, <2>2
  <1>8. t \in left'[n] /\ \A m \in Sessions \ {n} : left'[m] = left[m]
    BY <1>0, <1>2, <1>5
  <1>9. BodiesLeft'
    <2>1. \A h \in held : rows[h.id].made \in Sessions \ {n}
      BY <1>0, <1>6, RowFields
    <2> QED BY <1>0, <1>2, <1>6, <1>7, <1>8, <2>1 DEF BodiesLeft
  <1>10. WaitingLeft' /\ DraftLeft'
    <2> DEFINE one == [session |-> n, waiting |-> Nothing]
    <2>1. /\ one.waiting = Nothing
          /\ creating' = creating \/ creating' = creating \cup {one}
      BY <1>7
    <2> HIDE DEF one
    <2>2. \A c \in creating : c.session \in Sessions \ {n}
      BY <1>0, <1>6 DEF Creations, Creating
    <2> QED BY <1>0, <1>7, <1>8, <2>1, <2>2 DEF WaitingLeft, DraftLeft
  <1>11. /\ \A k : Writes(k, n)' => queue'[k].op = "create"
         /\ Coming(n)'
         /\ \A m \in Sessions : m # n => SameWrites(m) /\ SameCreation(m)
    <2>1. CASE queue' = queue /\ creating' = creating
      <3>1. \A k : ~Writes(k, n)'
        BY <1>6, <2>1 DEF Writes
      <3>2. Coming(n)'
        BY <1>2, <1>6, <3>1, Untouched DEF Coming, RowOf
      <3>3. \A m \in Sessions : SameWrites(m) /\ SameCreation(m)
        BY <1>2, <2>1 DEF SameWrites, Writes, SameCreation
      <3> QED BY <3>1, <3>2, <3>3
    <2>2. ASSUME creating' = creating \cup {[session |-> n, waiting |-> Nothing]},
                 NEW note \in Note, note.text = t, NEW j, j = CreateJob(n, note),
                 queue' = Append(queue, j)
          PROVE  /\ \A k : Writes(k, n)' => queue'[k].op = "create"
                 /\ Coming(n)'
                 /\ \A m \in Sessions : m # n => SameWrites(m) /\ SameCreation(m)
      <3>1. j \in Job /\ j.op = "create" /\ j.session = n /\ j.note = note
        BY <1>5, <2>2, Jobs
      <3>2. \A l \in 1 .. Len(queue') :
              (l \in 1 .. Len(queue) /\ queue'[l] = queue[l]) \/ queue'[l] = j
        BY <1>0, <2>2, <3>1, Sent
      <3>3. \A k : Writes(k, n)' => queue'[k].op = "create"
        BY <1>6, <3>1, <3>2 DEF Writes
      <3>4. Coming(n)'
        <4>1. j.note.text \in LeftOrPretty(n)'
          BY <1>8, <2>2, <3>1 DEF LeftOrPretty
        <4> QED BY <1>0, <2>2, <3>1, <4>1, SentLast DEF Coming
      <3>5. ASSUME NEW m \in Sessions, m # n PROVE SameWrites(m) /\ SameCreation(m)
        <4>1. SameWrites(m)
          BY <1>0, <2>2, <3>1, <3>5, SentElsewhere
        <4> QED BY <1>2, <2>2, <3>5, <4>1 DEF SameCreation
      <3> QED BY <3>3, <3>4, <3>5
    <2> QED BY <1>7, <2>1, <2>2
  <1>12. DraftAlone'
    BY <1>2, <1>6, <1>7, <1>11 DEF DraftAlone
  <1>13. ASSUME NEW m \in Sessions, m # n PROVE Coming(m)'
    <2>1. SameNotes(m)
      BY <1>2 DEF SameNotes, RowOf
    <2>2. HeldOf(m) \subseteq HeldOf(m)' /\ left[m] \subseteq left'[m]
      BY <1>2, <1>8, <1>13 DEF HeldOf
    <2>3. OpenMatches(m)'
      BY <1>7 DEF OpenMatches, RowOf
    <2> QED BY <1>0, <1>11, <1>13, <2>1, <2>2, <2>3, ComingStays
  <1> QED BY <1>0, <1>2, <1>9, <1>10, <1>11, <1>12, <1>13 DEF SettleInv

(* A draft converted before it is worth keeping: what it held was left in  *)
(* its session, and it goes on, blank, in its own.                         *)
LEMMA AgainIsSettled ==
  ASSUME OnceInv, ReadCurrent, SettleInv, ~failed, UNCHANGED <<rows, created, held>>,
         open # None, open.id = 0, NEW t \in Contents, NEW k, k = Saved(open, t),
         queue' = k.asked.queue, creating' = k.asked.creating, ~WorthKeeping(k.open.draft),
         sessions < MaxSessions, NEW again, again = <<open.session[1], sessions + 1>>,
         open' = [k.open EXCEPT !.session = again],
         left' = [left EXCEPT ![open.session] = @ \cup {t}, ![again] = {Blank}]
  PROVE  SettleInv'
  <1>0. /\ EditorTyped /\ OpenOK(open) /\ rows \in Seq(Row) /\ (\A a \in created : a.id # 0)
        /\ BodiesLeft /\ queue \in Seq(Job) /\ left \in [Sessions -> SUBSET Contents]
        /\ open.session \in Sessions /\ \A h \in held : RowOf(h.id)
    BY OpenFields DEF OnceInv, SettleInv, EditorTyped, QueueOK, OpenOK
  <1>1. again \in Sessions /\ ~Known(again) /\ again # open.session
    <2>1. again \in Sessions /\ ~Known(again)
      BY <1>0, BoundsAssumption DEF EditorTyped, Sessions, Known
    <2> QED BY <2>1, NewIsUnused
  <1>2. /\ (\A l : ~Writes(l, again)) /\ (\A i : RowOf(i) => rows[i].made # again)
        /\ (\A a \in created : a.session # again)
        /\ \A h \in held : rows[h.id].made # again /\ h.session # again
    BY <1>1, NewIsUnused
  <1>3. PICK s : s = open.session
    OBVIOUS
  <1>4. /\ t \in left'[s] /\ left[s] \subseteq left'[s] /\ left'[again] = {Blank}
        /\ \A m \in Sessions \ {s, again} : left'[m] = left[m]
    BY <1>0, <1>1, <1>3
  <1>5. Made(open) = s
    BY <1>3 DEF Made
  <1>6. /\ open' # None /\ open'.session = again /\ open'.id = 0 /\ open'.draft = k.open.draft
    <2>1. k.open \in Opened /\ k.open.id = 0
      BY <1>0, SavedOpens DEF OpenOK
    <2>2. /\ open' \in Opened /\ open'.session = again /\ open'.id = 0
          /\ open'.draft = k.open.draft
      BY <1>1, <2>1 DEF Opened
    <2> QED BY <2>2, Nones
  <1>7. ASSUME NEW m \in Sessions, m # again PROVE Coming(m)'
    <2>1. open' = None \/ open' = k.open \/ open'.id = 0
      BY <1>6
    <2>2. m # Made(open) => left[m] \subseteq left'[m]
      BY <1>4, <1>5, <1>7
    <2>3. t \in left'[Made(open)] /\ left[Made(open)] \subseteq left'[Made(open)]
      BY <1>4, <1>5
    <2> QED BY <2>1, <2>2, <2>3, Departs
  <1>8. WaitingLeft' /\ \A h \in held : h.text \in left'[rows[h.id].made]
    <2>1. \A m \in Sessions \ {s} : Known(m) => left[m] \subseteq left'[m]
      BY <1>1, <1>4
    <2> QED BY <1>3, <1>4, <1>5, <2>1, DepartsLeft
  <1>9. \A l : ~Writes(l, again)'
    <2>1. SavesAs(open, t, k)
      BY <1>0, SavedForms
    <2>2. \/ queue' = queue
          \/ \E j \in Job : queue' = Append(queue, j) /\ j.session # again
      <3>1. CASE queue' = queue
        BY <3>1
      <3>2. ASSUME NEW note \in Note, NEW j, j = CreateJob(s, note), queue' = Append(queue, j)
            PROVE  j \in Job /\ j.session # again
        BY <1>0, <1>1, <1>3, <3>2, Jobs
      <3>3. queue' = queue \/ \E note \in Note : queue' = Append(queue, CreateJob(s, note))
        BY <1>3, <2>1 DEF SavesAs
      <3> QED BY <3>1, <3>2, <3>3
    <2>3. SameWrites(again)
      BY <1>0, <2>2, SentElsewhere
    <2> QED BY <1>2, <2>3 DEF SameWrites
  <1>10. Coming(again)'
    BY <1>2, <1>9, Untouched DEF Coming, RowOf
  <1>11. BodiesLeft'
    BY <1>2, <1>6, <1>8 DEF BodiesLeft
  <1>12. DraftLeft' /\ DraftAlone'
    <2>1. open'.draft.text = Blank
      BY <1>6 DEF WorthKeeping
    <2> QED BY <1>2, <1>4, <1>6, <1>9, <2>1 DEF DraftLeft, DraftAlone
  <1> QED BY <1>0, <1>7, <1>8, <1>10, <1>11, <1>12 DEF SettleInv

(* Nothing it is about changes.                                            *)
LEMMA SettledStays ==
  ASSUME SettleInv, UNCHANGED <<rows, queue, creating, created, held, open, left, failed>>
  PROVE  SettleInv'
  BY DEF SettleInv, BodiesLeft, WaitingLeft, DraftLeft, DraftAlone, Coming, LastIsLeft, Writes,
         RowOf, LeftOrPretty, WaitsBehind, CreatedAs, BodyFollows, HeldOf, OpenMatches, Creating

(* The window showing another area, or the notes again: the editor has the *)
(* same note, and has read the same of it.                                 *)
LEMMA ShowIsSettled ==
  ASSUME EditorTyped, SettleInv, ~failed, ShowArea
  PROVE  SettleInv'
  <1>1. /\ open # None /\ open' = [open EXCEPT !.behind = ~@]
        /\ UNCHANGED <<rows, queue, creating, created, held, left>>
    BY DEF ShowArea, answers
  <1>2. /\ open' # None /\ open'.session = open.session /\ open'.id = open.id
        /\ open'.draft = open.draft /\ open'.read = open.read /\ open'.reading = open.reading
        /\ open'.current = open.current /\ open'.got = open.got
    BY <1>1, ShownFields DEF EditorTyped
  <1>3. BodiesLeft' /\ WaitingLeft' /\ DraftLeft' /\ DraftAlone'
    BY <1>1, <1>2 DEF SettleInv, BodiesLeft, WaitingLeft, DraftLeft, DraftAlone, Writes, Creating
  <1>4. ASSUME NEW m \in Sessions PROVE Coming(m)'
    <2>1. SameWrites(m) /\ SameNotes(m) /\ SameCreation(m)
      BY <1>1 DEF SameWrites, Writes, SameNotes, RowOf, SameCreation
    <2>2. HeldOf(m) \subseteq HeldOf(m)' /\ left[m] \subseteq left'[m]
      BY <1>1 DEF HeldOf
    <2>3. OpenMatches(m) => OpenMatches(m)'
      BY <1>1, <1>2 DEF OpenMatches, Matches, RowOf
    <2> QED BY <2>1, <2>2, <2>3, ComingStays DEF SettleInv
  <1> QED BY <1>1, <1>3, <1>4 DEF SettleInv

(* What a user does keeps what is to come what was left.                   *)
LEMMA UserIsSettled ==
  ASSUME OnceInv, ReadCurrent, SettleInv, User
  PROVE  SettleInv'
  <1>0. EditorTyped /\ (open # None => OpenOK(open)) /\ ViewOK(open, view)
    BY DEF OnceInv, EditorTyped
  <1>1. failed' = failed
    BY <1>0, UserDoes
  <1> SUFFICES ASSUME ~failed PROVE SettleInv'
    BY <1>1 DEF SettleInv
  <1>2. view # None => open # None /\ view.text \in Contents
    BY <1>0, Nones DEF ViewOK, Fields
  <1>3. ASSUME NEW closes \in BOOLEAN, view # None, Leave(view.text, closes)
        PROVE  SettleInv'
    <2> DEFINE t == view.text
    <2>1. t \in Contents /\ open # None
      BY <1>2, <1>3
    <2>2. PICK k : k = Saved(open, t)
      OBVIOUS
    <2>3. UNCHANGED <<rows, created>>
      BY <1>3 DEF Leave, answers
    <2>4. CASE /\ HoldBack(t) /\ Leaves(open, t, FALSE)
               /\ open' = IF closes THEN None ELSE open
      <3>1. /\ open.read # None /\ UNCHANGED <<queue, creating>>
            /\ held' = held \cup {[session |-> open.session, id |-> open.id, text |-> t]}
            /\ open' = None \/ open' = open
        BY <2>4 DEF HoldBack
      <3> QED BY <2>1, <2>3, <2>4, <3>1, HeldIsSettled
    <2>5. CASE /\ Asks(Saved(open, t).asked) /\ Leaves(open, t, Follows(open, t)) /\ held' = held
               /\ open' = IF closes THEN None ELSE Saved(open, t).open
      <3>1. /\ queue' = k.asked.queue /\ creating' = k.asked.creating
            /\ open' = None \/ open' = k.open
        BY <2>2, <2>5 DEF Asks
      <3> QED BY <2>1, <2>2, <2>3, <2>5, <3>1, SavedIsSettled
    <2> QED BY <1>3, <2>4, <2>5 DEF Leave
  <1>4. CASE Blur \/ Close
    BY <1>3, <1>4 DEF Blur, Close, CanType
  <1>5. ASSUME NEW marked \in BOOLEAN, Mark(marked)
        PROVE  SettleInv'
    <2>1. open.id = 0 /\ OpenOK(open) /\ open # None
      BY <1>0, <1>2, <1>5 DEF Mark, CanType
    <2>2. PICK note : note = [open.draft EXCEPT !.marked = marked]
      OBVIOUS
    <2>3. note \in Note /\ note.text = open.draft.text
      BY <2>1, <2>2 DEF OpenOK, Note
    <2>4. /\ open' = [open EXCEPT !.draft = note] /\ Asks(DraftWritten(open, note))
          /\ UNCHANGED <<rows, created, held, left>>
      BY <1>5, <2>2 DEF Mark, DraftKept, answers
    <2>5. /\ open' # None /\ open'.session = open.session /\ open'.id = 0 /\ open'.draft = note
      BY <2>1, <2>3, <2>4, DraftFields, Nones DEF OpenOK
    <2>6. \/ queue' = queue /\ creating' = creating
          \/ /\ ~Creating(open.session)
             /\ creating' = creating \cup {[session |-> open.session, waiting |-> Nothing]}
             /\ queue' = Append(queue, CreateJob(open.session, note))
      BY <2>4 DEF Asks, DraftWritten, Created, Unasked
    <2> QED BY <2>1, <2>3, <2>4, <2>5, <2>6, DraftIsSettled
  <1>6. CASE Convert
    <2>1. /\ view # None /\ open.id = 0 /\ sessions < MaxSessions
          /\ UNCHANGED <<rows, created, held>>
      BY <1>6 DEF Convert, CanType, answers
    <2>2. PICK t, k, again : /\ t = view.text /\ k = Saved(open, t)
                             /\ again = <<open.session[1], sessions + 1>>
      OBVIOUS
    <2>3. t \in Contents /\ open # None
      BY <1>2, <2>1, <2>2
    <2>4. /\ queue' = k.asked.queue /\ creating' = k.asked.creating
          /\ \/ open' = k.open /\ Leaves(open, t, Follows(open, t))
             \/ /\ ~WorthKeeping(k.open.draft)
                /\ open' = [k.open EXCEPT !.session = again]
                /\ left' = [left EXCEPT ![open.session] = @ \cup {t}, ![again] = {Blank}]
      BY <1>6, <2>2 DEF Convert, Asks
    <2>5. CASE open' = k.open /\ Leaves(open, t, Follows(open, t))
      BY <2>1, <2>2, <2>3, <2>4, <2>5, SavedIsSettled
    <2>6. CASE /\ ~WorthKeeping(k.open.draft)
               /\ open' = [k.open EXCEPT !.session = again]
               /\ left' = [left EXCEPT ![open.session] = @ \cup {t}, ![again] = {Blank}]
      BY <2>1, <2>2, <2>3, <2>4, <2>6, AgainIsSettled
    <2> QED BY <2>4, <2>5, <2>6
  <1>7. CASE Drop \/ Quit \/ \E t \in Typed : Type(t)
    <2>1. UNCHANGED <<rows, queue, creating, created, held, open, left, failed>>
      BY <1>7 DEF Drop, Quit, Type, editing, answers
    <2> QED BY <2>1, SettledStays
  <1>8. ASSUME NEW id \in 1 .. Len(rows), OpenNote(id) PROVE SettleInv'
    BY <1>8, OpenIsSettled
  <1>9. ASSUME NEW t \in Typed \cup {Blank}, NewNote(t) PROVE SettleInv'
    BY <1>9, NewIsSettled
  <1>10. CASE ShowArea
    BY <1>0, <1>10, ShowIsSettled
  <1> QED BY <1>4, <1>5, <1>6, <1>7, <1>8, <1>9, <1>10 DEF User

(* The first job run, the others are next.                                 *)
LEMMA RunShifts ==
  ASSUME QueueOK(queue), queue # <<>>, queue' = Tail(queue), NEW m
  PROVE  /\ \A k : Writes(k, m)' => k \in Nat /\ Writes(k + 1, m) /\ queue'[k] = queue[k + 1]
         /\ \A k : Writes(k, m) => k \in Nat /\ k >= 1 /\ (k = 1 \/ Writes(k - 1, m)')
  <1>1. /\ Len(queue) \in Nat \ {0} /\ Len(queue') = Len(queue) - 1
        /\ \A i \in 1 .. Len(queue') : i + 1 \in 1 .. Len(queue) /\ queue'[i] = queue[i + 1]
    BY First
  <1>2. ASSUME NEW k, Writes(k, m)'
        PROVE  k \in Nat /\ Writes(k + 1, m) /\ queue'[k] = queue[k + 1]
    <2>1. k \in 1 .. Len(queue')
      BY <1>2 DEF Writes
    <2> QED BY <1>1, <1>2, <2>1 DEF Writes
  <1>3. ASSUME NEW k, Writes(k, m)
        PROVE  k \in Nat /\ k >= 1 /\ (k = 1 \/ Writes(k - 1, m)')
    <2>1. k \in 1 .. Len(queue) /\ k \in Nat /\ k >= 1
      BY <1>1, <1>3 DEF Writes
    <2>2. ASSUME k # 1 PROVE Writes(k - 1, m)'
      <3>1. k - 1 \in 1 .. Len(queue') /\ (k - 1) + 1 = k
        BY <1>1, <2>1, <2>2
      <3>2. queue'[k - 1] = queue[k]
        BY <1>1, <3>1
      <3> QED BY <1>3, <3>1, <3>2 DEF Writes
    <2> QED BY <2>1, <2>2
  <1> QED BY <1>2, <1>3

(* It wrote what it wrote, or it was not of this session.                  *)
LEMMA RunKeepsLast ==
  ASSUME QueueOK(queue), queue # <<>>, queue' = Tail(queue), left' = left,
         NEW m, LastIsLeft(m),
         ~Writes(1, m) => SameNotes(m),
         Writes(1, m) =>
           \A i : (RowOf(i) /\ rows[i].made = m)' => rows'[i].note.text = queue[1].note.text
  PROVE  LastIsLeft(m)'
  <1>0. LeftOrPretty(m)' = LeftOrPretty(m)
    BY DEF LeftOrPretty
  <1>1. /\ \A k : Writes(k, m)' => k \in Nat /\ Writes(k + 1, m) /\ queue'[k] = queue[k + 1]
        /\ \A k : Writes(k, m) => k \in Nat /\ k >= 1 /\ (k = 1 \/ Writes(k - 1, m)')
    BY RunShifts
  <1>2. ASSUME NEW k, Writes(k, m)', \A l : Writes(l, m)' => l <= k
        PROVE  queue'[k].note.text \in LeftOrPretty(m)'
    <2>1. k \in Nat /\ Writes(k + 1, m) /\ queue'[k] = queue[k + 1]
      BY <1>1, <1>2
    <2>2. \A l : Writes(l, m) => l <= k + 1
      <3> SUFFICES ASSUME NEW l, Writes(l, m) PROVE l <= k + 1
        OBVIOUS
      <3>1. l \in Nat /\ (l = 1 \/ Writes(l - 1, m)')
        BY <1>1
      <3>2. l = 1 \/ l - 1 <= k
        BY <1>2, <3>1
      <3> QED BY <2>1, <3>1, <3>2
    <2>3. queue[k + 1].note.text \in LeftOrPretty(m)
      BY <2>1, <2>2 DEF LastIsLeft
    <2> QED BY <1>0, <2>1, <2>3
  <1>3. ASSUME \A k : ~Writes(k, m)', NEW i, (RowOf(i) /\ rows[i].made = m)'
        PROVE  rows'[i].note.text \in LeftOrPretty(m)'
    <2>1. \A l : Writes(l, m) => l = 1
      BY <1>1, <1>3
    <2>2. CASE Writes(1, m)
      <3>1. \A l : Writes(l, m) => l <= 1
        BY <2>1
      <3>2. queue[1].note.text \in LeftOrPretty(m)
        BY <2>2, <3>1 DEF LastIsLeft
      <3> QED BY <1>0, <1>3, <2>2, <3>2
    <2>3. CASE ~Writes(1, m)
      <3>1. \A l : ~Writes(l, m)
        BY <2>1, <2>3
      <3> QED BY <1>0, <1>3, <2>3, <3>1 DEF LastIsLeft, SameNotes
    <2> QED BY <2>2, <2>3
  <1>4. \A k : Writes(k, m)' /\ (\A l : Writes(l, m)' => l <= k)
          => queue'[k].note.text \in LeftOrPretty(m)'
    BY <1>2
  <1>5. (\A k : ~Writes(k, m)') =>
          \A i : (RowOf(i) /\ rows[i].made = m)' => rows'[i].note.text \in LeftOrPretty(m)'
    BY <1>3
  <1> QED BY <1>4, <1>5 DEF LastIsLeft

(* What a job run makes of the notes there are, and of that of its session.*)
LEMMA RunWrites ==
  ASSUME OnceInv, queue # <<>>, NEW job, job = Head(queue), Ran(job)
  PROVE  /\ \A m : ~Writes(1, m) => SameNotes(m)
         /\ \A m : Writes(1, m) =>
              \A i : (RowOf(i) /\ rows[i].made = m)' => rows'[i].note.text = queue[1].note.text
         /\ \A id : RowOf(id) => RowOf(id)' /\ rows'[id].made = rows[id].made
         /\ \A id : RowOf(id) /\ ~(job.op = "write" /\ job.session = rows[id].made)
              => rows'[id] = rows[id]
  <1>0. /\ EditorTyped /\ CreationsOnce /\ CreatedOnce /\ rows \in Seq(Row) /\ QueueOK(queue)
    BY DEF OnceInv, EditorTyped
  <1>1. /\ job \in Job /\ JobOK(job) /\ job = queue[1] /\ 1 \in 1 .. Len(queue)
    BY <1>0, First
  <1>2. job.op \in {"create", "write", "read", "attach"}
    BY <1>1 DEF Job
  <1>3. /\ Len(rows) \in Nat
        /\ \A id : RowOf(id) => RowOf(id)' /\ rows'[id].made = rows[id].made
        /\ \/ UNCHANGED rows /\ (Refused(job) \/ job.op \in {"read", "attach"})
           \/ /\ job.op = "create"
              /\ Len(rows') = Len(rows) + 1 /\ \A id : RowOf(id) => rows'[id] = rows[id]
              /\ rows'[Len(rows) + 1] = [made |-> job.session, note |-> job.note]
           \/ /\ job.op = "write" /\ RowOf(job.id) /\ Len(rows') = Len(rows)
              /\ \A id : RowOf(id) /\ id # job.id => rows'[id] = rows[id]
              /\ rows'[job.id].note.text = job.note.text
    BY <1>0, <1>1, RanRows
  <1>4. \A m : Writes(1, m) <=> job.op \in {"create", "write"} /\ job.session = m
    BY <1>1 DEF Writes
  <1> DEFINE Good ==
         /\ \A m : ~Writes(1, m) => SameNotes(m)
         /\ \A m : Writes(1, m) =>
              \A i : (RowOf(i) /\ rows[i].made = m)' => rows'[i].note.text = queue[1].note.text
         /\ \A id : RowOf(id) /\ ~(job.op = "write" /\ job.session = rows[id].made)
              => rows'[id] = rows[id]
  <1>5. ASSUME job.op \in {"read", "attach"} PROVE Good
    <2>1. rows' = rows
      BY <1>3, <1>5
    <2> QED BY <1>4, <1>5, <2>1 DEF SameNotes, RowOf
  <1>6. ASSUME /\ job.op = "create"
               /\ Len(rows') = Len(rows) + 1 /\ \A id : RowOf(id) => rows'[id] = rows[id]
               /\ rows'[Len(rows) + 1] = [made |-> job.session, note |-> job.note]
        PROVE  Good
    <2>1. Unborn(job.session)
      BY <1>0, <1>1, <1>6 DEF CreationsOnce
    <2>2. \A i : RowOf(i)' => RowOf(i) \/ i = Len(rows) + 1
      BY <1>3, <1>6 DEF RowOf
    <2>3. \A m : ~Writes(1, m) => SameNotes(m)
      BY <1>4, <1>6, <2>2 DEF SameNotes
    <2>4. ASSUME NEW m, Writes(1, m), NEW i, (RowOf(i) /\ rows[i].made = m)'
          PROVE  rows'[i].note.text = queue[1].note.text
      <3>1. m = job.session
        BY <1>4, <2>4
      <3>2. i = Len(rows) + 1
        BY <1>6, <2>1, <2>2, <2>4, <3>1 DEF Unborn, RowOf
      <3> QED BY <1>1, <1>6, <3>2
    <2>5. \A m : Writes(1, m) =>
            \A i : (RowOf(i) /\ rows[i].made = m)' => rows'[i].note.text = queue[1].note.text
      BY <2>4
    <2>6. \A id : RowOf(id) /\ ~(job.op = "write" /\ job.session = rows[id].made)
              => rows'[id] = rows[id]
      BY <1>6
    <2> QED BY <2>3, <2>5, <2>6
  <1>7. ASSUME /\ job.op = "write" /\ RowOf(job.id) /\ Len(rows') = Len(rows)
               /\ \A id : RowOf(id) /\ id # job.id => rows'[id] = rows[id]
               /\ rows'[job.id].note.text = job.note.text
        PROVE  Good
    <2>1. job.session = rows[job.id].made
      BY <1>1, <1>7 DEF JobOK
    <2>2. \A i : RowOf(i)' => RowOf(i) /\ rows'[i].made = rows[i].made
      BY <1>3, <1>7 DEF RowOf
    <2>3. \A i : RowOf(i) /\ rows[i].made = job.session => i = job.id
      BY <1>0, <1>7, <2>1 DEF CreatedOnce, RowOf
    <2>4. \A m : ~Writes(1, m) => SameNotes(m)
      BY <1>4, <1>7, <2>1, <2>2 DEF SameNotes
    <2>5. \A m : Writes(1, m) =>
            \A i : (RowOf(i) /\ rows[i].made = m)' => rows'[i].note.text = queue[1].note.text
      BY <1>1, <1>4, <1>7, <2>2, <2>3
    <2>6. \A id : RowOf(id) /\ ~(job.op = "write" /\ job.session = rows[id].made)
              => rows'[id] = rows[id]
      BY <1>7, <2>1
    <2> QED BY <2>4, <2>5, <2>6
  <1>8. UNCHANGED rows /\ Refused(job) => job.op \in {"read", "attach"}
    <2>1. ASSUME job.op = "create", UNCHANGED rows PROVE FALSE
      <3>1. rows' = Append(rows, [made |-> job.session, note |-> job.note])
        BY <2>1 DEF Ran
      <3>2. [made |-> job.session, note |-> job.note] \in Row
        BY <1>1 DEF Job, Row
      <3> QED BY <1>0, <1>3, <2>1, <3>1, <3>2, AppendProperties
    <2>2. ASSUME job.op = "write", Refused(job) PROVE FALSE
      <3>1. wrote' = wrote + 1 /\ wrote' = wrote /\ wrote \in Nat
        BY <1>0, <2>2 DEF Ran, Refused, EditorTyped
      <3> QED BY <3>1
    <2> QED BY <1>2, <2>1, <2>2
  <1> HIDE DEF Good
  <1>9. Good
    BY <1>3, <1>5, <1>6, <1>7, <1>8
  <1> QED BY <1>3, <1>9 DEF Good

(* What the db thread runs keeps what is to come what was left.            *)
LEMMA RunIsSettled ==
  ASSUME OnceInv, SettleInv, RunJob
  PROVE  SettleInv'
  <1>1. PICK job : job = Head(queue)
    OBVIOUS
  <1>2. /\ queue # <<>> /\ queue' = Tail(queue) /\ UNCHANGED <<creating, held, left>>
        /\ (Ran(job) /\ failed' = failed) \/ (Refused(job) /\ failed')
    BY <1>1 DEF RunJob, Refused
  <1> SUFFICES ASSUME ~failed' PROVE SettleInv'
    BY DEF SettleInv
  <1>3. Ran(job) /\ ~failed
    BY <1>2
  <1>0. /\ EditorTyped /\ ReadJobs /\ rows \in Seq(Row) /\ QueueOK(queue) /\ Len(rows) \in Nat
        /\ (open # None => OpenOK(open)) /\ (\A a \in created : a.id # 0)
        /\ BodiesLeft /\ WaitingLeft /\ DraftLeft /\ DraftAlone /\ (\A m \in Sessions : Coming(m))
        /\ (\A h \in held : RowOf(h.id))
        /\ \A a \in created : a.id = 0 \/ (RowOf(a.id) /\ rows[a.id].made = a.session)
    BY <1>3, LenProperties DEF OnceInv, SettleInv, EditorTyped
  <1>4. job \in Job /\ JobOK(job) /\ job = queue[1] /\ 1 \in 1 .. Len(queue)
    BY <1>0, <1>1, <1>2, First
  <1>5. /\ \A m : ~Writes(1, m) => SameNotes(m)
        /\ \A m : Writes(1, m) =>
             \A i : (RowOf(i) /\ rows[i].made = m)' => rows'[i].note.text = queue[1].note.text
        /\ \A id : RowOf(id) => RowOf(id)' /\ rows'[id].made = rows[id].made
        /\ \A id : RowOf(id) /\ ~(job.op = "write" /\ job.session = rows[id].made)
             => rows'[id] = rows[id]
    BY <1>1, <1>2, <1>3, RunWrites
  <1>6. \A k, m : Writes(k, m)' => k \in Nat /\ Writes(k + 1, m) /\ queue'[k] = queue[k + 1]
    BY <1>0, <1>2, RunShifts
  <1>7. \/ created' = created
        \/ /\ job.op = "create" /\ Writes(1, job.session)
           /\ \E a : /\ created' = created \cup {a} /\ a.id # 0 /\ a.session = job.session
                     /\ a.text = job.note.text /\ rows'[a.id].note.text = a.text
    <2>1. CASE job.op # "create"
      BY <1>3, <1>4, <2>1, RanAnswers
    <2>2. CASE job.op = "create"
      <3>1. PICK a : /\ a = [session |-> job.session, id |-> Len(rows) + 1,
                             text |-> job.note.text]
        OBVIOUS
      <3>2. /\ rows' = Append(rows, [made |-> job.session, note |-> job.note])
            /\ created' = created \cup {a}
        BY <1>3, <2>2, <3>1 DEF Ran
      <3>3. [made |-> job.session, note |-> job.note] \in Row
        BY <1>4 DEF Job, Row
      <3>4. rows'[Len(rows) + 1] = [made |-> job.session, note |-> job.note]
        BY <1>0, <3>2, <3>3, AppendProperties
      <3>5. a.id # 0 /\ a.session = job.session /\ a.text = job.note.text
            /\ rows'[a.id].note.text = a.text
        BY <1>0, <3>1, <3>4
      <3>6. Writes(1, job.session)
        BY <1>4, <2>2 DEF Writes
      <3> QED BY <2>2, <3>2, <3>5, <3>6
    <2> QED BY <2>1, <2>2
  <1>8. \/ open' = open
        \/ /\ open # None /\ open.id # 0
           /\ open' = Answered(open, rows[open.id].note)
    <2>1. \/ open' = open
          \/ /\ open # None /\ open.id # 0
             /\ \E got \in Note \cup {None} :
                  /\ open' = Answered(open, got)
                  /\ failed' \/ got = rows[open.id].note
      BY <1>0, <1>1, <1>2, RanOpen
    <2> QED BY <2>1
  <1>9. /\ open' # None => /\ open # None /\ open'.session = open.session /\ open'.id = open.id
                           /\ open'.read = open.read
        /\ open' # None /\ open'.id = 0 => open' = open
        /\ open' # None /\ open' # open => open'.got = rows[open.id].note
    <2>1. CASE open' = open
      BY <2>1
    <2>2. CASE /\ open # None /\ open.id # 0
               /\ open' = Answered(open, rows[open.id].note)
      <3>1. rows[open.id].note \in Note \cup {None}
        BY <1>0, <2>2, RowFields DEF OpenOK
      <3>2. /\ open' # None /\ open'.session = open.session /\ open'.id = open.id
            /\ open'.read = open.read /\ open'.got = rows[open.id].note
        BY <1>0, <2>2, <3>1, ReadFields
      <3> QED BY <2>2, <3>2
    <2> QED BY <1>8, <2>1, <2>2
  <1>10. \A a \in created' : a.id # 0
    BY <1>0, <1>7
  <1>11. BodiesLeft' /\ WaitingLeft' /\ DraftLeft'
    BY <1>0, <1>2, <1>5, <1>9 DEF BodiesLeft, WaitingLeft, DraftLeft, Creating
  <1>12. DraftAlone'
    <2> SUFFICES ASSUME open' # None, open'.id = 0, NEW s, s = open.session
                 PROVE  /\ \A k : Writes(k, s)' => queue'[k].op = "create"
                        /\ \A a \in created' : a.session = s => rows'[a.id].note.text = a.text
                        /\ \A h \in held' : rows'[h.id].made # s
      BY <1>9 DEF DraftAlone
    <2>1. /\ open' = open /\ open # None /\ open.id = 0
          /\ \A k : Writes(k, s) => queue[k].op = "create"
      BY <1>0, <1>9 DEF DraftAlone
    <2>2. \A k : Writes(k, s)' => queue'[k].op = "create"
      BY <1>6, <2>1
    <2>3. \A h \in held' : rows'[h.id].made # s
      BY <1>0, <1>2, <1>5, <2>1 DEF DraftAlone
    <2>4. ASSUME NEW a \in created, a.session = s
          PROVE  rows'[a.id].note.text = a.text
      <3>1. RowOf(a.id) /\ rows[a.id].made = s /\ rows[a.id].note.text = a.text
        BY <1>0, <2>1, <2>4 DEF DraftAlone
      <3>2. ~(job.op = "write" /\ job.session = s)
        <4>1. job.op = "write" /\ job.session = s => Writes(1, s)
          BY <1>4 DEF Writes
        <4> QED BY <1>4, <2>1, <4>1
      <3> QED BY <1>5, <3>1, <3>2
    <2> QED BY <1>7, <2>2, <2>3, <2>4
  <1>13. ASSUME NEW m \in Sessions PROVE Coming(m)'
    <2>1. CASE LastIsLeft(m)
      <3>1. LastIsLeft(m)'
        BY <1>0, <1>2, <1>5, <2>1, RunKeepsLast
      <3> QED BY <3>1 DEF Coming
    <2>2. CASE WaitsBehind(m)
      <3>1. PICK c \in creating :
              c.session = m /\ c.waiting # Nothing /\ ~CreatedAs(m, c.waiting)
        BY <2>2 DEF WaitsBehind
      <3>2. ~CreatedAs(m, c.waiting)'
        <4>1. \A k : (Writes(k, m) /\ queue[k].op = "create" /\ queue[k].note.text = c.waiting)'
                       => FALSE
          BY <1>2, <1>6, <3>1 DEF CreatedAs
        <4>2. \A a \in created' : ~(a.session = m /\ a.text = c.waiting)
          BY <1>4, <1>7, <3>1 DEF CreatedAs
        <4> QED BY <1>2, <4>1, <4>2 DEF CreatedAs
      <3> QED BY <1>2, <3>1, <3>2 DEF WaitsBehind, Coming
    <2>3. CASE BodyFollows(m)
      <3>1. (\A k : ~Writes(k, m)) /\ SameNotes(m) /\ \A k : ~Writes(k, m)'
        BY <1>5, <1>6, <2>3 DEF BodyFollows
      <3>2. ~Creating(m)' /\ HeldOf(m) \subseteq HeldOf(m)'
        BY <1>0, <1>2, <1>5, <2>3 DEF BodyFollows, Creating, HeldOf
      <3>3. OpenMatches(m)'
        <4> SUFFICES ASSUME NEW i, (RowOf(i) /\ rows[i].made = m)', open' # None, open'.id = i
                     PROVE  Matches(open', rows'[i].note)
          BY DEF OpenMatches
        <4>1. RowOf(i) /\ rows[i].made = m /\ rows'[i] = rows[i] /\ open # None /\ open.id = i
          BY <1>9, <3>1 DEF SameNotes
        <4>2. Matches(open, rows[i].note)
          BY <2>3, <4>1 DEF BodyFollows, OpenMatches
        <4>3. open'.read = open.read /\ (open' = open \/ open'.got = rows[i].note)
          BY <1>9, <4>1
        <4> QED BY <4>1, <4>2, <4>3 DEF Matches
      <3> QED BY <2>3, <3>1, <3>2, <3>3 DEF BodyFollows, Coming
    <2> QED BY <1>0, <2>1, <2>2, <2>3 DEF Coming
  <1> QED BY <1>10, <1>11, <1>12, <1>13 DEF SettleInv

(* A creation answered: what waited behind it, if it differs, is sent.     *)
LEMMA AdoptCreatedIsSettled ==
  ASSUME OnceInv, SettleInv, ~failed, NEW a \in created, AdoptCreated(a)
  PROVE  SettleInv'
  <1>0. /\ EditorTyped /\ CreationsOnce /\ DraftUnborn /\ rows \in Seq(Row) /\ queue \in Seq(Job)
        /\ (\A x \in created : x.id # 0) /\ creating \subseteq Creations
        /\ BodiesLeft /\ WaitingLeft /\ DraftLeft /\ DraftAlone /\ (\A m \in Sessions : Coming(m))
        /\ (\A h \in held : RowOf(h.id)) /\ created \subseteq CreatedAnswers
        /\ \A x \in created : x.id = 0 \/ (RowOf(x.id) /\ rows[x.id].made = x.session)
    BY DEF OnceInv, SettleInv, EditorTyped, QueueOK
  <1>1. PICK s : s = a.session
    OBVIOUS
  <1>2. /\ created' = created \ {a} /\ creating' = {c \in creating : c.session # s}
        /\ UNCHANGED <<rows, held, left>>
    BY <1>1 DEF AdoptCreated
  <1>3. s \in Sessions /\ a.id # 0 /\ RowOf(a.id) /\ rows[a.id].made = s /\ Creating(s)
    BY <1>0, <1>1 DEF CreationsOnce, CreatedAnswers
  <1>4. open' # None =>
          /\ open # None /\ open'.session = open.session /\ open'.draft = open.draft
          /\ open'.read = open.read /\ open'.reading = open.reading /\ ~open'.current
          /\ open.session # s => open'.id = open.id
          /\ open.session = s => open'.id = a.id /\ open.id = 0
    <2>1. open # None /\ open.session = s => open.id = 0
      BY <1>0, <1>3 DEF DraftUnborn
    <2> QED BY <1>0, <1>1, <1>3, <2>1, AdoptOpens
  <1>5. \/ /\ queue' = queue
           /\ \A c \in creating : c.session = s => c.waiting \in {Nothing, a.text}
        \/ \E c \in creating :
             /\ c.session = s /\ c.waiting \in Contents /\ c.waiting # Nothing
             /\ queue' = Append(queue, WriteJob(a.id, c.waiting))
    BY <1>0, <1>1, <1>3, AdoptAsks
  <1>6. \/ /\ queue' = queue
           /\ \A c \in creating : c.session = s => c.waiting \in {Nothing, a.text}
        \/ \E j \in Job : /\ queue' = Append(queue, j) /\ j.op = "write" /\ j.session = s
                          /\ j.note.text \in left[s]
    <2>1. ASSUME NEW c \in creating, c.session = s, c.waiting \in Contents, c.waiting # Nothing,
                 NEW j, j = WriteJob(a.id, c.waiting)
          PROVE  /\ j \in Job /\ j.op = "write" /\ j.session = s /\ j.note.text \in left[s]
      <3>1. c.waiting \in left[s]
        BY <1>0, <2>1 DEF WaitingLeft
      <3> QED BY <1>0, <1>3, <2>1, <3>1, Jobs
    <2> QED BY <1>5, <2>1
  <1>7. \A m \in Sessions : m # s => SameWrites(m) /\ SameCreation(m)
    <2>1. \A m \in Sessions : m # s => SameWrites(m)
      BY <1>0, <1>6, SentElsewhere
    <2> QED BY <1>1, <1>2, <2>1 DEF SameCreation
  <1>8. BodiesLeft'
    <2>1. ASSUME NEW h \in held, open' # None, h.session = open'.session
          PROVE  open'.id = h.id /\ open'.read # None
      <3>1. open.id = h.id /\ open.read # None /\ RowOf(h.id)
        BY <1>0, <1>4, <2>1 DEF BodiesLeft
      <3>2. open.id # 0
        BY <3>1 DEF RowOf
      <3> QED BY <1>4, <2>1, <3>1, <3>2
    <2> QED BY <1>0, <1>2, <2>1 DEF BodiesLeft
  <1>9. WaitingLeft' /\ DraftLeft'
    <2>1. \A x : x # s /\ ~Creating(x)' => ~Creating(x)
      BY <1>2 DEF Creating
    <2>2. open' # None /\ open'.id = 0 => open.id = 0 /\ open.session # s
      BY <1>3, <1>4
    <2> QED BY <1>0, <1>2, <1>4, <2>1, <2>2 DEF WaitingLeft, DraftLeft
  <1>10. DraftAlone'
    <2>1. open' # None /\ open'.id = 0 => open # None /\ open.id = 0 /\ open.session # s
      BY <1>3, <1>4
    <2>2. open # None => open.session \in Sessions
      BY <1>0, OpenFields DEF EditorTyped, OpenOK
    <2> QED BY <1>0, <1>2, <1>4, <1>7, <2>1, <2>2 DEF DraftAlone, SameWrites
  <1>11. \A m : SameNotes(m) /\ HeldOf(m) \subseteq HeldOf(m)' /\ left[m] \subseteq left'[m]
    BY <1>2 DEF SameNotes, RowOf, HeldOf
  <1>12. ASSUME NEW m \in Sessions, m # s PROVE Coming(m)'
    <2>1. OpenMatches(m) => OpenMatches(m)'
      <3> SUFFICES ASSUME OpenMatches(m), NEW i, RowOf(i), rows[i].made = m, open' # None,
                          open'.id = i
                   PROVE  Matches(open', rows[i].note)
        BY <1>2 DEF OpenMatches, RowOf
      <3>1. open # None /\ open.id = i
        BY <1>3, <1>4, <1>12
      <3>2. Matches(open, rows[i].note)
        BY <3>1 DEF OpenMatches
      <3> QED BY <1>4, <3>2 DEF Matches
    <2> QED BY <1>0, <1>7, <1>11, <1>12, <2>1, ComingStays
  <1>13. Coming(s)'
    <2>1. CASE \E j \in Job : /\ queue' = Append(queue, j) /\ j.op = "write" /\ j.session = s
                              /\ j.note.text \in left[s]
      <3>1. PICK j \in Job : /\ queue' = Append(queue, j) /\ j.op = "write" /\ j.session = s
                             /\ j.note.text \in left[s]
        BY <2>1
      <3>2. j.note.text \in LeftOrPretty(s)'
        BY <1>2, <3>1 DEF LeftOrPretty
      <3> QED BY <1>0, <3>1, <3>2, SentLast DEF Coming
    <2>2. CASE /\ queue' = queue
               /\ \A c \in creating : c.session = s => c.waiting \in {Nothing, a.text}
      <3>1. ~WaitsBehind(s)
        BY <1>1, <2>2 DEF WaitsBehind, CreatedAs
      <3>2. LastIsLeft(s)
        BY <1>0, <1>3, <3>1 DEF Coming, BodyFollows
      <3>3. SameWrites(s)
        BY <2>2 DEF SameWrites, Writes
      <3> QED BY <1>11, <3>2, <3>3, LastStays DEF Coming
    <2> QED BY <1>6, <2>1, <2>2
  <1>14. \A x \in created' : x.id # 0
    BY <1>0, <1>2
  <1>15. \A m \in Sessions : Coming(m)'
    BY <1>12, <1>13
  <1> QED BY <1>8, <1>9, <1>10, <1>14, <1>15 DEF SettleInv

(* A revision, and a note read again: what it is compared with is still    *)
(* the note, if it was.                                                    *)
LEMMA ReadIsSettled ==
  ASSUME EditorTyped, SettleInv, ~failed, UNCHANGED <<rows, creating, created, held, left>>,
         \/ queue' = queue
         \/ \E j \in Job : queue' = Append(queue, j) /\ j.op \notin {"create", "write"},
         open' # None =>
           /\ open # None /\ open'.session = open.session /\ open'.id = open.id
           /\ open.id = 0 => open'.draft = open.draft
           /\ open.read # None => open'.read # None,
         open' # None /\ open.id # 0 => \A note \in Note : Matches(open, note) => Matches(open', note)
  PROVE  SettleInv'
  <1>0. /\ rows \in Seq(Row) /\ queue \in Seq(Job) /\ (\A a \in created : a.id # 0)
        /\ BodiesLeft /\ WaitingLeft /\ DraftLeft /\ DraftAlone /\ (\A m \in Sessions : Coming(m))
    BY DEF SettleInv, EditorTyped, QueueOK
  <1>1. \A m : SameWrites(m)
    BY <1>0, SentElsewhere
  <1>2. BodiesLeft' /\ WaitingLeft' /\ DraftLeft'
    BY <1>0 DEF BodiesLeft, WaitingLeft, DraftLeft, Creating
  <1>3. DraftAlone'
    BY <1>0, <1>1 DEF DraftAlone, SameWrites
  <1>4. ASSUME NEW m \in Sessions PROVE Coming(m)'
    <2>1. SameNotes(m) /\ SameCreation(m) /\ HeldOf(m) \subseteq HeldOf(m)'
      BY DEF SameNotes, RowOf, SameCreation, HeldOf
    <2>2. OpenMatches(m) => OpenMatches(m)'
      <3> SUFFICES ASSUME OpenMatches(m), NEW i, RowOf(i), rows[i].made = m, open' # None,
                          open'.id = i
                   PROVE  Matches(open', rows[i].note)
        BY DEF OpenMatches, RowOf
      <3>1. open # None /\ open.id = i /\ i # 0 /\ rows[i].note \in Note
        BY <1>0, RowFields
      <3> QED BY <3>1 DEF OpenMatches
    <2> QED BY <1>0, <1>1, <2>1, <2>2, ComingStays
  <1> QED BY <1>0, <1>2, <1>3, <1>4 DEF SettleInv

(* A body formatted: sent, unless it is what the note holds.               *)
LEMMA FormattedIsSettled ==
  ASSUME OnceInv, SettleInv, ~failed, NEW h \in held, AdoptFormatted(h)
  PROVE  SettleInv'
  <1>0. /\ EditorTyped /\ CreatedOnce /\ DraftUnborn /\ rows \in Seq(Row) /\ queue \in Seq(Job)
        /\ (\A x \in created : x.id # 0) /\ held \subseteq Bodies /\ RowOf(h.id)
        /\ (open # None => OpenOK(open))
        /\ BodiesLeft /\ WaitingLeft /\ DraftLeft /\ DraftAlone /\ \A m \in Sessions : Coming(m)
    BY DEF OnceInv, SettleInv, EditorTyped, QueueOK
  <1>1. PICK t \in {h.text, PrettyOf(h.text)} :
          /\ open # None /\ open.session = h.session =>
               /\ creating' = Saved(open, t).asked.creating
               /\ queue' = Saved(open, t).asked.queue /\ open' = Saved(open, t).open
          /\ ~(open # None /\ open.session = h.session) =>
               queue' = Write(h.id, t) /\ UNCHANGED <<creating, open>>
    BY DEF AdoptFormatted, Asks
  <1>2. held' = held \ {h} /\ UNCHANGED <<rows, created, left>>
    BY DEF AdoptFormatted, answers
  <1>3. PICK M : M = rows[h.id].made
    OBVIOUS
  <1>4. M \in Sessions /\ h.text \in left[M] /\ t \in LeftOrPretty(M) /\ t \in Contents
    <2>1. M \in Sessions /\ h.text \in left[M] /\ h.text \in Contents
      BY <1>0, <1>3, RowFields DEF BodiesLeft, Bodies
    <2>2. t \in Contents
      BY <1>1, <2>1, TextsAssumption DEF PrettyOf
    <2> QED BY <1>1, <2>1, <2>2, LeftIsIn
  <1>5. PICK j : j = WriteJob(h.id, t)
    OBVIOUS
  <1>6. j \in Job /\ j.op = "write" /\ j.session = M /\ j.note.text = t
    BY <1>0, <1>3, <1>4, <1>5, Jobs
  <1>7. /\ open' = open /\ creating' = creating
        /\ \/ queue' = Append(queue, j)
           \/ /\ queue' = queue /\ open # None /\ open.id = h.id
              /\ open.read # None /\ open.read.text = t
    <2>1. CASE open # None /\ open.session = h.session
      <3>1. PICK k : k = Saved(open, t)
        OBVIOUS
      <3>2. open.id = h.id /\ open.read # None /\ open.id # 0 /\ OpenOK(open)
        BY <1>0, <2>1, RowFields DEF BodiesLeft
      <3>3. SavesAs(open, t, k) /\ ~Creating(open.session)
        BY <1>0, <1>4, <2>1, <3>1, <3>2, SavedForms DEF DraftUnborn
      <3>4. /\ k.open = open /\ k.asked.creating = creating
            /\ (t = NoteOf(open).text /\ k.asked.queue = queue) \/ k.asked.queue = Append(queue, j)
        BY <1>5, <3>2, <3>3 DEF SavesAs
      <3> QED BY <1>1, <2>1, <3>1, <3>2, <3>4 DEF NoteOf
    <2>2. CASE ~(open # None /\ open.session = h.session)
      BY <1>1, <1>5, <2>2 DEF Write
    <2> QED BY <2>1, <2>2
  <1>8. \A m \in Sessions : m # M => SameWrites(m)
    BY <1>0, <1>6, <1>7, SentElsewhere
  <1>9. \A m : SameNotes(m) /\ SameCreation(m) /\ left[m] \subseteq left'[m]
    BY <1>2, <1>7 DEF SameNotes, RowOf, SameCreation
  <1>10. BodiesLeft' /\ WaitingLeft' /\ DraftLeft'
    BY <1>0, <1>2, <1>7 DEF BodiesLeft, WaitingLeft, DraftLeft, Creating
  <1>11. DraftAlone'
    <2>1. open # None /\ open.id = 0 => open.session # M /\ open.session \in Sessions
      BY <1>0, <1>3, OpenFields DEF DraftAlone, OpenOK
    <2> QED BY <1>0, <1>2, <1>7, <1>8, <2>1 DEF DraftAlone, SameWrites
  <1>12. ASSUME NEW m \in Sessions, m # M PROVE Coming(m)'
    <2>1. HeldOf(m) \subseteq HeldOf(m)'
      BY <1>2, <1>3, <1>12 DEF HeldOf
    <2>2. OpenMatches(m) => OpenMatches(m)'
      BY <1>2, <1>7 DEF OpenMatches, RowOf
    <2> QED BY <1>0, <1>8, <1>9, <1>12, <2>1, <2>2, ComingStays
  <1>13. Coming(M)'
    <2>1. CASE queue' = Append(queue, j)
      <3>1. j.note.text \in LeftOrPretty(M)'
        BY <1>2, <1>4, <1>6 DEF LeftOrPretty
      <3> QED BY <1>0, <1>6, <2>1, <3>1, SentLast DEF Coming
    <2>2. CASE /\ queue' = queue /\ open # None /\ open.id = h.id
               /\ open.read # None /\ open.read.text = t
      <3>0. SameWrites(M)
        BY <2>2 DEF SameWrites, Writes
      <3>1. CASE LastIsLeft(M)
        BY <1>9, <3>0, <3>1, LastStays DEF Coming
      <3>2. CASE WaitsBehind(M)
        <4>1. PICK c \in creating :
                c.session = M /\ c.waiting # Nothing /\ ~CreatedAs(M, c.waiting)
          BY <3>2 DEF WaitsBehind
        <4>2. ~CreatedAs(M, c.waiting)'
          BY <1>9, <3>0, <4>1, CreatedAsStays
        <4> QED BY <1>7, <4>1, <4>2 DEF WaitsBehind, Coming
      <3>3. CASE BodyFollows(M)
        <4>1. \A k : ~Writes(k, M)'
          BY <3>0, <3>3 DEF BodyFollows, SameWrites
        <4>2. rows[h.id].note.text = t
          BY <1>0, <1>3, <2>2, <3>3 DEF BodyFollows, OpenMatches, Matches
        <4>3. \A i : RowOf(i) /\ rows[i].made = M => i = h.id
          BY <1>0, <1>3 DEF CreatedOnce, RowOf
        <4>4. LeftOrPretty(M)' = LeftOrPretty(M)
          BY <1>2 DEF LeftOrPretty
        <4>5. \A i : (RowOf(i) /\ rows[i].made = M)' => rows'[i].note.text \in LeftOrPretty(M)'
          BY <1>2, <1>4, <4>2, <4>3, <4>4 DEF RowOf
        <4> QED BY <4>1, <4>5 DEF LastIsLeft, Coming
      <3> QED BY <1>0, <1>4, <3>1, <3>2, <3>3 DEF Coming
    <2> QED BY <1>7, <2>1, <2>2
  <1>14. \A m \in Sessions : Coming(m)'
    BY <1>12, <1>13
  <1> QED BY <1>0, <1>2, <1>10, <1>11, <1>14 DEF SettleInv

(* What a frame does keeps what is to come what was left.                  *)
LEMMA FrameIsSettled ==
  ASSUME OnceInv, SettleInv, Frame
  PROVE  SettleInv'
  <1>0. /\ EditorTyped /\ rows \in Seq(Row) /\ queue \in Seq(Job) /\ (open # None => OpenOK(open))
    BY DEF OnceInv, EditorTyped, QueueOK
  <1>1. failed' = failed
    BY DEF Frame, AdoptCreated, AdoptWrote, Ask, AdoptRead, WriteDraft, Exit, Attach, AdoptFormatted
  <1> SUFFICES ASSUME ~failed PROVE SettleInv'
    BY <1>1 DEF SettleInv
  <1>2. CASE \E a \in created : AdoptCreated(a)
    BY <1>2, AdoptCreatedIsSettled
  <1>3. CASE AdoptWrote
    <2>1. UNCHANGED <<rows, queue, creating, created, held, left>> /\ open' = Bumped(open)
      BY <1>3 DEF AdoptWrote
    <2>2. open' # None =>
            /\ open # None /\ open'.session = open.session /\ open'.id = open.id
            /\ open'.draft = open.draft /\ open'.read = open.read /\ ~open'.current
      BY <1>0, <2>1, BumpedFields
    <2>3. open' # None => \A note \in Note : Matches(open, note) => Matches(open', note)
      BY <2>2 DEF Matches
    <2> QED BY <1>0, <2>1, <2>2, <2>3, ReadIsSettled
  <1>4. CASE Ask
    <2>1. /\ open # None /\ open.id # 0 /\ open' = [open EXCEPT !.reading = "asked", !.current = TRUE]
          /\ queue' = Append(queue, ReadJob(open))
          /\ UNCHANGED <<rows, creating, created, held, left>>
      BY <1>4 DEF Ask, Due, answers
    <2>2. open \in Opened /\ RowOf(open.id)
      BY <1>0, <2>1 DEF OpenOK
    <2>3. /\ open'.session = open.session /\ open'.id = open.id /\ open'.read = open.read
          /\ open'.reading = "asked"
      BY <2>1, <2>2 DEF Opened
    <2>4. ReadJob(open) \in Job /\ ReadJob(open).op = "read"
      BY <2>2, Jobs
    <2>5. \A note \in Note : Matches(open, note) => Matches(open', note)
      BY <2>3 DEF Matches
    <2> QED BY <1>0, <2>1, <2>3, <2>4, <2>5, ReadIsSettled
  <1>5. CASE AdoptRead
    <2>1. PICK o : o = [open EXCEPT !.reading = "no", !.current = FALSE, !.got = None]
      OBVIOUS
    <2>2. /\ open # None /\ open.reading = "answered"
          /\ open' = IF open.current THEN Adopted(o, open.got) ELSE o
          /\ UNCHANGED <<rows, queue, creating, created, held, left>>
      BY <1>5, <2>1 DEF AdoptRead, answers
    <2>3. OpenOK(open) /\ open \in Opened /\ open.got \in Note \cup {None}
      <3>1. OpenOK(open) /\ open \in Opened
        BY <1>0, <2>2 DEF OpenOK
      <3> QED BY <3>1, OpenFields
    <2>4. /\ OpenOK(o) /\ o # None /\ o.session = open.session /\ o.id = open.id /\ open.id # 0
          /\ o.reading = "no" /\ o.read = open.read
      BY <2>1, <2>2, <2>3, ReadTaken, Zenon
    <2>5. open' # None =>
            /\ open'.session = open.session /\ open'.id = open.id /\ open'.reading = "no"
            /\ \/ open'.read = open.read
               \/ open.current /\ open.got # None /\ open'.read = open.got
      <3>1. CASE ~open.current
        BY <2>2, <2>4, <3>1
      <3>2. CASE open.current
        <4>1. open' = Adopted(o, open.got)
          BY <2>2, <3>2
        <4> QED BY <2>3, <2>4, <3>2, <4>1, ReadAdopted
      <3> QED BY <3>1, <3>2
    <2>6. open' # None => \A note \in Note : Matches(open, note) => Matches(open', note)
      BY <2>2, <2>5 DEF Matches
    <2>7. open' # None => (open.read # None => open'.read # None)
      BY <2>5
    <2> QED BY <1>0, <2>2, <2>4, <2>5, <2>6, <2>7, ReadIsSettled
  <1>6. CASE WriteDraft
    <2>1. /\ open # None /\ open.id = 0 /\ ~Creating(open.session) /\ open' = open
          /\ creating' = creating \cup {[session |-> open.session, waiting |-> Nothing]}
          /\ queue' = Append(queue, CreateJob(open.session, open.draft))
          /\ UNCHANGED <<rows, created, held, left>>
      BY <1>6 DEF WriteDraft, Asks, Created, answers
    <2>2. open.draft \in Note
      BY <1>0, <2>1 DEF OpenOK
    <2> QED BY <2>1, <2>2, DraftIsSettled
  <1>7. CASE Exit
    <2>1. UNCHANGED <<rows, queue, creating, created, held, open, left, failed>>
      BY <1>7 DEF Exit, editing, answers
    <2> QED BY <2>1, SettledStays
  <1>8. ASSUME NEW s \in files, Attach(s) PROVE SettleInv'
    <2>1. /\ open # None /\ open.id # 0 /\ open' = open
          /\ queue' = Append(queue, AttachJob(open.id))
          /\ UNCHANGED <<rows, creating, created, held, left>>
      BY <1>8 DEF Attach, editing, answers
    <2>2. RowOf(open.id)
      BY <1>0, <2>1 DEF OpenOK
    <2>3. AttachJob(open.id) \in Job /\ AttachJob(open.id).op = "attach"
      BY <1>0, <2>2, Jobs
    <2> QED BY <1>0, <2>1, <2>3, ReadIsSettled
  <1>9. CASE \E h \in held : AdoptFormatted(h)
    BY <1>9, FormattedIsSettled
  <1> QED BY <1>2, <1>3, <1>4, <1>5, <1>6, <1>7, <1>8, <1>9 DEF Frame

(* What is on its way to a note ends in what was left of it, whatever ran. *)
LEMMA SettleHolds == Spec => []SettleInv
  <1>1. Init => SettleInv
    <2> SUFFICES ASSUME Init PROVE SettleInv
      OBVIOUS
    <2>1. /\ rows = <<>> /\ queue = <<>> /\ open = None /\ creating = {} /\ created = {}
          /\ held = {}
      BY DEF Init
    <2>2. \A k, m : ~Writes(k, m)
      BY <2>1 DEF Writes
    <2>3. \A i : ~RowOf(i)
      BY <2>1 DEF RowOf
    <2>4. \A m \in Sessions : Coming(m)
      BY <2>2, <2>3 DEF Coming, LastIsLeft
    <2> QED BY <2>1, <2>4 DEF SettleInv, BodiesLeft, WaitingLeft, DraftLeft, DraftAlone
  <1>2. OnceInv /\ ReadCurrent /\ SettleInv /\ [Next]_vars => SettleInv'
    <2>1. ASSUME SettleInv, UNCHANGED vars PROVE SettleInv'
      BY <2>1, SettledStays DEF vars, editing, answers
    <2> QED BY <2>1, UserIsSettled, RunIsSettled, FrameIsSettled DEF Next
  <1> QED BY <1>1, <1>2, OnceHolds, CurrentHolds, PTL DEF Spec

(* Once nothing of a note is on its way, the library holds the text last   *)
(* left in its field, or what Prettier made of it, whatever was created,   *)
(* written, read, formatted or closed meanwhile.                           *)
THEOREM RestHoldsWhatWasLeft == Spec => []SettlesOnWhatWasLeft
  <1>1. OnceInv /\ SettleInv => SettlesOnWhatWasLeft
    <2> SUFFICES ASSUME OnceInv, SettleInv, ~failed, NEW i \in 1 .. Len(rows),
                        Settled(rows[i].made)
                 PROVE  rows[i].note.text \in LeftOrPretty(rows[i].made)
      BY DEF SettlesOnWhatWasLeft, LeftOrPretty
    <2>1. PICK m : m = rows[i].made
      OBVIOUS
    <2>2. m \in Sessions /\ RowOf(i)
      BY <2>1, RowFields DEF OnceInv, EditorTyped, RowOf
    <2>3. (\A k : ~Writes(k, m)) /\ ~WaitsBehind(m) /\ ~BodyFollows(m)
      BY <2>1 DEF Settled, Writes, WaitsBehind, Creating, BodyFollows, HeldOf
    <2> QED BY <2>1, <2>2, <2>3 DEF SettleInv, Coming, LastIsLeft
  <1> QED BY <1>1, OnceHolds, SettleHolds, PTL
=============================================================================
