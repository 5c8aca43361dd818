--------------------------- MODULE HttpSendsProofs ---------------------------
(* Theorems about HttpSends, for every set of sends and runs, any number   *)
(* of libraries opened, and a SQLite that fails or not.                    *)
EXTENDS HttpSends, TLAPS

USE KindsAssumption, BoundsAssumption DEF None

-----------------------------------------------------------------------------
(* The tasks, after a step.                                                *)

(* Every task is one, and a flight that goes on has read its library.      *)
TasksTyped ==
  /\ task \in [Tasks -> Task]
  /\ \A t \in Tasks : task[t].stage \in HasRead => task[t].read # None

(* A step of one task.                                                     *)
LEMMA OneTaskMoves ==
  ASSUME TypeOK, NEW t \in Tasks, NEW r \in Task, r.stage \in HasRead => r.read # None,
         task' = [task EXCEPT ![t] = r]
  PROVE  TasksTyped'
  BY DEF TypeOK, TasksTyped

(* A call that is over.                                                    *)
LEMMA CallOver ==
  ASSUME TypeOK, NEW t \in Tasks
  PROVE  /\ Over(task[t]) \in Task
         /\ Over(task[t]).stage = "done" /\ Over(task[t]).stage \notin HasRead
         /\ Over(task[t]).read = task[t].read /\ Over(task[t]).net = task[t].net
         /\ Over(task[t]).sent = task[t].sent /\ Over(task[t]).changes = task[t].changes
  <1>1. task[t] \in Task /\ "done" \in Stages \ HasRead
    BY DEF TypeOK, Stages, LoopStages, FlightStages, HasRead
  <1> QED BY <1>1 DEF Over, Task

(* A cancel marks tasks, and leaves them where they are.                   *)
LEMMA CancelledKeeps ==
  ASSUME TypeOK, NEW scripts, NEW sends, NEW accepts, Cancelled(scripts, sends, accepts)
  PROVE  /\ task' \in [Tasks -> Task]
         /\ \A t \in Tasks :
              /\ task'[t].stage = task[t].stage /\ task'[t].read = task[t].read
              /\ task'[t].name = task[t].name /\ task'[t].turn = task[t].turn
              /\ task'[t].net = task[t].net
              /\ task'[t].sent = task[t].sent /\ task'[t].changes = task[t].changes
              /\ task[t].aborted \/ t \in sends => task'[t].aborted
  <1> DEFINE After(t) ==
        [task[t] EXCEPT
           !.killed = @ \/ t \in scripts, !.aborted = @ \/ t \in sends,
           !.told = IF t \in scripts \cup sends THEN "hit"
                    ELSE IF t \in accepts /\ @ = "no" THEN "accepted" ELSE @,
           !.late = IF t \in scripts \cup sends THEN 0 ELSE @]
  <1>1. task' = [t \in Tasks |-> After(t)]
    BY DEF Cancelled
  <1>2. ASSUME NEW t \in Tasks
        PROVE  /\ After(t) \in Task
               /\ After(t).stage = task[t].stage /\ After(t).read = task[t].read
               /\ After(t).name = task[t].name /\ After(t).turn = task[t].turn
               /\ After(t).net = task[t].net
               /\ After(t).sent = task[t].sent /\ After(t).changes = task[t].changes
               /\ task[t].aborted \/ t \in sends => After(t).aborted
    <2>1. task[t] \in Task
      BY DEF TypeOK
    <2> HIDE DEF TypeOK
    <2> QED BY <2>1 DEF Task
  <1> HIDE DEF After
  <1> QED BY <1>1, <1>2

(* The id of a task's send is one.                                         *)
LEMMA SendIdsOfTasks ==
  ASSUME TypeOK, NEW t \in Tasks
  PROVE  SendId(t) \in SendIds
  BY DEF TypeOK, SendId, SendIds, Task

(* A turn counted is one told apart.                                       *)
LEMMA TurnsAreBounded ==
  ASSUME NEW n \in 0 .. MaxTurns
  PROVE  (IF n < MaxTurns THEN n + 1 ELSE n) \in 0 .. MaxTurns
  OBVIOUS

-----------------------------------------------------------------------------
(* TypeOK.                                                                 *)

(* The tables start of their types.                                         *)
LEMMA InitTyped == Init => TypeOK
  <1>1. Init => leaving \in BOOLEAN
    BY Zenon DEF Init
  <1>2. NotAsked \in Task /\ NotAsked.stage \notin HasRead
    BY DEF NotAsked, Task, Stages, HasRead, Numbers
  <1>3. Init => /\ task \in [Tasks -> Task]
                /\ \A t \in Tasks : task[t].stage \in HasRead => task[t].read # None
    BY <1>2 DEF Init
  <1>4. Init => /\ open \in Numbers /\ opened \in Numbers
                /\ runs \subseteq RunEntry /\ running \subseteq Entry /\ hosts \subseteq Entry
                /\ written \subseteq [by : Tasks, read : Numbers, into : Numbers]
                /\ asked \in [send : Nat, run : Nat]
    BY DEF Init, Numbers, NoCount
  <1> QED BY <1>1, <1>3, <1>4 DEF TypeOK

(* Every step leaves them so, and reads a library before it holds to one.   *)
LEMMA StepsTyped == TypeOK /\ [Next]_vars => TypeOK'
  <1> SUFFICES ASSUME TypeOK, [Next]_vars
               PROVE  TypeOK'
    OBVIOUS
  <1> USE DEF At, Go
  <1>1. CASE Unlock
    BY <1>1 DEF Unlock, TypeOK, Numbers, NoCount, tables
  <1>2. CASE LetGo
    <2>1. TasksTyped'
      BY <1>2, CancelledKeeps DEF LetGo, TypeOK, TasksTyped
    <2>2. runs' \subseteq RunEntry
      BY <1>2 DEF LetGo, TypeOK, RunEntry
    <2> QED BY <1>2, <2>1, <2>2 DEF LetGo, TypeOK, TasksTyped
  <1>10. CASE Leave
    <2>1. leaving' \in BOOLEAN
      BY <1>10, Zenon DEF Leave
    <2>2. open' \in Numbers
      BY <1>10 DEF Leave, Numbers
    <2> QED BY <1>10, <2>1, <2>2 DEF Leave, TypeOK, tables
  <1>3. ASSUME NEW t \in Sends, AskSend(t)
        PROVE  TypeOK'
    <2> DEFINE asks == [task[t] EXCEPT !.stage = "prepare", !.name = asked.send + 1, !.era = opened]
    <2>1. TasksTyped'
      <3>1. t \in Tasks /\ task' = [task EXCEPT ![t] = asks]
        BY <1>3 DEF AskSend, Tasks, TypeOK
      <3>2. asks \in Task /\ asks.stage \notin HasRead
        <4>1. task[t] \in Task /\ opened \in Numbers /\ asked.send + 1 \in Nat
          BY <3>1 DEF TypeOK
        <4>2. "prepare" \in Stages \ HasRead
          BY DEF Stages, LoopStages, FlightStages, HasRead
        <4> QED BY <4>1, <4>2 DEF Task
      <3> QED BY <3>1, <3>2, OneTaskMoves
    <2>2. asked' \in [send : Nat, run : Nat]
      BY <1>3 DEF AskSend, TypeOK
    <2> QED BY <1>3, <2>1, <2>2 DEF AskSend, TypeOK, TasksTyped, libraries, tables
  <1>4. ASSUME NEW t \in Sends, CancelSend(t)
        PROVE  TypeOK'
    BY <1>4, CancelledKeeps DEF CancelSend, TypeOK, libraries, tables
  <1>5. ASSUME NEW t \in Runs, AskRun(t)
        PROVE  TypeOK'
    <2> DEFINE asks == [task[t] EXCEPT !.stage = "tree", !.name = asked.run + 1, !.era = opened]
    <2>1. TasksTyped'
      <3>1. t \in Tasks /\ task' = [task EXCEPT ![t] = asks]
        BY <1>5 DEF AskRun, Tasks, TypeOK
      <3>2. asks \in Task /\ asks.stage \notin HasRead
        <4>1. task[t] \in Task /\ opened \in Numbers /\ asked.run + 1 \in Nat
          BY <3>1 DEF TypeOK
        <4>2. "tree" \in Stages \ HasRead
          BY DEF Stages, LoopStages, FlightStages, HasRead
        <4> QED BY <4>1, <4>2 DEF Task
      <3> QED BY <3>1, <3>2, OneTaskMoves
    <2>2. asked' \in [send : Nat, run : Nat]
      BY <1>5 DEF AskRun, TypeOK
    <2> QED BY <1>5, <2>1, <2>2 DEF AskRun, TypeOK, TasksTyped, libraries, tables
  <1>6. ASSUME NEW t \in Runs, CancelRun(t)
        PROVE  TypeOK'
    <2>1. TasksTyped'
      BY <1>6, CancelledKeeps DEF CancelRun, TypeOK, TasksTyped
    <2>2. runs' \subseteq RunEntry
      BY <1>6 DEF CancelRun, TypeOK, RunEntry
    <2> QED BY <1>6, <2>1, <2>2 DEF CancelRun, TypeOK, TasksTyped, libraries
  <1>7. ASSUME NEW t \in Tasks, FlightStep(t)
        PROVE  TypeOK'
    <2>1. CASE Prepare(t)
      BY <2>1 DEF Prepare, TypeOK, Task, HasRead, Stages, LoopStages, FlightStages, libraries, tables, Numbers
    <2>2. CASE StartHost(t)
      <3>1. TasksTyped'
        BY <2>2 DEF StartHost, TypeOK, TasksTyped, Task, HasRead, Stages, LoopStages, FlightStages
      <3>2. hosts' \subseteq Entry
        BY <2>2, SendIdsOfTasks DEF StartHost, With, Without, Entry, TypeOK
      <3> QED BY <2>2, <3>1, <3>2 DEF StartHost, TypeOK, TasksTyped, libraries
    <2>3. CASE HostEnds(t)
      BY <2>3 DEF HostEnds, Without, History, Before, TypeOK, Task, HasRead, Stages, LoopStages, FlightStages, libraries
    <2>4. CASE Write(t)
      BY <2>4 DEF Write, Writes, History, Before, TypeOK, Task, HasRead, Stages, LoopStages, FlightStages, libraries, tables
    <2>5. CASE Compose(t)
      BY <2>5 DEF Compose, TypeOK, Task, HasRead, Stages, LoopStages, FlightStages, libraries, tables
    <2>6. CASE Register(t)
      <3> DEFINE after(u) == [task[u] EXCEPT !.aborted = @ \/ u \in Hit(running, SendId(t)),
                                             !.stage = IF u = t THEN "sending" ELSE @]
      <3>1. TasksTyped'
        <4>1. task' = [u \in Tasks |-> after(u)]
          BY <2>6 DEF Register
        <4>2. task[t].read # None
          BY <2>6 DEF Register, TypeOK, HasRead
        <4>3. ASSUME NEW u \in Tasks
              PROVE  after(u) \in Task /\ (after(u).stage \in HasRead => after(u).read # None)
          <5>1. task[u] \in Task /\ (task[u].stage \in HasRead => task[u].read # None)
            BY DEF TypeOK
          <5>2. "sending" \in Stages
            BY DEF Stages, LoopStages, FlightStages
          <5> QED BY <4>2, <5>1, <5>2 DEF Task
        <4> HIDE DEF after
        <4> QED BY <4>1, <4>3 DEF TasksTyped
      <3>2. running' \subseteq Entry
        <4>1. running' = With(running, t)
          BY <2>6 DEF Register
        <4> QED BY <4>1, SendIdsOfTasks DEF With, Without, Entry, TypeOK
      <3> QED BY <2>6, <3>1, <3>2 DEF Register, TypeOK, TasksTyped, libraries
    <2>7. CASE Joined(t)
      BY <2>7 DEF Joined, Unregistered, History, Before, TypeOK, Task, HasRead, Stages, LoopStages, FlightStages, libraries
    <2>8. CASE Keep(t)
      <3> DEFINE kept == IF t \in Sends THEN Over(Kept(task[t]))
                         ELSE [Kept(task[t]) EXCEPT !.stage = "result"]
      <3>1. TasksTyped'
        <4>1. task' = [task EXCEPT ![t] = kept]
          BY <2>8 DEF Keep, TypeOK
        <4>2. kept \in Task /\ kept.stage \notin HasRead
          <5>1. task[t] \in Task
            BY DEF TypeOK
          <5>2. {"done", "result"} \subseteq Stages \ HasRead
            BY DEF Stages, LoopStages, HasRead
          <5> QED BY <5>1, <5>2 DEF Task, Over, Kept
        <4> HIDE DEF kept
        <4> QED BY <4>1, <4>2, OneTaskMoves
      <3>2. written' \subseteq [by : Tasks, read : Numbers, into : Numbers]
        BY <2>8 DEF Keep, Writes, TypeOK, Task, Numbers
      <3> QED BY <2>8, <3>1, <3>2 DEF Keep, TypeOK, TasksTyped, libraries, tables
    <2> QED BY <1>7, <2>1, <2>2, <2>3, <2>4, <2>5, <2>6, <2>7, <2>8 DEF FlightStep
  <1>8. ASSUME NEW t \in Runs, RunStep(t)
        PROVE  TypeOK'
    <2> t \in Tasks
      BY DEF Tasks
    <2>1. CASE ReadTree(t)
      <3>1. TasksTyped'
        BY <2>1 DEF ReadTree, TypeOK, TasksTyped, Task, HasRead, Stages
      <3> QED BY <2>1, <3>1 DEF ReadTree, TypeOK, TasksTyped, libraries, tables
    <2>2. CASE StartRun(t)
      <3>1. TasksTyped'
        BY <2>2 DEF StartRun, TypeOK, TasksTyped, Task, HasRead, Stages, LoopStages
      <3>2. runs' \subseteq RunEntry
        <4>1. [name |-> task[t].name, cancelled |-> FALSE, at |-> 0] \in RunEntry
          BY DEF TypeOK, Task, RunEntry
        <4> QED BY <2>2, <4>1 DEF StartRun, Others, TypeOK
      <3> QED BY <2>2, <3>1, <3>2 DEF StartRun, TypeOK, TasksTyped, libraries
    <2>3. CASE Check(t)
      BY <2>3, TurnsAreBounded DEF Check, TypeOK, Task, HasRead, Stages, LoopStages, libraries, tables
    <2>4. CASE GetRequest(t)
      <3> DEFINE next == [task[t] EXCEPT !.stage = "prepare", !.read = None, !.net = "no",
                                         !.ended = "no"]
                 gone == [task[t] EXCEPT !.ended = "failed", !.stage = "result"]
      <3>1. TasksTyped'
        <4>1. \/ task' = [task EXCEPT ![t] = next]
              \/ task' = [task EXCEPT ![t] = gone]
          BY <2>4 DEF GetRequest, TypeOK
        <4>2. /\ next \in Task /\ next.stage \notin HasRead
              /\ gone \in Task /\ gone.stage \notin HasRead
          <5>1. task[t] \in Task /\ None \in Numbers
            BY DEF TypeOK, Numbers
          <5>2. {"prepare", "result"} \subseteq Stages \ HasRead
            BY DEF Stages, LoopStages, FlightStages, HasRead
          <5> QED BY <5>1, <5>2 DEF Task
        <4> HIDE DEF next, gone
        <4> QED BY <4>1, <4>2, OneTaskMoves
      <3>2. runs' \subseteq RunEntry
        BY <2>4 DEF GetRequest, RunEntry, TypeOK, Task
      <3> QED BY <2>4, <3>1, <3>2 DEF GetRequest, TypeOK, TasksTyped, libraries
    <2>5. CASE Result(t)
      BY <2>5 DEF Result, TypeOK, Task, HasRead, Stages, LoopStages, libraries, tables
    <2>6. CASE Wait(t)
      BY <2>6 DEF Wait, TypeOK, Task, HasRead, Stages, LoopStages, libraries, tables
    <2>7. CASE Finish(t)
      <3>1. TasksTyped'
        BY <2>7, CallOver, OneTaskMoves DEF Finish
      <3> QED BY <2>7, <3>1 DEF Finish, Others, TypeOK, TasksTyped, libraries
    <2> QED BY <1>8, <2>1, <2>2, <2>3, <2>4, <2>5, <2>6, <2>7 DEF RunStep
  <1>9. CASE UNCHANGED vars
    BY <1>9 DEF vars, libraries, tables, TypeOK
  <1> QED BY <1>1, <1>2, <1>3, <1>4, <1>5, <1>6, <1>7, <1>8, <1>9, <1>10 DEF Next, Step, User

(* The calls, the tables and what is written stay of their types, and a    *)
(* flight that has not failed keeps the number of the library it read.     *)
THEOREM TypeCorrect == Spec => []TypeOK
  BY InitTyped, StepsTyped, PTL DEF Spec

-----------------------------------------------------------------------------
(* What moves, step by step.                                               *)

(* A step of a call is its own: Register only aborts others.               *)
LEMMA OthersStay ==
  ASSUME TypeOK, NEW t \in Tasks, FlightStep(t) \/ RunStep(t), NEW u \in Tasks, u # t
  PROVE  /\ ~Register(t) => task'[u] = task[u]
         /\ /\ task'[u].stage = task[u].stage /\ task'[u].read = task[u].read
            /\ task'[u].name = task[u].name /\ task'[u].turn = task[u].turn
            /\ task'[u].net = task[u].net
            /\ task'[u].sent = task[u].sent /\ task'[u].changes = task[u].changes
  <1> USE DEF At, Go
  <1>0. task \in [Tasks -> Task]
    BY DEF TypeOK
  <1>1. CASE Register(t)
    <2>1. task'[u] = [task[u] EXCEPT !.aborted = @ \/ u \in Hit(running, SendId(t))]
      <3>1. task'[u] = [task[u] EXCEPT !.aborted = @ \/ u \in Hit(running, SendId(t)),
                                       !.stage = task[u].stage]
        BY <1>1 DEF Register
      <3>2. task[u] \in Task
        BY <1>0
      <3> QED BY <3>1, <3>2 DEF Task
    <2>2. task[u] \in Task
      BY <1>0
    <2> QED BY <1>1, <2>1, <2>2 DEF Task
  <1>2. CASE ~Register(t)
    <2>1. task'[u] = task[u]
      BY <1>0, <1>2 DEF FlightStep, RunStep, Prepare, StartHost, HostEnds, Write, Compose, Joined,
                        Keep, ReadTree, StartRun, Check, GetRequest, Result, Wait, Finish
    <2> QED BY <2>1
  <1> QED BY <1>1, <1>2

-----------------------------------------------------------------------------
(* WritesStayHome.                                                         *)

(* The flight of a turn starts with nothing to keep, if the one before had *)
(* nothing left.                                                           *)
LEMMA RequestGot ==
  ASSUME TypeOK, NEW t \in Tasks, GetRequest(t)
  PROVE  /\ task[t].stage = "get" /\ task'[t].stage \in {"prepare", "result"}
         /\ task'[t].sent = task[t].sent /\ task'[t].changes = task[t].changes
  <1>0. task[t] \in Task /\ task \in [Tasks -> Task]
    BY DEF TypeOK
  <1>1. CASE task' = [task EXCEPT ![t] =
               [@ EXCEPT !.stage = "prepare", !.read = None, !.net = "no", !.ended = "no"]]
    BY <1>0, <1>1 DEF Task, GetRequest, At
  <1>2. CASE task' = [task EXCEPT ![t].ended = "failed", ![t].stage = "result"]
    BY <1>0, <1>2 DEF Task, GetRequest, At
  <1> QED BY <1>1, <1>2 DEF GetRequest

(* A flight has something to keep only once it has read its library.       *)
KeepersRead ==
  \A t \in Tasks : HasToKeep(t) =>
    task[t].stage \in HasRead \cup {"keep"} /\ task[t].read # None

(* What the user does changes no task under way but to cancel it.           *)
LEMMA UserKeepsTasks ==
  ASSUME TypeOK, User, NEW t \in Tasks
  PROVE  /\ task'[t].read = task[t].read /\ task'[t].net = task[t].net
         /\ task'[t].sent = task[t].sent /\ task'[t].changes = task[t].changes
         /\ task[t].stage # "idle" =>
              /\ task'[t].stage = task[t].stage
              /\ task'[t].name = task[t].name /\ task'[t].turn = task[t].turn
         /\ task[t].stage = "idle" => task'[t].stage \in {"idle", "prepare", "tree"}
         /\ task[t].aborted => task'[t].aborted
         /\ running' = running /\ written' = written
  <1> USE DEF At, Go
  <1>0. task[t] \in Task
    BY DEF TypeOK
  <1>1. CASE Unlock
    BY <1>1 DEF Unlock, tables
  <1>2. CASE LetGo
    BY <1>2, CancelledKeeps DEF LetGo
  <1>9. CASE Leave
    BY <1>9 DEF Leave, tables
  <1>3. ASSUME NEW s \in Sends, AskSend(s)
        PROVE  task'[t] = task[t] \/ (/\ task[t].stage = "idle"
                 /\ task'[t] = [task[t] EXCEPT !.stage = "prepare", !.name = asked.send + 1,
                                               !.era = opened])
    BY <1>3 DEF AskSend, TypeOK
  <1>4. ASSUME NEW s \in Runs, AskRun(s)
        PROVE  task'[t] = task[t] \/ (/\ task[t].stage = "idle"
                 /\ task'[t] = [task[t] EXCEPT !.stage = "tree", !.name = asked.run + 1,
                                               !.era = opened])
    BY <1>4 DEF AskRun, TypeOK
  <1>5. CASE \E s \in Sends : AskSend(s)
    BY <1>0, <1>3, <1>5 DEF AskSend, tables, Task
  <1>6. CASE \E s \in Runs : AskRun(s)
    BY <1>0, <1>4, <1>6 DEF AskRun, tables, Task
  <1>7. CASE \E s \in Sends : CancelSend(s)
    BY <1>7, CancelledKeeps DEF CancelSend, tables
  <1>8. CASE \E s \in Runs : CancelRun(s)
    BY <1>8, CancelledKeeps DEF CancelRun
  <1> QED BY <1>1, <1>2, <1>5, <1>6, <1>7, <1>8, <1>9 DEF User

(* What has something to keep has read its library.                         *)
LEMMA KeepersReadInductive ==
  /\ Init => KeepersRead
  /\ TypeOK /\ TypeOK' /\ KeepersRead /\ [Next]_vars => KeepersRead'
  <1>1. Init => KeepersRead
    BY DEF Init, KeepersRead, HasToKeep, NotAsked
  <1>2. ASSUME TypeOK, TypeOK', KeepersRead, User
        PROVE  KeepersRead'
    BY <1>2, UserKeepsTasks DEF KeepersRead, HasToKeep, HasRead
  <1>3. ASSUME TypeOK, TypeOK', KeepersRead, NEW t \in Tasks, FlightStep(t) \/ RunStep(t)
        PROVE  KeepersRead'
    <2> USE DEF At, Go
    <2>1. ASSUME NEW u \in Tasks, u # t
          PROVE  HasToKeep(u)' => task'[u].stage \in HasRead \cup {"keep"} /\ task'[u].read # None
      BY <1>3, <2>1, OthersStay DEF KeepersRead, HasToKeep
    <2>2. HasToKeep(t)' => task'[t].stage \in HasRead \cup {"keep"} /\ task'[t].read # None
      <3>0. /\ task[t] \in Task /\ task \in [Tasks -> Task]
            /\ HasToKeep(t) => task[t].stage \in HasRead \cup {"keep"} /\ task[t].read # None
            /\ task[t].stage \in HasRead => task[t].read # None
        BY <1>3 DEF TypeOK, KeepersRead
      <3> USE DEF HasToKeep, HasRead
      <3>1. CASE Prepare(t)
        BY <3>0, <3>1 DEF Prepare, Task
      <3>2. CASE StartHost(t) \/ HostEnds(t)
        BY <3>0, <3>2 DEF StartHost, HostEnds, Task
      <3>3. CASE Write(t) \/ Compose(t) \/ Register(t)
        <4>1. CASE Write(t)
          BY <3>0, <4>1 DEF Write, Task
        <4>2. CASE Compose(t)
          BY <3>0, <4>2 DEF Compose, Task
        <4>3. CASE Register(t)
          <5>1. /\ task'[t].stage = "sending" /\ task'[t].read = task[t].read
            BY <3>0, <4>3 DEF Register, Task
          <5>2. task[t].stage = "spawned"
            BY <4>3 DEF Register
          <5> QED BY <3>0, <5>1, <5>2
        <4> QED BY <3>3, <4>1, <4>2, <4>3
      <3>4. CASE Joined(t)
        BY <3>0, <3>4 DEF Joined, Task
      <3>5. CASE Keep(t)
        BY <3>0, <3>5 DEF Keep, Over, Kept, Task
      <3>6. CASE RunStep(t)
        <4>1. CASE GetRequest(t)
          <5>1. task[t].stage = "get" /\ ~HasToKeep(t)
            BY <3>0, <4>1 DEF GetRequest
          <5>2. task'[t].sent = task[t].sent /\ task'[t].changes = task[t].changes
            BY <3>0, <4>1, RequestGot, <1>3
          <5> QED BY <5>1, <5>2
        <4>2. CASE Check(t)
          BY <3>0, <4>2 DEF Check, Task
        <4>3. CASE Wait(t) \/ Result(t)
          BY <3>0, <4>3 DEF Wait, Result, Task
        <4>4. CASE ReadTree(t) \/ StartRun(t)
          BY <3>0, <4>4 DEF ReadTree, StartRun, Task
        <4>5. CASE Finish(t)
          <5>1. task'[t] = Over(task[t]) /\ task[t].stage = "finish"
            BY <3>0, <4>5 DEF Finish
          <5>2. task'[t].sent = task[t].sent /\ task'[t].changes = task[t].changes
            BY <1>3, <5>1, CallOver
          <5> QED BY <3>0, <5>1, <5>2
        <4> QED BY <3>6, <4>1, <4>2, <4>3, <4>4, <4>5 DEF RunStep
      <3> QED BY <1>3, <3>1, <3>2, <3>3, <3>4, <3>5, <3>6 DEF FlightStep
    <2> QED BY <2>1, <2>2 DEF KeepersRead
  <1>4. TypeOK /\ KeepersRead /\ UNCHANGED vars => KeepersRead'
    BY DEF vars, KeepersRead, HasToKeep
  <1>5. Runs \subseteq Tasks
    BY DEF Tasks
  <1> QED BY <1>1, <1>2, <1>3, <1>4, <1>5 DEF Next, Step

(* A write goes to the library that was read.                               *)
LEMMA WritesStayInductive ==
  /\ Init => WritesStayHome
  /\ TypeOK /\ KeepersRead /\ WritesStayHome /\ [Next]_vars => WritesStayHome'
  <1>1. Init => WritesStayHome
    BY DEF Init, WritesStayHome
  <1>2. ASSUME TypeOK, KeepersRead, WritesStayHome, [Next]_vars
        PROVE  WritesStayHome'
    <2>1. CASE User
      BY <1>2, <2>1 DEF User, Unlock, LetGo, Leave, AskSend, CancelSend, AskRun, CancelRun, tables,
                        WritesStayHome
    <2>2. ASSUME NEW t \in Tasks, FlightStep(t)
          PROVE  WritesStayHome'
      <3>1. CASE Write(t)
        <4>1. task[t].read # None
          BY <1>2, <3>1 DEF Write, At, TypeOK, HasRead
        <4> QED BY <1>2, <3>1, <4>1 DEF Write, Writes, WritesStayHome
      <3>2. CASE Keep(t)
        BY <1>2, <3>2 DEF Keep, Writes, KeepersRead, WritesStayHome
      <3>3. CASE ~Write(t) /\ ~Keep(t)
        BY <1>2, <2>2, <3>3 DEF FlightStep, Prepare, StartHost, HostEnds, Compose, Register,
                                Joined, tables, WritesStayHome
      <3> QED BY <3>1, <3>2, <3>3
    <2>3. CASE \E t \in Runs : RunStep(t)
      BY <1>2, <2>3 DEF RunStep, ReadTree, StartRun, Check, GetRequest, Result, Wait, Finish,
                        tables, WritesStayHome
    <2>4. CASE UNCHANGED vars
      BY <1>2, <2>4 DEF vars, WritesStayHome
    <2> QED BY <1>2, <2>1, <2>2, <2>3, <2>4 DEF Next, Step
  <1> QED BY <1>1, <1>2

(* However many libraries are left and opened while it is on the network,  *)
(* a send writes to the library it read, or to none.                       *)
THEOREM WritesStay == Spec => []WritesStayHome
  <1>1. Spec => []KeepersRead
    BY TypeCorrect, KeepersReadInductive, PTL DEF Spec
  <1> QED BY <1>1, TypeCorrect, WritesStayInductive, PTL DEF Spec

-----------------------------------------------------------------------------
(* RunningIsExact.                                                         *)

(* The task a cancel of that id would reach.                               *)
EntryOf(t) == [id |-> SendId(t), task |-> t]

Reachable == \A t \in Tasks : At(t, "sending") /\ ~task[t].aborted => EntryOf(t) \in running
Exact == \A e \in running : At(e.task, "sending") /\ e.id = SendId(e.task)

(* The id of a task that keeps its name and its turn is the same.          *)
LEMMA SameSendId ==
  ASSUME NEW t \in Tasks, task'[t].name = task[t].name, task'[t].turn = task[t].turn
  PROVE  SendId(t)' = SendId(t) /\ EntryOf(t)' = [id |-> SendId(t), task |-> t]
  BY DEF SendId, EntryOf

(* A step at which no task begins or ends its time on the network, and     *)
(* none that is on it is renamed.                                          *)
LEMMA RunningUntouched ==
  ASSUME TypeOK, Reachable, Exact, running' = running,
         \A t \in Tasks :
           /\ At(t, "sending") <=> At(t, "sending")'
           /\ At(t, "sending") =>
                task'[t].name = task[t].name /\ task'[t].turn = task[t].turn
           /\ At(t, "sending") /\ task[t].aborted => task'[t].aborted
  PROVE  Reachable' /\ Exact'
  <1>1. ASSUME NEW t \in Tasks, At(t, "sending")', ~task'[t].aborted
        PROVE  EntryOf(t)' \in running'
    BY <1>1, SameSendId DEF Reachable, EntryOf
  <1>2. ASSUME NEW e \in running'
        PROVE  At(e.task, "sending")' /\ e.id = SendId(e.task)'
    <2>1. e \in running /\ e.task \in Tasks
      BY <1>2 DEF TypeOK, Entry
    <2> QED BY <2>1, SameSendId DEF Exact
  <1> QED BY <1>1, <1>2 DEF Reachable, Exact

(* The entries are those of the requests out, and of no other.              *)
LEMMA RunningExactInductive ==
  /\ Init => Reachable /\ Exact
  /\ TypeOK /\ Reachable /\ Exact /\ [Next]_vars => Reachable' /\ Exact'
  <1>1. Init => Reachable /\ Exact
    BY DEF Init, Reachable, Exact, At, NotAsked
  <1>2. ASSUME TypeOK, Reachable, Exact, [Next]_vars
        PROVE  Reachable' /\ Exact'
    <2>1. CASE User
      <3>1. ASSUME NEW t \in Tasks
            PROVE  /\ At(t, "sending") <=> At(t, "sending")'
                   /\ At(t, "sending") =>
                        task'[t].name = task[t].name /\ task'[t].turn = task[t].turn
                   /\ task[t].aborted => task'[t].aborted
                   /\ running' = running
        BY <1>2, <2>1, UserKeepsTasks DEF At
      <3>2. running' = running
        BY <2>1 DEF User, Unlock, LetGo, Leave, AskSend, CancelSend, AskRun, CancelRun, tables
      <3> QED BY <1>2, <3>1, <3>2, RunningUntouched
    <2>2. ASSUME NEW t \in Tasks, FlightStep(t) \/ RunStep(t), ~Register(t), ~Joined(t)
          PROVE  Reachable' /\ Exact'
      <3>0. task \in [Tasks -> Task]
        BY <1>2 DEF TypeOK
      <3>1. running' = running
        BY <2>2 DEF FlightStep, RunStep, Prepare, StartHost, HostEnds, Write, Compose, Keep, ReadTree,
                    StartRun, Check, GetRequest, Result, Wait, Finish, tables
      <3>2. ~At(t, "sending") /\ ~At(t, "sending")'
        <4>1. task[t] \in Task
          BY <3>0
        <4>2. CASE FlightStep(t)
          <5>1. CASE Prepare(t)
            BY <3>0, <4>1, <5>1 DEF Prepare, At, Go, Task
          <5>2. CASE StartHost(t)
            BY <3>0, <4>1, <5>2 DEF StartHost, At, Go, Task
          <5>3. CASE HostEnds(t)
            BY <3>0, <4>1, <5>3 DEF HostEnds, At, Go, Task
          <5>4. CASE Write(t)
            BY <3>0, <4>1, <5>4 DEF Write, At, Go, Task
          <5>5. CASE Compose(t)
            BY <3>0, <4>1, <5>5 DEF Compose, At, Go, Task
          <5>6. CASE Keep(t)
            BY <3>0, <4>1, <5>6 DEF Keep, Over, Kept, At, Go, Task
          <5> QED BY <2>2, <4>2, <5>1, <5>2, <5>3, <5>4, <5>5, <5>6 DEF FlightStep
        <4>3. CASE RunStep(t)
          <5>1. CASE ReadTree(t)
            BY <3>0, <4>1, <5>1 DEF ReadTree, At, Go, Task
          <5>2. CASE StartRun(t)
            BY <3>0, <4>1, <5>2 DEF StartRun, At, Go, Task
          <5>3. CASE Check(t)
            BY <3>0, <4>1, <5>3 DEF Check, At, Go, Task
          <5>4. CASE GetRequest(t)
            BY <1>2, <5>4, RequestGot DEF At
          <5>5. CASE Result(t)
            BY <3>0, <4>1, <5>5 DEF Result, At, Go, Task
          <5>6. CASE Wait(t)
            BY <3>0, <4>1, <5>6 DEF Wait, At, Go, Task
          <5>7. CASE Finish(t)
            BY <3>0, <4>1, <5>7 DEF Finish, Over, At, Go, Task
          <5> QED BY <2>2, <4>3, <5>1, <5>2, <5>3, <5>4, <5>5, <5>6, <5>7 DEF RunStep
        <4> QED BY <2>2, <4>2, <4>3
      <3>3. ASSUME NEW u \in Tasks, u # t
            PROVE  task'[u] = task[u]
        BY <1>2, <2>2, <3>3, OthersStay
      <3> QED BY <1>2, <3>1, <3>2, <3>3, RunningUntouched DEF At
    <2>3. ASSUME NEW t \in Tasks, Joined(t)
          PROVE  Reachable' /\ Exact'
      <3>1. /\ running' = running \ {EntryOf(t)} /\ At(t, "sending") /\ ~At(t, "sending")'
        <4>1. task[t] \in Task /\ task \in [Tasks -> Task]
          BY <1>2 DEF TypeOK
        <4> QED BY <2>3, <4>1 DEF Joined, Unregistered, EntryOf, At, Task
      <3>2. ASSUME NEW u \in Tasks, u # t
            PROVE  /\ task'[u] = task[u]
                   /\ SendId(u)' = SendId(u) /\ EntryOf(u)' = EntryOf(u) /\ EntryOf(u) # EntryOf(t)
        <4>1. task'[u] = task[u]
          BY <1>2, <2>3, <3>2, OthersStay DEF FlightStep, Joined, Register, At
        <4> QED BY <3>2, <4>1, SameSendId DEF EntryOf
      <3>3. Reachable'
        BY <1>2, <3>1, <3>2 DEF Reachable, At
      <3>4. ASSUME NEW e \in running'
            PROVE  At(e.task, "sending")' /\ e.id = SendId(e.task)'
        <4>1. /\ e \in running /\ e # EntryOf(t) /\ e \in Entry
              /\ At(e.task, "sending") /\ e.id = SendId(e.task)
          BY <1>2, <3>1, <3>4 DEF Exact, TypeOK
        <4>2. e = EntryOf(e.task) /\ e.task \in Tasks
          BY <4>1 DEF EntryOf, Entry
        <4>3. e.task # t
          BY <4>1, <4>2
        <4> QED BY <3>2, <4>1, <4>2, <4>3 DEF At
      <3> QED BY <3>3, <3>4 DEF Exact
    <2>4. ASSUME NEW t \in Tasks, Register(t)
          PROVE  Reachable' /\ Exact'
      <3>1. /\ running' = Without(running, SendId(t)) \cup {EntryOf(t)}
            /\ At(t, "spawned") /\ At(t, "sending")'
            /\ task'[t].name = task[t].name /\ task'[t].turn = task[t].turn
        <4>1. task[t] \in Task
          BY <1>2 DEF TypeOK
        <4> QED BY <2>4, <4>1 DEF Register, With, EntryOf, At, Task
      <3>2. SendId(t)' = SendId(t) /\ EntryOf(t)' = EntryOf(t)
        BY <3>1, SameSendId DEF EntryOf
      <3>3. ASSUME NEW u \in Tasks, u # t
            PROVE  /\ task'[u].stage = task[u].stage
                   /\ SendId(u)' = SendId(u) /\ EntryOf(u)' = EntryOf(u)
                   /\ task[u].aborted \/ u \in Hit(running, SendId(t)) => task'[u].aborted
        <4>1. /\ task'[u].stage = task[u].stage
              /\ task'[u].name = task[u].name /\ task'[u].turn = task[u].turn
          BY <1>2, <2>4, <3>3, OthersStay DEF FlightStep
        <4>2. task[u] \in Task
          BY <1>2 DEF TypeOK
        <4>3. task[u].aborted \/ u \in Hit(running, SendId(t)) => task'[u].aborted
          BY <2>4, <3>3, <4>2 DEF Register, Task
        <4> QED BY <4>1, <4>3, SameSendId DEF EntryOf
      <3>4. ASSUME NEW u \in Tasks, At(u, "sending")', ~task'[u].aborted
            PROVE  EntryOf(u)' \in running'
        <4>1. CASE u = t
          BY <3>1, <3>2, <4>1
        <4>2. CASE u # t
          <5>1. EntryOf(u) \in running /\ u \notin Hit(running, SendId(t))
            BY <1>2, <3>3, <3>4, <4>2 DEF Reachable, At
          <5>2. EntryOf(u).id # SendId(t)
            BY <5>1 DEF Hit, EntryOf
          <5> QED BY <3>1, <3>3, <4>2, <5>1, <5>2 DEF Without
        <4> QED BY <4>1, <4>2
      <3>5. ASSUME NEW e \in running'
            PROVE  At(e.task, "sending")' /\ e.id = SendId(e.task)'
        <4>1. CASE e = EntryOf(t)
          BY <3>1, <3>2, <4>1 DEF EntryOf
        <4>2. CASE e \in running
          <5>1. At(e.task, "sending") /\ e.id = SendId(e.task) /\ e.task \in Tasks
            BY <1>2, <4>2 DEF Exact, TypeOK, Entry
          <5>2. e.task # t
            BY <3>1, <5>1 DEF At
          <5> QED BY <3>3, <5>1, <5>2 DEF At
        <4> QED BY <3>1, <3>5, <4>1, <4>2 DEF Without
      <3> QED BY <3>4, <3>5 DEF Reachable, Exact
    <2>5. CASE UNCHANGED vars
      BY <1>2, <2>5, RunningUntouched DEF vars, tables, At
    <2>6. Runs \subseteq Tasks
      BY DEF Tasks
    <2> QED BY <1>2, <2>1, <2>2, <2>3, <2>4, <2>5, <2>6 DEF Next, Step
  <1> QED BY <1>1, <1>2

(* The table a cancel looks in is exact: the id of a send on the network   *)
(* leads to it until it ends or is aborted, and no id to anything else.    *)
THEOREM RunningExact == Spec => []RunningIsExact
  <1>1. Reachable /\ Exact => RunningIsExact
    BY DEF Reachable, Exact, RunningIsExact, EntryOf
  <1> QED BY <1>1, TypeCorrect, RunningExactInductive, PTL DEF Spec

-----------------------------------------------------------------------------
(* AnsweredIsKept.                                                         *)

Answered(t) == task[t].net \in {"answered", "failed"}
Record(t) == [by |-> t, read |-> task[t].read, into |-> task[t].read]

(* No number read is yet to be drawn, so that a library once left is never *)
(* the one a send has read again; ...                                      *)
NumbersDrawn ==
  /\ open \in {None, opened}
  /\ \A t \in Tasks :
       task[t].read <= opened /\ (task[t].net # "no" => task[t].read # None)

(* ... and a send answered has, where it ends, something to keep.          *)
SendKeeps(t) ==
  /\ task[t].stage \in {"idle", "prepare", "compose"} => task[t].net = "no"
  /\ task[t].stage \in {"spawned", "sending"} => task[t].net = "out"
  /\ task[t].stage = "keep" /\ Answered(t) => task[t].sent

SendKept(t) ==
  task[t].stage = "done" /\ Answered(t) /\ open = task[t].read => Record(t) \in written

AnswersInv == NumbersDrawn /\ \A t \in Sends : SendKeeps(t) /\ SendKept(t)

(* What a step of a call does to what it read.                             *)
LEMMA ReadsOpen ==
  ASSUME TypeOK, NumbersDrawn, NEW t \in Tasks, FlightStep(t) \/ RunStep(t)
  PROVE  NumbersDrawn'
  <1> USE DEF At, Go
  <1>0. /\ task[t] \in Task /\ task \in [Tasks -> Task] /\ opened \in Nat /\ open \in Nat
        /\ open <= opened
        /\ task[t].read <= opened /\ (task[t].net # "no" => task[t].read # None)
    BY DEF TypeOK, NumbersDrawn, Numbers
  <1>1. open' = open /\ opened' = opened
    BY DEF FlightStep, RunStep, Prepare, StartHost, HostEnds, Write, Compose, Register, Joined, Keep,
           ReadTree, StartRun, Check, GetRequest, Result, Wait, Finish, libraries
  <1>2. ASSUME NEW u \in Tasks, u # t
        PROVE  task'[u].read = task[u].read /\ task'[u].net = task[u].net
    BY <1>2, OthersStay
  <1>3. task'[t].read <= opened /\ (task'[t].net # "no" => task'[t].read # None)
    <2>1. CASE Prepare(t)
      BY <1>0, <2>1 DEF Prepare, Task
    <2>2. CASE StartHost(t)
      BY <1>0, <2>2 DEF StartHost, Task
    <2>3. CASE HostEnds(t)
      BY <1>0, <2>3 DEF HostEnds, Task
    <2>4. CASE Write(t)
      BY <1>0, <2>4 DEF Write, Task
    <2>5. CASE Compose(t)
      <3>1. task[t].read # None
        BY <2>5 DEF Compose, TypeOK, HasRead
      <3> QED BY <1>0, <2>5, <3>1 DEF Compose, Task
    <2>6. CASE Register(t)
      <3>1. task'[t].read = task[t].read /\ task'[t].net = task[t].net
        BY <1>0, <2>6 DEF Register, Task
      <3> QED BY <1>0, <3>1
    <2>7. CASE Joined(t)
      <3>1. task[t].read # None
        BY <2>7 DEF Joined, TypeOK, HasRead
      <3> QED BY <1>0, <2>7, <3>1 DEF Joined, Task
    <2>8. CASE Keep(t)
      BY <1>0, <2>8 DEF Keep, Over, Kept, Task
    <2>9. CASE GetRequest(t)
      <3>1. CASE task' = [task EXCEPT ![t] =
                   [@ EXCEPT !.stage = "prepare", !.read = None, !.net = "no", !.ended = "no"]]
        BY <1>0, <3>1 DEF Task
      <3>2. CASE task' = [task EXCEPT ![t].ended = "failed", ![t].stage = "result"]
        BY <1>0, <3>2 DEF Task
      <3> QED BY <2>9, <3>1, <3>2 DEF GetRequest
    <2>10. CASE Check(t)
      BY <1>0, <2>10 DEF Check, Task
    <2>11. CASE Wait(t)
      BY <1>0, <2>11 DEF Wait, Task
    <2>12. CASE ReadTree(t) \/ StartRun(t) \/ Result(t)
      BY <1>0, <2>12 DEF ReadTree, StartRun, Result, Task
    <2>13. CASE Finish(t)
      <3>1. task'[t] = Over(task[t])
        BY <1>0, <2>13 DEF Finish
      <3> QED BY <1>0, <3>1, CallOver
    <2> QED BY <2>1, <2>2, <2>3, <2>4, <2>5, <2>6, <2>7, <2>8, <2>9, <2>10, <2>11, <2>12,
               <2>13 DEF FlightStep, RunStep
  <1> QED BY <1>1, <1>2, <1>3 DEF NumbersDrawn

(* A step of a send, the writing of it left aside.                         *)
LEMMA SendStepKeeps ==
  ASSUME TypeOK, NEW t \in Sends, SendKeeps(t), FlightStep(t)
  PROVE  /\ SendKeeps(t)'
         /\ task'[t].stage = "done" => Keep(t)
  <1> USE DEF At, Go, SendKeeps, Answered
  <1>0. task[t] \in Task /\ task \in [Tasks -> Task] /\ t \in Tasks
    BY DEF TypeOK, Tasks
  <1>1. CASE Prepare(t)
    BY <1>0, <1>1 DEF Prepare, Task
  <1>2. CASE StartHost(t)
    BY <1>0, <1>2 DEF StartHost, Before, Task
  <1>3. CASE HostEnds(t)
    BY <1>0, <1>3 DEF HostEnds, History, Before, Task
  <1>4. CASE Write(t)
    BY <1>0, <1>4 DEF Write, History, Before, Task
  <1>5. CASE Compose(t)
    BY <1>0, <1>5 DEF Compose, Task
  <1>6. CASE Register(t)
    <2>1. /\ task'[t].stage = "sending" /\ task'[t].net = task[t].net
          /\ task[t].stage = "spawned"
      BY <1>0, <1>6 DEF Register, Task
    <2> QED BY <2>1
  <1>7. CASE Joined(t)
    BY <1>0, <1>7 DEF Joined, History, Before, Task
  <1>8. CASE Keep(t)
    BY <1>0, <1>8 DEF Keep, Over, Kept, Task
  <1> QED BY <1>1, <1>2, <1>3, <1>4, <1>5, <1>6, <1>7, <1>8 DEF FlightStep

(* What was answered, and not left behind, is kept.                         *)
LEMMA AnswersInductive ==
  /\ Init => AnswersInv
  /\ ~StoreFails /\ TypeOK /\ AnswersInv /\ [Next]_vars => AnswersInv'
  <1>1. Init => AnswersInv
    BY DEF Init, AnswersInv, NumbersDrawn, SendKeeps, SendKept, Answered, NotAsked, Tasks
  <1>2. ASSUME ~StoreFails, TypeOK, AnswersInv, [Next]_vars
        PROVE  AnswersInv'
    <2>0. /\ task \in [Tasks -> Task] /\ open \in Nat /\ opened \in Nat
          /\ \A t \in Tasks : task[t] \in Task /\ task[t].read \in Nat
      BY <1>2 DEF TypeOK, Task, Numbers
    <2>1. CASE User
      <3>1. ASSUME NEW t \in Tasks
            PROVE  /\ task'[t].read = task[t].read /\ task'[t].net = task[t].net
                   /\ task'[t].sent = task[t].sent
                   /\ task[t].stage # "idle" => task'[t].stage = task[t].stage
                   /\ task[t].stage = "idle" => task'[t].stage \in {"idle", "prepare", "tree"}
                   /\ written' = written
        BY <1>2, <2>1, UserKeepsTasks
      <3>2. \/ open' = open /\ opened' = opened
            \/ open' = opened' /\ opened' = opened + 1
            \/ open' = None /\ opened' = opened
        BY <2>1 DEF User, Unlock, LetGo, Leave, AskSend, CancelSend, AskRun, CancelRun, libraries
      <3>3. NumbersDrawn'
        BY <1>2, <2>0, <3>1, <3>2 DEF AnswersInv, NumbersDrawn
      <3>4. ASSUME NEW t \in Sends
            PROVE  SendKeeps(t)' /\ SendKept(t)'
        <4>1. t \in Tasks /\ SendKeeps(t) /\ SendKept(t)
          BY <1>2 DEF AnswersInv, Tasks
        <4>2. SendKeeps(t)'
          BY <3>1, <4>1 DEF SendKeeps, Answered
        <4>3. SendKept(t)'
          <5>1. task[t].net # "no" => task[t].read # None /\ task[t].read <= opened
            BY <1>2, <4>1 DEF AnswersInv, NumbersDrawn
          <5>2. Answered(t) /\ open' = task[t].read => open = task[t].read
            BY <2>0, <3>2, <4>1, <5>1 DEF Answered
          <5>3. written' = written
            BY <2>1 DEF User, Unlock, LetGo, Leave, AskSend, CancelSend, AskRun, CancelRun
          <5> QED BY <3>1, <4>1, <5>2, <5>3 DEF SendKept, Answered, Record
        <4> QED BY <4>2, <4>3
      <3> QED BY <3>3, <3>4 DEF AnswersInv
    <2>2. ASSUME NEW t \in Tasks, FlightStep(t) \/ RunStep(t), t \in Sends => FlightStep(t)
          PROVE  AnswersInv'
      <3>1. NumbersDrawn'
        BY <1>2, <2>2, ReadsOpen DEF AnswersInv
      <3>2. open' = open /\ written \subseteq written'
        BY <2>2 DEF FlightStep, RunStep, Prepare, StartHost, HostEnds, Write, Writes, Compose, Register,
                    Joined, Keep, ReadTree, StartRun, Check, GetRequest, Result, Wait, Finish,
                    libraries, tables
      <3>3. ASSUME NEW s \in Sends, s # t
            PROVE  SendKeeps(s)' /\ SendKept(s)'
        <4>1. s \in Tasks /\ SendKeeps(s) /\ SendKept(s)
          BY <1>2 DEF AnswersInv, Tasks
        <4>2. /\ task'[s].stage = task[s].stage /\ task'[s].read = task[s].read
              /\ task'[s].net = task[s].net /\ task'[s].sent = task[s].sent
          BY <1>2, <2>2, <3>3, <4>1, OthersStay
        <4> QED BY <3>2, <4>1, <4>2 DEF SendKeeps, SendKept, Answered, Record
      <3>4. ASSUME t \in Sends
            PROVE  SendKeeps(t)' /\ SendKept(t)'
        <4>1. SendKeeps(t) /\ FlightStep(t)
          BY <1>2, <2>2, <3>4 DEF AnswersInv
        <4>2. SendKeeps(t)' /\ (task'[t].stage = "done" => Keep(t))
          BY <1>2, <3>4, <4>1, SendStepKeeps
        <4>3. ASSUME Keep(t), task'[t].net \in {"answered", "failed"}, open' = task'[t].read
              PROVE  Record(t)' \in written'
          <5>1. /\ task[t].stage = "keep" /\ task'[t].net = task[t].net
                /\ task'[t].read = task[t].read
            BY <2>0, <4>3 DEF Keep, Over, Kept, At, Task
          <5>2. task[t].sent
            BY <4>1, <4>3, <5>1 DEF SendKeeps, Answered
          <5>3. Writes(t)
            BY <1>2, <3>2, <4>3, <5>1, <5>2 DEF Keep
          <5> QED BY <3>2, <4>3, <5>1, <5>3 DEF Writes, Record
        <4> QED BY <4>2, <4>3 DEF SendKept, Answered
      <3> QED BY <3>1, <3>3, <3>4 DEF AnswersInv
    <2>3. CASE UNCHANGED vars
      BY <1>2, <2>3 DEF vars, libraries, AnswersInv, NumbersDrawn, SendKeeps, SendKept, Answered, Record
    <2>4. Runs \subseteq Tasks /\ \A t \in Runs : t \notin Sends
      BY DEF Tasks
    <2> QED BY <1>2, <2>1, <2>2, <2>3, <2>4 DEF Next, Step
  <1> QED BY <1>1, <1>2

(* As long as SQLite answers no error, a send that was answered, or whose  *)
(* request failed on the network, is in the history of its library before  *)
(* it is over, also when a cancel stopped the scripts after it.            *)
THEOREM AnsweredKept == Spec => []AnsweredIsKept
  <1>1. AnswersInv => AnsweredIsKept
    BY DEF AnswersInv, SendKept, Answered, Record, AnsweredIsKept, At
  <1>2. CASE StoreFails
    <2>1. AnsweredIsKept
      BY <1>2 DEF AnsweredIsKept
    <2> QED BY <2>1, PTL
  <1>3. CASE ~StoreFails
    <2>1. Init => AnswersInv
      BY AnswersInductive
    <2>2. TypeOK /\ AnswersInv /\ [Next]_vars => AnswersInv'
      BY <1>3, AnswersInductive
    <2> QED BY <1>1, <2>1, <2>2, TypeCorrect, PTL DEF Spec
  <1> QED BY <1>2, <1>3
-----------------------------------------------------------------------------
(* The cancels: what still leaves after one.                               *)

(* The id of a run is that of one call: with two runs it need not be, as   *)
(* the one of a library left may go on under the id of the next one's.     *)
OneRunAssumption == \A r, s \in Runs : r = s

(* A flight whose request has not left, and may.                           *)
BeforeLeaving(t) ==
  \/ task[t].stage \in {"get", "prepare", "compose"}
  \/ task[t].stage \in {"host", "script", "write"} /\ task[t].net = "no"

(* A task that was hit is where its request is out, or in a script that    *)
(* was killed; one that accepted a cancel has sent nothing since while it  *)
(* may.                                                                    *)
StaysIn(t) ==
  /\ task[t].told = "no" => task[t].late = 0
  /\ task[t].told # "no" => task[t].stage \in LoopStages
  /\ task[t].told = "hit" => /\ task[t].late = 0
                             /\ BeforeLeaving(t) => task[t].stage = "script" /\ task[t].killed
  /\ task[t].told = "accepted" => /\ t \in Runs /\ task[t].late <= 1
                                  /\ BeforeLeaving(t) => task[t].late = 0
  /\ task[t].stage \in {"spawned", "sending"} => task[t].net = "out"

(* A run that was told is cancelled where it will ask.                     *)
AsksAreAnswered == \A t \in Runs : task[t].told # "no" => IsCancelled(t)

(* The entry of a script is that of a task that runs it, ...               *)
HostsExact == \A e \in hosts : At(e.task, "script") /\ e.id = SendId(e.task)

(* ... and the entry of a run is that of a run in its loop.                *)
RunsExact ==
  /\ \A e, f \in runs : e = f
  /\ \A e \in runs, t \in Runs : e.name = task[t].name /\ task[t].stage \in LoopStages

-----------------------------------------------------------------------------
(* The tasks a step does not take.                                         *)

(* A step of a call tells no other of a cancel, and kills none.            *)
LEMMA OthersUntold ==
  ASSUME TypeOK, NEW t \in Tasks, FlightStep(t) \/ RunStep(t), NEW u \in Tasks, u # t
  PROVE  /\ task'[u].told = task[u].told /\ task'[u].late = task[u].late
         /\ task'[u].killed = task[u].killed
         /\ task'[u].stage = task[u].stage /\ task'[u].net = task[u].net
         /\ task'[u].name = task[u].name /\ task'[u].turn = task[u].turn
  <1>0. task[u] \in Task /\ task \in [Tasks -> Task]
    BY DEF TypeOK
  <1>1. CASE Register(t)
    <2>1. task'[u] = [task[u] EXCEPT !.aborted = @ \/ u \in Hit(running, SendId(t)),
                                     !.stage = task[u].stage]
      BY <1>1 DEF Register
    <2>2. /\ task'[u].told = task[u].told /\ task'[u].late = task[u].late
          /\ task'[u].killed = task[u].killed
      BY <1>0, <2>1 DEF Task
    <2> QED BY <2>2, OthersStay
  <1>2. CASE ~Register(t)
    BY <1>2, OthersStay
  <1> QED BY <1>1, <1>2

(* A cancel tells those it hits and those it is accepted by.               *)
LEMMA CancelledTells ==
  ASSUME TypeOK, NEW scripts, NEW sends, NEW accepts, Cancelled(scripts, sends, accepts), NEW t \in Tasks
  PROVE  /\ task'[t].stage = task[t].stage /\ task'[t].net = task[t].net
         /\ task'[t].name = task[t].name /\ task'[t].turn = task[t].turn
         /\ task[t].killed \/ t \in scripts => task'[t].killed
         /\ t \in scripts \cup sends => task'[t].told = "hit" /\ task'[t].late = 0
         /\ t \notin scripts \cup sends =>
              /\ task'[t].late = task[t].late
              /\ \/ task'[t].told = task[t].told
                 \/ task[t].told = "no" /\ t \in accepts /\ task'[t].told = "accepted"
  <1>1. task'[t] = [task[t] EXCEPT
           !.killed = @ \/ t \in scripts, !.aborted = @ \/ t \in sends,
           !.told = IF t \in scripts \cup sends THEN "hit"
                    ELSE IF t \in accepts /\ @ = "no" THEN "accepted" ELSE @,
           !.late = IF t \in scripts \cup sends THEN 0 ELSE @]
    BY DEF Cancelled
  <1>2. task[t] \in Task
    BY DEF TypeOK
  <1> QED BY <1>1, <1>2, CancelledKeeps DEF Task

-----------------------------------------------------------------------------
(* A step of a call.                                                       *)

(* It keeps its own request in; only a check may let a run go on, and it   *)
(* asks.                                                                   *)
LEMMA OwnStepStaysIn ==
  ASSUME TypeOK, NEW t \in Tasks, StaysIn(t), t \in Runs /\ task[t].told # "no" => IsCancelled(t),
         Step(t)
  PROVE  StaysIn(t)' /\ task'[t].told \in {task[t].told, "no"}
  <1> USE DEF At, Go, StaysIn, BeforeLeaving, LoopStages, FlightStages
  <1>0. task[t] \in Task /\ task \in [Tasks -> Task]
    BY DEF TypeOK
  <1>1. CASE Prepare(t)
    BY <1>0, <1>1 DEF Prepare, Task
  <1>2. CASE StartHost(t)
    BY <1>0, <1>2 DEF StartHost, Before, Task
  <1>3. CASE HostEnds(t)
    BY <1>0, <1>3 DEF HostEnds, Task
  <1>4. CASE Write(t)
    BY <1>0, <1>4 DEF Write, Before, Task
  <1>5. CASE Compose(t)
    BY <1>0, <1>5 DEF Compose, Task
  <1>6. CASE Register(t)
    <2>1. task'[t] = [task[t] EXCEPT !.aborted = @ \/ t \in Hit(running, SendId(t)), !.stage = "sending"]
      BY <1>0, <1>6 DEF Register
    <2>2. /\ task'[t].stage = "sending" /\ task'[t].net = task[t].net
          /\ task'[t].told = task[t].told /\ task'[t].late = task[t].late
      BY <1>0, <2>1 DEF Task
    <2>3. task[t].stage = "spawned"
      BY <1>6 DEF Register
    <2> QED BY <2>2, <2>3
  <1>7. CASE Joined(t)
    BY <1>0, <1>7 DEF Joined, Task
  <1>8. CASE Keep(t)
    <2>1. task'[t] = IF t \in Sends THEN Over(Kept(task[t])) ELSE [Kept(task[t]) EXCEPT !.stage = "result"]
      BY <1>0, <1>8 DEF Keep
    <2>2. Kept(task[t]) \in Task /\ Kept(task[t]).told = task[t].told /\ Kept(task[t]).late = task[t].late
      BY <1>0 DEF Kept, Task
    <2>3. CASE t \in Sends
      <3>1. task'[t].told = "no" /\ task'[t].late = 0 /\ task'[t].stage = "done"
        BY <2>1, <2>2, <2>3 DEF Over, Task
      <3> QED BY <3>1
    <2>4. CASE t \notin Sends
      <3>1. task'[t].told = task[t].told /\ task'[t].late = task[t].late /\ task'[t].stage = "result"
        BY <2>1, <2>2, <2>4 DEF Task
      <3> QED BY <1>8, <3>1 DEF Keep
    <2> QED BY <2>3, <2>4
  <1>9. CASE t \in Runs /\ (ReadTree(t) \/ StartRun(t) \/ Result(t) \/ Wait(t))
    BY <1>0, <1>9 DEF ReadTree, StartRun, Result, Wait, Task
  <1>10. CASE t \in Runs /\ Check(t)
    BY <1>0, <1>10 DEF Check, Task
  <1>11. CASE t \in Runs /\ GetRequest(t)
    <2>1. CASE task' = [task EXCEPT ![t] =
                 [task[t] EXCEPT !.stage = "prepare", !.read = None, !.net = "no", !.ended = "no"]]
      <3>1. /\ task'[t].stage = "prepare" /\ task'[t].net = "no"
            /\ task'[t].told = task[t].told /\ task'[t].late = task[t].late
        BY <1>0, <2>1 DEF Task
      <3> QED BY <1>11, <3>1 DEF GetRequest
    <2>2. CASE task' = [task EXCEPT ![t].ended = "failed", ![t].stage = "result"]
      <3>1. /\ task'[t].stage = "result"
            /\ task'[t].told = task[t].told /\ task'[t].late = task[t].late
        BY <1>0, <2>2 DEF Task
      <3> QED BY <1>11, <3>1 DEF GetRequest
    <2> QED BY <1>11, <2>1, <2>2 DEF GetRequest
  <1>12. CASE t \in Runs /\ Finish(t)
    BY <1>0, <1>12 DEF Finish, Over, Task
  <1> QED BY <1>1, <1>2, <1>3, <1>4, <1>5, <1>6, <1>7, <1>8, <1>9, <1>10, <1>11, <1>12
    DEF Step, FlightStep, RunStep

-----------------------------------------------------------------------------
(* The tables.                                                             *)

(* A step of a call changes only its own name, stage and turn, and an id   *)
(* stays that of a task that keeps them.                                   *)
LEMMA HostsStep ==
  ASSUME TypeOK, HostsExact, NEW t \in Tasks, Step(t)
  PROVE  HostsExact'
  <1> USE DEF At, Go
  <1>0. task[t] \in Task /\ task \in [Tasks -> Task] /\ hosts \subseteq Entry
    BY DEF TypeOK
  <1>1. ASSUME NEW e \in hosts, e.task # t
        PROVE  At(e.task, "script")' /\ e.id = SendId(e.task)'
    <2>1. e.task \in Tasks /\ At(e.task, "script") /\ e.id = SendId(e.task)
      BY <1>0, <1>1 DEF HostsExact, Entry
    <2> QED BY <1>1, <2>1, OthersUntold, SameSendId DEF Step
  <1>2. ASSUME NEW e \in hosts, e.task = t
        PROVE  task[t].stage = "script" /\ e.id = SendId(t)
    BY <1>2 DEF HostsExact
  <1>3. CASE StartHost(t) /\ hosts' = With(hosts, t) /\ Go(t, "script")
    <2>1. task'[t].stage = "script" /\ task'[t].name = task[t].name /\ task'[t].turn = task[t].turn
      BY <1>0, <1>3 DEF Task
    <2>2. SendId(t)' = SendId(t)
      BY <2>1, SameSendId
    <2>3. ASSUME NEW e \in hosts'
          PROVE  At(e.task, "script")' /\ e.id = SendId(e.task)'
      <3>1. CASE e = [id |-> SendId(t), task |-> t]
        BY <2>1, <2>2, <3>1
      <3>2. CASE e \in hosts
        <4>1. e.task # t
          BY <1>2, <1>3, <3>2 DEF StartHost
        <4> QED BY <1>1, <3>2, <4>1
      <3> QED BY <1>3, <2>3, <3>1, <3>2 DEF With, Without
    <2> QED BY <2>3 DEF HostsExact
  <1>4. CASE HostEnds(t)
    <2>1. \A e \in hosts' : e \in hosts /\ e.id # SendId(t)
      BY <1>4 DEF HostEnds, Without
    <2>2. \A e \in hosts' : e.task # t
      BY <1>2, <2>1
    <2> QED BY <1>1, <2>1, <2>2 DEF HostsExact
  <1>5. CASE hosts' = hosts /\ task[t].stage # "script"
    <2>1. \A e \in hosts' : e \in hosts /\ e.task # t
      BY <1>2, <1>5
    <2> QED BY <1>1, <2>1 DEF HostsExact
  <1>6. CASE StartHost(t) /\ ~(hosts' = With(hosts, t) /\ Go(t, "script"))
    BY <1>5, <1>6 DEF StartHost
  <1>7. CASE ~StartHost(t) /\ ~HostEnds(t)
    <2>1. hosts' = hosts /\ task[t].stage # "script"
      BY <1>7 DEF Step, FlightStep, RunStep, Prepare, Write, Compose, Register, Joined, Keep, ReadTree,
                  StartRun, Check, GetRequest, Result, Wait, Finish, tables
    <2> QED BY <1>5, <2>1
  <1> QED BY <1>3, <1>4, <1>6, <1>7

(* What the user does leaves every script where it is.                     *)
LEMMA HostsUser ==
  ASSUME TypeOK, HostsExact, User
  PROVE  HostsExact'
  <1>1. hosts' = hosts
    BY DEF User, Unlock, LetGo, Leave, AskSend, CancelSend, AskRun, CancelRun, tables
  <1>2. ASSUME NEW e \in hosts'
        PROVE  At(e.task, "script")' /\ e.id = SendId(e.task)'
    <2>1. e.task \in Tasks /\ At(e.task, "script") /\ e.id = SendId(e.task)
      BY <1>1, <1>2 DEF HostsExact, TypeOK, Entry
    <2> QED BY <2>1, UserKeepsTasks, SameSendId DEF At
  <1> QED BY <1>2 DEF HostsExact

(* The one run is the one that is listed.                                  *)
LEMMA RunsStep ==
  ASSUME OneRunAssumption, TypeOK, RunsExact, NEW t \in Tasks, Step(t)
  PROVE  /\ RunsExact'
         /\ \A u \in Runs : IsCancelled(u) => StartRun(u) \/ IsCancelled(u)'
  <1> USE DEF At, Go
  <1>0. task[t] \in Task /\ task \in [Tasks -> Task] /\ runs \subseteq RunEntry
    BY DEF TypeOK
  <1>1. ASSUME NEW u \in Runs, u # t
        PROVE  u \in Tasks /\ task'[u].name = task[u].name /\ task'[u].stage = task[u].stage
    BY <1>1, OthersUntold DEF Step, Tasks
  <1>2. CASE t \notin Runs
    <2>1. runs' = runs
      BY <1>2 DEF Step, FlightStep, Prepare, StartHost, HostEnds, Write, Compose, Register, Joined,
                  Keep, tables
    <2> QED BY <1>1, <1>2, <2>1 DEF RunsExact, IsCancelled
  <1>3. CASE t \in Runs
    <2>0. \A u \in Runs : u = t
      BY <1>3 DEF OneRunAssumption
    <2> USE DEF LoopStages, FlightStages
    <2>1. CASE StartRun(t)
      <3>1. runs = {}
        BY <1>3, <2>1 DEF StartRun, RunsExact
      <3>2. task'[t].stage = "check" /\ task'[t].name = task[t].name
        BY <1>0, <2>1 DEF StartRun, Task
      <3>3. runs' = {[name |-> task[t].name, cancelled |-> FALSE, at |-> 0]}
        BY <2>1, <3>1 DEF StartRun, Others
      <3> QED BY <2>0, <2>1, <3>2, <3>3 DEF RunsExact
    <2>2. CASE Finish(t)
      <3>1. runs' = {}
        BY <1>3, <2>2 DEF Finish, Others, RunsExact
      <3> QED BY <3>1 DEF RunsExact, IsCancelled
    <2>3. CASE ReadTree(t)
      <3>1. runs = {} /\ runs' = {}
        BY <1>3, <2>3 DEF ReadTree, RunsExact, tables
      <3> QED BY <3>1 DEF RunsExact, IsCancelled
    <2>4. CASE GetRequest(t)
      <3>1. task'[t].stage \in LoopStages /\ task'[t].name = task[t].name
        <4>1. task'[t].stage \in {"prepare", "result"}
          BY <2>4, RequestGot
        <4>2. task'[t].name = task[t].name
          <5>1. \/ task'[t] = [task[t] EXCEPT !.stage = "prepare", !.read = None, !.net = "no", !.ended = "no"]
                \/ task'[t] = [task[t] EXCEPT !.ended = "failed", !.stage = "result"]
            BY <1>0, <2>4 DEF GetRequest
          <5> QED BY <1>0, <5>1 DEF Task
        <4> QED BY <4>1, <4>2
      <3>2. /\ \A e \in runs' : \E f \in runs : e.name = f.name /\ e.cancelled = f.cancelled
            /\ \A e, f \in runs' : e = f
        BY <1>0, <2>4 DEF GetRequest, RunsExact, RunEntry
      <3> QED BY <1>3, <2>0, <3>1, <3>2 DEF RunsExact, IsCancelled
    <2>5. CASE FlightStep(t) \/ Check(t) \/ Result(t) \/ Wait(t)
      <3>1. runs' = runs
        BY <2>5 DEF FlightStep, Prepare, StartHost, HostEnds, Write, Compose, Register, Joined,
                    Keep, Check, Result, Wait, tables
      <3>2. task'[t].name = task[t].name /\ task'[t].stage \in LoopStages
        <4>1. CASE Prepare(t) \/ StartHost(t) \/ HostEnds(t)
          BY <1>0, <4>1 DEF Prepare, StartHost, HostEnds, Task
        <4>2. CASE Write(t) \/ Compose(t) \/ Joined(t)
          BY <1>0, <4>2 DEF Write, Compose, Joined, Task
        <4>3. CASE Register(t)
          BY <1>0, <4>3 DEF Register, Task
        <4>4. CASE Keep(t)
          <5>1. task'[t] = [Kept(task[t]) EXCEPT !.stage = "result"]
            BY <1>0, <1>3, <4>4, KindsAssumption DEF Keep
          <5> QED BY <1>0, <5>1 DEF Kept, Task
        <4>5. CASE Check(t) \/ Result(t) \/ Wait(t)
          BY <1>0, <4>5 DEF Check, Result, Wait, Task
        <4> QED BY <2>5, <4>1, <4>2, <4>3, <4>4, <4>5 DEF FlightStep
      <3> QED BY <2>0, <3>1, <3>2 DEF RunsExact, IsCancelled
    <2> QED BY <2>1, <2>2, <2>3, <2>4, <2>5 DEF Step, RunStep
  <1> QED BY <1>2, <1>3

-----------------------------------------------------------------------------
(* What the user does.                                                     *)

(* A cancel that hits scripts that run and sends that are out, and that is *)
(* accepted by runs in their loop.                                         *)
LEMMA CancelStaysIn ==
  ASSUME TypeOK, NEW scripts, NEW sends, NEW accepts, Cancelled(scripts, sends, accepts),
         NEW t \in Tasks, StaysIn(t),
         t \in scripts => At(t, "script"), t \in sends => At(t, "sending"),
         t \in accepts => t \in Runs /\ task[t].stage \in LoopStages
  PROVE  StaysIn(t)'
  BY CancelledTells DEF StaysIn, BeforeLeaving, LoopStages, FlightStages, At

(* Whom an id reaches.                                                     *)
LEMMA HitsAreExact ==
  ASSUME TypeOK, HostsExact, Exact, NEW id, NEW u
  PROVE  /\ u \in Hit(hosts, id) => u \in Tasks /\ At(u, "script") /\ id = SendId(u)
         /\ u \in Hit(running, id) => u \in Tasks /\ At(u, "sending") /\ id = SendId(u)
  BY DEF TypeOK, Entry, Hit, HostsExact, Exact

(* A call just asked was told of nothing.                                  *)
LEMMA AskedStaysIn ==
  ASSUME TypeOK, NEW t \in Tasks, NEW u \in Tasks, StaysIn(u), At(t, "idle"),
         NEW r \in {"prepare", "tree"}, NEW n, NEW era,
         task' = [task EXCEPT ![t].stage = r, ![t].name = n, ![t].era = era]
  PROVE  StaysIn(u)' /\ task'[u].told = task[u].told /\ (u # t => task'[u] = task[u])
  <1>1. task[u] \in Task /\ task \in [Tasks -> Task]
    BY DEF TypeOK
  <1>2. CASE u # t
    <2>1. task'[u] = task[u]
      BY <1>1, <1>2
    <2> QED BY <1>2, <2>1 DEF StaysIn, BeforeLeaving
  <1>3. CASE u = t
    <2>1. /\ task'[u].stage = r /\ task'[u].told = task[u].told /\ task'[u].late = task[u].late
          /\ task'[u].net = task[u].net
      BY <1>1, <1>3 DEF Task
    <2>2. task[u].told = "no"
      BY <1>1, <1>3 DEF StaysIn, At, LoopStages, FlightStages, Task
    <2> QED BY <1>3, <2>1, <2>2 DEF StaysIn, BeforeLeaving
  <1> QED BY <1>2, <1>3

(* The inductive invariant, beside TypeOK.                                 *)
CancelInv ==
  /\ Reachable /\ Exact /\ HostsExact /\ RunsExact
  /\ AsksAreAnswered /\ \A t \in Tasks : StaysIn(t)

(* Whatever the user does, what was to stay in does.                       *)
LEMMA UserStaysIn ==
  ASSUME OneRunAssumption, TypeOK, CancelInv, User
  PROVE  RunsExact' /\ AsksAreAnswered' /\ \A t \in Tasks : StaysIn(t)'
  <1>0. /\ HostsExact /\ Exact /\ RunsExact /\ AsksAreAnswered /\ (\A t \in Tasks : StaysIn(t))
        /\ Sends \cap Runs = {} /\ Tasks = Sends \cup Runs /\ runs \subseteq RunEntry
        /\ task \in [Tasks -> Task]
    BY KindsAssumption DEF CancelInv, Tasks, TypeOK
  <1>1. CASE Unlock \/ Leave
    <2>1. task' = task /\ runs' = runs
      BY <1>1 DEF Unlock, Leave, tables
    <2> QED BY <1>0, <2>1 DEF RunsExact, AsksAreAnswered, IsCancelled, StaysIn, BeforeLeaving
  <1>2. CASE LetGo
    <2>1. PICK scripts, sends, accepts :
            /\ Cancelled(scripts, sends, accepts)
            /\ scripts = {e.task : e \in hosts} /\ sends = {e.task : e \in running}
            /\ accepts = {t \in Runs : task[t].stage \in LoopStages}
            /\ runs' = {[e EXCEPT !.cancelled = TRUE] : e \in runs}
      BY <1>2 DEF LetGo
    <2>2. \A t \in Tasks : StaysIn(t)'
      BY <1>0, <2>1, CancelStaysIn DEF HostsExact, Exact
    <2>3. \A e \in runs' : \E f \in runs : e.name = f.name /\ e.cancelled
      BY <1>0, <2>1 DEF RunEntry
    <2>4. \A e, f \in runs' : e = f
      BY <1>0, <2>1 DEF RunsExact
    <2>5. \A t \in Runs : task'[t].stage = task[t].stage /\ task'[t].name = task[t].name
      BY <1>0, <2>1, CancelledTells
    <2>6. RunsExact'
      BY <1>0, <2>3, <2>4, <2>5 DEF RunsExact
    <2>7. AsksAreAnswered'
      BY <2>3 DEF AsksAreAnswered, IsCancelled
    <2> QED BY <2>2, <2>6, <2>7
  <1>3. ASSUME NEW t \in Sends, CancelSend(t)
        PROVE  RunsExact' /\ AsksAreAnswered' /\ \A u \in Tasks : StaysIn(u)'
    <2>1. PICK scripts, sends :
            /\ Cancelled(scripts, sends, {})
            /\ scripts = Hit(hosts, SendId(t)) /\ sends = Hit(running, SendId(t))
            /\ runs' = runs
      BY <1>3 DEF CancelSend, tables
    <2>2. \A u \in Tasks : StaysIn(u)'
      BY <1>0, <2>1, CancelStaysIn, HitsAreExact
    <2>3. \A u \in Runs : u \notin scripts \cup sends
      <3>1. ASSUME NEW u \in Runs, u \in scripts \cup sends
            PROVE  FALSE
        <4>1. SendId(u) = SendId(t)
          BY <1>0, <2>1, <3>1, HitsAreExact
        <4>2. SendId(u).kind = "run" /\ SendId(t).kind = "send"
          BY <1>0, <1>3, <3>1 DEF SendId
        <4> QED BY <4>1, <4>2
      <3> QED BY <3>1
    <2>4. \A u \in Runs : /\ task'[u].stage = task[u].stage /\ task'[u].name = task[u].name
                          /\ task'[u].told = task[u].told
      BY <1>0, <2>1, <2>3, CancelledTells
    <2> QED BY <1>0, <2>1, <2>2, <2>4 DEF RunsExact, AsksAreAnswered, IsCancelled
  <1>4. ASSUME NEW t \in Runs, CancelRun(t)
        PROVE  RunsExact' /\ AsksAreAnswered' /\ \A u \in Tasks : StaysIn(u)'
    <2>0. PICK e \in runs :
            /\ runs' = (runs \ {e}) \cup {[e EXCEPT !.cancelled = TRUE]}
            /\ \E id : Cancelled(Hit(hosts, id), Hit(running, id), {t})
      BY <1>4 DEF CancelRun
    <2>1. PICK id : Cancelled(Hit(hosts, id), Hit(running, id), {t})
      BY <2>0
    <2>2. \A u \in Runs : u = t /\ e.name = task[u].name /\ task[u].stage \in LoopStages
      BY <1>0, <1>4, <2>0 DEF OneRunAssumption, RunsExact
    <2>3. \A u \in Tasks : StaysIn(u)'
      BY <1>0, <2>1, <2>2, CancelStaysIn, HitsAreExact
    <2>4. \A f \in runs' : f = [e EXCEPT !.cancelled = TRUE]
      BY <1>0, <2>0 DEF RunsExact
    <2>5. e.name = [e EXCEPT !.cancelled = TRUE].name /\ [e EXCEPT !.cancelled = TRUE].cancelled
      BY <1>0, <2>0 DEF RunEntry
    <2>6. \A u \in Runs : task'[u].stage = task[u].stage /\ task'[u].name = task[u].name
      BY <1>0, <2>1, CancelledTells
    <2> QED BY <2>2, <2>3, <2>4, <2>5, <2>6 DEF RunsExact, AsksAreAnswered, IsCancelled
  <1>5. ASSUME NEW t \in Sends, AskSend(t)
        PROVE  RunsExact' /\ AsksAreAnswered' /\ \A u \in Tasks : StaysIn(u)'
    <2>1. /\ t \in Tasks /\ At(t, "idle") /\ runs' = runs
          /\ task' = [task EXCEPT ![t].stage = "prepare", ![t].name = asked.send + 1, ![t].era = opened]
      BY <1>0, <1>5 DEF AskSend, tables
    <2>2. \A u \in Tasks : StaysIn(u)' /\ (u # t => task'[u] = task[u])
      BY <1>0, <2>1, AskedStaysIn
    <2>3. \A u \in Runs : u # t
      BY <1>0
    <2> QED BY <1>0, <2>1, <2>2, <2>3 DEF RunsExact, AsksAreAnswered, IsCancelled
  <1>6. ASSUME NEW t \in Runs, AskRun(t)
        PROVE  RunsExact' /\ AsksAreAnswered' /\ \A u \in Tasks : StaysIn(u)'
    <2>1. /\ t \in Tasks /\ At(t, "idle") /\ runs' = runs
          /\ task' = [task EXCEPT ![t].stage = "tree", ![t].name = asked.run + 1, ![t].era = opened]
      BY <1>0, <1>6 DEF AskRun, tables
    <2>2. \A u \in Tasks : StaysIn(u)'
      BY <1>0, <2>1, AskedStaysIn
    <2>3. runs = {}
      BY <1>0, <1>6, <2>1 DEF RunsExact, At, LoopStages, FlightStages
    <2> QED BY <2>1, <2>2, <2>3 DEF RunsExact, AsksAreAnswered, IsCancelled
  <1> QED BY <1>1, <1>2, <1>3, <1>4, <1>5, <1>6 DEF User

-----------------------------------------------------------------------------
(* The theorem.                                                            *)

(* At the beginning nobody was told.                                       *)
LEMMA CancelInit == Init => CancelInv
  <1> SUFFICES ASSUME Init PROVE CancelInv
    OBVIOUS
  <1>1. \A t \in Tasks : task[t] = NotAsked
    BY DEF Init
  <1>2. Runs \subseteq Tasks
    BY DEF Tasks
  <1>3. Reachable /\ Exact
    BY RunningExactInductive
  <1> QED BY <1>1, <1>2, <1>3 DEF Init, CancelInv, HostsExact, RunsExact, AsksAreAnswered, StaysIn, NotAsked

(* The invariant is inductive.                                             *)
LEMMA CancelNext ==
  ASSUME OneRunAssumption
  PROVE  TypeOK /\ CancelInv /\ [Next]_vars => CancelInv'
  <1> SUFFICES ASSUME TypeOK, CancelInv, [Next]_vars PROVE CancelInv'
    OBVIOUS
  <1>0. Reachable' /\ Exact'
    BY RunningExactInductive DEF CancelInv
  <1>1. CASE User
    <2>1. HostsExact'
      BY <1>1, HostsUser DEF CancelInv
    <2> QED BY <1>0, <1>1, <2>1, UserStaysIn DEF CancelInv
  <1>2. ASSUME NEW t \in Tasks, Step(t)
        PROVE  CancelInv'
    <2>1. HostsExact' /\ RunsExact' /\ \A u \in Runs : IsCancelled(u) => StartRun(u) \/ IsCancelled(u)'
      BY <1>2, HostsStep, RunsStep DEF CancelInv
    <2>2. StaysIn(t)' /\ task'[t].told \in {task[t].told, "no"}
      BY <1>2, OwnStepStaysIn DEF CancelInv, AsksAreAnswered
    <2>3. ASSUME NEW u \in Tasks, u # t
          PROVE  StaysIn(u)' /\ task'[u].told = task[u].told
      <3>1. FlightStep(t) \/ RunStep(t)
        BY <1>2 DEF Step
      <3> QED BY <2>3, <3>1, OthersUntold DEF CancelInv, StaysIn, BeforeLeaving
    <2>4. AsksAreAnswered'
      <3>1. ASSUME NEW u \in Runs, task'[u].told # "no"
            PROVE  IsCancelled(u)'
        <4>1. u \in Tasks /\ task[u].told # "no"
          BY <2>2, <2>3, <3>1 DEF Tasks
        <4>2. ~StartRun(u)
          BY <4>1 DEF CancelInv, StaysIn, StartRun, At, LoopStages, FlightStages
        <4> QED BY <2>1, <4>1, <4>2 DEF CancelInv, AsksAreAnswered
      <3> QED BY <3>1 DEF AsksAreAnswered
    <2> QED BY <1>0, <2>1, <2>2, <2>3, <2>4 DEF CancelInv
  <1>3. CASE UNCHANGED vars
    BY <1>0, <1>3 DEF CancelInv, HostsExact, RunsExact, AsksAreAnswered, IsCancelled, StaysIn,
                      BeforeLeaving, At, SendId, vars, tables
  <1> QED BY <1>1, <1>2, <1>3 DEF Next

(* With any number of sends and of libraries beside one run: once a cancel *)
(* hit what it was to stop nothing more leaves, and a run that accepted    *)
(* one sends at most the request whose turn had come.                      *)
THEOREM CancelsKeepItIn ==
  ASSUME OneRunAssumption
  PROVE  Spec => []CancelKeepsItIn
  <1>1. TypeOK /\ CancelInv => CancelKeepsItIn
    BY DEF CancelInv, StaysIn, CancelKeepsItIn
  <1> QED BY <1>1, TypeCorrect, CancelInit, CancelNext, PTL DEF Spec
=============================================================================
