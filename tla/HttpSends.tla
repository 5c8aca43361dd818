------------------------------ MODULE HttpSends ------------------------------
(***************************************************************************)
(* The requests of the REST client and the runs of them: tokio tasks that  *)
(* wait on the db queue, on a script host and on the network, while the    *)
(* user cancels them, leaves the library they read and opens another.      *)
(*                                                                         *)
(* A task is one call: send_http_request for those of Sends, and           *)
(* run_http_collection for those of Runs, which makes one flight after the *)
(* other.  A step is a db job, or what a task does between two awaits.     *)
(* Sends and runs are known by ids the interface draws from counters that  *)
(* start over with each library.                                           *)
(***************************************************************************)
EXTENDS Naturals

CONSTANTS
  Sends, Runs, \* the calls the user may make
  MaxOpened,   \* bound: libraries opened
  MaxTurns,    \* bound: turns of a run told apart, the later ones being one
  StoreFails   \* whether SQLite may answer an error

ASSUME KindsAssumption == Sends \cap Runs = {}
ASSUME BoundsAssumption ==
  MaxOpened \in Nat /\ MaxTurns \in Nat \ {0} /\ StoreFails \in BOOLEAN

Tasks == Sends \cup Runs
None == 0
Numbers == 0 .. MaxOpened

VARIABLES
  open, opened, \* the number of the library in the Db, and the last one drawn
  leaving,      \* whether the db job that closes it is under way
  task,         \* where each call is, with its Flight
  runs,         \* Runs.running: cancelled or not, and the turn of the send it is at
  running,      \* Sending.running: the task a cancel would abort
  hosts,        \* Sending.hosts: the task whose script a cancel would kill
  written,      \* what sends wrote, and into which library
  asked         \* the counters the interface draws the names from

libraries == <<open, opened, leaving>>
tables == <<runs, running, hosts>>
vars == <<libraries, task, tables, written, asked>>

FlightStages == {"prepare", "host", "script", "write", "compose", "spawned", "sending", "keep"}
LoopStages == {"check", "get", "result", "wait", "finish"} \cup FlightStages
Stages == {"idle", "tree", "start", "done"} \cup LoopStages

(* name is the number of its id, and era the library the interface had     *)
(* when it drew it.  net: what became of the request; told: whether a      *)
(* cancel was accepted, or hit what it was to stop; late: the requests     *)
(* that left since it was; changes: whether the jar may have changed.      *)
Task ==
  [stage : Stages, name : Nat, era : Numbers, turn : 0 .. MaxTurns, read : Numbers,
   net : {"no", "out", "answered", "failed"}, killed : BOOLEAN, aborted : BOOLEAN,
   sent : BOOLEAN, changes : BOOLEAN, ended : {"no", "answered", "failed", "cancelled"},
   told : {"no", "accepted", "hit"}, late : Nat]

SendIds == [kind : {"send", "run"}, name : Nat, turn : 0 .. MaxTurns]
SendId(t) ==
  [kind |-> IF t \in Runs THEN "run" ELSE "send", name |-> task[t].name, turn |-> task[t].turn]

Entry == [id : SendIds, task : Tasks]
RunEntry == [name : Nat, cancelled : BOOLEAN, at : 0 .. MaxTurns]

(* A flight that has not failed has read its library, and keeps its number.*)
HasRead == {"host", "script", "write", "compose", "spawned", "sending"}

TypeOK ==
  /\ open \in Numbers /\ opened \in Numbers /\ leaving \in BOOLEAN
  /\ task \in [Tasks -> Task]
  /\ \A t \in Tasks : task[t].stage \in HasRead => task[t].read # None
  /\ runs \subseteq RunEntry /\ running \subseteq Entry /\ hosts \subseteq Entry
  /\ written \subseteq [by : Tasks, read : Numbers, into : Numbers]
  /\ asked \in [send : Nat, run : Nat]

NotAsked ==
  [stage |-> "idle", name |-> 0, era |-> None, turn |-> 0, read |-> None, net |-> "no",
   killed |-> FALSE, aborted |-> FALSE, sent |-> FALSE, changes |-> FALSE, ended |-> "no",
   told |-> "no", late |-> 0]
NoCount == [send |-> 0, run |-> 0]

Init ==
  /\ open = None /\ opened = 0 /\ leaving = FALSE
  /\ task = [t \in Tasks |-> NotAsked]
  /\ runs = {} /\ running = {} /\ hosts = {} /\ written = {}
  /\ asked = NoCount

At(t, stage) == task[t].stage = stage
Go(t, stage) == task' = [task EXCEPT ![t].stage = stage]
UnderWay(t) == ~At(t, "idle") /\ ~At(t, "done")

(* A read or a write of the library open may answer an error: none is, or  *)
(* SQLite fails.                                                           *)
MayFail == open = None \/ StoreFails

(* The db thread runs one job at a time.                                   *)
JobMayRun == ~leaving

-----------------------------------------------------------------------------
(* What the user does.                                                     *)

(* The interface forgets all it had of the library before, its counters    *)
(* with it; until then it may still ask.                                   *)
Unlock ==
  /\ open = None /\ opened < MaxOpened
  /\ opened' = opened + 1 /\ open' = opened + 1
  /\ asked' = NoCount
  /\ UNCHANGED <<leaving, task, tables, written>>

AskSend(t) ==
  /\ t \in Sends /\ At(t, "idle") /\ opened # None
  /\ asked' = [asked EXCEPT !.send = @ + 1]
  /\ task' = [task EXCEPT ![t].stage = "prepare", ![t].name = asked.send + 1, ![t].era = opened]
  /\ UNCHANGED <<libraries, tables, written>>

(* One run at a time, of those the interface knows.                        *)
AskRun(t) ==
  /\ t \in Runs /\ At(t, "idle") /\ opened # None
  /\ \A r \in Runs : UnderWay(r) => task[r].era # opened
  /\ asked' = [asked EXCEPT !.run = @ + 1]
  /\ task' = [task EXCEPT ![t].stage = "tree", ![t].name = asked.run + 1, ![t].era = opened]
  /\ UNCHANGED <<libraries, tables, written>>

(* Whom a cancel of the send id reaches: Killer::kill, AbortHandle::abort. *)
Hit(table, id) == {e.task : e \in {x \in table : x.id = id}}

(* A cancel is accepted by the tasks of accepts, and hits those it finds.  *)
Cancelled(scripts, sends, accepts) ==
  task' = [t \in Tasks |->
    [task[t] EXCEPT !.killed = @ \/ t \in scripts, !.aborted = @ \/ t \in sends,
                    !.told = IF t \in scripts \cup sends THEN "hit"
                             ELSE IF t \in accepts /\ @ = "no" THEN "accepted" ELSE @,
                    !.late = IF t \in scripts \cup sends THEN 0 ELSE @]]

CancelSend(t) ==
  /\ JobMayRun /\ t \in Sends /\ UnderWay(t) /\ task[t].era = opened
  /\ Cancelled(Hit(hosts, SendId(t)), Hit(running, SendId(t)), {})
  /\ UNCHANGED <<libraries, tables, written, asked>>

(* The flag of the run, then the send it is at; nothing if no run has that *)
(* name.  A run that asks between the two finds the flag set.              *)
CancelRun(t) ==
  /\ JobMayRun /\ t \in Runs /\ UnderWay(t) /\ task[t].era = opened
  /\ \E e \in runs :
       /\ e.name = task[t].name
       /\ runs' = (runs \ {e}) \cup {[e EXCEPT !.cancelled = TRUE]}
       /\ LET id == [kind |-> "run", name |-> e.name, turn |-> e.at]
          IN  Cancelled(Hit(hosts, id), Hit(running, id), {t})
  /\ UNCHANGED <<libraries, running, hosts, written, asked>>

(* One job, for another library or a copy put back: it cancels all the     *)
(* runs, scripts and sends that are known ...                              *)
LetGo ==
  /\ open # None /\ ~leaving /\ leaving' = TRUE
  /\ runs' = {[e EXCEPT !.cancelled = TRUE] : e \in runs}
  /\ Cancelled({e.task : e \in hosts}, {e.task : e \in running},
               {t \in Runs : task[t].stage \in LoopStages})
  /\ UNCHANGED <<open, opened, running, hosts, written, asked>>

(* ... and closes the library.  What a task asked meanwhile goes on, and no *)
(* other job comes between the two, in whichever order they are.            *)
Leave ==
  /\ leaving /\ leaving' = FALSE /\ open' = None
  /\ UNCHANGED <<opened, task, tables, written, asked>>

-----------------------------------------------------------------------------
(* A flight, from what it reads to what it keeps.                          *)

(* Mutant: the number is read, and whether a library is open is not asked. *)
PrepareUnlocked(t) ==
  /\ JobMayRun /\ At(t, "prepare")
  /\ \E next \in {"host", "compose"} :
       task' = [task EXCEPT ![t].read = open, ![t].stage = next]
  /\ UNCHANGED <<libraries, tables, written, asked>>

(* Read in one job; it has scripts to run before it leaves, or none.       *)
Prepare(t) ==
  /\ JobMayRun /\ At(t, "prepare")
  /\ \/ open # None /\ \E next \in {"host", "compose"} :
          task' = [task EXCEPT ![t].read = open, ![t].stage = next]
     \/ MayFail /\ task' = [task EXCEPT ![t].ended = "failed", ![t].stage = "keep"]
  /\ UNCHANGED <<libraries, tables, written, asked>>

Without(table, id) == {e \in table : e.id # id}
With(table, t) == Without(table, SendId(t)) \cup {[id |-> SendId(t), task |-> t]}
Before(t) == task[t].net = "no"

(* A host that does not start fails the script, as the script itself may.  *)
StartHost(t) ==
  /\ At(t, "host")
  /\ \/ Go(t, "script") /\ hosts' = With(hosts, t)
     \/ Before(t) /\ UNCHANGED hosts
          /\ task' = [task EXCEPT ![t].ended = "failed", ![t].stage = "keep"]
     \/ ~Before(t) /\ Go(t, "write") /\ UNCHANGED hosts
  /\ UNCHANGED <<libraries, runs, running, written, asked>>

(* What was sent is the history's, but for a run's.                        *)
History(t) == t \in Sends /\ ~Before(t)

(* Mutant: a send whose scripts were stopped is not one to keep. *)
HostEndsUnsent(t) ==
  /\ At(t, "script") /\ hosts' = Without(hosts, SendId(t))
  /\ task' = IF task[t].killed
             THEN [task EXCEPT ![t].changes = TRUE, ![t].ended = "cancelled", ![t].stage = "keep"]
             ELSE [task EXCEPT ![t].changes = TRUE, ![t].stage = "write"]
  /\ UNCHANGED <<libraries, runs, running, written, asked>>

(* The host is no longer watched, whichever one was; its script may have   *)
(* changed the jar.                                                        *)
HostEnds(t) ==
  /\ At(t, "script") /\ hosts' = Without(hosts, SendId(t))
  /\ task' = IF task[t].killed
             THEN [task EXCEPT ![t].changes = TRUE, ![t].ended = "cancelled",
                               ![t].sent = History(t), ![t].stage = "keep"]
             ELSE [task EXCEPT ![t].changes = TRUE, ![t].stage = "write"]
  /\ UNCHANGED <<libraries, runs, running, written, asked>>

(* Mutant: into the library open, whichever it is. *)
WritesNow(t) ==
  /\ open # None
  /\ written' = written \cup {[by |-> t, read |-> task[t].read, into |-> open]}

(* lock_library: into the library read, if it is still the one open.       *)
Writes(t) ==
  /\ open = task[t].read
  /\ written' = written \cup {[by |-> t, read |-> task[t].read, into |-> open]}

(* What a script or an extraction wrote, if anything and if it is to be    *)
(* kept.  A script may have failed, or asked not to send.                  *)
Write(t) ==
  /\ JobMayRun /\ At(t, "write")
  /\ Writes(t) \/ UNCHANGED written
  /\ IF Before(t)
     THEN \/ Go(t, "compose")
          \/ task' = [task EXCEPT ![t].ended = "failed", ![t].stage = "keep"]
     ELSE task' = [task EXCEPT ![t].ended = "answered", ![t].sent = History(t),
                               ![t].stage = "keep"]
  /\ UNCHANGED <<libraries, tables, asked>>

(* Composed off the thread; then a task of its own carries the request.    *)
Compose(t) ==
  /\ At(t, "compose")
  /\ \/ task' = [task EXCEPT ![t].net = "out", ![t].stage = "spawned",
                             ![t].late = IF task[t].told = "no" THEN @ ELSE @ + 1]
     \/ task' = [task EXCEPT ![t].ended = "failed", ![t].stage = "keep"]
  /\ UNCHANGED <<libraries, tables, written, asked>>

(* Known by its id from here on; a send of the same id is aborted.         *)
Register(t) ==
  /\ At(t, "spawned")
  /\ running' = With(running, t)
  /\ task' = [u \in Tasks |->
       [task[u] EXCEPT !.aborted = @ \/ u \in Hit(running, SendId(t)),
                       !.stage = IF u = t THEN "sending" ELSE @]]
  /\ UNCHANGED <<libraries, runs, hosts, written, asked>>

(* Mutant: what ended stays listed. *)
Relisted(t) == running

(* The entry goes if it is still its own.                                  *)
Unregistered(t) == running \ {[id |-> SendId(t), task |-> t]}

(* The task ends, within its delay.  If it was aborted before it did, what *)
(* it did to the jar goes with it.  Answered, the scripts after and the    *)
(* extractions follow.                                                     *)
Joined(t) ==
  /\ At(t, "sending") /\ running' = Unregistered(t)
  /\ \/ /\ task[t].aborted
        /\ task' = [task EXCEPT ![t].ended = "cancelled", ![t].stage = "keep"]
     \/ \E next \in {"host", "write"} :
          task' = [task EXCEPT ![t].changes = TRUE, ![t].net = "answered", ![t].stage = next]
     \/ task' = [task EXCEPT ![t].changes = TRUE, ![t].net = "failed", ![t].ended = "failed",
                            ![t].sent = History(t), ![t].stage = "keep"]
  /\ UNCHANGED <<libraries, runs, hosts, written, asked>>

HasToKeep(t) == task[t].sent \/ task[t].changes

(* A call is over: what a cancel did is nobody's any more.                 *)
Over(call) == [call EXCEPT !.stage = "done", !.ended = "no", !.told = "no", !.late = 0]
Kept(call) ==
  [call EXCEPT !.killed = FALSE, !.aborted = FALSE, !.sent = FALSE, !.changes = FALSE]

(* The history and the jar, never at the answer's expense; then the answer *)
(* is the send's, or the run's.                                            *)
Keep(t) ==
  /\ JobMayRun /\ At(t, "keep")
  /\ task' = [task EXCEPT ![t] = IF t \in Sends THEN Over(Kept(@))
                                 ELSE [Kept(@) EXCEPT !.stage = "result"]]
  /\ \/ HasToKeep(t) /\ Writes(t)
     \/ (task[t].sent => open # task[t].read \/ StoreFails) /\ UNCHANGED written
  /\ UNCHANGED <<libraries, tables, asked>>

-----------------------------------------------------------------------------
(* A run, around its flights.                                              *)

ReadTree(t) ==
  /\ JobMayRun /\ At(t, "tree")
  /\ \/ open # None /\ Go(t, "start")
     \/ MayFail /\ Go(t, "done")
  /\ UNCHANGED <<libraries, tables, written, asked>>

Others(t) == {e \in runs : e.name # task[t].name}

StartRun(t) ==
  /\ At(t, "start") /\ Go(t, "check")
  /\ runs' = Others(t) \cup {[name |-> task[t].name, cancelled |-> FALSE, at |-> 0]}
  /\ UNCHANGED <<libraries, running, hosts, written, asked>>

(* A run that is not known is a run cancelled.                             *)
IsCancelled(t) == \A e \in runs : e.name = task[t].name => e.cancelled

(* Mutant: nothing is asked between two iterations. *)
CheckUnasked(t) ==
  /\ At(t, "check")
  /\ task' = [task EXCEPT ![t].stage = "get",
                          ![t].turn = IF @ < MaxTurns THEN @ + 1 ELSE @]
  /\ UNCHANGED <<libraries, tables, written, asked>>

(* What the run says of itself, Started, Ended and Finished, is left out.   *)
Check(t) ==
  /\ At(t, "check")
  /\ IF IsCancelled(t)
     THEN task' = [task EXCEPT ![t].ended = "cancelled", ![t].stage = "finish"]
     ELSE task' = [task EXCEPT ![t].stage = "get",
                               ![t].turn = IF @ < MaxTurns THEN @ + 1 ELSE @]
  /\ UNCHANGED <<libraries, tables, written, asked>>

(* Read in the library open, which may no longer be the tree's; gone, or   *)
(* the run is at its send.                                                 *)
GetRequest(t) ==
  /\ JobMayRun /\ At(t, "get")
  /\ \/ /\ open # None
        /\ runs' = {[e EXCEPT !.at = IF e.name = task[t].name THEN task[t].turn ELSE @] : e \in runs}
        /\ task' = [task EXCEPT ![t] =
             [@ EXCEPT !.stage = "prepare", !.read = None, !.net = "no", !.ended = "no"]]
     \/ task' = [task EXCEPT ![t].ended = "failed", ![t].stage = "result"] /\ UNCHANGED runs
  /\ UNCHANGED <<libraries, running, hosts, written, asked>>

(* Cancelled, the run is over.  Otherwise it goes on, after the delay or   *)
(* with the next iteration, or has come to its end.                        *)
Result(t) ==
  /\ At(t, "result")
  /\ IF task[t].ended = "cancelled" THEN Go(t, "finish")
     ELSE \E next \in {"wait", "check", "finish"} : Go(t, next)
  /\ UNCHANGED <<libraries, tables, written, asked>>

(* Mutant: the delay goes on for a run that is cancelled. *)
WaitUncut(t) ==
  /\ At(t, "wait") /\ ~IsCancelled(t) /\ Go(t, "check")
  /\ UNCHANGED <<libraries, tables, written, asked>>

Wait(t) ==
  /\ At(t, "wait")
  /\ IF IsCancelled(t)
     THEN task' = [task EXCEPT ![t].ended = "cancelled", ![t].stage = "finish"]
     ELSE Go(t, "check")
  /\ UNCHANGED <<libraries, tables, written, asked>>

(* The run is forgotten, by its name.                                      *)
Finish(t) ==
  /\ At(t, "finish") /\ task' = [task EXCEPT ![t] = Over(@)]
  /\ runs' = Others(t)
  /\ UNCHANGED <<libraries, running, hosts, written, asked>>

-----------------------------------------------------------------------------
FlightStep(t) ==
  \/ Prepare(t) \/ StartHost(t) \/ HostEnds(t) \/ Write(t) \/ Compose(t)
  \/ Register(t) \/ Joined(t) \/ Keep(t)
RunStep(t) ==
  \/ ReadTree(t) \/ StartRun(t) \/ Check(t) \/ GetRequest(t)
  \/ Result(t) \/ Wait(t) \/ Finish(t)

Step(t) == FlightStep(t) \/ (t \in Runs /\ RunStep(t))

User ==
  \/ Unlock \/ LetGo \/ Leave
  \/ \E t \in Sends : AskSend(t) \/ CancelSend(t)
  \/ \E t \in Runs : AskRun(t) \/ CancelRun(t)

Next == User \/ \E t \in Tasks : Step(t)

Spec == Init /\ [][Next]_vars

(* tokio polls its tasks, the db thread runs its jobs to their end, a      *)
(* script has its time and a request its delay; the user need do nothing.  *)
Fairness == WF_vars(Leave) /\ \A t \in Tasks : WF_vars(Step(t))

LiveSpec == Spec /\ Fairness
-----------------------------------------------------------------------------
(* "What a send read from is what it may write to": variables, history and *)
(* cookies reach no library but that one, however many were opened since,  *)
(* and a send that could read none writes nothing.                         *)
WritesStayHome == \A w \in written : w.into = w.read /\ w.read # None

(* A send on the network that nothing has aborted can be: its id leads to  *)
(* it, whatever ended or began under that id meanwhile.  And an id leads   *)
(* to nothing else, so that a cancel answers "`false` when that send had   *)
(* already ended".                                                         *)
RunningIsExact ==
  /\ \A t \in Tasks :
       At(t, "sending") /\ ~task[t].aborted => [id |-> SendId(t), task |-> t] \in running
  /\ \A e \in running : At(e.task, "sending") /\ e.id = SendId(e.task)

(* What was answered before its library was left is in that library's      *)
(* history, also when a cancel stopped the scripts after it.               *)
AnsweredIsKept ==
  ~StoreFails =>
    \A t \in Sends :
      At(t, "done") /\ task[t].net \in {"answered", "failed"} /\ open = task[t].read
        => [by |-> t, read |-> open, into |-> open] \in written

(* Once a cancel hit what it was to stop, nothing more leaves; a run that  *)
(* accepted one sends at most the request whose turn had come.             *)
(* So it is with one run; a run of the next library that takes its id lets *)
(* it out (RunIsKnown).                                                    *)
CancelKeepsItIn ==
  \A t \in Tasks :
    /\ task[t].told = "hit" => task[t].late = 0
    /\ task[t].told = "accepted" => task[t].late <= 1

(* A send ends, and a run that accepted a cancel or whose library was      *)
(* left, wherever it was and whatever send is under way.  With a second    *)
(* run of the same id it need not (RunIsKnown).                            *)
AllEnd ==
  /\ \A t \in Sends : UnderWay(t) ~> At(t, "done")
  /\ \A t \in Runs : task[t].told # "no" ~> At(t, "done")

-----------------------------------------------------------------------------
(* "`None` when no run of that id is under way": a run in its loop is one  *)
(* that « Annuler » finds.  It is not so once a library opens while a run  *)
(* of the one before goes on under the same id: no run checks it, see the  *)
(* README.                                                                 *)
RunIsKnown ==
  \A t \in Runs :
    task[t].stage \in LoopStages => \E e \in runs : e.name = task[t].name

=============================================================================
