---------------------------- MODULE LibraryFiles ----------------------------
(***************************************************************************)
(* One library of DevNotes as it lies on disk: the live database, its key  *)
(* file and its attachments, the rolling copies under backups/, and the    *)
(* folders a library is moved to (replaced/, damaged/, archived/); and the *)
(* engine operations that write, copy and move those files: create_vault,  *)
(* unlock_vault with its startup sweep, change_passphrase, restore_backup, *)
(* set_aside_damaged_library, archive_locked_library, and the storing and  *)
(* deleting of an attachment.                                              *)
(*                                                                         *)
(* All of them run on the engine's one db thread, so no two interleave;    *)
(* what can come between two steps of one is the end of the process, or an *)
(* error of the file system.  Every rename, copy, link and removal is a    *)
(* step of its own, and CONSTANTS say at which of them either may strike.  *)
(***************************************************************************)
EXTENDS Naturals, Sequences, FiniteSets

CONSTANTS
  Items,      \* what a library holds: an attachment, its record and its note
  Masters,    \* the library keys Vault::random can draw
  Phrases,    \* passphrases
  NoMaster, NoKey, Torn,  \* nothing drawn; no key file; a key file cut short
  Keep,       \* KEEP: the copies a rotation leaves
  MaxCopies,  \* bound: a rotation starts below this many copies
  MaxAsides,  \* bound: a library is moved aside while fewer folders exist
  Crashes,    \* the steps at which the process may end
  Faults,     \* the steps at which the file system may answer an error
  Losses      \* whether a closed library may lose its key file

Wrapped == [master : Masters, phrase : Phrases]
KeyFiles == Wrapped \cup {NoKey, Torn}

(* A directory that can hold a library: whether the database is there, the *)
(* records in it, its key file and the names in its attachments/.          *)
Place == [db : BOOLEAN, rows : SUBSET Items, key : KeyFiles, files : SUBSET Items]
Empty == [db |-> FALSE, rows |-> {}, key |-> NoKey, files |-> {}]

(* `p` with the database of `q` in it. *)
WithDb(p, q) == [db |-> q.db, rows |-> q.rows, key |-> p.key, files |-> p.files]

RotateSteps == {"mkdir", "vacuum", "copyKeyOut", "fillKeyOut", "linkOut", "prune"}
SweepSteps == {"purge", "orphans"}
MoveSteps == {"moveDb", "moveKey", "moveFiles"}
CopyBackSteps == {"copyDb", "fillDb", "copyKey", "fillKey", "linkBack"}
PutBackSteps == {"putBack", "return"}
RestoreSteps == MoveSteps \cup CopyBackSteps \cup PutBackSteps
SetAsideSteps == {"setDamaged", "setForgotten", "setKey", "setFiles"}
AsideSteps == RestoreSteps \cup SetAsideSteps
Steps == {"idle", "install", "record", "unlink", "rewrap"}
           \cup RotateSteps \cup SweepSteps \cup AsideSteps

Names == {"db", "key", "files"}

ASSUME KeepAssumption == Keep \in Nat \ {0}
ASSUME BoundAssumption == MaxCopies \in Nat /\ MaxAsides \in Nat
ASSUME SentinelAssumption ==
  /\ NoMaster \notin Masters
  /\ NoKey # Torn /\ NoKey \notin Wrapped /\ Torn \notin Wrapped
ASSUME StrikeAssumption ==
  Crashes \subseteq Steps /\ Faults \subseteq Steps /\ Losses \in BOOLEAN

VARIABLES
  \* On disk
  live,     \* the library's own directory
  sound,    \* the live database passes quick_check
  copies,   \* backups/, newest first
  young,    \* the newest copy is less than MIN_AGE old
  asides,   \* the folders of replaced/, damaged/ and archived/
  \* In the process
  open,     \* the master key of the Library the Db mutex holds
  step,     \* where the db thread is in the operation under way
  at,       \* the copy the operation reads or writes
  item,     \* the attachment being stored or deleted
  wrap,     \* the key file change_passphrase writes
  left,     \* Rewrapped::left # 0
  aside,    \* the folder being filled by a restore or a set-aside
  moved,    \* replace: what went into `aside`
  \* History
  made,     \* masters ever written into a key file
  seal,     \* the master each item was sealed under
  kept,     \* items recorded
  purged    \* items deleted for good

disk == <<live, sound, copies, young, asides>>
job == <<at, item, wrap, left, aside, moved>>
history == <<made, seal, kept, purged>>
vars == <<disk, open, step, job, history>>

NoItem == {}  \* `item` is empty or a singleton

TypeOK ==
  /\ live \in Place /\ sound \in BOOLEAN
  /\ copies \in Seq(Place) /\ young \in BOOLEAN
  /\ asides \in SUBSET Place
  /\ open \in Masters \cup {NoMaster}
  /\ step \in Steps
  /\ at \in Nat
  /\ item \in SUBSET Items
  /\ wrap \in Wrapped \cup {NoKey}
  /\ left \in BOOLEAN
  /\ aside \in Place
  /\ moved \in SUBSET Names
  /\ made \in SUBSET Masters
  /\ seal \in [Items -> Masters \cup {NoMaster}]
  /\ kept \in SUBSET Items /\ purged \in SUBSET Items

Init ==
  /\ live = Empty /\ sound = TRUE
  /\ copies = <<>> /\ young = FALSE
  /\ asides = {}
  /\ open = NoMaster
  /\ step = "idle"
  /\ at = 0 /\ item = NoItem /\ wrap = NoKey /\ left = FALSE
  /\ aside = Empty /\ moved = {}
  /\ made = {} /\ seal = [i \in Items |-> NoMaster]
  /\ kept = {} /\ purged = {}

Idle == step = "idle"
Closed == Idle /\ open = NoMaster
Opened == Idle /\ open # NoMaster

-----------------------------------------------------------------------------
(* The gate: vault_state, create_vault, unlock_vault.                      *)

Locked == live.key # NoKey
KeyMissing == live.key = NoKey /\ live.db
(* Mutant: the database alone tells whether a library is there. *)
AbsentByDatabase == ~live.db

Absent == live.key = NoKey /\ ~live.db

(* A key file around a master nobody drew before; refused where one, or a  *)
(* database, already lies.                                                 *)
CreateKey(m, p) ==
  /\ Closed /\ Absent
  /\ m \notin made
  /\ live' = [live EXCEPT !.key = [master |-> m, phrase |-> p]]
  /\ made' = made \cup {m}
  /\ step' = "install"
  /\ UNCHANGED <<sound, copies, young, asides, open, job, seal, kept, purged>>

(* db::open creates the database where there is none; Db is given the      *)
(* library and the sweep begins.                                           *)
Hold(m) ==
  /\ live' = [live EXCEPT !.db = TRUE]
  /\ sound' = TRUE
  /\ open' = m
  /\ step' \in {"mkdir", "purge"}
  /\ step' = "mkdir" => ~young /\ Len(copies) < MaxCopies
  /\ UNCHANGED <<copies, young, asides, job, history>>

(* Mutant: the library is opened with the key file, not with the key in it. *)
InstallWithKeyFile == step = "install" /\ Hold(live.key)

Install == step = "install" /\ Hold(live.key.master)

(* The database cannot be opened: the key file stays, and the gate asks.   *)
InstallFails ==
  /\ step = "install" /\ step \in Faults
  /\ step' = "idle"
  /\ UNCHANGED <<disk, open, job, history>>

(* The phrase opens the key file and quick_check passes.                   *)
Unlock ==
  /\ Closed /\ live.key \in Wrapped
  /\ live.db => sound
  /\ Hold(live.key.master)

(* The application quits, or another library is opened.                    *)
Close ==
  /\ Opened
  /\ open' = NoMaster
  /\ UNCHANGED <<disk, step, job, history>>

-----------------------------------------------------------------------------
(* The startup sweep: backup::take, the expired trash, the orphan files.   *)

ReadableRows == \A i \in live.rows : seal[i] = open

(* Mutant: the copies are pruned before the new one is made. *)
MakeCopyAfterPruning ==
  /\ step = "mkdir"
  /\ copies' = <<Empty>> \o
       SubSeq(copies, 1, IF Len(copies) < Keep THEN Len(copies) ELSE Keep - 1)
  /\ young' = TRUE
  /\ step' = "vacuum"
  /\ UNCHANGED <<live, sound, asides, open, job, history>>

MakeCopy ==
  /\ step = "mkdir"
  /\ copies' = <<Empty>> \o copies
  /\ young' = TRUE
  /\ step' = "vacuum"
  /\ UNCHANGED <<live, sound, asides, open, job, history>>

Vacuum ==
  /\ step = "vacuum"
  /\ copies' = [copies EXCEPT ![1] = WithDb(@, live)]
  /\ step' = "copyKeyOut"
  /\ UNCHANGED <<live, sound, young, asides, open, job, history>>

(* std::fs::copy of the key file: what a process that ends here leaves is  *)
(* a file cut short, until the next step.                                  *)
CopyKeyOut ==
  /\ step = "copyKeyOut"
  /\ live.key # NoKey
  /\ copies' = [copies EXCEPT ![1].key = Torn]
  /\ step' = "fillKeyOut"
  /\ UNCHANGED <<live, sound, young, asides, open, job, history>>

FillKeyOut ==
  /\ step = "fillKeyOut"
  /\ copies' = [copies EXCEPT ![1].key = live.key]
  /\ step' = "linkOut"
  /\ UNCHANGED <<live, sound, young, asides, open, job, history>>

LinkOut ==
  /\ step = "linkOut"
  /\ \/ \E i \in live.files \ copies[1].files :
          /\ copies' = [copies EXCEPT ![1].files = @ \cup {i}]
          /\ UNCHANGED <<step, at>>
     \/ /\ live.files \subseteq copies[1].files
        /\ step' = "prune" /\ at' = Keep + 1
        /\ UNCHANGED copies
  /\ UNCHANGED <<live, sound, young, asides, open, item, wrap, left, aside, moved, history>>

Without(s, k) == SubSeq(s, 1, k - 1) \o SubSeq(s, k + 1, Len(s))

(* What remove_dir_all can leave of a folder it could not remove whole.    *)
Remains(p) ==
  {q \in [db : {p.db, FALSE}, rows : {p.rows, {}},
           key : {p.key, NoKey}, files : SUBSET p.files] :
     q.rows = IF q.db THEN p.rows ELSE {}}

(* Any failure of rotate removes the copy it had begun, or what it can of  *)
(* it.  The copy that is now the newest is old, or none was begun.         *)
RotateFails ==
  /\ step \in Faults \cap {"mkdir", "vacuum", "copyKeyOut", "fillKeyOut", "linkOut"}
  /\ \/ /\ copies' = IF step = "mkdir" THEN copies ELSE Tail(copies)
        /\ young' = FALSE
     \/ /\ step # "mkdir" /\ "prune" \in Faults
        /\ \E p \in Remains(copies[1]) : copies' = [copies EXCEPT ![1] = p]
        /\ UNCHANGED young
  /\ step' = "purge"
  /\ UNCHANGED <<live, sound, asides, open, job, history>>

Prune ==
  /\ step = "prune"
  /\ \/ /\ at <= Len(copies)
        /\ \/ copies' = Without(copies, at) /\ UNCHANGED at
           \/ /\ "prune" \in Faults
              /\ \E p \in Remains(copies[at]) : copies' = [copies EXCEPT ![at] = p]
              /\ at' = at + 1
        /\ UNCHANGED step
     \/ /\ at > Len(copies)
        /\ step' = "purge" /\ at' = 0
        /\ UNCHANGED copies
  /\ UNCHANGED <<live, sound, young, asides, open, item, wrap, left, aside, moved, history>>

(* trash::sweep_at_startup: the names are read, hence opened, before the   *)
(* rows are deleted; what the files leave, the next step sweeps.           *)
PurgeExpired ==
  /\ step = "purge"
  /\ \E expired \in SUBSET live.rows :
       /\ \A i \in expired : seal[i] = open
       /\ live' = [live EXCEPT !.rows = @ \ expired]
       /\ purged' = purged \cup expired
  /\ step' = "orphans"
  /\ UNCHANGED <<sound, copies, young, asides, open, job, made, seal, kept>>

(* sweep_orphan_files: the files no record claims.  A record the key does  *)
(* not open fails the listing, and nothing is swept.                       *)
SweepOrphans ==
  /\ step = "orphans"
  /\ \/ live' = IF ReadableRows THEN [live EXCEPT !.files = @ \cap live.rows] ELSE live
     \/ /\ "orphans" \in Faults /\ ReadableRows
        /\ \E rest \in SUBSET (live.files \ live.rows) :
             live' = [live EXCEPT !.files = (@ \cap live.rows) \cup rest]
  /\ step' = "idle"
  /\ UNCHANGED <<sound, copies, young, asides, open, job, history>>

-----------------------------------------------------------------------------
(* Storing and deleting: the file before the record, the record before the *)
(* file.                                                                   *)

WriteFile(i) ==
  /\ Opened
  /\ seal[i] = NoMaster
  /\ live' = [live EXCEPT !.files = @ \cup {i}]
  /\ seal' = [seal EXCEPT ![i] = open]
  /\ item' = {i}
  /\ step' = "record"
  /\ UNCHANGED <<sound, copies, young, asides, open, at, wrap, left, aside, moved,
                 made, kept, purged>>

Record ==
  /\ step = "record"
  /\ \/ /\ live' = [live EXCEPT !.rows = @ \cup item]
        /\ kept' = kept \cup item
     \/ /\ "record" \in Faults
        /\ live' \in {live, [live EXCEPT !.files = @ \ item]}
        /\ UNCHANGED kept
  /\ item' = NoItem
  /\ step' = "idle"
  /\ UNCHANGED <<sound, copies, young, asides, open, at, wrap, left, aside, moved,
                 made, seal, purged>>

DeleteRow(i) ==
  /\ Opened
  /\ i \in live.rows /\ seal[i] = open
  /\ live' = [live EXCEPT !.rows = @ \ {i}]
  /\ purged' = purged \cup {i}
  /\ item' = {i}
  /\ step' = "unlink"
  /\ UNCHANGED <<sound, copies, young, asides, open, at, wrap, left, aside, moved,
                 made, seal, kept>>

Unlink ==
  /\ step = "unlink"
  /\ \/ live' = [live EXCEPT !.files = @ \ item]
     \/ "unlink" \in Faults /\ UNCHANGED live
  /\ item' = NoItem
  /\ step' = "idle"
  /\ UNCHANGED <<sound, copies, young, asides, open, at, wrap, left, aside, moved, history>>

-----------------------------------------------------------------------------
(* change_passphrase: the live key file, then every copy's.                *)

ChangePassphrase(next) ==
  /\ Opened
  /\ live.key \in Wrapped
  /\ wrap' = [live.key EXCEPT !.phrase = next]
  /\ live' = [live EXCEPT !.key = wrap']
  /\ at' = 1 /\ left' = FALSE
  /\ step' = "rewrap"
  /\ UNCHANGED <<sound, copies, young, asides, open, item, aside, moved, history>>

(* Mutant: only a copy that has its database is given the key. *)
RewrappedIfWhole(p) == IF p.db /\ p.key # NoKey THEN [p EXCEPT !.key = wrap] ELSE p

(* The key it is given, whatever the copy's file wraps.                    *)
Rewrapped(p) == IF p.key = NoKey THEN p ELSE [p EXCEPT !.key = wrap]

Rewrap ==
  /\ step = "rewrap"
  /\ \/ /\ at <= Len(copies)
        /\ at' = at + 1
        /\ \/ copies' = [copies EXCEPT ![at] = Rewrapped(@)] /\ UNCHANGED left
           \/ "rewrap" \in Faults /\ copies[at].key # NoKey /\ left' = TRUE /\ UNCHANGED copies
        /\ UNCHANGED <<step, wrap>>
     \/ /\ at > Len(copies)
        /\ step' = "idle" /\ at' = 0 /\ wrap' = NoKey /\ left' = FALSE
        /\ UNCHANGED copies
  /\ UNCHANGED <<live, sound, young, asides, open, item, aside, moved, history>>

-----------------------------------------------------------------------------
(* restore_backup: the library closed, the live files moved aside, the     *)
(* copy's in their place; or everything put back.                          *)

Openable(c) == copies[c].db /\ copies[c].key # NoKey

StartRestore(c) ==
  /\ Opened
  /\ Openable(c) /\ Cardinality(asides) < MaxAsides
  /\ open' = NoMaster
  /\ at' = c /\ aside' = Empty /\ moved' = {}
  /\ step' = "moveDb"
  /\ UNCHANGED <<disk, item, wrap, left, history>>

(* A copy without its database or its key file is refused, but the library *)
(* was closed first.                                                       *)
RefuseRestore(c) ==
  /\ Opened
  /\ ~Openable(c)
  /\ open' = NoMaster
  /\ UNCHANGED <<disk, step, job, history>>

Stay == UNCHANGED <<copies, young, asides, open, item, wrap, left, history>>

Abandon == step' = "putBack" /\ UNCHANGED <<live, sound, at, aside, moved>> /\ Stay

MoveDb ==
  /\ step = "moveDb"
  /\ \/ /\ aside' = WithDb(aside, live)
        /\ live' = WithDb(live, Empty) /\ sound' = TRUE
        /\ moved' = {"db"}
        /\ step' = "moveKey"
        /\ UNCHANGED at /\ Stay
     \/ "moveDb" \in Faults /\ Abandon

(* Mutant: the name is noted as moved before it is renamed. *)
MoveKeyNotedFirst ==
  /\ step = "moveKey"
  /\ moved' = moved \cup {"key"}
  /\ \/ /\ live.key # NoKey
        /\ aside' = [aside EXCEPT !.key = live.key]
        /\ live' = [live EXCEPT !.key = NoKey]
        /\ step' = "moveFiles"
     \/ "moveKey" \in Faults /\ step' = "putBack" /\ UNCHANGED <<live, aside>>
  /\ UNCHANGED <<sound, at>> /\ Stay

MoveKey ==
  /\ step = "moveKey"
  /\ \/ /\ live.key # NoKey
        /\ aside' = [aside EXCEPT !.key = live.key]
        /\ live' = [live EXCEPT !.key = NoKey]
        /\ moved' = moved \cup {"key"}
        /\ step' = "moveFiles"
        /\ UNCHANGED <<sound, at>> /\ Stay
     \/ "moveKey" \in Faults /\ Abandon

MoveFiles ==
  /\ step = "moveFiles"
  /\ \/ /\ aside' = [aside EXCEPT !.files = live.files]
        /\ live' = [live EXCEPT !.files = {}]
        /\ moved' = moved \cup {"files"}
     \/ "moveFiles" \in Faults /\ UNCHANGED <<live, aside, moved>>
  /\ step' = "copyDb"
  /\ UNCHANGED <<sound, at>> /\ Stay

CopyDb ==
  /\ step = "copyDb"
  /\ live' = [live EXCEPT !.db = TRUE] /\ sound' = FALSE
  /\ step' = "fillDb"
  /\ UNCHANGED <<at, aside, moved>> /\ Stay

FillDb ==
  /\ step = "fillDb"
  /\ live' = [live EXCEPT !.rows = copies[at].rows] /\ sound' = TRUE
  /\ step' = "copyKey"
  /\ UNCHANGED <<at, aside, moved>> /\ Stay

(* Mutant: only the database is copied back. *)
CopyKeySkipped ==
  /\ step = "copyKey"
  /\ step' = "linkBack"
  /\ UNCHANGED <<live, sound, at, aside, moved>> /\ Stay

CopyKey ==
  /\ step = "copyKey"
  /\ live' = [live EXCEPT !.key = Torn]
  /\ step' = "fillKey"
  /\ UNCHANGED <<sound, at, aside, moved>> /\ Stay

FillKey ==
  /\ step = "fillKey"
  /\ live' = [live EXCEPT !.key = copies[at].key]
  /\ step' = "linkBack"
  /\ UNCHANGED <<sound, at, aside, moved>> /\ Stay

(* A name already there is left alone.                                     *)
LinkBack ==
  /\ step = "linkBack"
  /\ \/ /\ \E i \in copies[at].files \ live.files : live' = [live EXCEPT !.files = @ \cup {i}]
        /\ UNCHANGED <<step, at, asides, aside, moved>>
     \/ /\ copies[at].files \subseteq live.files
        /\ asides' = asides \cup {aside} /\ aside' = Empty
        /\ moved' = {} /\ at' = 0
        /\ step' = "idle"
        /\ UNCHANGED live
  /\ UNCHANGED <<sound, copies, young, open, item, wrap, left, history>>

CopyBackFails == step \in Faults \cap CopyBackSteps /\ Abandon

(* put_back takes the names in the order they were moved.                  *)
NextName == IF "db" \in moved THEN "db" ELSE IF "key" \in moved THEN "key" ELSE "files"

(* Whatever lies at the name is removed first...                           *)
Drop ==
  /\ step = "putBack" /\ moved # {}
  /\ live' = CASE NextName = "db" -> WithDb(live, Empty)
               [] NextName = "key" -> [live EXCEPT !.key = NoKey]
               [] OTHER -> [live EXCEPT !.files = {}]
  /\ sound' = IF NextName = "db" THEN TRUE ELSE sound
  /\ step' = "return"
  /\ UNCHANGED <<at, aside, moved>> /\ Stay

(* ... and what was moved is renamed back; an error here is not looked at. *)
Return ==
  /\ step = "return"
  /\ \/ CASE NextName = "db" -> /\ live' = WithDb(live, aside)
                             /\ aside' = WithDb(aside, Empty)
          [] NextName = "key" -> /\ live' = [live EXCEPT !.key = aside.key]
                              /\ aside' = [aside EXCEPT !.key = NoKey]
          [] OTHER -> /\ live' = [live EXCEPT !.files = aside.files]
                      /\ aside' = [aside EXCEPT !.files = {}]
     \/ "return" \in Faults /\ UNCHANGED <<live, aside>>
  /\ moved' = moved \ {NextName}
  /\ step' = "putBack"
  /\ UNCHANGED <<sound, at>> /\ Stay

(* Mutant: the folder is removed before everything is back. *)
PutBackEndsEarly ==
  /\ step = "putBack"
  /\ aside' = Empty /\ at' = 0 /\ moved' = {}
  /\ step' = "idle"
  /\ UNCHANGED <<live, sound>> /\ Stay

(* The folder is removed, with whatever is still in it.                    *)
PutBackEnds ==
  /\ step = "putBack" /\ moved = {}
  /\ aside' = Empty /\ at' = 0
  /\ step' = "idle"
  /\ UNCHANGED <<live, sound, moved>> /\ Stay

-----------------------------------------------------------------------------
(* recovery::set_aside, on a closed library.  An error stops it where it   *)
(* is: what was moved stays moved.                                         *)

StartSetAside(why) ==
  /\ Closed /\ live.db /\ Cardinality(asides) < MaxAsides
  /\ \/ why = "setDamaged" /\ (KeyMissing \/ (live.key \in Wrapped /\ ~sound))
     \/ why = "setForgotten" /\ Locked
  /\ aside' = Empty
  /\ step' = why
  /\ UNCHANGED <<disk, open, at, item, wrap, left, moved, history>>

LeaveAside(place) ==
  /\ asides' = asides \cup {place} /\ aside' = Empty
  /\ step' = "idle"

SetAsideFails ==
  /\ step \in Faults \cap SetAsideSteps
  /\ LeaveAside(aside)
  /\ UNCHANGED <<live, sound, copies, young, open, at, item, wrap, left, moved, history>>

SetDb ==
  /\ step \in {"setDamaged", "setForgotten"}
  /\ aside' = WithDb(aside, live)
  /\ live' = WithDb(live, Empty) /\ sound' = TRUE
  /\ step' = IF step = "setForgotten" THEN "setKey" ELSE "setFiles"
  /\ UNCHANGED <<at, moved>> /\ Stay

(* Mutant: the key file is deleted, not moved. *)
SetKeyDeleted ==
  /\ step = "setKey"
  /\ live' = [live EXCEPT !.key = NoKey]
  /\ step' = "setFiles"
  /\ UNCHANGED <<sound, at, aside, moved>> /\ Stay

(* Only for a forgotten phrase: a damaged library leaves its key file.     *)
SetKey ==
  /\ step = "setKey"
  /\ aside' = [aside EXCEPT !.key = live.key]
  /\ live' = [live EXCEPT !.key = NoKey]
  /\ step' = "setFiles"
  /\ UNCHANGED <<sound, at, moved>> /\ Stay

(* Mutant: the attachments are left for the next library. *)
SetFilesLeft ==
  /\ step = "setFiles"
  /\ LeaveAside(aside)
  /\ UNCHANGED <<live, sound, copies, young, open, at, item, wrap, left, moved, history>>

SetFiles ==
  /\ step = "setFiles"
  /\ LeaveAside([aside EXCEPT !.files = live.files])
  /\ live' = [live EXCEPT !.files = {}]
  /\ UNCHANGED <<sound, copies, young, open, at, item, wrap, left, moved, history>>

-----------------------------------------------------------------------------
(* What happens to the process and to the disk.                            *)

(* The process ends in the middle of an operation: the disk stays as it    *)
(* is, and the next launch starts at the gate.                             *)
Crash ==
  /\ step \in Crashes
  /\ open' = NoMaster /\ step' = "idle"
  /\ asides' = IF step \in AsideSteps THEN asides \cup {aside} ELSE asides
  /\ aside' = Empty /\ moved' = {}
  /\ at' = 0 /\ item' = NoItem /\ wrap' = NoKey /\ left' = FALSE
  /\ UNCHANGED <<live, sound, copies, young, history>>

DayPasses ==
  /\ young /\ Idle
  /\ young' = FALSE
  /\ UNCHANGED <<live, sound, copies, asides, open, step, job, history>>

(* A closed database no longer passes quick_check.                         *)
Corrupt ==
  /\ Losses /\ Closed /\ live.db /\ sound
  /\ sound' = FALSE
  /\ UNCHANGED <<live, copies, young, asides, open, step, job, history>>

(* The key file is dropped, by a sync client or a copy made without it.    *)
LoseKey ==
  /\ Losses /\ Closed /\ Locked
  /\ live' = [live EXCEPT !.key = NoKey]
  /\ UNCHANGED <<sound, copies, young, asides, open, step, job, history>>

Rotation ==
  MakeCopy \/ Vacuum \/ CopyKeyOut \/ FillKeyOut \/ LinkOut \/ RotateFails \/ Prune
Sweep == PurgeExpired \/ SweepOrphans
Restore ==
  \/ MoveDb \/ MoveKey \/ MoveFiles
  \/ CopyDb \/ FillDb \/ CopyKey \/ FillKey \/ LinkBack \/ CopyBackFails
  \/ Drop \/ Return \/ PutBackEnds
SetAside == SetDb \/ SetKey \/ SetFiles \/ SetAsideFails

(* What the db thread does next in the operation it is in.                 *)
Proceed ==
  \/ Install \/ InstallFails
  \/ Rotation \/ Sweep \/ Record \/ Unlink \/ Rewrap \/ Restore \/ SetAside

(* What the user asks for.                                                 *)
Ask ==
  \/ \E m \in Masters, p \in Phrases : CreateKey(m, p)
  \/ Unlock \/ Close
  \/ \E i \in Items : WriteFile(i) \/ DeleteRow(i)
  \/ \E p \in Phrases : ChangePassphrase(p)
  \/ \E c \in DOMAIN copies : StartRestore(c) \/ RefuseRestore(c)
  \/ \E why \in {"setDamaged", "setForgotten"} : StartSetAside(why)

Next == Ask \/ Proceed \/ Crash \/ DayPasses \/ Corrupt \/ LoseKey

Spec == Init /\ [][Next]_vars
-----------------------------------------------------------------------------
(* What an operation of this module must keep, whatever strikes it.        *)

(* Everything outside the rolling copies, which rotate away.               *)
Stored == {live, aside} \cup asides
StoredRows == UNION {p.rows : p \in Stored}
StoredFiles == UNION {p.files : p \in Stored}
StoredKeys == {p.key.master : p \in {q \in Stored : q.key \in Wrapped}}

(* No note is lost: every record ever written and not purged since lies in *)
(* a database outside backups/, whatever was restored, set aside or        *)
(* interrupted in between ("moved aside, never deleted").                  *)
RowsKept == kept \ purged \subseteq StoredRows

(* No key is lost: every library key ever wrapped is still wrapped by a    *)
(* key file outside backups/, so that what it sealed can be opened.        *)
KeysKept == Losses \/ made \subseteq StoredKeys

(* No attachment is lost: the file of every record not purged since is in  *)
(* an attachments/ outside backups/.                                       *)
FilesKept == kept \ purged \subseteq StoredFiles

(* What the live library was before the restore under way: a name that was *)
(* moved is in the folder, the others are where they were.                 *)
Before ==
  [db |-> IF "db" \in moved THEN aside.db ELSE live.db,
   rows |-> IF "db" \in moved THEN aside.rows ELSE live.rows,
   key |-> IF "key" \in moved THEN aside.key ELSE live.key]

(* A restore that fails, wherever it fails, ends on the library it began   *)
(* with: no step of it, and no step of put_back, loses a name it moved.    *)
PutBackRestores ==
  [][({step, step'} \subseteq RestoreSteps) => Before' = Before]_vars

(* A restore that ends, one way or the other, leaves a database and a key  *)
(* file: "a failed restore must never leave no library at all".            *)
RestoreLeavesALibrary ==
  (step = "putBack" /\ moved = {}) \/ step = "linkBack" => live.db /\ live.key # NoKey

(* The copies but the one a rotation is making.                            *)
Settled == IF step \in RotateSteps \ {"mkdir", "prune"} THEN Tail(copies) ELSE copies
SomeWholeCopy == \E c \in DOMAIN Settled : Settled[c].db /\ Settled[c].key \in Wrapped

(* Once there is a copy with its database and a wrapped key, there always  *)
(* is one: neither a rotation that fails or is cut short nor its pruning   *)
(* takes the last.                                                         *)
ACopyRemains == [][SomeWholeCopy => SomeWholeCopy']_vars

(* When a change of passphrase has reported no copy left behind, no key    *)
(* file of the library or of its copies answers to another phrase.         *)
ChangeRetiresEveryPhrase ==
  [][step = "rewrap" /\ step' = "idle" /\ open' # NoMaster /\ ~left =>
       \A k \in {live'.key} \cup {copies'[c].key : c \in DOMAIN copies'} :
         k = NoKey \/ (k \in Wrapped /\ k.phrase = wrap.phrase)]_vars

(* A copy the list calls openable opens: its key file wraps the key its    *)
(* records were sealed under.                                              *)
OpenableCopiesOpen ==
  \A c \in DOMAIN copies :
    copies[c].db /\ copies[c].key \in Wrapped =>
      \A i \in copies[c].rows : seal[i] = copies[c].key.master

(* What the ledger holds: the records a database outside backups/ has and  *)
(* a key file outside backups/ opens.                                      *)
Held == {i \in kept \ purged : i \in StoredRows /\ seal[i] \in StoredKeys}
Ledger == INSTANCE NotesLedger WITH held <- Held

(* The files implement the ledger: restores, set-asides, rotations and     *)
(* their interruptions are invisible to it.                                *)
LedgerKept == Ledger!Spec
=============================================================================
