----------------------------- MODULE NotesLedger -----------------------------
(***************************************************************************)
(* What a library promises about the records entrusted to it, whatever its *)
(* files go through: one is held from the moment it is recorded until it   *)
(* is purged, and nothing else ever takes one away.                        *)
(***************************************************************************)
CONSTANT Items

VARIABLES
  held,    \* recorded, and readable in some database outside backups/
  purged   \* deleted for good

vars == <<held, purged>>

Init == held = {} /\ purged = {}

(* A record is new: its id was never used.                                 *)
Record(i) ==
  /\ i \notin held \cup purged
  /\ held' = held \cup {i}
  /\ UNCHANGED purged

Purge(gone) ==
  /\ held' = held \ gone
  /\ purged' = purged \cup gone

Next == (\E i \in Items : Record(i)) \/ (\E gone \in SUBSET Items : Purge(gone))

Spec == Init /\ [][Next]_vars
=============================================================================
