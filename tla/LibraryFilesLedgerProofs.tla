---------------------- MODULE LibraryFilesLedgerProofs ----------------------
(* The theorem that LibraryFiles implements NotesLedger, for every set of  *)
(* items, keys and phrases and every choice of the steps at which the      *)
(* process may end; it stands on the theorems of LibraryFilesProofs.       *)
EXTENDS LibraryFilesProofs

(* The files implement the ledger.                                         *)

KnownKey(p) == p.key \in Wrapped => p.key.master \in made

(* Every key in use, on disk or being written is one that was drawn.       *)
KeysKnown ==
  /\ KnownKey(live) /\ KnownKey(aside)
  /\ \A c \in DOMAIN copies : KnownKey(copies[c])
  /\ wrap \in Wrapped => wrap.master \in made
  /\ open # NoMaster => open \in made
  /\ step \in RotateSteps \cup SweepSteps => open # NoMaster

(* What was recorded or purged was sealed under such a key, and so was     *)
(* what is about to be recorded, which is new.                             *)
Sealed ==
  /\ \A i \in kept \cup purged : seal[i] \in made
  /\ step = "record" =>
       \E i \in Items : item = {i} /\ i \notin kept \cup purged /\ seal[i] \in made

KnownInv == TypeInv /\ KeysKnown /\ Sealed

(* At the start there is no key to know.                                    *)
LEMMA KnownInit == Init => KnownInv
  <1> SUFFICES ASSUME Init PROVE KnownInv
    OBVIOUS
  <1>1. TypeInv
    BY TypeInit
  <1>2. KeysKnown
    BY SentinelAssumption DEF Init, KeysKnown, KnownKey, Empty, RotateSteps, SweepSteps
  <1>3. Sealed
    BY DEF Init, Sealed
  <1> QED BY <1>1, <1>2, <1>3 DEF KnownInv

(* No step puts a key on disk, or in use, that was never drawn.            *)
LEMMA KnownNext == KnownInv /\ [Next]_vars => KnownInv'
  <1> SUFFICES ASSUME KnownInv, [Next]_vars PROVE KnownInv'
    OBVIOUS
  <1> USE DEF Steps, RotateSteps, SweepSteps, MoveSteps, CopyBackSteps, PutBackSteps,
              RestoreSteps, SetAsideSteps, AsideSteps
  <1> USE DEF job, history, disk, Stay, Idle, Closed, Opened
  <1>t. TypeInv /\ TypeInv'
    BY TypeNext DEF KnownInv
  <1>i. KeysKnown /\ Sealed
    BY DEF KnownInv
  <1>0. /\ live \in Place /\ aside \in Place /\ copies \in Seq(Place)
        /\ Len(copies) \in Nat /\ DOMAIN copies = 1 .. Len(copies)
        /\ \A c \in DOMAIN copies : copies[c] \in Place
        /\ made \subseteq Masters /\ NoMaster \notin made
        /\ step = "install" => live.key \in Wrapped
        /\ step \in RotateSteps \ {"mkdir", "prune"} => 1 \in DOMAIN copies
        /\ step \in {"prune", "rewrap"} /\ at <= Len(copies) => at \in DOMAIN copies
        /\ step \in MoveSteps \cup CopyBackSteps => at \in DOMAIN copies
    <2>1. Len(copies) \in Nat /\ DOMAIN copies = 1 .. Len(copies)
          /\ \A c \in DOMAIN copies : copies[c] \in Place
      BY <1>t, LenProperties, ElementOfSeq DEF TypeInv, TypeOK
    <2> QED BY <1>t, <2>1, SentinelAssumption DEF TypeInv, TypeOK, Position
  <1>e. /\ KnownKey(Empty) /\ Empty \in Place
        /\ \A p \in Place : p.key \in {NoKey, Torn} => KnownKey(p)
        /\ \A p \in Place : p.key \in {NoKey, Torn} => (KnownKey(p))'
        /\ NoKey \notin Wrapped /\ Torn \notin Wrapped
    BY SentinelAssumption, EmptyIsAPlace DEF KnownKey, Empty
  <1>s. seal \in [Items -> Masters \cup {NoMaster}]
        /\ kept \subseteq Items /\ purged \subseteq Items /\ live.rows \subseteq Items
    BY <1>t, PlaceEdits DEF TypeInv, TypeOK
  <1>1. CASE \E m \in Masters, p \in Phrases : CreateKey(m, p)
    <2>1. PICK m \in Masters, p \in Phrases : CreateKey(m, p)
      BY <1>0, <1>e, <1>i, <1>1
    <2>2. live'.key = [master |-> m, phrase |-> p]
      BY <1>0, <1>e, <1>i, <1>1, <2>1 DEF CreateKey, Place
    <2>3. KeysKnown'
      BY <1>0, <1>e, <1>i, <1>1, <2>1, <2>2 DEF CreateKey, KeysKnown, KnownKey
    <2>4. Sealed'
      BY <1>0, <1>e, <1>i, <1>s, <1>1, <2>1, <2>2 DEF CreateKey, Sealed
    <2> QED BY <1>t, <2>3, <2>4 DEF KnownInv
  <1>2. CASE Install \/ Unlock
    <2>1. live'.key = live.key
      BY <1>0, <1>e, <1>i, <1>2 DEF Install, Unlock, Hold, Place, WithDb
    <2>2. KeysKnown'
      BY <1>0, <1>e, <1>i, <1>2, <2>1 DEF Install, Unlock, Hold, KeysKnown, KnownKey
    <2>3. Sealed'
      BY <1>0, <1>e, <1>i, <1>s, <1>2, <2>1 DEF Install, Unlock, Hold, Sealed
    <2> QED BY <1>t, <2>2, <2>3 DEF KnownInv
  <1>3. CASE Close \/ InstallFails
    <2>1. KeysKnown'
      BY <1>0, <1>e, <1>i, <1>3 DEF Close, InstallFails, KeysKnown, KnownKey
    <2>2. Sealed'
      BY <1>0, <1>e, <1>i, <1>s, <1>3 DEF Close, InstallFails, Sealed
    <2> QED BY <1>t, <2>1, <2>2 DEF KnownInv
  <1>4. CASE MakeCopy
    <2>1. \A c \in DOMAIN copies' :
            copies'[c] = Empty \/ \E d \in DOMAIN copies : copies'[c] = copies[d]
      BY <1>0, <1>e, <1>i, <1>4, ConcatProperties, LenProperties, EmptySeq DEF MakeCopy
    <2>2. KeysKnown'
      BY <1>0, <1>e, <1>i, <1>4, <2>1 DEF MakeCopy, KeysKnown, KnownKey
    <2>3. Sealed'
      BY <1>0, <1>e, <1>i, <1>s, <1>4, <2>1 DEF MakeCopy, Sealed
    <2> QED BY <1>t, <2>2, <2>3 DEF KnownInv
  <1>5. CASE Vacuum
    <2>1. /\ DOMAIN copies' = DOMAIN copies
          /\ \A c \in DOMAIN copies : copies'[c].key \in {copies[c].key, NoKey}
      BY <1>0, <1>e, <1>i, <1>5 DEF Vacuum, Place, WithDb
    <2>2. KeysKnown'
      BY <1>0, <1>e, <1>i, <1>5, <2>1 DEF Vacuum, KeysKnown, KnownKey
    <2>3. Sealed'
      BY <1>0, <1>e, <1>i, <1>s, <1>5, <2>1 DEF Vacuum, Sealed
    <2> QED BY <1>t, <2>2, <2>3 DEF KnownInv
  <1>6. CASE CopyKeyOut
    <2>1. /\ DOMAIN copies' = DOMAIN copies
          /\ \A c \in DOMAIN copies : copies'[c].key \in {copies[c].key, Torn}
      BY <1>0, <1>e, <1>i, <1>6 DEF CopyKeyOut, Place, WithDb
    <2>2. KeysKnown'
      BY <1>0, <1>e, <1>i, <1>6, <2>1 DEF CopyKeyOut, KeysKnown, KnownKey
    <2>3. Sealed'
      BY <1>0, <1>e, <1>i, <1>s, <1>6, <2>1 DEF CopyKeyOut, Sealed
    <2> QED BY <1>t, <2>2, <2>3 DEF KnownInv
  <1>7. CASE FillKeyOut
    <2>1. /\ DOMAIN copies' = DOMAIN copies
          /\ \A c \in DOMAIN copies : copies'[c].key \in {copies[c].key, live.key}
      BY <1>0, <1>e, <1>i, <1>7 DEF FillKeyOut, Place, WithDb
    <2>2. KeysKnown'
      BY <1>0, <1>e, <1>i, <1>7, <2>1 DEF FillKeyOut, KeysKnown, KnownKey
    <2>3. Sealed'
      BY <1>0, <1>e, <1>i, <1>s, <1>7, <2>1 DEF FillKeyOut, Sealed
    <2> QED BY <1>t, <2>2, <2>3 DEF KnownInv
  <1>8. CASE LinkOut
    <2>1. /\ DOMAIN copies' = DOMAIN copies
          /\ \A c \in DOMAIN copies : copies'[c].key \in {copies[c].key, NoKey}
      BY <1>0, <1>e, <1>i, <1>8 DEF LinkOut, Place, WithDb
    <2>2. KeysKnown'
      BY <1>0, <1>e, <1>i, <1>8, <2>1 DEF LinkOut, KeysKnown, KnownKey
    <2>3. Sealed'
      BY <1>0, <1>e, <1>i, <1>s, <1>8, <2>1 DEF LinkOut, Sealed
    <2> QED BY <1>t, <2>2, <2>3 DEF KnownInv
  <1>9. CASE RotateFails
    <2>1. step # "mkdir" =>
            \A c \in DOMAIN Tail(copies) : \E d \in DOMAIN copies : Tail(copies)[c] = copies[d]
      BY <1>0, <1>9, HeadTailProperties, LenProperties DEF RotateFails
    <2>2. ASSUME NEW p \in Remains(copies[1]), step # "mkdir", copies' = [copies EXCEPT ![1] = p]
          PROVE  \A c \in DOMAIN copies' : /\ c \in DOMAIN copies
                                          /\ copies'[c].key \in {copies[c].key, NoKey}
      <3>1. p.key \in {copies[1].key, NoKey}
        BY DEF Remains
      <3>2. 1 \in DOMAIN copies
        BY <1>0, <1>9, <2>2 DEF RotateFails
      <3> QED BY <1>0, <2>2, <3>1, <3>2
    <2>3. \A c \in DOMAIN copies' :
            \E d \in DOMAIN copies : copies'[c].key \in {copies[d].key, NoKey}
      BY <1>9, <2>1, <2>2 DEF RotateFails
    <2>4. KeysKnown'
      BY <1>0, <1>e, <1>i, <1>9, <2>3 DEF RotateFails, KeysKnown, KnownKey
    <2>5. Sealed'
      BY <1>i, <1>9 DEF RotateFails, Sealed
    <2> QED BY <1>t, <2>4, <2>5 DEF KnownInv
  <1>10. CASE Prune
    <2>1. at <= Len(copies) => at \in 1 .. Len(copies)
      BY <1>0, <1>10 DEF Prune
    <2>2. ASSUME at <= Len(copies)
          PROVE  \A c \in DOMAIN Without(copies, at) :
                   \E d \in DOMAIN copies : Without(copies, at)[c] = copies[d]
      <3>1. copies \in Seq(Place) /\ at \in 1 .. Len(copies)
        BY <1>0, <2>1, <2>2
      <3> QED BY <3>1, WithoutIsASequence
    <2>3. ASSUME NEW p \in Remains(copies[at]), at <= Len(copies),
                 copies' = [copies EXCEPT ![at] = p]
          PROVE  \A c \in DOMAIN copies' : /\ c \in DOMAIN copies
                                          /\ copies'[c].key \in {copies[c].key, NoKey}
      <3>1. p.key \in {copies[at].key, NoKey}
        BY DEF Remains
      <3> QED BY <1>0, <2>3, <3>1
    <2>4. \A c \in DOMAIN copies' :
            \E d \in DOMAIN copies : copies'[c].key \in {copies[d].key, NoKey}
      BY <1>10, <2>2, <2>3 DEF Prune
    <2>5. KeysKnown'
      BY <1>0, <1>e, <1>i, <1>10, <2>4 DEF Prune, KeysKnown, KnownKey
    <2>6. Sealed'
      BY <1>i, <1>10 DEF Prune, Sealed
    <2> QED BY <1>t, <2>5, <2>6 DEF KnownInv
  <1>11. CASE PurgeExpired
    <2>1. live'.key = live.key
      BY <1>0, <1>e, <1>i, <1>11 DEF PurgeExpired, Place, WithDb
    <2>2. /\ \A i \in purged' \ purged : seal[i] = open
          /\ open \in made /\ step' # "record" /\ UNCHANGED <<kept, made, seal>>
      BY <1>0, <1>e, <1>i, <1>11 DEF PurgeExpired, KeysKnown
    <2>3. \A i \in kept' \cup purged' : seal'[i] \in made'
      BY <1>0, <1>e, <1>i, <1>11, <2>2 DEF Sealed
    <2>4. KeysKnown'
      BY <1>0, <1>e, <1>i, <1>11, <2>1, <2>2, <2>3 DEF PurgeExpired, KeysKnown, KnownKey
    <2>5. Sealed'
      BY <1>0, <1>e, <1>i, <1>s, <1>11, <2>1, <2>2, <2>3 DEF Sealed
    <2> QED BY <1>t, <2>4, <2>5 DEF KnownInv
  <1>12. CASE SweepOrphans
    <2>1. live'.key = live.key
      BY <1>0, <1>e, <1>i, <1>12 DEF SweepOrphans, Place, WithDb
    <2>2. KeysKnown'
      BY <1>0, <1>e, <1>i, <1>12, <2>1 DEF SweepOrphans, KeysKnown, KnownKey
    <2>3. Sealed'
      BY <1>0, <1>e, <1>i, <1>s, <1>12, <2>1 DEF SweepOrphans, Sealed
    <2> QED BY <1>t, <2>2, <2>3 DEF KnownInv
  <1>13. CASE \E i \in Items : WriteFile(i)
    <2>1. PICK i \in Items : WriteFile(i)
      BY <1>0, <1>e, <1>i, <1>13
    <2>2. live'.key = live.key
      BY <1>0, <1>e, <1>i, <1>13, <2>1 DEF WriteFile, Place, WithDb
    <2>3. i \notin kept \cup purged /\ open \in made /\ UNCHANGED <<kept, purged, made>>
      BY <1>0, <1>e, <1>i, <1>13, <2>1 DEF WriteFile, KeysKnown, Sealed
    <2>4. \A j \in Items : seal'[j] = IF j = i THEN open ELSE seal[j]
      BY <1>0, <1>e, <1>i, <1>13, <1>s, <2>1 DEF WriteFile
    <2>5. item' = {i} /\ seal'[i] \in made'
      BY <1>0, <1>e, <1>i, <1>13, <2>1, <2>3, <2>4 DEF WriteFile
    <2>6. KeysKnown'
      BY <1>0, <1>e, <1>i, <1>13, <2>1, <2>2, <2>3, <2>4, <2>5
        DEF WriteFile, KeysKnown, KnownKey
    <2>7. Sealed'
      BY <1>0, <1>e, <1>i, <1>s, <1>13, <2>1, <2>2, <2>3, <2>4, <2>5 DEF Sealed
    <2> QED BY <1>t, <2>6, <2>7 DEF KnownInv
  <1>14. CASE \E i \in Items : DeleteRow(i)
    <2>1. PICK i \in Items : DeleteRow(i)
      BY <1>0, <1>e, <1>i, <1>14
    <2>2. live'.key = live.key
      BY <1>0, <1>e, <1>i, <1>14, <2>1 DEF DeleteRow, Place, WithDb
    <2>3. /\ purged' = purged \cup {i} /\ seal[i] \in made
          /\ step' # "record" /\ UNCHANGED <<kept, made, seal>>
      BY <1>0, <1>e, <1>i, <1>14, <2>1 DEF DeleteRow, KeysKnown
    <2>4. KeysKnown'
      BY <1>0, <1>e, <1>i, <1>14, <2>1, <2>2, <2>3 DEF DeleteRow, KeysKnown, KnownKey
    <2>5. Sealed'
      BY <1>0, <1>e, <1>i, <1>s, <1>14, <2>1, <2>2, <2>3 DEF Sealed
    <2> QED BY <1>t, <2>4, <2>5 DEF KnownInv
  <1>15. CASE Record
    <2>1. live'.key = live.key
      BY <1>0, <1>e, <1>i, <1>15 DEF Record, Place, WithDb
    <2>2. KeysKnown'
      BY <1>0, <1>e, <1>i, <1>15, <2>1 DEF Record, NoItem, KeysKnown, KnownKey
    <2>3. Sealed'
      BY <1>0, <1>e, <1>i, <1>s, <1>15, <2>1 DEF Record, NoItem, Sealed
    <2> QED BY <1>t, <2>2, <2>3 DEF KnownInv
  <1>16. CASE Unlink
    <2>1. live'.key = live.key
      BY <1>0, <1>e, <1>i, <1>16 DEF Unlink, Place, WithDb
    <2>2. KeysKnown'
      BY <1>0, <1>e, <1>i, <1>16, <2>1 DEF Unlink, NoItem, KeysKnown, KnownKey
    <2>3. Sealed'
      BY <1>0, <1>e, <1>i, <1>s, <1>16, <2>1 DEF Unlink, NoItem, Sealed
    <2> QED BY <1>t, <2>2, <2>3 DEF KnownInv
  <1>17. CASE \E p \in Phrases : ChangePassphrase(p)
    <2>1. PICK p \in Phrases : ChangePassphrase(p)
      BY <1>0, <1>e, <1>i, <1>17
    <2>2. live.key \in Wrapped /\ live'.key = wrap' /\ wrap'.master = live.key.master
      BY <1>0, <1>e, <1>i, <1>17, <2>1 DEF ChangePassphrase, Place, Wrapped
    <2>3. KeysKnown'
      BY <1>0, <1>e, <1>i, <1>17, <2>1, <2>2 DEF ChangePassphrase, KeysKnown, KnownKey
    <2>4. Sealed'
      BY <1>0, <1>e, <1>i, <1>s, <1>17, <2>1, <2>2 DEF ChangePassphrase, Sealed
    <2> QED BY <1>t, <2>3, <2>4 DEF KnownInv
  <1>18. CASE Rewrap
    <2>1. \A p \in Place : Rewrapped(p).key \in {p.key, wrap}
      BY <1>0, <1>e, <1>i, <1>18 DEF Rewrapped, Place
    <2>2. /\ DOMAIN copies' = DOMAIN copies
          /\ \A c \in DOMAIN copies : copies'[c].key \in {copies[c].key, wrap}
      BY <1>0, <1>e, <1>i, <1>18, <2>1 DEF Rewrap
    <2>3. KeysKnown'
      BY <1>0, <1>e, <1>i, <1>18, <2>1, <2>2 DEF Rewrap, KeysKnown, KnownKey
    <2>4. Sealed'
      BY <1>0, <1>e, <1>i, <1>s, <1>18, <2>1, <2>2 DEF Rewrap, Sealed
    <2> QED BY <1>t, <2>3, <2>4 DEF KnownInv
  <1>19. CASE \E c \in DOMAIN copies : StartRestore(c) \/ RefuseRestore(c)
    <2>1. KeysKnown'
      BY <1>0, <1>e, <1>i, <1>19 DEF StartRestore, RefuseRestore, KeysKnown, KnownKey
    <2>2. Sealed'
      BY <1>0, <1>e, <1>i, <1>s, <1>19 DEF StartRestore, RefuseRestore, Sealed
    <2> QED BY <1>t, <2>1, <2>2 DEF KnownInv
  <1>20. CASE MoveDb \/ CopyDb \/ FillDb \/ LinkBack
    <2>1. live'.key = live.key /\ aside'.key \in {aside.key, NoKey}
      BY <1>0, <1>e, <1>i, <1>20
        DEF MoveDb, CopyDb, FillDb, LinkBack, Abandon, Empty, Place, WithDb
    <2>2. KeysKnown'
      BY <1>0, <1>e, <1>i, <1>20, <2>1
        DEF MoveDb, CopyDb, FillDb, LinkBack, Abandon, KeysKnown, KnownKey
    <2>3. Sealed'
      BY <1>0, <1>e, <1>i, <1>s, <1>20, <2>1
        DEF MoveDb, CopyDb, FillDb, LinkBack, Abandon, Sealed
    <2> QED BY <1>t, <2>2, <2>3 DEF KnownInv
  <1>21. CASE MoveKey
    <2>1. live'.key \in {live.key, NoKey} /\ aside'.key \in {aside.key, live.key}
      BY <1>0, <1>e, <1>i, <1>21 DEF MoveKey, Abandon, Empty, Place, WithDb
    <2>2. KeysKnown'
      BY <1>0, <1>e, <1>i, <1>21, <2>1 DEF MoveKey, Abandon, KeysKnown, KnownKey
    <2>3. Sealed'
      BY <1>0, <1>e, <1>i, <1>s, <1>21, <2>1 DEF MoveKey, Abandon, Sealed
    <2> QED BY <1>t, <2>2, <2>3 DEF KnownInv
  <1>22. CASE MoveFiles
    <2>1. live'.key = live.key /\ aside'.key = aside.key
      BY <1>0, <1>e, <1>i, <1>22 DEF MoveFiles, Empty, Place, WithDb
    <2>2. KeysKnown'
      BY <1>0, <1>e, <1>i, <1>22, <2>1 DEF MoveFiles, KeysKnown, KnownKey
    <2>3. Sealed'
      BY <1>0, <1>e, <1>i, <1>s, <1>22, <2>1 DEF MoveFiles, Sealed
    <2> QED BY <1>t, <2>2, <2>3 DEF KnownInv
  <1>23. CASE CopyKey
    <2>1. live'.key = Torn
      BY <1>0, <1>e, <1>i, <1>23 DEF CopyKey, Empty, Place, WithDb
    <2>2. KeysKnown'
      BY <1>0, <1>e, <1>i, <1>23, <2>1 DEF CopyKey, KeysKnown, KnownKey
    <2>3. Sealed'
      BY <1>0, <1>e, <1>i, <1>s, <1>23, <2>1 DEF CopyKey, Sealed
    <2> QED BY <1>t, <2>2, <2>3 DEF KnownInv
  <1>24. CASE FillKey
    <2>1. live'.key = copies[at].key
      BY <1>0, <1>e, <1>i, <1>24 DEF FillKey, Empty, Place, WithDb
    <2>2. KeysKnown'
      BY <1>0, <1>e, <1>i, <1>24, <2>1 DEF FillKey, KeysKnown, KnownKey
    <2>3. Sealed'
      BY <1>0, <1>e, <1>i, <1>s, <1>24, <2>1 DEF FillKey, Sealed
    <2> QED BY <1>t, <2>2, <2>3 DEF KnownInv
  <1>25. CASE CopyBackFails
    <2>1. KeysKnown'
      BY <1>0, <1>e, <1>i, <1>25 DEF CopyBackFails, Abandon, KeysKnown, KnownKey
    <2>2. Sealed'
      BY <1>0, <1>e, <1>i, <1>s, <1>25 DEF CopyBackFails, Abandon, Sealed
    <2> QED BY <1>t, <2>1, <2>2 DEF KnownInv
  <1>26. CASE Drop
    <2>1. live'.key \in {live.key, NoKey}
      BY <1>0, <1>e, <1>i, <1>26 DEF Drop, Empty, Place, WithDb
    <2>2. KeysKnown'
      BY <1>0, <1>e, <1>i, <1>26, <2>1 DEF Drop, KeysKnown, KnownKey
    <2>3. Sealed'
      BY <1>0, <1>e, <1>i, <1>s, <1>26, <2>1 DEF Drop, Sealed
    <2> QED BY <1>t, <2>2, <2>3 DEF KnownInv
  <1>27. CASE Return
    <2>1. live'.key \in {live.key, aside.key} /\ aside'.key \in {aside.key, NoKey}
      BY <1>0, <1>e, <1>i, <1>27 DEF Return, Empty, Place, WithDb
    <2>2. KeysKnown'
      BY <1>0, <1>e, <1>i, <1>27, <2>1 DEF Return, KeysKnown, KnownKey
    <2>3. Sealed'
      BY <1>0, <1>e, <1>i, <1>s, <1>27, <2>1 DEF Return, Sealed
    <2> QED BY <1>t, <2>2, <2>3 DEF KnownInv
  <1>28. CASE PutBackEnds
    <2>1. KeysKnown'
      BY <1>0, <1>e, <1>i, <1>28 DEF PutBackEnds, KeysKnown, KnownKey
    <2>2. Sealed'
      BY <1>0, <1>e, <1>i, <1>s, <1>28 DEF PutBackEnds, Sealed
    <2> QED BY <1>t, <2>1, <2>2 DEF KnownInv
  <1>29. CASE \E why \in {"setDamaged", "setForgotten"} : StartSetAside(why)
    <2>1. KeysKnown'
      BY <1>0, <1>e, <1>i, <1>29 DEF StartSetAside, KeysKnown, KnownKey
    <2>2. Sealed'
      BY <1>0, <1>e, <1>i, <1>s, <1>29 DEF StartSetAside, Sealed
    <2> QED BY <1>t, <2>1, <2>2 DEF KnownInv
  <1>30. CASE SetAsideFails
    <2>1. KeysKnown'
      BY <1>0, <1>e, <1>i, <1>30 DEF SetAsideFails, LeaveAside, KeysKnown, KnownKey
    <2>2. Sealed'
      BY <1>0, <1>e, <1>i, <1>s, <1>30 DEF SetAsideFails, LeaveAside, Sealed
    <2> QED BY <1>t, <2>1, <2>2 DEF KnownInv
  <1>31. CASE SetDb
    <2>1. live'.key = live.key /\ aside'.key = aside.key
      BY <1>0, <1>e, <1>i, <1>31 DEF SetDb, Empty, Place, WithDb
    <2>2. KeysKnown'
      BY <1>0, <1>e, <1>i, <1>31, <2>1 DEF SetDb, KeysKnown, KnownKey
    <2>3. Sealed'
      BY <1>0, <1>e, <1>i, <1>s, <1>31, <2>1 DEF SetDb, Sealed
    <2> QED BY <1>t, <2>2, <2>3 DEF KnownInv
  <1>32. CASE SetKey
    <2>1. live'.key = NoKey /\ aside'.key = live.key
      BY <1>0, <1>e, <1>i, <1>32 DEF SetKey, Empty, Place, WithDb
    <2>2. KeysKnown'
      BY <1>0, <1>e, <1>i, <1>32, <2>1 DEF SetKey, KeysKnown, KnownKey
    <2>3. Sealed'
      BY <1>0, <1>e, <1>i, <1>s, <1>32, <2>1 DEF SetKey, Sealed
    <2> QED BY <1>t, <2>2, <2>3 DEF KnownInv
  <1>33. CASE SetFiles
    <2>1. live'.key = live.key
      BY <1>0, <1>e, <1>i, <1>33 DEF SetFiles, LeaveAside, Empty, Place, WithDb
    <2>2. KeysKnown'
      BY <1>0, <1>e, <1>i, <1>33, <2>1 DEF SetFiles, LeaveAside, KeysKnown, KnownKey
    <2>3. Sealed'
      BY <1>0, <1>e, <1>i, <1>s, <1>33, <2>1 DEF SetFiles, LeaveAside, Sealed
    <2> QED BY <1>t, <2>2, <2>3 DEF KnownInv
  <1>34. CASE Crash
    <2>1. KeysKnown'
      BY <1>0, <1>e, <1>i, <1>34 DEF Crash, NoItem, KeysKnown, KnownKey
    <2>2. Sealed'
      BY <1>0, <1>e, <1>i, <1>s, <1>34 DEF Crash, NoItem, Sealed
    <2> QED BY <1>t, <2>1, <2>2 DEF KnownInv
  <1>35. CASE DayPasses \/ Corrupt
    <2>1. KeysKnown'
      BY <1>0, <1>e, <1>i, <1>35 DEF DayPasses, Corrupt, KeysKnown, KnownKey
    <2>2. Sealed'
      BY <1>0, <1>e, <1>i, <1>s, <1>35 DEF DayPasses, Corrupt, Sealed
    <2> QED BY <1>t, <2>1, <2>2 DEF KnownInv
  <1>36. CASE LoseKey
    <2>1. live'.key = NoKey
      BY <1>0, <1>e, <1>i, <1>36 DEF LoseKey, Empty, Place, WithDb
    <2>2. KeysKnown'
      BY <1>0, <1>e, <1>i, <1>36, <2>1 DEF LoseKey, KeysKnown, KnownKey
    <2>3. Sealed'
      BY <1>0, <1>e, <1>i, <1>s, <1>36, <2>1 DEF LoseKey, Sealed
    <2> QED BY <1>t, <2>2, <2>3 DEF KnownInv
  <1>37. CASE UNCHANGED vars
    <2>1. KeysKnown'
      BY <1>0, <1>e, <1>i, <1>37 DEF vars, KeysKnown, KnownKey
    <2>2. Sealed'
      BY <1>0, <1>e, <1>i, <1>s, <1>37 DEF vars, Sealed
    <2> QED BY <1>t, <2>1, <2>2 DEF KnownInv
  <1> QED
    BY <1>1, <1>2, <1>3, <1>4, <1>5, <1>6, <1>7, <1>8, <1>9, <1>10, <1>11, <1>12,
        <1>13, <1>14, <1>15, <1>16, <1>17, <1>18, <1>19, <1>20, <1>21, <1>22, <1>23,
            <1>24, <1>25, <1>26, <1>27, <1>28, <1>29, <1>30, <1>31, <1>32, <1>33,
                <1>34, <1>35, <1>36, <1>37
    DEF Next, Ask, Proceed, Rotation, Sweep, Restore, SetAside

(* Where nothing is lost, what the ledger holds is what was recorded and   *)
(* not purged since.                                                       *)
LEMMA HeldIsKept ==
  ASSUME ~Losses
  PROVE  SafeInv /\ KnownInv => Held = kept \ purged
  <1> SUFFICES ASSUME SafeInv, KnownInv PROVE Held = kept \ purged
    OBVIOUS
  <1>1. kept \ purged \subseteq StoredRows /\ made \subseteq StoredKeys
    BY SafeKeeps DEF RowsKept, KeysKept
  <1>2. \A i \in kept : seal[i] \in made
    BY DEF KnownInv, Sealed
  <1> QED BY <1>1, <1>2 DEF Held

(* What a step may do to what was recorded and purged: record one new      *)
(* item, purge some, or neither.                                           *)
LEMMA LedgerSteps ==
  ASSUME KnownInv, [Next]_vars
  PROVE  \/ \E i \in Items \ (kept \cup purged) : kept' = kept \cup {i} /\ purged' = purged
         \/ \E gone \in SUBSET Items : kept' = kept /\ purged' = purged \cup gone
         \/ UNCHANGED <<kept, purged>>
  <1> USE DEF history
  <1>0. live.rows \subseteq Items
    BY PlaceEdits DEF KnownInv, TypeInv, TypeOK
  <1>1. CASE Record
    BY <1>1 DEF Record, KnownInv, Sealed
  <1>2. CASE PurgeExpired
    BY <1>0, <1>2 DEF PurgeExpired
  <1>3. CASE \E i \in Items : DeleteRow(i)
    BY <1>3 DEF DeleteRow
  <1>4. CASE Next /\ ~Record /\ ~PurgeExpired /\ ~\E i \in Items : DeleteRow(i)
    <2>1. Ask => UNCHANGED <<kept, purged>>
      BY <1>4 DEF Ask, CreateKey, Unlock, Hold, Close, WriteFile, ChangePassphrase,
          StartRestore,
         RefuseRestore, StartSetAside
    <2>2. Proceed => UNCHANGED <<kept, purged>>
      BY <1>4 DEF Proceed, Install, InstallFails, Hold, Rotation, MakeCopy, Vacuum, CopyKeyOut,
          FillKeyOut, LinkOut,
         RotateFails, Prune, Sweep, SweepOrphans, Unlink, Rewrap, Restore, Stay,
         Abandon, MoveDb, MoveKey,
         MoveFiles, CopyDb, FillDb, CopyKey, FillKey, LinkBack, CopyBackFails, Drop,
         Return, PutBackEnds,
         SetAside, SetDb, SetKey, SetFiles, SetAsideFails
    <2>3. Crash \/ DayPasses \/ Corrupt \/ LoseKey => UNCHANGED <<kept, purged>>
      BY DEF Crash, DayPasses, Corrupt, LoseKey
    <2> QED BY <1>4, <2>1, <2>2, <2>3 DEF Next
  <1>5. CASE UNCHANGED vars
    BY <1>5 DEF vars
  <1> QED BY <1>1, <1>2, <1>3, <1>4, <1>5

(* Rotations, restores, set-asides and their interruptions are invisible   *)
(* to whoever only looks at which records can still be read.               *)
THEOREM LedgerIsKept ==
  ASSUME "return" \notin Faults, ~Losses
  PROVE  Spec => LedgerKept
  <1>1. Init => Ledger!Init
    BY DEF Init, Ledger!Init, Held
  <1>2. SafeInv /\ KnownInv => Held = kept \ purged
    BY HeldIsKept
  <1>3. /\ Held = kept \ purged /\ (Held = kept \ purged)'
        /\ KnownInv /\ [Next]_vars
        => [Ledger!Next]_(Ledger!vars)
    <2> SUFFICES ASSUME Held = kept \ purged, (Held = kept \ purged)', KnownInv, [Next]_vars
                 PROVE  [Ledger!Next]_(Ledger!vars)
      OBVIOUS
    <2>1. Held' = kept' \ purged'
      OBVIOUS
    <2>2. Held = kept \ purged
      OBVIOUS
    <2>3. CASE \E i \in Items \ (kept \cup purged) : kept' = kept \cup {i} /\ purged' = purged
      BY <2>1, <2>2, <2>3 DEF Ledger!Next, Ledger!Record
    <2>4. CASE \E gone \in SUBSET Items : kept' = kept /\ purged' = purged \cup gone
      BY <2>1, <2>2, <2>4 DEF Ledger!Next, Ledger!Purge
    <2>5. CASE UNCHANGED <<kept, purged>>
      BY <2>1, <2>2, <2>5 DEF Ledger!vars
    <2> QED BY <2>3, <2>4, <2>5, LedgerSteps
  <1> QED
    BY <1>1, <1>2, <1>3, SafeInit, SafeNext, KnownInit, KnownNext, PTL
      DEF Spec, LedgerKept, Ledger!Spec
=============================================================================
