------------------------- MODULE LibraryFilesProofs -------------------------
(* Theorems about LibraryFiles, for every set of items, keys and phrases,  *)
(* every number of copies, and every choice of the steps at which the      *)
(* process may end or the file system fail.                                *)
EXTENDS LibraryFiles, SequenceTheorems, TLAPS

-----------------------------------------------------------------------------
(* What the edits of a directory preserve.                                 *)

(* Changing one part of a directory leaves a directory.                    *)
LEMMA PlaceEdits ==
  ASSUME NEW p \in Place
  PROVE  /\ p.db \in BOOLEAN /\ p.rows \in SUBSET Items
         /\ p.key \in KeyFiles /\ p.files \in SUBSET Items
         /\ \A q \in Place : WithDb(p, q) \in Place
         /\ \A d \in BOOLEAN : [p EXCEPT !.db = d] \in Place
         /\ \A r \in SUBSET Items : [p EXCEPT !.rows = r] \in Place
         /\ \A k \in KeyFiles : [p EXCEPT !.key = k] \in Place
         /\ \A f \in SUBSET Items : [p EXCEPT !.files = f] \in Place
  BY DEF Place, WithDb

(* What each such change reaches, and what it leaves alone.                *)
LEMMA PlaceFields ==
  ASSUME NEW p \in Place
  PROVE  /\ \A q : /\ WithDb(p, q).db = q.db /\ WithDb(p, q).rows = q.rows
                   /\ WithDb(p, q).key = p.key /\ WithDb(p, q).files = p.files
         /\ \A d : [p EXCEPT !.db = d].rows = p.rows /\ [p EXCEPT !.db = d].key = p.key
         /\ \A r : /\ [p EXCEPT !.rows = r].rows = r /\ [p EXCEPT !.rows = r].key = p.key
                   /\ [p EXCEPT !.rows = r].db = p.db
         /\ \A k : /\ [p EXCEPT !.key = k].rows = p.rows /\ [p EXCEPT !.key = k].key = k
                   /\ [p EXCEPT !.key = k].db = p.db
         /\ \A f : /\ [p EXCEPT !.files = f].rows = p.rows /\ [p EXCEPT !.files = f].key = p.key
                   /\ [p EXCEPT !.files = f].db = p.db
  BY DEF Place, WithDb

(* An empty directory is a directory.                                      *)
LEMMA EmptyIsAPlace == Empty \in Place
  BY DEF Empty, Place, KeyFiles

(* What remove_dir_all can leave of a directory is a directory.            *)
LEMMA RemainsArePlaces ==
  ASSUME NEW p \in Place
  PROVE  Remains(p) \subseteq Place
  BY DEF Remains, Place, KeyFiles

(* Taking an entry out of a sequence leaves a sequence, of other entries.  *)
LEMMA WithoutIsASequence ==
  ASSUME NEW S, NEW s \in Seq(S), NEW k \in 1 .. Len(s)
  PROVE  /\ Without(s, k) \in Seq(S)
         /\ \A c \in DOMAIN Without(s, k) : \E d \in DOMAIN s : Without(s, k)[c] = s[d]
  <1> DEFINE front == SubSeq(s, 1, k - 1)
             back == SubSeq(s, k + 1, Len(s))
  <1>1. Len(s) \in Nat /\ DOMAIN s = 1 .. Len(s) /\ \A i \in 1 .. Len(s) : s[i] \in S
    BY LenProperties
  <1>2. /\ front \in Seq(S)
        /\ Len(front) = k - 1
        /\ \A i \in 1 .. k - 1 : front[i] = s[i]
    <2>1. 1 \in Int /\ k - 1 \in Int /\ \A i \in 1 .. k - 1 : s[i] \in S
      BY <1>1
    <2>2. /\ SubSeq(s, 1, k - 1) \in Seq(S)
          /\ Len(SubSeq(s, 1, k - 1)) = IF 1 <= k - 1 THEN (k - 1) - 1 + 1 ELSE 0
          /\ \A i \in 1 .. (k - 1) - 1 + 1 : SubSeq(s, 1, k - 1)[i] = s[1 + i - 1]
      BY <2>1, SubSeqProperties
    <2> QED BY <1>1, <2>2
  <1>3. /\ back \in Seq(S)
        /\ Len(back) = Len(s) - k
        /\ \A i \in 1 .. Len(s) - k : back[i] = s[k + i]
    <2>1. k + 1 \in Int /\ Len(s) \in Int /\ \A i \in k + 1 .. Len(s) : s[i] \in S
      BY <1>1
    <2>2. /\ SubSeq(s, k + 1, Len(s)) \in Seq(S)
          /\ Len(SubSeq(s, k + 1, Len(s))) = IF k + 1 <= Len(s) THEN Len(s) - (k + 1) + 1 ELSE 0
          /\ \A i \in 1 .. Len(s) - (k + 1) + 1 :
               SubSeq(s, k + 1, Len(s))[i] = s[(k + 1) + i - 1]
      BY <2>1, SubSeqProperties
    <2>3. /\ Len(s) - (k + 1) + 1 = Len(s) - k
          /\ \A i \in 1 .. Len(s) - k : (k + 1) + i - 1 = k + i
      BY <1>1
    <2>4. \A n \in Nat : \A j \in 1 .. n : (IF j + 1 <= n THEN n - (j + 1) + 1 ELSE 0) = n - j
      OBVIOUS
    <2> QED BY <1>1, <2>2, <2>3, <2>4
  <1> HIDE DEF front, back
  <1>4. /\ front \o back \in Seq(S)
        /\ Len(front \o back) = Len(s) - 1
        /\ \A i \in 1 .. Len(s) - 1 :
             (front \o back)[i] = IF i <= k - 1 THEN front[i] ELSE back[i - (k - 1)]
    <2>1. /\ front \o back \in Seq(S)
          /\ Len(front \o back) = Len(front) + Len(back)
          /\ \A i \in 1 .. Len(front) + Len(back) :
               (front \o back)[i] = IF i <= Len(front) THEN front[i] ELSE back[i - Len(front)]
      BY <1>2, <1>3, ConcatProperties
    <2>2. Len(front) + Len(back) = Len(s) - 1
      BY <1>1, <1>2, <1>3
    <2> QED BY <1>2, <2>1, <2>2
  <1>5. DOMAIN (front \o back) = 1 .. Len(s) - 1
    BY <1>4, LenProperties
  <1>6. ASSUME NEW c \in 1 .. Len(s) - 1
        PROVE  \E d \in DOMAIN s : (front \o back)[c] = s[d]
    <2>1. CASE c <= k - 1
      <3>1. (front \o back)[c] = s[c] /\ c \in DOMAIN s
        BY <1>1, <1>2, <1>4, <2>1
      <3> QED BY <3>1
    <2>2. CASE ~(c <= k - 1)
      <3>1. (front \o back)[c] = s[c + 1] /\ c + 1 \in DOMAIN s
        BY <1>1, <1>3, <1>4, <2>2
      <3> QED BY <3>1
    <2> QED BY <2>1, <2>2
  <1> QED BY <1>4, <1>5, <1>6 DEF Without, front, back

(* Editing one of the copies leaves the copies in place.                   *)
LEMMA CopyEdits ==
  ASSUME NEW s \in Seq(Place), NEW c \in DOMAIN s
  PROVE  /\ s[c] \in Place
         /\ DOMAIN s = 1 .. Len(s) /\ Len(s) \in Nat
         /\ \A p \in Place : /\ [s EXCEPT ![c] = p] \in Seq(Place)
                             /\ DOMAIN [s EXCEPT ![c] = p] = DOMAIN s
  BY LenProperties, ElementOfSeq, ExceptSeq

-----------------------------------------------------------------------------
(* Type correctness.                                                       *)

(* Where an operation is tells what it may rely on: a key file to install, *)
(* a copy being made, a copy being read.                                   *)
Position ==
  /\ step = "install" => live.key \in Wrapped
  /\ step \in RotateSteps \ {"mkdir", "prune"} => 1 \in DOMAIN copies
  /\ step \in {"prune", "rewrap"} => at \in Nat \ {0}
  /\ step \in MoveSteps \cup CopyBackSteps => at \in DOMAIN copies

TypeInv == TypeOK /\ Position

(* An empty directory, and nothing under way.                               *)
LEMMA TypeInit == Init => TypeInv
  <1> SUFFICES ASSUME Init PROVE TypeInv
    OBVIOUS
  <1>1. copies \in Seq(Place)
    BY EmptySeq DEF Init
  <1>2. TypeOK
    BY <1>1, EmptyIsAPlace DEF Init, TypeOK, KeyFiles, Steps, NoItem
  <1>3. Position
    BY DEF Init, Position, RotateSteps, MoveSteps, CopyBackSteps
  <1> QED BY <1>2, <1>3 DEF TypeInv

(* Every step keeps the types and the positions.                           *)
LEMMA TypeNext == TypeInv /\ [Next]_vars => TypeInv'
  <1> SUFFICES ASSUME TypeInv, [Next]_vars PROVE TypeInv'
    OBVIOUS
  <1> USE DEF TypeInv, TypeOK, Position
  <1> USE DEF Steps, RotateSteps, SweepSteps, MoveSteps, CopyBackSteps, PutBackSteps,
              RestoreSteps, SetAsideSteps, AsideSteps
  <1> USE DEF job, history, disk, Stay, Idle, Closed, Opened
  <1>0. live \in Place /\ aside \in Place /\ Empty \in Place /\ Wrapped \subseteq KeyFiles
        /\ NoKey \in KeyFiles /\ Torn \in KeyFiles
    BY EmptyIsAPlace DEF KeyFiles
  <1>a. /\ Len(copies) \in Nat /\ DOMAIN copies = 1 .. Len(copies)
        /\ \A c \in DOMAIN copies : copies[c] \in Place
    BY LenProperties, ElementOfSeq
  <1>b. live.rows \in SUBSET Items /\ live.files \in SUBSET Items
    BY <1>0, PlaceEdits
  <1>1. CASE \E m \in Masters, p \in Phrases : CreateKey(m, p)
    <2>1. PICK m \in Masters, p \in Phrases : CreateKey(m, p)
      BY <1>0, <1>1
    <2>2. [master |-> m, phrase |-> p] \in Wrapped
      BY <1>0, <1>1 DEF Wrapped
    <2>3. live' = [live EXCEPT !.key = [master |-> m, phrase |-> p]]
      BY <1>0, <1>1, <2>1 DEF CreateKey
    <2>4. live' \in Place /\ live'.key \in Wrapped
      BY <1>0, <1>1, <2>2, <2>3, PlaceEdits, PlaceFields
    <2> QED BY <1>0, <1>1, <2>1, <2>2, <2>3, <2>4 DEF CreateKey
  <1>2. CASE Install
    <2>1. live' \in Place
      BY <1>0, <1>2, PlaceEdits DEF Install, Hold
    <2> QED BY <1>0, <1>2, <2>1 DEF Install, Hold, Wrapped
  <1>3. CASE Unlock
    <2>1. live' \in Place
      BY <1>0, <1>3, PlaceEdits DEF Unlock, Hold
    <2> QED BY <1>0, <1>3, <2>1 DEF Unlock, Hold, Wrapped
  <1>4. CASE Close \/ InstallFails
    BY <1>0, <1>4 DEF Close, InstallFails
  <1>5. CASE MakeCopy
    <2>1. copies' \in Seq(Place) /\ 1 \in DOMAIN copies'
      BY <1>0, <1>5, ConcatProperties, LenProperties, EmptySeq DEF MakeCopy
    <2> QED BY <1>0, <1>5, <2>1 DEF MakeCopy
  <1>6. CASE Vacuum
    <2>1. copies' \in Seq(Place) /\ DOMAIN copies' = DOMAIN copies
      BY <1>0, <1>6, CopyEdits, PlaceEdits DEF Vacuum
    <2> QED BY <1>0, <1>6, <2>1 DEF Vacuum
  <1>7. CASE CopyKeyOut
    <2>1. copies' \in Seq(Place) /\ DOMAIN copies' = DOMAIN copies
      BY <1>0, <1>7, CopyEdits, PlaceEdits DEF CopyKeyOut
    <2> QED BY <1>0, <1>7, <2>1 DEF CopyKeyOut
  <1>8. CASE FillKeyOut
    <2>1. [copies[1] EXCEPT !.key = live.key] \in Place
      BY <1>0, <1>8, CopyEdits, PlaceEdits DEF FillKeyOut
    <2>2. copies' = [copies EXCEPT ![1] = [copies[1] EXCEPT !.key = live.key]]
      BY <1>0, <1>8 DEF FillKeyOut
    <2>3. copies' \in Seq(Place) /\ DOMAIN copies' = DOMAIN copies
      BY <1>0, <1>8, <2>1, <2>2, CopyEdits DEF FillKeyOut
    <2> QED BY <1>0, <1>8, <2>1, <2>2, <2>3 DEF FillKeyOut
  <1>9. CASE LinkOut
    <2>1. ASSUME NEW i \in live.files, 1 \in DOMAIN copies,
                 copies' = [copies EXCEPT ![1].files = @ \cup {i}]
          PROVE  copies' \in Seq(Place) /\ DOMAIN copies' = DOMAIN copies
      <3>1. [copies[1] EXCEPT !.files = @ \cup {i}] \in Place
        <4>1. copies[1] \in Place /\ copies[1].files \cup {i} \in SUBSET Items
          BY <1>a, <1>b, <2>1, PlaceEdits
        <4> QED BY <4>1, PlaceEdits
      <3>2. copies' = [copies EXCEPT ![1] = [copies[1] EXCEPT !.files = @ \cup {i}]]
        BY <2>1
      <3> QED BY <2>1, <3>1, <3>2, CopyEdits
    <2>2. copies' \in Seq(Place) /\ (1 \in DOMAIN copies => 1 \in DOMAIN copies')
      BY <1>9, <2>1 DEF LinkOut
    <2>3. Keep + 1 \in Nat \ {0}
      BY KeepAssumption
    <2> QED BY <1>0, <1>9, <2>2, <2>3 DEF LinkOut
  <1>10. CASE RotateFails
    <2>1. step # "mkdir" => Tail(copies) \in Seq(Place)
      BY <1>0, <1>10, HeadTailProperties, CopyEdits DEF RotateFails
    <2>2. step # "mkdir" =>
            \A p \in Remains(copies[1]) : [copies EXCEPT ![1] = p] \in Seq(Place)
      BY <1>0, <1>10, <1>a, CopyEdits, RemainsArePlaces DEF RotateFails
    <2>3. copies' \in Seq(Place)
      BY <1>10, <2>1, <2>2 DEF RotateFails
    <2> QED BY <1>0, <1>10, <2>3 DEF RotateFails
  <1>11. CASE Prune
    <2>1. at <= Len(copies) => at \in DOMAIN copies
      BY <1>0, <1>11, <1>a DEF Prune
    <2>2. at <= Len(copies) => Without(copies, at) \in Seq(Place)
      BY <1>0, <1>11, <1>a, <2>1, WithoutIsASequence
    <2>3. at <= Len(copies) =>
            \A p \in Remains(copies[at]) : [copies EXCEPT ![at] = p] \in Seq(Place)
      BY <1>0, <1>11, <1>a, <2>1, CopyEdits, RemainsArePlaces
    <2>4. copies' \in Seq(Place)
      BY <1>0, <1>11, <2>2, <2>3 DEF Prune
    <2> QED BY <1>0, <1>11, <2>1, <2>2, <2>3, <2>4 DEF Prune
  <1>12. CASE PurgeExpired
    <2>1. live' \in Place
      BY <1>0, <1>12, PlaceEdits DEF PurgeExpired
    <2>2. purged' \in SUBSET Items
      BY <1>0, <1>12, <1>b DEF PurgeExpired
    <2> QED BY <1>0, <1>12, <2>1, <2>2 DEF PurgeExpired
  <1>13. CASE SweepOrphans
    <2>1. \A rest \in SUBSET live.files : (live.files \cap live.rows) \cup rest \in SUBSET Items
      BY <1>b
    <2>2. live' \in Place
      BY <1>0, <1>13, <2>1, PlaceEdits DEF SweepOrphans
    <2> QED BY <1>0, <1>13, <2>2 DEF SweepOrphans
  <1>14. CASE \E i \in Items : WriteFile(i)
    <2>1. PICK i \in Items : WriteFile(i)
      BY <1>0, <1>14
    <2>2. live.files \cup {i} \in SUBSET Items
      BY <1>0, <1>14, <1>b
    <2>3. live' \in Place
      BY <1>0, <1>14, <2>1, <2>2, PlaceEdits DEF WriteFile
    <2> QED BY <1>0, <1>14, <2>1, <2>2, <2>3 DEF WriteFile
  <1>15. CASE \E i \in Items : DeleteRow(i)
    <2>1. PICK i \in Items : DeleteRow(i)
      BY <1>0, <1>15
    <2>2. live' \in Place
      BY <1>0, <1>15, <2>1, PlaceEdits DEF DeleteRow
    <2> QED BY <1>0, <1>15, <2>1, <2>2 DEF DeleteRow
  <1>16. CASE Record
    <2>1. live' \in Place
      BY <1>0, <1>16, PlaceEdits DEF Record
    <2> QED BY <1>0, <1>16, <2>1 DEF Record, NoItem
  <1>17. CASE Unlink
    <2>1. live' \in Place
      BY <1>0, <1>17, PlaceEdits DEF Unlink
    <2> QED BY <1>0, <1>17, <2>1 DEF Unlink, NoItem
  <1>18. CASE \E p \in Phrases : ChangePassphrase(p)
    <2>1. PICK p \in Phrases : ChangePassphrase(p)
      BY <1>18
    <2>2. wrap' \in Wrapped
      BY <2>1 DEF ChangePassphrase, Wrapped
    <2>3. live' \in Place
      BY <1>0, <2>1, <2>2, PlaceEdits DEF ChangePassphrase
    <2>4. /\ at' = 1 /\ left' = FALSE /\ step' = "rewrap"
          /\ UNCHANGED <<sound, copies, young, asides, open, item, aside, moved,
                         made, seal, kept, purged>>
      BY <2>1 DEF ChangePassphrase
    <2>5. TypeOK'
      BY <2>2, <2>3, <2>4
    <2>6. Position'
      BY <2>4
    <2> QED BY <2>5, <2>6
  <1>19. CASE Rewrap
    <2>1. at <= Len(copies) => at \in DOMAIN copies
      BY <1>0, <1>19, <1>a DEF Rewrap
    <2>2. at <= Len(copies) => Rewrapped(copies[at]) \in Place
      BY <1>0, <1>19, <1>a, <2>1, PlaceEdits DEF Rewrapped, KeyFiles
    <2>3. \/ copies' = copies
          \/ at <= Len(copies) /\ copies' = [copies EXCEPT ![at] = Rewrapped(copies[at])]
      BY <1>0, <1>19 DEF Rewrap
    <2>4. copies' \in Seq(Place)
      BY <1>0, <1>19, <2>1, <2>2, <2>3, CopyEdits
    <2>5. at' \in Nat /\ (step' = "rewrap" => at' \in Nat \ {0})
      BY <1>0, <1>19 DEF Rewrap
    <2> QED BY <1>0, <1>19, <2>1, <2>2, <2>3, <2>4, <2>5 DEF Rewrap
  <1>20. CASE \E c \in DOMAIN copies : StartRestore(c) \/ RefuseRestore(c)
    <2>1. DOMAIN copies \subseteq Nat
      BY <1>0, <1>20, LenProperties
    <2> QED BY <1>0, <1>20, <2>1 DEF StartRestore, RefuseRestore
  <1>21. CASE MoveDb
    <2>1. live' \in Place /\ aside' \in Place
      BY <1>0, <1>21, PlaceEdits DEF MoveDb, Abandon
    <2> QED BY <1>0, <1>21, <2>1 DEF MoveDb, Abandon, Names
  <1>22. CASE MoveKey
    <2>1. live' \in Place /\ aside' \in Place
      BY <1>0, <1>22, PlaceEdits DEF MoveKey, Abandon
    <2> QED BY <1>0, <1>22, <2>1 DEF MoveKey, Abandon, Names
  <1>23. CASE MoveFiles
    <2>1. live' \in Place /\ aside' \in Place
      BY <1>0, <1>23, PlaceEdits DEF MoveFiles, Abandon
    <2> QED BY <1>0, <1>23, <2>1 DEF MoveFiles, Abandon, Names
  <1>24. CASE CopyDb
    <2>1. live' \in Place /\ aside' \in Place
      BY <1>0, <1>24, PlaceEdits DEF CopyDb
    <2> QED BY <1>0, <1>24, <2>1 DEF CopyDb
  <1>25. CASE FillDb
    <2>1. live' \in Place /\ aside' \in Place
      BY <1>0, <1>25, CopyEdits, PlaceEdits DEF FillDb
    <2> QED BY <1>0, <1>25, <2>1 DEF FillDb
  <1>26. CASE CopyKey
    <2>1. live' \in Place /\ aside' \in Place
      BY <1>0, <1>26, PlaceEdits DEF CopyKey
    <2> QED BY <1>0, <1>26, <2>1 DEF CopyKey
  <1>27. CASE FillKey
    <2>1. live' \in Place /\ aside' \in Place
      BY <1>0, <1>27, CopyEdits, PlaceEdits DEF FillKey
    <2> QED BY <1>0, <1>27, <2>1 DEF FillKey
  <1>28. CASE LinkBack
    <2>1. \A i \in copies[at].files : live.files \cup {i} \in SUBSET Items
      BY <1>0, <1>28, <1>a, <1>b, PlaceEdits DEF LinkBack
    <2>2. live' \in Place
      BY <1>0, <1>28, <2>1, PlaceEdits DEF LinkBack
    <2>3. aside' \in Place /\ asides' \in SUBSET Place
      BY <1>0, <1>28 DEF LinkBack
    <2> QED BY <1>0, <1>28, <2>1, <2>2, <2>3 DEF LinkBack
  <1>29. CASE CopyBackFails
    BY <1>0, <1>29 DEF CopyBackFails, Abandon
  <1>30. CASE Drop
    <2>1. live' \in Place /\ aside' \in Place
      BY <1>0, <1>30, PlaceEdits DEF Drop
    <2> QED BY <1>0, <1>30, <2>1 DEF Drop
  <1>31. CASE Return
    <2>1. aside.key \in KeyFiles /\ aside.files \in SUBSET Items /\ {} \in SUBSET Items
      BY <1>0, <1>31, PlaceEdits
    <2>2. live' \in Place
      BY <1>0, <1>31, <2>1, PlaceEdits DEF Return
    <2>3. aside' \in Place
      BY <1>0, <1>31, <2>1, PlaceEdits DEF Return
    <2> QED BY <1>0, <1>31, <2>1, <2>2, <2>3 DEF Return, Names
  <1>32. CASE PutBackEnds
    BY <1>0, <1>32 DEF PutBackEnds
  <1>33. CASE \E why \in {"setDamaged", "setForgotten"} : StartSetAside(why)
    BY <1>0, <1>33 DEF StartSetAside
  <1>34. CASE SetAsideFails
    BY <1>0, <1>34 DEF SetAsideFails, LeaveAside
  <1>35. CASE SetDb
    <2>1. live' \in Place /\ aside' \in Place
      BY <1>0, <1>35, PlaceEdits DEF SetDb
    <2> QED BY <1>0, <1>35, <2>1 DEF SetDb
  <1>36. CASE SetKey
    <2>1. live' \in Place /\ aside' \in Place
      BY <1>0, <1>36, PlaceEdits DEF SetKey
    <2> QED BY <1>0, <1>36, <2>1 DEF SetKey
  <1>37. CASE SetFiles
    <2>1. live' \in Place /\ aside' \in Place /\ asides' \in SUBSET Place
      BY <1>0, <1>37, PlaceEdits DEF SetFiles, LeaveAside
    <2> QED BY <1>0, <1>37, <2>1 DEF SetFiles, LeaveAside
  <1>38. CASE Crash
    BY <1>0, <1>38 DEF Crash, NoItem
  <1>39. CASE DayPasses
    BY <1>0, <1>39 DEF DayPasses
  <1>40. CASE Corrupt
    BY <1>0, <1>40 DEF Corrupt
  <1>41. CASE LoseKey
    <2>1. live' \in Place
      BY <1>0, <1>41, PlaceEdits DEF LoseKey
    <2> QED BY <1>0, <1>41, <2>1 DEF LoseKey
  <1>42. CASE UNCHANGED vars
    BY <1>0, <1>42 DEF vars
  <1> QED
    BY <1>1, <1>2, <1>3, <1>4, <1>5, <1>6, <1>7, <1>8, <1>9, <1>10, <1>11, <1>12,
        <1>13, <1>14, <1>15, <1>16, <1>17, <1>18, <1>19, <1>20, <1>21, <1>22, <1>23,
            <1>24, <1>25, <1>26, <1>27, <1>28, <1>29, <1>30, <1>31, <1>32, <1>33,
                <1>34, <1>35, <1>36, <1>37, <1>38, <1>39, <1>40, <1>41, <1>42
    DEF Next, Ask, Proceed, Rotation, Sweep, Restore, SetAside

-----------------------------------------------------------------------------
(* Nothing is lost.                                                        *)

(* What the folder of a restore or a set-aside holds: nothing when neither *)
(* is under way; the names already moved while one is.                     *)
Filling ==
  /\ step \notin AsideSteps => aside = Empty /\ moved = {}
  /\ step \in SetAsideSteps => moved = {}
  /\ step \in {"setDamaged", "setForgotten"} => aside = Empty
  /\ step = "setKey" => aside.key = NoKey
  /\ step = "moveDb" => moved = {}
  /\ step = "moveKey" => moved = {"db"}
  /\ step \in {"moveFiles"} \cup CopyBackSteps => {"db", "key"} \subseteq moved
  /\ step = "return" => moved # {}
  /\ step \in RestoreSteps => /\ "db" \notin moved => aside.rows = {}
                              /\ "key" \notin moved => aside.key = NoKey

(* A record not purged is in a folder nothing will touch again, or in the  *)
(* one being filled, or in the live database if it has not been moved: a   *)
(* live database written over the one that was moved does not count.       *)
RowsSafe ==
  \A i \in kept \ purged :
    \/ \E p \in asides : i \in p.rows
    \/ i \in aside.rows
    \/ "db" \notin moved /\ i \in live.rows

Wraps(p, m) == p.key \in Wrapped /\ p.key.master = m

(* The same of the keys.                                                   *)
KeysSafe ==
  \A m \in made :
    \/ \E p \in asides : Wraps(p, m)
    \/ Wraps(aside, m)
    \/ "key" \notin moved /\ Wraps(live, m)

SafeInv == TypeInv /\ Filling /\ RowsSafe /\ (Losses \/ KeysSafe)


(* At the start there is nothing to lose.                                   *)
LEMMA SafeInit == Init => SafeInv
  <1> SUFFICES ASSUME Init PROVE SafeInv
    OBVIOUS
  <1>1. TypeInv
    BY TypeInit
  <1>2. Filling
    BY DEF Init, Filling, AsideSteps, RestoreSteps, MoveSteps, CopyBackSteps,
        PutBackSteps, SetAsideSteps
  <1>3. RowsSafe /\ KeysSafe
    BY DEF Init, RowsSafe, KeysSafe
  <1> QED BY <1>1, <1>2, <1>3 DEF SafeInv

(* As long as no renaming back fails, no step loses a record or a key.     *)
LEMMA SafeNext ==
  ASSUME "return" \notin Faults
  PROVE  SafeInv /\ [Next]_vars => SafeInv'
  <1> SUFFICES ASSUME SafeInv, [Next]_vars PROVE SafeInv'
    OBVIOUS
  <1> USE DEF Filling
  <1> USE DEF Steps, RotateSteps, SweepSteps, MoveSteps, CopyBackSteps, PutBackSteps,
              RestoreSteps, SetAsideSteps, AsideSteps
  <1> USE DEF job, history, disk, Stay, Idle, Closed, Opened
  <1>t. TypeInv /\ TypeInv'
    BY TypeNext DEF SafeInv
  <1>i. Filling /\ RowsSafe /\ (Losses \/ KeysSafe)
    BY DEF SafeInv
  <1>0. /\ live \in Place /\ aside \in Place /\ moved \in SUBSET Names
        /\ \A i \in Items : live.rows \subseteq Items
    BY <1>t, PlaceEdits DEF TypeInv, TypeOK
  <1>e. Empty.rows = {} /\ Empty.key = NoKey /\ NoKey \notin Wrapped
    BY SentinelAssumption DEF Empty
  <1>1. CASE \E m \in Masters, p \in Phrases : CreateKey(m, p)
    <2>1. Filling'
      BY <1>0, <1>e, <1>i, <1>1, PlaceFields DEF CreateKey, Absent, Wrapped
    <2>2. RowsSafe'
      BY <1>0, <1>e, <1>i, <1>1, PlaceFields DEF CreateKey, Absent, Wrapped, RowsSafe
    <2>3. (Losses \/ KeysSafe)'
      BY <1>0, <1>e, <1>i, <1>1, PlaceFields
        DEF CreateKey, Absent, Wrapped, KeysSafe, Wraps
    <2> QED BY <1>t, <2>1, <2>2, <2>3 DEF SafeInv
  <1>2. CASE Install \/ Unlock
    <2>1. /\ live'.rows = live.rows /\ live'.key = live.key
          /\ UNCHANGED <<made, kept, purged>>
          /\ UNCHANGED <<asides, aside, moved>>
      BY <1>0, <1>e, <1>i, <1>2 DEF Install, Unlock, Hold, Place, WithDb, Empty
    <2>2. Filling'
      BY <1>0, <1>e, <1>i, <1>2, PlaceFields DEF Install, Unlock, Hold
    <2>3. RowsSafe'
      BY <1>i, <2>1 DEF RowsSafe
    <2>4. (Losses \/ KeysSafe)'
      BY <1>e, <1>i, <2>1 DEF KeysSafe, Wraps
    <2> QED BY <1>t, <2>2, <2>3, <2>4 DEF SafeInv
  <1>3. CASE Close \/ InstallFails
    <2>1. Filling'
      BY <1>0, <1>e, <1>i, <1>3, PlaceFields DEF Close, InstallFails
    <2>2. RowsSafe'
      BY <1>0, <1>e, <1>i, <1>3, PlaceFields DEF Close, InstallFails, RowsSafe
    <2>3. (Losses \/ KeysSafe)'
      BY <1>0, <1>e, <1>i, <1>3, PlaceFields DEF Close, InstallFails, KeysSafe, Wraps
    <2> QED BY <1>t, <2>1, <2>2, <2>3 DEF SafeInv
  <1>4. CASE Rotation
    <2>1. Filling'
      BY <1>0, <1>e, <1>i, <1>4, PlaceFields
        DEF Rotation, MakeCopy, Vacuum, CopyKeyOut, FillKeyOut, LinkOut, RotateFails,
            Prune
    <2>2. RowsSafe'
      BY <1>0, <1>e, <1>i, <1>4, PlaceFields DEF Rotation, MakeCopy, Vacuum,
          CopyKeyOut, FillKeyOut, LinkOut, RotateFails, Prune, RowsSafe
    <2>3. (Losses \/ KeysSafe)'
      BY <1>0, <1>e, <1>i, <1>4, PlaceFields DEF Rotation, MakeCopy, Vacuum,
          CopyKeyOut, FillKeyOut, LinkOut, RotateFails, Prune, KeysSafe, Wraps
    <2> QED BY <1>t, <2>1, <2>2, <2>3 DEF SafeInv
  <1>5. CASE PurgeExpired
    <2>1. Filling'
      BY <1>0, <1>e, <1>i, <1>5, PlaceFields DEF PurgeExpired
    <2>2. RowsSafe'
      BY <1>0, <1>e, <1>i, <1>5, PlaceFields DEF PurgeExpired, RowsSafe
    <2>3. (Losses \/ KeysSafe)'
      BY <1>0, <1>e, <1>i, <1>5, PlaceFields DEF PurgeExpired, KeysSafe, Wraps
    <2> QED BY <1>t, <2>1, <2>2, <2>3 DEF SafeInv
  <1>6. CASE SweepOrphans
    <2>1. /\ live'.rows = live.rows /\ live'.key = live.key
          /\ UNCHANGED <<made, kept, purged>>
          /\ UNCHANGED <<asides, aside, moved>>
      BY <1>0, <1>6 DEF SweepOrphans, Place
    <2>2. Filling'
      BY <1>i, <1>6, <2>1 DEF SweepOrphans
    <2>3. RowsSafe'
      BY <1>i, <2>1 DEF RowsSafe
    <2>4. (Losses \/ KeysSafe)'
      BY <1>i, <2>1 DEF KeysSafe, Wraps
    <2> QED BY <1>t, <2>2, <2>3, <2>4 DEF SafeInv
  <1>7. CASE \E i \in Items : WriteFile(i)
    <2>1. Filling'
      BY <1>0, <1>e, <1>i, <1>7, PlaceFields DEF WriteFile
    <2>2. RowsSafe'
      BY <1>0, <1>e, <1>i, <1>7, PlaceFields DEF WriteFile, RowsSafe
    <2>3. (Losses \/ KeysSafe)'
      BY <1>0, <1>e, <1>i, <1>7, PlaceFields DEF WriteFile, KeysSafe, Wraps
    <2> QED BY <1>t, <2>1, <2>2, <2>3 DEF SafeInv
  <1>8. CASE \E i \in Items : DeleteRow(i)
    <2>1. Filling'
      BY <1>0, <1>e, <1>i, <1>8, PlaceFields DEF DeleteRow
    <2>2. RowsSafe'
      BY <1>0, <1>e, <1>i, <1>8, PlaceFields DEF DeleteRow, RowsSafe
    <2>3. (Losses \/ KeysSafe)'
      BY <1>0, <1>e, <1>i, <1>8, PlaceFields DEF DeleteRow, KeysSafe, Wraps
    <2> QED BY <1>t, <2>1, <2>2, <2>3 DEF SafeInv
  <1>9. CASE Record
    <2>1. /\ live'.key = live.key
          /\ \/ live'.rows = live.rows \cup item /\ kept' = kept \cup item
             \/ live'.rows = live.rows /\ kept' = kept
          /\ UNCHANGED <<asides, aside, moved, made, purged>>
          /\ moved = {}
      BY <1>0, <1>e, <1>i, <1>9 DEF Record, NoItem, Place, WithDb, Empty
    <2>2. Filling'
      BY <1>0, <1>e, <1>i, <1>9, PlaceFields DEF Record, NoItem
    <2>3. RowsSafe'
      BY <1>i, <2>1 DEF RowsSafe
    <2>4. (Losses \/ KeysSafe)'
      BY <1>e, <1>i, <2>1 DEF KeysSafe, Wraps
    <2> QED BY <1>t, <2>2, <2>3, <2>4 DEF SafeInv
  <1>10. CASE Unlink
    <2>1. /\ live'.rows = live.rows /\ live'.key = live.key
          /\ UNCHANGED <<made, kept, purged>>
          /\ UNCHANGED <<asides, aside, moved>>
      BY <1>0, <1>e, <1>i, <1>10 DEF Unlink, NoItem, Place, WithDb, Empty
    <2>2. Filling'
      BY <1>0, <1>e, <1>i, <1>10, PlaceFields DEF Unlink, NoItem
    <2>3. RowsSafe'
      BY <1>i, <2>1 DEF RowsSafe
    <2>4. (Losses \/ KeysSafe)'
      BY <1>e, <1>i, <2>1 DEF KeysSafe, Wraps
    <2> QED BY <1>t, <2>2, <2>3, <2>4 DEF SafeInv
  <1>11. CASE \E p \in Phrases : ChangePassphrase(p)
    <2>1. Filling'
      BY <1>0, <1>e, <1>i, <1>11, PlaceFields DEF ChangePassphrase, Wrapped
    <2>2. RowsSafe'
      BY <1>0, <1>e, <1>i, <1>11, PlaceFields DEF ChangePassphrase, Wrapped, RowsSafe
    <2>3. (Losses \/ KeysSafe)'
      BY <1>0, <1>e, <1>i, <1>11, PlaceFields
        DEF ChangePassphrase, Wrapped, KeysSafe, Wraps
    <2> QED BY <1>t, <2>1, <2>2, <2>3 DEF SafeInv
  <1>12. CASE Rewrap
    <2>1. Filling'
      BY <1>0, <1>e, <1>i, <1>12, PlaceFields DEF Rewrap
    <2>2. RowsSafe'
      BY <1>0, <1>e, <1>i, <1>12, PlaceFields DEF Rewrap, RowsSafe
    <2>3. (Losses \/ KeysSafe)'
      BY <1>0, <1>e, <1>i, <1>12, PlaceFields DEF Rewrap, KeysSafe, Wraps
    <2> QED BY <1>t, <2>1, <2>2, <2>3 DEF SafeInv
  <1>13. CASE \E c \in DOMAIN copies : StartRestore(c) \/ RefuseRestore(c)
    <2>1. Filling'
      BY <1>0, <1>e, <1>i, <1>13, PlaceFields DEF StartRestore, RefuseRestore
    <2>2. RowsSafe'
      BY <1>0, <1>e, <1>i, <1>13, PlaceFields DEF StartRestore, RefuseRestore, RowsSafe
    <2>3. (Losses \/ KeysSafe)'
      BY <1>0, <1>e, <1>i, <1>13, PlaceFields
        DEF StartRestore, RefuseRestore, KeysSafe, Wraps
    <2> QED BY <1>t, <2>1, <2>2, <2>3 DEF SafeInv
  <1>14. CASE MoveDb
    <2>1. Filling'
      BY <1>0, <1>e, <1>i, <1>14, PlaceFields DEF MoveDb, Abandon
    <2>2. RowsSafe'
      BY <1>0, <1>e, <1>i, <1>14, PlaceFields DEF MoveDb, Abandon, RowsSafe
    <2>3. (Losses \/ KeysSafe)'
      BY <1>0, <1>e, <1>i, <1>14, PlaceFields DEF MoveDb, Abandon, KeysSafe, Wraps
    <2> QED BY <1>t, <2>1, <2>2, <2>3 DEF SafeInv
  <1>15. CASE MoveKey
    <2>1. /\ live'.rows = live.rows /\ aside'.rows = aside.rows /\ aside.key = NoKey
          /\ \/ aside'.key = live.key /\ moved' = moved \cup {"key"}
             \/ UNCHANGED <<live, aside, moved>>
          /\ UNCHANGED <<made, kept, purged>>
          /\ UNCHANGED asides
      BY <1>0, <1>e, <1>i, <1>15 DEF MoveKey, Abandon, Place, WithDb, Empty
    <2>2. Filling'
      BY <1>0, <1>e, <1>i, <1>15, PlaceFields DEF MoveKey, Abandon
    <2>3. RowsSafe'
      BY <1>i, <2>1 DEF RowsSafe
    <2>4. (Losses \/ KeysSafe)'
      BY <1>e, <1>i, <2>1 DEF KeysSafe, Wraps
    <2> QED BY <1>t, <2>2, <2>3, <2>4 DEF SafeInv
  <1>16. CASE MoveFiles
    <2>1. /\ live'.rows = live.rows /\ live'.key = live.key
          /\ aside'.rows = aside.rows /\ aside'.key = aside.key
          /\ moved' \in {moved, moved \cup {"files"}}
          /\ UNCHANGED <<made, kept, purged>>
          /\ UNCHANGED asides
      BY <1>0, <1>e, <1>i, <1>16 DEF MoveFiles, Abandon, Place, WithDb, Empty
    <2>2. Filling'
      BY <1>0, <1>e, <1>i, <1>16, PlaceFields DEF MoveFiles, Abandon
    <2>3. RowsSafe'
      BY <1>i, <2>1 DEF RowsSafe
    <2>4. (Losses \/ KeysSafe)'
      BY <1>e, <1>i, <2>1 DEF KeysSafe, Wraps
    <2> QED BY <1>t, <2>2, <2>3, <2>4 DEF SafeInv
  <1>17. CASE CopyDb
    <2>1. Filling'
      BY <1>0, <1>e, <1>i, <1>17, PlaceFields DEF CopyDb
    <2>2. RowsSafe'
      BY <1>0, <1>e, <1>i, <1>17, PlaceFields DEF CopyDb, RowsSafe
    <2>3. (Losses \/ KeysSafe)'
      BY <1>0, <1>e, <1>i, <1>17, PlaceFields DEF CopyDb, KeysSafe, Wraps
    <2> QED BY <1>t, <2>1, <2>2, <2>3 DEF SafeInv
  <1>18. CASE FillDb
    <2>1. Filling'
      BY <1>0, <1>e, <1>i, <1>18, PlaceFields DEF FillDb
    <2>2. RowsSafe'
      BY <1>0, <1>e, <1>i, <1>18, PlaceFields DEF FillDb, RowsSafe
    <2>3. (Losses \/ KeysSafe)'
      BY <1>0, <1>e, <1>i, <1>18, PlaceFields DEF FillDb, KeysSafe, Wraps
    <2> QED BY <1>t, <2>1, <2>2, <2>3 DEF SafeInv
  <1>19. CASE CopyKey
    <2>1. Filling'
      BY <1>0, <1>e, <1>i, <1>19, PlaceFields DEF CopyKey
    <2>2. RowsSafe'
      BY <1>0, <1>e, <1>i, <1>19, PlaceFields DEF CopyKey, RowsSafe
    <2>3. (Losses \/ KeysSafe)'
      BY <1>0, <1>e, <1>i, <1>19, PlaceFields DEF CopyKey, KeysSafe, Wraps
    <2> QED BY <1>t, <2>1, <2>2, <2>3 DEF SafeInv
  <1>20. CASE FillKey
    <2>1. Filling'
      BY <1>0, <1>e, <1>i, <1>20, PlaceFields DEF FillKey
    <2>2. RowsSafe'
      BY <1>0, <1>e, <1>i, <1>20, PlaceFields DEF FillKey, RowsSafe
    <2>3. (Losses \/ KeysSafe)'
      BY <1>0, <1>e, <1>i, <1>20, PlaceFields DEF FillKey, KeysSafe, Wraps
    <2> QED BY <1>t, <2>1, <2>2, <2>3 DEF SafeInv
  <1>21. CASE LinkBack
    <2>1. Filling'
      BY <1>0, <1>e, <1>i, <1>21, PlaceFields DEF LinkBack
    <2>2. RowsSafe'
      BY <1>0, <1>e, <1>i, <1>21, PlaceFields DEF LinkBack, RowsSafe
    <2>3. (Losses \/ KeysSafe)'
      BY <1>0, <1>e, <1>i, <1>21, PlaceFields DEF LinkBack, KeysSafe, Wraps
    <2> QED BY <1>t, <2>1, <2>2, <2>3 DEF SafeInv
  <1>22. CASE CopyBackFails
    <2>1. Filling'
      BY <1>0, <1>e, <1>i, <1>22, PlaceFields DEF CopyBackFails, Abandon
    <2>2. RowsSafe'
      BY <1>0, <1>e, <1>i, <1>22, PlaceFields DEF CopyBackFails, Abandon, RowsSafe
    <2>3. (Losses \/ KeysSafe)'
      BY <1>0, <1>e, <1>i, <1>22, PlaceFields
        DEF CopyBackFails, Abandon, KeysSafe, Wraps
    <2> QED BY <1>t, <2>1, <2>2, <2>3 DEF SafeInv
  <1>23. CASE Drop
    <2>1. Filling'
      BY <1>0, <1>e, <1>i, <1>23, PlaceFields DEF Drop, NextName, Names
    <2>2. RowsSafe'
      BY <1>0, <1>e, <1>i, <1>23, PlaceFields DEF Drop, NextName, Names, RowsSafe
    <2>3. (Losses \/ KeysSafe)'
      BY <1>0, <1>e, <1>i, <1>23, PlaceFields DEF Drop, NextName, Names, KeysSafe, Wraps
    <2> QED BY <1>t, <2>1, <2>2, <2>3 DEF SafeInv
  <1>24. CASE Return
    <2>1. /\ step = "return" /\ step' = "putBack"
          /\ \/ /\ "db" \in moved /\ moved' = moved \ {"db"}
                /\ live'.rows = aside.rows /\ aside'.rows = {}
                /\ live'.key = live.key /\ aside'.key = aside.key
             \/ /\ "db" \notin moved /\ "key" \in moved /\ moved' = moved \ {"key"}
                /\ live'.rows = live.rows /\ aside'.rows = aside.rows
                /\ live'.key = aside.key /\ aside'.key = NoKey
             \/ /\ "db" \notin moved /\ "key" \notin moved /\ moved' = moved \ {"files"}
                /\ live'.rows = live.rows /\ aside'.rows = aside.rows
                /\ live'.key = live.key /\ aside'.key = aside.key
          /\ UNCHANGED <<made, kept, purged>>
          /\ UNCHANGED asides
      BY <1>0, <1>e, <1>i, <1>24 DEF Return, NextName, Names, Place, WithDb, Empty
    <2>2. Filling'
      BY <1>0, <1>i, <2>1 DEF Names
    <2>3. RowsSafe'
      BY <1>i, <2>1 DEF RowsSafe
    <2>4. (Losses \/ KeysSafe)'
      BY <1>e, <1>i, <2>1 DEF KeysSafe, Wraps
    <2> QED BY <1>t, <2>2, <2>3, <2>4 DEF SafeInv
  <1>25. CASE PutBackEnds
    <2>1. Filling'
      BY <1>0, <1>e, <1>i, <1>25, PlaceFields DEF PutBackEnds
    <2>2. RowsSafe'
      BY <1>0, <1>e, <1>i, <1>25, PlaceFields DEF PutBackEnds, RowsSafe
    <2>3. (Losses \/ KeysSafe)'
      BY <1>0, <1>e, <1>i, <1>25, PlaceFields DEF PutBackEnds, KeysSafe, Wraps
    <2> QED BY <1>t, <2>1, <2>2, <2>3 DEF SafeInv
  <1>26. CASE \E why \in {"setDamaged", "setForgotten"} : StartSetAside(why)
    <2>1. Filling'
      BY <1>0, <1>e, <1>i, <1>26, PlaceFields DEF StartSetAside
    <2>2. RowsSafe'
      BY <1>0, <1>e, <1>i, <1>26, PlaceFields DEF StartSetAside, RowsSafe
    <2>3. (Losses \/ KeysSafe)'
      BY <1>0, <1>e, <1>i, <1>26, PlaceFields DEF StartSetAside, KeysSafe, Wraps
    <2> QED BY <1>t, <2>1, <2>2, <2>3 DEF SafeInv
  <1>27. CASE SetAsideFails
    <2>1. Filling'
      BY <1>0, <1>e, <1>i, <1>27, PlaceFields DEF SetAsideFails, LeaveAside
    <2>2. RowsSafe'
      BY <1>0, <1>e, <1>i, <1>27, PlaceFields DEF SetAsideFails, LeaveAside, RowsSafe
    <2>3. (Losses \/ KeysSafe)'
      BY <1>0, <1>e, <1>i, <1>27, PlaceFields
        DEF SetAsideFails, LeaveAside, KeysSafe, Wraps
    <2> QED BY <1>t, <2>1, <2>2, <2>3 DEF SafeInv
  <1>28. CASE SetDb
    <2>1. Filling'
      BY <1>0, <1>e, <1>i, <1>28, PlaceFields DEF SetDb
    <2>2. RowsSafe'
      BY <1>0, <1>e, <1>i, <1>28, PlaceFields DEF SetDb, RowsSafe
    <2>3. (Losses \/ KeysSafe)'
      BY <1>0, <1>e, <1>i, <1>28, PlaceFields DEF SetDb, KeysSafe, Wraps
    <2> QED BY <1>t, <2>1, <2>2, <2>3 DEF SafeInv
  <1>29. CASE SetKey
    <2>1. Filling'
      BY <1>0, <1>e, <1>i, <1>29, PlaceFields DEF SetKey
    <2>2. RowsSafe'
      BY <1>0, <1>e, <1>i, <1>29, PlaceFields DEF SetKey, RowsSafe
    <2>3. (Losses \/ KeysSafe)'
      BY <1>0, <1>e, <1>i, <1>29, PlaceFields DEF SetKey, KeysSafe, Wraps
    <2> QED BY <1>t, <2>1, <2>2, <2>3 DEF SafeInv
  <1>30. CASE SetFiles
    <2>1. /\ live'.rows = live.rows /\ live'.key = live.key
          /\ \A p \in asides : p \in asides'
          /\ LET q == [aside EXCEPT !.files = live.files]
             IN  q \in asides' /\ q.rows = aside.rows /\ q.key = aside.key
          /\ UNCHANGED <<made, kept, purged>>
          /\ UNCHANGED moved
      BY <1>0, <1>e, <1>i, <1>30 DEF SetFiles, LeaveAside, Place, WithDb, Empty
    <2>2. Filling'
      BY <1>0, <1>e, <1>i, <1>30, PlaceFields DEF SetFiles, LeaveAside
    <2>3. RowsSafe'
      BY <1>i, <2>1 DEF RowsSafe
    <2>4. (Losses \/ KeysSafe)'
      BY <1>e, <1>i, <2>1 DEF KeysSafe, Wraps
    <2> QED BY <1>t, <2>2, <2>3, <2>4 DEF SafeInv
  <1>31. CASE Crash
    <2>1. Filling'
      BY <1>0, <1>e, <1>i, <1>31, PlaceFields DEF Crash, NoItem
    <2>2. RowsSafe'
      BY <1>0, <1>e, <1>i, <1>31, PlaceFields DEF Crash, NoItem, RowsSafe
    <2>3. (Losses \/ KeysSafe)'
      BY <1>0, <1>e, <1>i, <1>31, PlaceFields DEF Crash, NoItem, KeysSafe, Wraps
    <2> QED BY <1>t, <2>1, <2>2, <2>3 DEF SafeInv
  <1>32. CASE DayPasses \/ Corrupt
    <2>1. Filling'
      BY <1>0, <1>e, <1>i, <1>32, PlaceFields DEF DayPasses, Corrupt
    <2>2. RowsSafe'
      BY <1>0, <1>e, <1>i, <1>32, PlaceFields DEF DayPasses, Corrupt, RowsSafe
    <2>3. (Losses \/ KeysSafe)'
      BY <1>0, <1>e, <1>i, <1>32, PlaceFields DEF DayPasses, Corrupt, KeysSafe, Wraps
    <2> QED BY <1>t, <2>1, <2>2, <2>3 DEF SafeInv
  <1>33. CASE LoseKey
    <2>1. Filling'
      BY <1>0, <1>e, <1>i, <1>33, PlaceFields DEF LoseKey
    <2>2. RowsSafe'
      BY <1>0, <1>e, <1>i, <1>33, PlaceFields DEF LoseKey, RowsSafe
    <2>3. (Losses \/ KeysSafe)'
      BY <1>0, <1>e, <1>i, <1>33, PlaceFields DEF LoseKey, KeysSafe, Wraps
    <2> QED BY <1>t, <2>1, <2>2, <2>3 DEF SafeInv
  <1>34. CASE UNCHANGED vars
    <2>1. Filling'
      BY <1>0, <1>e, <1>i, <1>34, PlaceFields DEF vars
    <2>2. RowsSafe'
      BY <1>0, <1>e, <1>i, <1>34, PlaceFields DEF vars, RowsSafe
    <2>3. (Losses \/ KeysSafe)'
      BY <1>0, <1>e, <1>i, <1>34, PlaceFields DEF vars, KeysSafe, Wraps
    <2> QED BY <1>t, <2>1, <2>2, <2>3 DEF SafeInv
  <1> QED
    BY <1>1, <1>2, <1>3, <1>4, <1>5, <1>6, <1>7, <1>8, <1>9, <1>10, <1>11, <1>12,
        <1>13, <1>14, <1>15, <1>16, <1>17, <1>18, <1>19, <1>20, <1>21, <1>22, <1>23,
            <1>24, <1>25, <1>26, <1>27, <1>28, <1>29, <1>30, <1>31, <1>32, <1>33, <1>34
    DEF Next, Ask, Proceed, Sweep, Restore, SetAside

-----------------------------------------------------------------------------
(* The theorems.                                                           *)

(* Whatever strikes, and wherever, every variable keeps its type.          *)
THEOREM TypeCorrect == Spec => []TypeOK
  <1>1. TypeInv => TypeOK
    BY DEF TypeInv
  <1> QED BY <1>1, TypeInit, TypeNext, PTL DEF Spec

(* What SafeInv says implies that nothing is lost.                         *)
LEMMA SafeKeeps == SafeInv => RowsKept /\ KeysKept
  <1> SUFFICES ASSUME SafeInv PROVE RowsKept /\ KeysKept
    OBVIOUS
  <1>1. RowsKept
    BY DEF SafeInv, RowsSafe, RowsKept, StoredRows, Stored
  <1>2. KeysKept
    BY DEF SafeInv, KeysSafe, Wraps, KeysKept, StoredKeys, Stored
  <1> QED BY <1>1, <1>2

(* No note is lost by a restore, a set-aside, a rotation or an ending of   *)
(* the process, as long as no renaming back of put_back fails.             *)
THEOREM RowsAreKept ==
  ASSUME "return" \notin Faults
  PROVE  Spec => []RowsKept
  <1>1. SafeInv => RowsKept
    BY SafeKeeps
  <1> QED BY <1>1, SafeInit, SafeNext, PTL DEF Spec

(* No library key is lost either, where a closed library keeps its own.    *)
THEOREM KeysAreKept ==
  ASSUME "return" \notin Faults
  PROVE  Spec => []KeysKept
  <1>1. SafeInv => KeysKept
    BY SafeKeeps
  <1> QED BY <1>1, SafeInit, SafeNext, PTL DEF Spec

(* As long as no renaming back fails, a step of a restore leaves what the  *)
(* live library was before it as it was.                                   *)
LEMMA BeforeNext ==
  ASSUME "return" \notin Faults
  PROVE  SafeInv /\ [Next]_vars => ({step, step'} \subseteq RestoreSteps => Before' = Before)
  <1> SUFFICES ASSUME SafeInv, [Next]_vars, step \in RestoreSteps,
      step' \in RestoreSteps
               PROVE  Before' = Before
    OBVIOUS
  <1> USE DEF Filling
  <1> USE DEF Steps, RotateSteps, SweepSteps, MoveSteps, CopyBackSteps, PutBackSteps,
              RestoreSteps, SetAsideSteps, AsideSteps
  <1>0. live \in Place /\ aside \in Place /\ moved \in SUBSET Names /\ Filling
    BY DEF SafeInv, TypeInv, TypeOK
  <1>1. CASE MoveDb
    <2>1. \/ UNCHANGED <<live, aside, moved>>
          \/ /\ moved = {} /\ moved' = {"db"}
             /\ aside'.db = live.db /\ aside'.rows = live.rows /\ live'.key = live.key
      BY <1>0, <1>1 DEF MoveDb, Abandon, Stay, Place, WithDb
    <2> QED BY <1>0, <2>1 DEF Before, Names
  <1>2. CASE MoveKey
    <2>1. \/ UNCHANGED <<live, aside, moved>>
          \/ /\ moved = {"db"} /\ moved' = {"db", "key"}
             /\ aside'.db = aside.db /\ aside'.rows = aside.rows /\ aside'.key = live.key
      BY <1>0, <1>2 DEF MoveKey, Abandon, Stay, Place, WithDb
    <2> QED BY <1>0, <2>1 DEF Before, Names
  <1>3. CASE MoveFiles
    <2>1. /\ {"db", "key"} \subseteq moved /\ moved \subseteq moved'
          /\ aside'.db = aside.db /\ aside'.rows = aside.rows /\ aside'.key = aside.key
      BY <1>0, <1>3 DEF MoveFiles, Place, WithDb
    <2> QED BY <1>0, <2>1 DEF Before, Names
  <1>4. CASE CopyDb \/ FillDb \/ CopyKey \/ FillKey \/ LinkBack
    <2>1. /\ {"db", "key"} \subseteq moved
          /\ UNCHANGED <<aside, moved>>
      BY <1>0, <1>4 DEF CopyDb, FillDb, CopyKey, FillKey, LinkBack, Stay, Place, WithDb
    <2> QED BY <1>0, <2>1 DEF Before, Names
  <1>5. CASE CopyBackFails
    <2>1. UNCHANGED <<live, aside, moved>>
      BY <1>0, <1>5 DEF CopyBackFails, Abandon, Stay, Place, WithDb
    <2> QED BY <1>0, <2>1 DEF Before, Names
  <1>6. CASE Drop
    <2>1. /\ "db" \notin moved => live'.db = live.db /\ live'.rows = live.rows
          /\ "key" \notin moved => live'.key = live.key
          /\ UNCHANGED <<aside, moved>>
      BY <1>0, <1>6 DEF Drop, NextName, Stay, Place, WithDb
    <2> QED BY <1>0, <2>1 DEF Before, Names
  <1>7. CASE Return
    <2>1. \/ /\ "db" \in moved /\ moved' = moved \ {"db"}
             /\ live'.db = aside.db /\ live'.rows = aside.rows /\ live'.key = live.key
             /\ aside'.key = aside.key
          \/ /\ "db" \notin moved /\ "key" \in moved /\ moved' = moved \ {"key"}
             /\ live'.db = live.db /\ live'.rows = live.rows /\ live'.key = aside.key
          \/ /\ "db" \notin moved /\ "key" \notin moved /\ moved' = moved \ {"files"}
             /\ live'.db = live.db /\ live'.rows = live.rows /\ live'.key = live.key
      BY <1>0, <1>7 DEF Return, NextName, Stay, Place, WithDb
    <2> QED BY <1>0, <2>1 DEF Before, Names
  <1>8. CASE UNCHANGED vars
    BY <1>8 DEF vars, disk, job, Before
  <1>9. ASSUME ~MoveDb, ~MoveKey, ~MoveFiles, ~Drop, ~Return, ~CopyBackFails,
               ~(CopyDb \/ FillDb \/ CopyKey \/ FillKey \/ LinkBack), Next
        PROVE  FALSE
    <2>1. Ask \/ Crash \/ DayPasses \/ Corrupt \/ LoseKey =>
            step \notin RestoreSteps \/ step' \notin RestoreSteps
      BY DEF Ask, CreateKey, Unlock, Close, WriteFile, DeleteRow, ChangePassphrase,
          StartRestore, RefuseRestore,
             StartSetAside, Crash, DayPasses, Corrupt, LoseKey, Opened, Closed, Idle
    <2>2. Proceed => step \notin RestoreSteps \/ step' \notin RestoreSteps
      BY <1>9 DEF Proceed, Install, InstallFails, Rotation, MakeCopy, Vacuum, CopyKeyOut,
          FillKeyOut, LinkOut, RotateFails,
         Prune, Sweep, PurgeExpired, SweepOrphans, Record, Unlink, Rewrap, Restore,
         PutBackEnds,
         SetAside, SetDb, SetKey, SetFiles, SetAsideFails, LeaveAside
    <2> QED BY <1>9, <2>1, <2>2 DEF Next
  <1> QED
    BY <1>1, <1>2, <1>3, <1>4, <1>5, <1>6, <1>7, <1>8, <1>9

(* A restore that fails, at whatever step, ends on the library it began    *)
(* with, as long as no renaming back fails.                                *)
THEOREM PutBackIsExact ==
  ASSUME "return" \notin Faults
  PROVE  Spec => PutBackRestores
  <1>1. SafeInv /\ [Next]_vars => [({step, step'} \subseteq RestoreSteps) => Before' = Before]_vars
    BY BeforeNext
  <1> QED BY <1>1, SafeInit, SafeNext, PTL DEF Spec, PutBackRestores
=============================================================================
