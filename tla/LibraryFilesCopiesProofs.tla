----------------------- MODULE LibraryFilesCopiesProofs -----------------------
(* Theorems about the copies of LibraryFiles: what a restore leaves, that   *)
(* a rotation never takes the last copy that opens, what a change of        *)
(* passphrase reaches; and about its attachments: that the file of a record *)
(* is where the record is, or in a folder nothing touches again.            *)
EXTENDS LibraryFilesProofs

-------------------------------------------------------------------------------
(* A library open has its database and a key file, and only an operation    *)
(* on an open one reads them.                                               *)
OpenInv ==
  /\ step \in AsideSteps => open = NoMaster
  /\ step \in RotateSteps \cup {"rewrap"} => open # NoMaster
  /\ open # NoMaster => live.db /\ live.key \in Wrapped

(* At the beginning no library is open.                                     *)
LEMMA OpenInit == Init => OpenInv
  BY DEF Init, OpenInv, AsideSteps, RestoreSteps, SetAsideSteps, MoveSteps, CopyBackSteps,
         PutBackSteps, RotateSteps

(* Every step keeps what an open library has.                               *)
LEMMA OpenNext == TypeInv /\ OpenInv /\ [Next]_vars => OpenInv'
  <1> SUFFICES ASSUME TypeInv, OpenInv, [Next]_vars PROVE OpenInv'
    OBVIOUS
  <1> USE DEF OpenInv
  <1> USE DEF RotateSteps, SweepSteps, MoveSteps, CopyBackSteps, PutBackSteps, RestoreSteps,
              SetAsideSteps, AsideSteps
  <1> USE DEF job, history, disk, Stay, Idle, Closed, Opened
  <1>0. live \in Place /\ NoMaster \notin Masters /\ step \in Steps
    BY SentinelAssumption DEF TypeInv, TypeOK
  <1>1. CASE \E m \in Masters, p \in Phrases : CreateKey(m, p)
    BY <1>1 DEF CreateKey
  <1>2. CASE Install \/ Unlock
    <2>1. live.key \in Wrapped /\ live.key.master \in Masters
      BY <1>2 DEF Install, Unlock, TypeInv, Position, Wrapped
    <2>2. /\ live' = [live EXCEPT !.db = TRUE] /\ open' = live.key.master
          /\ step' \in {"mkdir", "purge"}
      BY <1>2 DEF Install, Unlock, Hold
    <2>3. live'.db /\ live'.key = live.key
      BY <1>0, <2>2 DEF Place
    <2> QED BY <1>0, <2>1, <2>2, <2>3
  <1>3. CASE Close \/ InstallFails
    BY <1>3 DEF Close, InstallFails
  <1>4. CASE Rotation
    BY <1>4 DEF Rotation, MakeCopy, Vacuum, CopyKeyOut, FillKeyOut, LinkOut, RotateFails, Prune
  <1>5. CASE Sweep \/ Record \/ Unlink \/ \E i \in Items : WriteFile(i) \/ DeleteRow(i)
    <2>1. UNCHANGED open /\ live'.db = live.db /\ live'.key = live.key
      BY <1>0, <1>5 DEF Sweep, PurgeExpired, SweepOrphans, Record, Unlink, WriteFile, DeleteRow, Place
    <2>2. step' \in {"idle", "orphans", "record", "unlink"}
      BY <1>5 DEF Sweep, PurgeExpired, SweepOrphans, Record, Unlink, WriteFile, DeleteRow
    <2> QED BY <2>1, <2>2
  <1>6. CASE \E p \in Phrases : ChangePassphrase(p)
    <2>1. PICK p \in Phrases : ChangePassphrase(p)
      BY <1>6
    <2>2. [live.key EXCEPT !.phrase = p] \in Wrapped
      BY <2>1 DEF ChangePassphrase, Wrapped
    <2>3. live' = [live EXCEPT !.key = [live.key EXCEPT !.phrase = p]]
      BY <2>1 DEF ChangePassphrase
    <2>4. live'.db = live.db /\ live'.key \in Wrapped
      BY <1>0, <2>2, <2>3 DEF Place
    <2> QED BY <2>1, <2>4 DEF ChangePassphrase
  <1>7. CASE Rewrap
    BY <1>7 DEF Rewrap
  <1>8. CASE Restore \/ SetAside
    <2>1. step \in AsideSteps /\ UNCHANGED open /\ step' \in AsideSteps \cup {"idle"}
      BY <1>8 DEF Restore, MoveDb, MoveKey, MoveFiles, CopyDb, FillDb, CopyKey, FillKey, LinkBack,
         CopyBackFails, Abandon, Drop, Return, PutBackEnds, SetAside, SetDb, SetKey, SetFiles,
         SetAsideFails, LeaveAside
    <2> QED BY <2>1
  <1>9. CASE \E c \in DOMAIN copies : StartRestore(c) \/ RefuseRestore(c)
    BY <1>9 DEF StartRestore, RefuseRestore
  <1>10. CASE \E why \in {"setDamaged", "setForgotten"} : StartSetAside(why)
    BY <1>10 DEF StartSetAside
  <1>11. CASE Crash \/ DayPasses \/ Corrupt \/ LoseKey
    BY <1>11 DEF Crash, DayPasses, Corrupt, LoseKey
  <1>12. CASE UNCHANGED vars
    BY <1>12 DEF vars
  <1> QED BY <1>1, <1>2, <1>3, <1>4, <1>5, <1>6, <1>7, <1>8, <1>9, <1>10, <1>11, <1>12
    DEF Next, Ask, Proceed

-------------------------------------------------------------------------------
(* A restore.                                                               *)

(* What it moved aside was a library, and what it puts in its place is one. *)
RestoreInv ==
  /\ step \in RestoreSteps => Before.db /\ Before.key # NoKey
  /\ step \in MoveSteps \cup CopyBackSteps => Openable(at)
  /\ step \in {"fillDb", "copyKey", "fillKey", "linkBack"} => live.db
  /\ step = "linkBack" => live.key # NoKey

(* No step of a restore breaks it, and no other step enters one.            *)
LEMMA RestoreNext ==
  ASSUME "return" \notin Faults
  PROVE  SafeInv /\ OpenInv /\ RestoreInv /\ [Next]_vars => RestoreInv'
  <1> SUFFICES ASSUME SafeInv, OpenInv, RestoreInv, [Next]_vars PROVE RestoreInv'
    OBVIOUS
  <1> USE DEF RestoreInv
  <1> USE DEF RotateSteps, SweepSteps, MoveSteps, CopyBackSteps, PutBackSteps, RestoreSteps,
              SetAsideSteps, AsideSteps
  <1> USE DEF job, history, disk, Stay, Idle, Closed, Opened
  <1>0. live \in Place /\ aside \in Place /\ TypeInv
    BY DEF SafeInv, TypeInv, TypeOK
  <1>1. CASE \E c \in DOMAIN copies : StartRestore(c)
    <2>1. PICK c \in DOMAIN copies : StartRestore(c)
      BY <1>1
    <2>2. live.db /\ live.key # NoKey
      BY <2>1, SentinelAssumption DEF StartRestore, OpenInv
    <2>3. /\ step' = "moveDb" /\ at' = c /\ moved' = {} /\ UNCHANGED <<live, copies>>
          /\ Openable(c)
      BY <2>1 DEF StartRestore
    <2> QED BY <2>2, <2>3 DEF Before, Openable
  <1>2. CASE Restore
    <2>1. step \in RestoreSteps /\ step' \in RestoreSteps \cup {"idle"} /\ UNCHANGED copies
      BY <1>2 DEF Restore, MoveDb, MoveKey, MoveFiles, CopyDb, FillDb, CopyKey, FillKey, LinkBack,
         CopyBackFails, Abandon, Drop, Return, PutBackEnds
    <2>2. step' \in RestoreSteps => Before'.db /\ Before'.key # NoKey
      BY <2>1, BeforeNext
    <2>3. step' \in MoveSteps \cup CopyBackSteps => UNCHANGED at /\ step \in MoveSteps \cup CopyBackSteps
      BY <1>2 DEF Restore, MoveDb, MoveKey, MoveFiles, CopyDb, FillDb, CopyKey, FillKey, LinkBack,
         CopyBackFails, Abandon, Drop, Return, PutBackEnds
    <2>4. step' \in MoveSteps \cup CopyBackSteps => Openable(at)'
      BY <2>1, <2>3 DEF Openable
    <2>5. step' \in {"fillDb", "copyKey", "fillKey", "linkBack"} => live'.db
      BY <1>0, <1>2 DEF Restore, MoveDb, MoveKey, MoveFiles, CopyDb, FillDb, CopyKey, FillKey, LinkBack,
         CopyBackFails, Abandon, Drop, Return, PutBackEnds, Place
    <2>6. step' = "linkBack" => live'.key # NoKey
      <3>1. CASE FillKey
        BY <1>0, <3>1 DEF FillKey, Openable, Place
      <3>2. CASE ~FillKey
        BY <1>0, <1>2, <3>2 DEF Restore, MoveDb, MoveKey, MoveFiles, CopyDb, FillDb, CopyKey, LinkBack,
           CopyBackFails, Abandon, Drop, Return, PutBackEnds, Place
      <3> QED BY <3>1, <3>2
    <2> QED BY <2>2, <2>4, <2>5, <2>6
  <1>3. CASE UNCHANGED vars
    BY <1>3 DEF vars, Before, Openable
  <1>4. ASSUME ~Restore, ~\E c \in DOMAIN copies : StartRestore(c), Next
        PROVE  step' \notin RestoreSteps
    <2>1. CASE Ask
      BY <1>4, <2>1 DEF Ask, CreateKey, Unlock, Hold, Close, WriteFile, DeleteRow, ChangePassphrase,
         RefuseRestore, StartSetAside
    <2>2. CASE Proceed
      BY <1>4, <2>2 DEF Proceed, Install, Hold, InstallFails, Rotation, MakeCopy, Vacuum, CopyKeyOut,
         FillKeyOut, LinkOut, RotateFails, Prune, Sweep, PurgeExpired, SweepOrphans, Record, Unlink,
         Rewrap, SetAside, SetDb, SetKey, SetFiles, SetAsideFails, LeaveAside
    <2>3. CASE Crash \/ DayPasses \/ Corrupt \/ LoseKey
      BY <2>3 DEF Crash, DayPasses, Corrupt, LoseKey
    <2> QED BY <1>4, <2>1, <2>2, <2>3 DEF Next
  <1> QED BY <1>1, <1>2, <1>3, <1>4

(* "A failed restore must never leave no library at all": whatever fails,   *)
(* but a renaming back, a restore ends on a database and a key file.        *)
THEOREM RestoresLeaveALibrary ==
  ASSUME "return" \notin Faults
  PROVE  Spec => []RestoreLeavesALibrary
  <1>1. Init => SafeInv /\ OpenInv /\ RestoreInv
    BY SafeInit, OpenInit DEF Init, RestoreInv, RestoreSteps, MoveSteps, CopyBackSteps, PutBackSteps
  <1>2. SafeInv /\ OpenInv /\ RestoreInv /\ [Next]_vars => (SafeInv /\ OpenInv /\ RestoreInv)'
    BY SafeNext, OpenNext, RestoreNext DEF SafeInv
  <1>3. SafeInv /\ OpenInv /\ RestoreInv => RestoreLeavesALibrary
    BY DEF RestoreInv, RestoreLeavesALibrary, Before, RestoreSteps, PutBackSteps
  <1> QED BY <1>1, <1>2, <1>3, PTL DEF Spec

-------------------------------------------------------------------------------
(* A change of passphrase.                                                  *)

(* The key file it writes is the library's, and so far every copy's.        *)
RewrapInv ==
  step = "rewrap" =>
    /\ wrap \in Wrapped /\ live.key = wrap
    /\ ~left => \A c \in DOMAIN copies : c < at => copies[c].key \in {NoKey, wrap}

(* Only a change of passphrase is in a rewrap, and it only goes on.         *)
LEMMA RewrapEnters ==
  ASSUME Next, ~Rewrap, step' = "rewrap"
  PROVE  \E p \in Phrases : ChangePassphrase(p)
  <1> USE DEF RotateSteps, SweepSteps, MoveSteps, CopyBackSteps, PutBackSteps, RestoreSteps,
              SetAsideSteps, AsideSteps
  <1> USE DEF job, history, disk, Stay, Idle, Closed, Opened
  <1>1. CASE Ask
    BY <1>1 DEF Ask, CreateKey, Unlock, Hold, Close, WriteFile, DeleteRow, StartRestore,
       RefuseRestore, StartSetAside
  <1>2. CASE Proceed
    BY <1>2 DEF Proceed, Install, Hold, InstallFails, Rotation, MakeCopy, Vacuum, CopyKeyOut,
       FillKeyOut, LinkOut, RotateFails, Prune, Sweep, PurgeExpired, SweepOrphans, Record, Unlink,
       Restore, MoveDb, MoveKey, MoveFiles, CopyDb, FillDb, CopyKey, FillKey, LinkBack,
       CopyBackFails, Abandon, Drop, Return, PutBackEnds,
       SetAside, SetDb, SetKey, SetFiles, SetAsideFails, LeaveAside
  <1>3. CASE Crash \/ DayPasses \/ Corrupt \/ LoseKey
    BY <1>3 DEF Crash, DayPasses, Corrupt, LoseKey
  <1> QED BY <1>1, <1>2, <1>3 DEF Next

(* A key file given to a copy is given to that copy alone.                  *)
LEMMA RewrapsOne ==
  ASSUME NEW s \in Seq(Place), NEW c \in DOMAIN s, wrap \in Wrapped
  PROVE  LET t == [s EXCEPT ![c] = Rewrapped(@)] IN
         /\ t \in Seq(Place) /\ DOMAIN t = DOMAIN s
         /\ \A d \in DOMAIN s : d # c => t[d] = s[d]
         /\ t[c].db = s[c].db /\ t[c].key = IF s[c].key = NoKey THEN NoKey ELSE wrap
  <1>1. s[c] \in Place /\ wrap \in KeyFiles
    BY CopyEdits DEF KeyFiles
  <1>2. /\ Rewrapped(s[c]) \in Place /\ Rewrapped(s[c]).db = s[c].db
        /\ Rewrapped(s[c]).key = IF s[c].key = NoKey THEN NoKey ELSE wrap
    BY <1>1, PlaceEdits, PlaceFields DEF Rewrapped
  <1>3. /\ [s EXCEPT ![c] = Rewrapped(s[c])] \in Seq(Place)
        /\ DOMAIN [s EXCEPT ![c] = Rewrapped(s[c])] = DOMAIN s
    BY <1>2, CopyEdits
  <1> QED BY <1>2, <1>3

(* It holds of each copy as its key file is written.                        *)
LEMMA RewrapNext == TypeInv /\ RewrapInv /\ [Next]_vars => RewrapInv'
  <1> SUFFICES ASSUME TypeInv, RewrapInv, [Next]_vars, step' = "rewrap"
               PROVE  /\ wrap' \in Wrapped /\ live'.key = wrap'
                      /\ ~left' => \A c \in DOMAIN copies' : c < at' => copies'[c].key \in {NoKey, wrap'}
    BY DEF RewrapInv
  <1>0. live \in Place /\ copies \in Seq(Place)
    BY DEF TypeInv, TypeOK
  <1>1. CASE UNCHANGED vars
    BY <1>1 DEF vars, disk, job, RewrapInv
  <1>2. CASE Rewrap
    <2>1. /\ step = "rewrap" /\ at <= Len(copies) /\ at' = at + 1 /\ UNCHANGED <<wrap, live>>
          /\ \/ copies' = [copies EXCEPT ![at] = Rewrapped(@)] /\ UNCHANGED left
             \/ left' = TRUE
      BY <1>2 DEF Rewrap
    <2>2. wrap \in Wrapped /\ live.key = wrap
      BY <2>1 DEF RewrapInv
    <2>3. at \in DOMAIN copies /\ DOMAIN copies = 1 .. Len(copies) /\ Len(copies) \in Nat
      BY <1>0, <2>1, LenProperties DEF TypeInv, Position
    <2>4. ASSUME ~left', NEW c \in DOMAIN copies', c < at'
          PROVE  copies'[c].key \in {NoKey, wrap'}
      <3>1. copies' = [copies EXCEPT ![at] = Rewrapped(@)] /\ ~left
        BY <2>1, <2>4
      <3>2. /\ DOMAIN copies' = DOMAIN copies
            /\ \A d \in DOMAIN copies : d # at => copies'[d] = copies[d]
            /\ copies'[at].key \in {NoKey, wrap}
        BY <1>0, <2>2, <2>3, <3>1, RewrapsOne
      <3>3. c \in 1 .. Len(copies) /\ c < at + 1 /\ at \in Nat
        BY <2>1, <2>3, <2>4, <3>2
      <3>4. c < at \/ c = at
        BY <3>3
      <3> QED BY <2>1, <2>3, <2>4, <3>1, <3>2, <3>4 DEF RewrapInv
    <2> QED BY <2>1, <2>2, <2>4
  <1>3. CASE Next /\ ~Rewrap
    <2>1. PICK p \in Phrases : ChangePassphrase(p)
      BY <1>3, RewrapEnters
    <2>2. /\ wrap' = [live.key EXCEPT !.phrase = p] /\ live.key \in Wrapped
          /\ live' = [live EXCEPT !.key = wrap'] /\ at' = 1 /\ copies' = copies
      BY <2>1 DEF ChangePassphrase
    <2>3. wrap' \in Wrapped
      BY <2>2 DEF Wrapped
    <2>4. live'.key = wrap'
      BY <1>0, <2>2, PlaceFields
    <2>5. \A c \in DOMAIN copies : ~(c < 1)
      BY <1>0, LenProperties
    <2> QED BY <2>2, <2>3, <2>4, <2>5
  <1> QED BY <1>1, <1>2, <1>3

(* When a change of passphrase tells of no copy left behind, no key file of *)
(* the library or of a copy answers to another phrase.                      *)
THEOREM ChangesRetireEveryPhrase == Spec => ChangeRetiresEveryPhrase
  <1>1. Init => TypeInv /\ RewrapInv
    BY TypeInit DEF Init, RewrapInv
  <1>2. TypeInv /\ RewrapInv /\ [Next]_vars => (TypeInv /\ RewrapInv)'
    BY TypeNext, RewrapNext
  <1>3. TypeInv /\ RewrapInv /\ [Next]_vars =>
          [step = "rewrap" /\ step' = "idle" /\ open' # NoMaster /\ ~left =>
             \A k \in {live'.key} \cup {copies'[c].key : c \in DOMAIN copies'} :
               k = NoKey \/ (k \in Wrapped /\ k.phrase = wrap.phrase)]_vars
    <2> SUFFICES ASSUME TypeInv, RewrapInv, Next,
                        step = "rewrap", step' = "idle", open' # NoMaster, ~left,
                        NEW k \in {live'.key} \cup {copies'[c].key : c \in DOMAIN copies'}
                 PROVE  k = NoKey \/ (k \in Wrapped /\ k.phrase = wrap.phrase)
      BY DEF vars
    <2>1. Rewrap
      <3> USE DEF RotateSteps, SweepSteps, MoveSteps, CopyBackSteps, PutBackSteps, RestoreSteps,
                  SetAsideSteps, AsideSteps
      <3>1. ~Ask
        BY DEF Ask, Closed, Opened, Idle, CreateKey, Unlock, Close, WriteFile, DeleteRow,
           ChangePassphrase, StartRestore, RefuseRestore, StartSetAside
      <3>2. Proceed => Rewrap
        BY DEF Proceed, Install, InstallFails, Rotation, MakeCopy, Vacuum, CopyKeyOut,
           FillKeyOut, LinkOut, RotateFails, Prune, Sweep, PurgeExpired, SweepOrphans, Record,
           Unlink, Restore, MoveDb, MoveKey, MoveFiles, CopyDb, FillDb, CopyKey, FillKey, LinkBack,
           CopyBackFails, Drop, Return, PutBackEnds,
           SetAside, SetDb, SetKey, SetFiles, SetAsideFails
      <3>3. ~(Crash \/ DayPasses \/ Corrupt \/ LoseKey)
        BY DEF Crash, DayPasses, Corrupt, LoseKey, Closed, Idle
      <3> QED BY <3>1, <3>2, <3>3 DEF Next
    <2>2. at > Len(copies) /\ UNCHANGED <<copies, live>>
      BY <2>1 DEF Rewrap
    <2>3. at \in Nat /\ Len(copies) \in Nat /\ DOMAIN copies = 1 .. Len(copies)
      BY LenProperties DEF TypeInv, TypeOK
    <2>4. \A c \in DOMAIN copies : c < at
      BY <2>2, <2>3
    <2>5. k \in {NoKey, wrap} /\ wrap \in Wrapped
      BY <2>2, <2>4 DEF RewrapInv
    <2> QED BY <2>5
  <1> QED BY <1>1, <1>2, <1>3, PTL DEF Spec, ChangeRetiresEveryPhrase

-------------------------------------------------------------------------------
(* A rotation.                                                              *)

BegunSteps == RotateSteps \ {"mkdir", "prune"}
Whole(p) == p.db /\ p.key \in Wrapped

(* The copy a rotation makes is whole by the time it prunes, and it prunes  *)
(* the others.                                                              *)
RotateInv ==
  /\ step \in {"copyKeyOut", "fillKeyOut", "linkOut"} => copies[1].db
  /\ step \in {"linkOut", "prune"} => 1 \in DOMAIN copies /\ Whole(copies[1])
  /\ step = "prune" => at \in Nat \ {0, 1}

(* Past its first, a sequence is its tail.                                  *)
LEMMA TailsWholes ==
  ASSUME NEW s \in Seq(Place), 1 \in DOMAIN s
  PROVE  /\ Tail(s) \in Seq(Place)
         /\ (\E c \in DOMAIN Tail(s) : Whole(Tail(s)[c])) <=> (\E c \in DOMAIN s : c # 1 /\ Whole(s[c]))
  <1>1. Len(s) \in Nat /\ DOMAIN s = 1 .. Len(s)
    BY LenProperties
  <1>2. s # <<>>
    BY <1>1, EmptySeq
  <1>3. /\ Tail(s) \in Seq(Place) /\ Len(Tail(s)) = Len(s) - 1
        /\ \A i \in 1 .. Len(Tail(s)) : Tail(s)[i] = s[i + 1]
    BY <1>2, HeadTailProperties
  <1>4. DOMAIN Tail(s) = 1 .. Len(s) - 1
    BY <1>3, LenProperties
  <1>5. ASSUME NEW c \in DOMAIN Tail(s), Whole(Tail(s)[c])
        PROVE  \E d \in DOMAIN s : d # 1 /\ Whole(s[d])
    <2>1. c + 1 \in DOMAIN s /\ c + 1 # 1 /\ Tail(s)[c] = s[c + 1]
      BY <1>1, <1>3, <1>4, <1>5
    <2> QED BY <1>5, <2>1
  <1>6. ASSUME NEW c \in DOMAIN s, c # 1, Whole(s[c])
        PROVE  \E d \in DOMAIN Tail(s) : Whole(Tail(s)[d])
    <2>1. c - 1 \in DOMAIN Tail(s) /\ (c - 1) + 1 = c
      BY <1>1, <1>4, <1>6
    <2>2. Tail(s)[c - 1] = s[c]
      BY <1>3, <1>4, <2>1
    <2> QED BY <1>6, <2>1, <2>2
  <1> QED BY <1>3, <1>5, <1>6

(* A copy before the one taken out stays where it is.                       *)
LEMMA WithoutKeepsTheFirst ==
  ASSUME NEW s \in Seq(Place), NEW k \in 2 .. Len(s)
  PROVE  1 \in DOMAIN Without(s, k) /\ Without(s, k)[1] = s[1]
  <1> DEFINE front == SubSeq(s, 1, k - 1)
             back == SubSeq(s, k + 1, Len(s))
  <1>1. Len(s) \in Nat /\ DOMAIN s = 1 .. Len(s) /\ \A i \in 1 .. Len(s) : s[i] \in Place
    BY LenProperties
  <1>2. /\ front \in Seq(Place) /\ Len(front) = k - 1
        /\ \A i \in 1 .. k - 1 : front[i] = s[i]
    <2>1. 1 \in Int /\ k - 1 \in Int /\ \A i \in 1 .. k - 1 : s[i] \in Place
      BY <1>1
    <2>2. /\ SubSeq(s, 1, k - 1) \in Seq(Place)
          /\ Len(SubSeq(s, 1, k - 1)) = IF 1 <= k - 1 THEN (k - 1) - 1 + 1 ELSE 0
          /\ \A i \in 1 .. (k - 1) - 1 + 1 : SubSeq(s, 1, k - 1)[i] = s[1 + i - 1]
      BY <2>1, SubSeqProperties
    <2> QED BY <1>1, <2>2
  <1>3. back \in Seq(Place) /\ Len(back) \in Nat
    <2>1. k + 1 \in Int /\ Len(s) \in Int /\ \A i \in k + 1 .. Len(s) : s[i] \in Place
      BY <1>1
    <2>2. SubSeq(s, k + 1, Len(s)) \in Seq(Place)
      BY <2>1, SubSeqProperties
    <2> QED BY <2>2, LenProperties
  <1> HIDE DEF front, back
  <1>4. /\ front \o back \in Seq(Place) /\ Len(front \o back) = Len(front) + Len(back)
        /\ \A i \in 1 .. Len(front) + Len(back) :
             (front \o back)[i] = IF i <= Len(front) THEN front[i] ELSE back[i - Len(front)]
    BY <1>2, <1>3, ConcatProperties
  <1>5. DOMAIN (front \o back) = 1 .. Len(front) + Len(back)
    BY <1>4, LenProperties
  <1>6. 1 \in 1 .. Len(front) + Len(back) /\ 1 <= Len(front) /\ 1 \in 1 .. k - 1
    BY <1>2, <1>3
  <1>7. 1 \in DOMAIN (front \o back) /\ (front \o back)[1] = s[1]
    BY <1>2, <1>4, <1>5, <1>6
  <1> QED BY <1>7 DEF Without, front, back

(* What is not the rotation does not bring it past its first step.          *)
LEMMA RotationEnters ==
  ASSUME Next, ~Rotation
  PROVE  step' \notin RotateSteps \ {"mkdir"}
  <1> USE DEF RotateSteps, SweepSteps, MoveSteps, CopyBackSteps, PutBackSteps, RestoreSteps,
              SetAsideSteps, AsideSteps
  <1> USE DEF job, history, disk, Stay, Idle, Closed, Opened
  <1>1. CASE Ask
    BY <1>1 DEF Ask, CreateKey, Unlock, Hold, Close, WriteFile, DeleteRow, ChangePassphrase,
       StartRestore, RefuseRestore, StartSetAside
  <1>2. CASE Proceed
    BY <1>2 DEF Proceed, Install, Hold, InstallFails, Sweep, PurgeExpired, SweepOrphans, Record,
       Unlink, Rewrap, Restore, MoveDb, MoveKey, MoveFiles, CopyDb, FillDb, CopyKey, FillKey,
       LinkBack, CopyBackFails, Abandon, Drop, Return, PutBackEnds,
       SetAside, SetDb, SetKey, SetFiles, SetAsideFails, LeaveAside
  <1>3. CASE Crash \/ DayPasses \/ Corrupt \/ LoseKey
    BY <1>3 DEF Crash, DayPasses, Corrupt, LoseKey
  <1> QED BY <1>1, <1>2, <1>3 DEF Next

(* Each step of a rotation brings its copy nearer to whole.                 *)
LEMMA RotateNext == TypeInv /\ OpenInv /\ RotateInv /\ [Next]_vars => RotateInv'
  <1> SUFFICES ASSUME TypeInv, OpenInv, RotateInv, [Next]_vars PROVE RotateInv'
    OBVIOUS
  <1> USE DEF RotateInv
  <1>0. live \in Place /\ copies \in Seq(Place) /\ Len(copies) \in Nat
    BY LenProperties DEF TypeInv, TypeOK
  <1>1. step \in BegunSteps =>
          /\ 1 \in DOMAIN copies /\ copies[1] \in Place
          /\ \A p \in Place : LET t == [copies EXCEPT ![1] = p] IN 1 \in DOMAIN t /\ t[1] = p
    BY <1>0, CopyEdits DEF TypeInv, Position, BegunSteps
  <1>2. step \in RotateSteps => live.db /\ live.key \in Wrapped
    BY DEF OpenInv
  <1>3. CASE MakeCopy
    BY <1>3 DEF MakeCopy
  <1>4. CASE Vacuum
    <2>1. step \in BegunSteps /\ step' = "copyKeyOut" /\ copies' = [copies EXCEPT ![1] = WithDb(copies[1], live)]
      BY <1>4 DEF Vacuum, BegunSteps, RotateSteps
    <2>2. WithDb(copies[1], live) \in Place /\ WithDb(copies[1], live).db
      BY <1>0, <1>1, <1>2, <2>1, PlaceEdits, PlaceFields DEF BegunSteps
    <2> QED BY <1>1, <2>1, <2>2
  <1>5. CASE CopyKeyOut \/ FillKeyOut
    <2>1. PICK k \in KeyFiles :
            /\ copies' = [copies EXCEPT ![1] = [copies[1] EXCEPT !.key = k]]
            /\ step \in {"copyKeyOut", "fillKeyOut"} /\ step' \in {"fillKeyOut", "linkOut"}
            /\ step' = "linkOut" => k = live.key
      BY <1>0, <1>5 DEF CopyKeyOut, FillKeyOut, KeyFiles, Place
    <2>2. step \in BegunSteps /\ copies[1].db
      BY <2>1 DEF BegunSteps, RotateSteps
    <2>3. /\ [copies[1] EXCEPT !.key = k] \in Place /\ [copies[1] EXCEPT !.key = k].db
          /\ [copies[1] EXCEPT !.key = k].key = k
      BY <1>1, <2>2, PlaceEdits, PlaceFields
    <2>4. 1 \in DOMAIN copies' /\ copies'[1].db /\ copies'[1].key = k
      BY <1>1, <2>1, <2>2, <2>3
    <2>5. step' = "linkOut" => k \in Wrapped
      BY <1>2, <2>1, <2>2 DEF BegunSteps
    <2> QED BY <2>1, <2>4, <2>5 DEF Whole
  <1>6. CASE LinkOut
    <2>1. step = "linkOut" /\ step \in BegunSteps /\ 1 \in DOMAIN copies /\ Whole(copies[1])
      BY <1>6 DEF LinkOut, BegunSteps, RotateSteps
    <2>2. CASE step' = "prune" /\ at' = Keep + 1 /\ UNCHANGED copies
      <3>1. step' = "prune" /\ at' = Keep + 1
        BY <2>2
      <3>2. at' \in Nat \ {0, 1}
        BY <3>1, KeepAssumption
      <3> QED BY <2>1, <2>2, <3>1, <3>2
    <2>3. CASE /\ \E i \in live.files \ copies[1].files : copies' = [copies EXCEPT ![1].files = @ \cup {i}]
               /\ UNCHANGED step
      <3>1. PICK f \in SUBSET Items : copies' = [copies EXCEPT ![1] = [copies[1] EXCEPT !.files = f]]
        <4>1. PICK i \in live.files \ copies[1].files :
                copies' = [copies EXCEPT ![1] = [copies[1] EXCEPT !.files = copies[1].files \cup {i}]]
          BY <2>3
        <4>2. copies[1].files \cup {i} \in SUBSET Items
          BY <1>0, <1>1, <2>1 DEF Place
        <4> QED BY <4>1, <4>2
      <3>2. [copies[1] EXCEPT !.files = f] \in Place /\ Whole([copies[1] EXCEPT !.files = f])
        BY <1>1, <2>1, PlaceEdits, PlaceFields DEF Whole
      <3>3. 1 \in DOMAIN copies' /\ Whole(copies'[1])
        BY <1>1, <2>1, <3>1, <3>2
      <3> QED BY <2>1, <2>3, <3>3 DEF Whole
    <2> QED BY <1>6, <2>2, <2>3 DEF LinkOut
  <1>7. CASE RotateFails
    BY <1>7 DEF RotateFails
  <1>8. CASE Prune
    <2>1. step = "prune" /\ at \in Nat \ {0, 1} /\ 1 \in DOMAIN copies /\ Whole(copies[1])
      BY <1>8 DEF Prune
    <2>2. CASE at <= Len(copies) /\ copies' = Without(copies, at) /\ UNCHANGED <<at, step>>
      <3>1. at \in 2 .. Len(copies)
        BY <1>0, <2>1, <2>2
      <3>2. 1 \in DOMAIN copies' /\ copies'[1] = copies[1]
        BY <1>0, <2>2, <3>1, WithoutKeepsTheFirst
      <3> QED BY <2>1, <2>2, <3>2
    <2>3. CASE \E p \in Remains(copies[at]) :
                 at <= Len(copies) /\ copies' = [copies EXCEPT ![at] = p] /\ at' = at + 1 /\ UNCHANGED step
      <3>1. at \in DOMAIN copies /\ at # 1 /\ at' \in Nat \ {0, 1}
        BY <1>0, <2>1, <2>3, LenProperties
      <3>2. DOMAIN copies' = DOMAIN copies /\ copies'[1] = copies[1]
        BY <2>1, <2>3, <3>1
      <3> QED BY <2>1, <2>3, <3>1, <3>2
    <2>4. CASE step' = "purge"
      BY <2>4
    <2> QED BY <1>8, <2>2, <2>3, <2>4 DEF Prune
  <1>9. CASE Next /\ ~Rotation
    <2>1. step' \notin {"copyKeyOut", "fillKeyOut", "linkOut", "prune"}
      BY <1>9, RotationEnters DEF RotateSteps
    <2> QED BY <2>1
  <1>10. CASE UNCHANGED vars
    BY <1>10 DEF vars, disk, job
  <1> QED BY <1>3, <1>4, <1>5, <1>6, <1>7, <1>8, <1>9, <1>10 DEF Rotation

(* What SomeWholeCopy says, without the tail.                               *)
LEMMA WholesAreSettled ==
  ASSUME TypeInv
  PROVE  SomeWholeCopy <=> \E c \in DOMAIN copies : (step \in BegunSteps => c # 1) /\ Whole(copies[c])
  <1>1. CASE step \in BegunSteps
    <2>1. copies \in Seq(Place) /\ 1 \in DOMAIN copies
      BY <1>1 DEF TypeInv, TypeOK, Position, BegunSteps
    <2> QED BY <1>1, <2>1, TailsWholes DEF SomeWholeCopy, Settled, BegunSteps, Whole
  <1>2. CASE step \notin BegunSteps
    BY <1>2 DEF SomeWholeCopy, Settled, BegunSteps, Whole
  <1> QED BY <1>1, <1>2

(* Only the rotation and a change of passphrase write a copy.               *)
LEMMA CopiesStay ==
  ASSUME Next, ~Rotation, ~Rewrap
  PROVE  UNCHANGED copies
  <1> USE DEF job, history, disk, Stay, Idle, Closed, Opened
  <1>1. CASE Ask
    BY <1>1 DEF Ask, CreateKey, Unlock, Hold, Close, WriteFile, DeleteRow, ChangePassphrase,
       StartRestore, RefuseRestore, StartSetAside
  <1>2. CASE Proceed
    BY <1>2 DEF Proceed, Install, Hold, InstallFails, Sweep, PurgeExpired, SweepOrphans, Record,
       Unlink, Restore, MoveDb, MoveKey, MoveFiles, CopyDb, FillDb, CopyKey, FillKey,
       LinkBack, CopyBackFails, Abandon, Drop, Return, PutBackEnds,
       SetAside, SetDb, SetKey, SetFiles, SetAsideFails, LeaveAside
  <1>3. CASE Crash \/ DayPasses \/ Corrupt \/ LoseKey
    BY <1>3 DEF Crash, DayPasses, Corrupt, LoseKey
  <1> QED BY <1>1, <1>2, <1>3 DEF Next

(* A copy that is whole stays, or the one just made is there in its place.  *)
LEMMA WholeStays ==
  ASSUME TypeInv, TypeInv', RotateInv, RewrapInv, Next,
         NEW c \in DOMAIN copies, step \in BegunSteps => c # 1, Whole(copies[c])
  PROVE  \E d \in DOMAIN copies' : (step' \in BegunSteps => d # 1) /\ Whole(copies'[d])
  <1>0. /\ copies \in Seq(Place) /\ Len(copies) \in Nat /\ DOMAIN copies = 1 .. Len(copies)
        /\ copies' \in Seq(Place)
    BY LenProperties DEF TypeInv, TypeOK
  <1>1. CASE MakeCopy
    <2>1. copies' = <<Empty>> \o copies
      BY <1>1 DEF MakeCopy
    <2>2. <<Empty>> \in Seq(Place) /\ Len(<<Empty>>) = 1
      BY EmptyIsAPlace
    <2>3. /\ Len(<<Empty>> \o copies) = 1 + Len(copies)
          /\ \A i \in 1 .. 1 + Len(copies) :
               (<<Empty>> \o copies)[i] = IF i <= 1 THEN <<Empty>>[i] ELSE copies[i - 1]
      BY <1>0, <2>2, ConcatProperties
    <2>4. DOMAIN copies' = 1 .. 1 + Len(copies)
      BY <1>0, <2>1, <2>3, LenProperties
    <2>5. c + 1 \in DOMAIN copies' /\ c + 1 # 1 /\ copies'[c + 1] = copies[c]
      BY <1>0, <2>1, <2>3, <2>4
    <2> QED BY <2>5
  <1>2. CASE Vacuum \/ CopyKeyOut \/ FillKeyOut \/ LinkOut
    <2>1. step \in BegunSteps /\ c # 1
      BY <1>2 DEF Vacuum, CopyKeyOut, FillKeyOut, LinkOut, BegunSteps, RotateSteps
    <2>2. copies' = copies \/ \E p : copies' = [copies EXCEPT ![1] = p]
      BY <1>2 DEF Vacuum, CopyKeyOut, FillKeyOut, LinkOut
    <2>3. c \in DOMAIN copies' /\ copies'[c] = copies[c]
      BY <1>0, <2>1, <2>2
    <2> QED BY <2>1, <2>3
  <1>3. CASE RotateFails
    <2>1. step' = "purge" /\ step' \notin BegunSteps
      BY <1>3 DEF RotateFails, BegunSteps, RotateSteps
    <2>2. CASE UNCHANGED copies
      BY <2>1, <2>2
    <2>3. CASE copies' = Tail(copies) /\ step # "mkdir"
      <3>1. step \in BegunSteps /\ 1 \in DOMAIN copies
        BY <1>3, <2>3 DEF RotateFails, TypeInv, Position, BegunSteps, RotateSteps
      <3> QED BY <1>0, <2>1, <2>3, <3>1, TailsWholes
    <2>4. CASE step # "mkdir" /\ \E p \in Remains(copies[1]) : copies' = [copies EXCEPT ![1] = p]
      <3>1. c # 1
        BY <1>3, <2>4 DEF RotateFails, BegunSteps, RotateSteps
      <3>2. c \in DOMAIN copies' /\ copies'[c] = copies[c]
        BY <1>0, <2>4, <3>1
      <3> QED BY <2>1, <3>2
    <2> QED BY <1>3, <2>2, <2>3, <2>4 DEF RotateFails
  <1>4. CASE Prune
    <2>1. step' \in {"prune", "purge"} /\ step' \notin BegunSteps
      BY <1>4 DEF Prune, BegunSteps, RotateSteps
    <2>2. step = "prune" /\ at \in Nat \ {0, 1} /\ 1 \in DOMAIN copies /\ Whole(copies[1])
      BY <1>4 DEF Prune, RotateInv
    <2>3. CASE at <= Len(copies) /\ copies' = Without(copies, at)
      <3>1. at \in 2 .. Len(copies)
        BY <1>0, <2>2, <2>3
      <3>2. 1 \in DOMAIN copies' /\ copies'[1] = copies[1]
        BY <1>0, <2>3, <3>1, WithoutKeepsTheFirst
      <3> QED BY <2>1, <2>2, <3>2
    <2>4. CASE \E p \in Remains(copies[at]) : copies' = [copies EXCEPT ![at] = p]
      <3>1. 1 \in DOMAIN copies' /\ copies'[1] = copies[1]
        BY <2>2, <2>4
      <3> QED BY <2>1, <2>2, <3>1
    <2>5. CASE UNCHANGED copies
      BY <2>1, <2>2, <2>5
    <2> QED BY <1>4, <2>3, <2>4, <2>5 DEF Prune
  <1>5. CASE Rewrap
    <2>1. step' \in {"rewrap", "idle"} /\ step' \notin BegunSteps /\ wrap \in Wrapped
      BY <1>5 DEF Rewrap, BegunSteps, RotateSteps, RewrapInv
    <2>2. CASE at <= Len(copies) /\ copies' = [copies EXCEPT ![at] = Rewrapped(@)]
      <3>1. at \in DOMAIN copies
        BY <1>0, <1>5, <2>2 DEF Rewrap, TypeInv, Position
      <3>2. /\ DOMAIN copies' = DOMAIN copies
            /\ \A d \in DOMAIN copies : d # at => copies'[d] = copies[d]
            /\ copies'[at].db = copies[at].db
            /\ copies'[at].key = IF copies[at].key = NoKey THEN NoKey ELSE wrap
        BY <1>0, <2>1, <2>2, <3>1, RewrapsOne
      <3>3. Whole(copies'[c])
        BY <2>1, <3>2, SentinelAssumption DEF Whole
      <3> QED BY <2>1, <3>2, <3>3
    <2>3. CASE UNCHANGED copies
      BY <2>1, <2>3
    <2> QED BY <1>5, <2>2, <2>3 DEF Rewrap
  <1>6. CASE ~Rotation /\ ~Rewrap
    <2>1. UNCHANGED copies /\ step' \notin BegunSteps
      BY <1>6, CopiesStay, RotationEnters DEF BegunSteps
    <2> QED BY <2>1
  <1> QED BY <1>1, <1>2, <1>3, <1>4, <1>5, <1>6 DEF Rotation

(* Neither a rotation that fails or is cut short nor its pruning takes the  *)
(* last copy that can be opened, and nothing else touches one.              *)
THEOREM ACopyAlwaysRemains == Spec => ACopyRemains
  <1> DEFINE Inv == TypeInv /\ OpenInv /\ RotateInv /\ RewrapInv
  <1>1. Init => Inv
    BY TypeInit, OpenInit DEF Init, RotateInv, RewrapInv
  <1>2. Inv /\ [Next]_vars => Inv'
    BY TypeNext, OpenNext, RotateNext, RewrapNext
  <1>3. Inv /\ [Next]_vars => [SomeWholeCopy => SomeWholeCopy']_vars
    <2> SUFFICES ASSUME Inv, Inv', Next, SomeWholeCopy PROVE SomeWholeCopy'
      BY <1>2
    <2>1. PICK c \in DOMAIN copies : (step \in BegunSteps => c # 1) /\ Whole(copies[c])
      BY WholesAreSettled
    <2>2. \E d \in DOMAIN copies' : (step' \in BegunSteps => d # 1) /\ Whole(copies'[d])
      BY <2>1, WholeStays
    <2>3. CASE step' \in BegunSteps
      <3>1. copies' \in Seq(Place) /\ 1 \in DOMAIN copies'
        BY <2>3 DEF TypeInv, TypeOK, Position, BegunSteps
      <3> QED BY <2>2, <2>3, <3>1, TailsWholes DEF SomeWholeCopy, Settled, BegunSteps, Whole
    <2>4. CASE step' \notin BegunSteps
      BY <2>2, <2>4 DEF SomeWholeCopy, Settled, BegunSteps, Whole
    <2> QED BY <2>3, <2>4
  <1> QED BY <1>1, <1>2, <1>3, PTL DEF Spec, ACopyRemains
-------------------------------------------------------------------------------
(* The attachments.                                                         *)

(* Between a database going aside and its attachments.                      *)
Apart == {"moveKey", "moveFiles", "setKey", "setFiles"}

(* The process does not end there, and the file system does not fail there: *)
(* a library whose database alone went aside is swept of its files at the   *)
(* next launch.                                                             *)
TogetherAssumption == Apart \cap (Crashes \cup Faults) = {} /\ "return" \notin Faults

(* A record not purged has its file in a folder nothing will touch again,   *)
(* or its file lies beside it, both moved or neither, but for a set-aside   *)
(* about to move the files.                                                 *)
FilesSafe ==
  \A i \in kept \ purged :
    \/ \E p \in asides : i \in p.files
    \/ "files" \in moved /\ i \in aside.files /\ i \in Before.rows
    \/ "files" \notin moved /\ i \in live.files /\ (i \in Before.rows \/ step \in {"setKey", "setFiles"})

(* What the operation under way may rely on: the files went aside before    *)
(* anything is copied back or put back; a file is there before its record,  *)
(* and gone after it.                                                       *)
FilesInv ==
  /\ FilesSafe
  /\ step \in MoveSteps => "files" \notin moved
  /\ step \in CopyBackSteps => "files" \in moved
  /\ step \in PutBackSteps => moved = {} \/ "files" \in moved
  /\ step = "record" => item \subseteq live.files /\ item \cap kept = {}
  /\ step = "record" => \A i \in item : seal[i] # NoMaster
  /\ step = "unlink" => item \subseteq purged
  /\ \A i \in kept : seal[i] # NoMaster

(* At the beginning nothing is kept.                                        *)
LEMMA FilesInit == Init => FilesInv
  BY DEF Init, FilesInv, FilesSafe, MoveSteps, CopyBackSteps, PutBackSteps

(* A step that moves nothing aside, and takes no file of a record that it   *)
(* leaves in the database, keeps them together.                             *)
LEMMA BesideStays ==
  ASSUME FilesSafe, moved = {}, moved' = {}, step \notin Apart, asides \subseteq asides',
         \A i \in kept' \ purged' :
           \/ i \in kept \ purged /\ (i \in live.rows /\ i \in live.files => i \in live'.rows /\ i \in live'.files)
           \/ i \in live'.rows /\ i \in live'.files
  PROVE  FilesSafe'
  BY DEF FilesSafe, Before, Apart

(* Steps that take no part in moving a library.                             *)
LEMMA FilesStayHome ==
  ASSUME TypeInv, Filling, FilesInv, Next, ~Restore, ~SetAside, ~Crash
  PROVE  FilesInv'
  <1> USE DEF RotateSteps, SweepSteps, MoveSteps, CopyBackSteps, PutBackSteps, RestoreSteps,
              SetAsideSteps, AsideSteps, Apart
  <1> USE DEF job, history, disk, Stay, Idle, Closed, Opened
  <1>0. live \in Place /\ NoMaster \notin Masters /\ seal \in [Items -> Masters \cup {NoMaster}]
    BY SentinelAssumption DEF TypeInv, TypeOK
  <1>1. CASE \E i \in Items : WriteFile(i)
    <2>1. PICK i \in Items : WriteFile(i)
      BY <1>1
    <2>2. /\ step = "idle" /\ step' = "record" /\ moved' = moved /\ item' = {i}
          /\ UNCHANGED <<kept, purged, asides>> /\ seal[i] = NoMaster /\ open # NoMaster
          /\ seal' = [seal EXCEPT ![i] = open] /\ live' = [live EXCEPT !.files = @ \cup {i}]
      BY <2>1 DEF WriteFile
    <2>3. live'.rows = live.rows /\ live'.files = live.files \cup {i}
      BY <1>0, <2>2 DEF Place
    <2>4. moved = {}
      BY <2>2 DEF Filling
    <2>5. FilesSafe'
      BY <2>2, <2>3, <2>4, BesideStays DEF FilesInv
    <2>6. i \notin kept /\ \A j \in kept' \cup {i} : seal'[j] # NoMaster
      BY <1>0, <2>2 DEF FilesInv
    <2> QED BY <2>2, <2>3, <2>5, <2>6 DEF FilesInv
  <1>2. CASE Record
    <2>1. /\ step = "record" /\ step' = "idle" /\ moved' = moved
          /\ UNCHANGED <<seal, purged, asides>>
      BY <1>2 DEF Record
    <2>2. moved = {}
      BY <2>1 DEF Filling
    <2>3. item \subseteq live.files /\ item \cap kept = {} /\ \A i \in kept \cup item : seal[i] # NoMaster
      BY <2>1 DEF FilesInv
    <2>4. \/ kept' = kept \cup item /\ live'.rows = live.rows \cup item /\ live'.files = live.files
          \/ kept' = kept /\ live'.rows = live.rows /\ live.files \ item \subseteq live'.files
      BY <1>0, <1>2 DEF Record, Place
    <2>5. FilesSafe'
      <3>1. \A i \in kept' \ purged' :
              \/ i \in kept \ purged /\ (i \in live.rows /\ i \in live.files => i \in live'.rows /\ i \in live'.files)
              \/ i \in live'.rows /\ i \in live'.files
        BY <2>1, <2>3, <2>4
      <3> QED BY <2>1, <2>2, <3>1, BesideStays DEF FilesInv
    <2>6. \A i \in kept' : seal'[i] # NoMaster
      BY <2>1, <2>3, <2>4
    <2> QED BY <2>1, <2>5, <2>6 DEF FilesInv
  <1>3. CASE \/ \E i \in Items : DeleteRow(i)
             \/ Unlink \/ PurgeExpired \/ SweepOrphans
    <2>1. /\ step \in {"idle", "unlink", "purge", "orphans"} /\ step' \in {"idle", "unlink", "orphans"}
          /\ UNCHANGED <<kept, seal, asides, moved>> /\ purged \subseteq purged'
          /\ step' = "unlink" => item' \subseteq purged'
      BY <1>3 DEF DeleteRow, Unlink, PurgeExpired, SweepOrphans
    <2>2. moved = {}
      BY <2>1 DEF Filling
    <2>3. step = "unlink" => item \subseteq purged
      BY DEF FilesInv
    <2>4. live.rows \subseteq live'.rows \cup purged' /\ live.files \cap live.rows \subseteq live'.files \cup purged'
      <3>1. CASE \E i \in Items : DeleteRow(i)
        BY <1>0, <3>1 DEF DeleteRow, Place
      <3>2. CASE Unlink
        BY <1>0, <2>3, <3>2 DEF Unlink, Place
      <3>3. CASE PurgeExpired
        BY <1>0, <3>3 DEF PurgeExpired, Place
      <3>4. CASE SweepOrphans
        BY <1>0, <3>4 DEF SweepOrphans, Place
      <3> QED BY <1>3, <3>1, <3>2, <3>3, <3>4
    <2>5. FilesSafe'
      BY <2>1, <2>2, <2>4, BesideStays DEF FilesInv
    <2> QED BY <2>1, <2>5 DEF FilesInv
  <1>4. ASSUME ~Record, ~Unlink, ~PurgeExpired, ~SweepOrphans,
               ~(\E i \in Items : WriteFile(i) \/ DeleteRow(i))
        PROVE  /\ step \notin AsideSteps /\ UNCHANGED <<kept, purged, seal, asides>>
               /\ live'.rows = live.rows /\ live'.files = live.files
               /\ step' \notin {"record", "unlink"} \cup CopyBackSteps \cup PutBackSteps
               /\ moved' \in {moved, {}}
    <2>1. CASE Ask
      BY <1>0, <1>4, <2>1 DEF Ask, CreateKey, Unlock, Hold, Close, ChangePassphrase, StartRestore,
         RefuseRestore, StartSetAside, Place
    <2>2. CASE Proceed
      BY <1>0, <1>4, <2>2 DEF Proceed, Install, Hold, InstallFails, Rotation, MakeCopy, Vacuum,
         CopyKeyOut, FillKeyOut, LinkOut, RotateFails, Prune, Sweep, Rewrap, Place
    <2>3. CASE DayPasses \/ Corrupt \/ LoseKey
      BY <1>0, <2>3 DEF DayPasses, Corrupt, LoseKey, Place
    <2> QED BY <2>1, <2>2, <2>3 DEF Next
  <1>5. CASE /\ ~Record /\ ~Unlink /\ ~PurgeExpired /\ ~SweepOrphans
             /\ ~(\E i \in Items : WriteFile(i) \/ DeleteRow(i))
    <2>1. moved = {} /\ moved' = {} /\ step \notin Apart
      BY <1>4, <1>5 DEF Filling
    <2>2. FilesSafe'
      BY <1>4, <1>5, <2>1, BesideStays DEF FilesInv
    <2> QED BY <1>4, <1>5, <2>1, <2>2 DEF FilesInv
  <1> QED BY <1>1, <1>2, <1>3, <1>5

(* What the files of the library were before the restore under way.         *)
FilesBefore == IF "files" \in moved THEN aside.files ELSE live.files

(* A restore under way keeps the records and the files of what it moved.    *)
LEMMA FilesMoveTogether ==
  ASSUME TogetherAssumption, SafeInv, FilesInv, Restore, step' \in RestoreSteps
  PROVE  /\ FilesBefore' = FilesBefore /\ Before' = Before
         /\ step' \in MoveSteps => "files" \notin moved'
         /\ step' \in CopyBackSteps => "files" \in moved'
         /\ step' \in PutBackSteps => moved' = {} \/ "files" \in moved'
         /\ UNCHANGED <<kept, purged, seal>> /\ asides \subseteq asides'
         /\ step \in RestoreSteps
  <1> USE DEF MoveSteps, CopyBackSteps, PutBackSteps, RestoreSteps, SetAsideSteps, AsideSteps
  <1> USE DEF job, history, disk, Stay
  <1>0. live \in Place /\ aside \in Place /\ moved \in SUBSET Names /\ Filling
    BY DEF SafeInv, TypeInv, TypeOK
  <1>1. step \in RestoreSteps /\ UNCHANGED <<kept, purged, seal, asides>>
    BY DEF Restore, MoveDb, MoveKey, MoveFiles, CopyDb, FillDb, CopyKey, FillKey, LinkBack,
       CopyBackFails, Abandon, Drop, Return, PutBackEnds
  <1>2. Before' = Before
    BY <1>1, BeforeNext DEF TogetherAssumption, Next, Proceed
  <1>3. step \notin Faults \cap {"moveKey", "moveFiles", "return"}
    BY DEF TogetherAssumption, Apart
  <1>4. CASE MoveDb \/ MoveKey
    <2>1. /\ live'.files = live.files /\ step' \in {"moveKey", "moveFiles", "putBack"}
          /\ "files" \notin moved /\ "files" \notin moved'
          /\ step' = "putBack" => moved' = {}
      BY <1>0, <1>3, <1>4 DEF MoveDb, MoveKey, Abandon, Filling, Place, WithDb
    <2> QED BY <1>1, <1>2, <2>1 DEF FilesBefore
  <1>5. CASE MoveFiles
    <2>1. aside' = [aside EXCEPT !.files = live.files] /\ moved' = moved \cup {"files"} /\ step' = "copyDb"
      BY <1>3, <1>5 DEF MoveFiles
    <2>2. aside'.files = live.files /\ "files" \notin moved
      BY <1>0, <1>5, <2>1 DEF MoveFiles, FilesInv, Place
    <2> QED BY <1>1, <1>2, <2>1, <2>2 DEF FilesBefore
  <1>6. CASE CopyDb \/ FillDb \/ CopyKey \/ FillKey \/ LinkBack \/ CopyBackFails
    <2>1. UNCHANGED <<aside, moved>> /\ "files" \in moved /\ step' \notin MoveSteps
      BY <1>6 DEF CopyDb, FillDb, CopyKey, FillKey, LinkBack, CopyBackFails, Abandon, FilesInv
    <2> QED BY <1>1, <1>2, <2>1 DEF FilesBefore
  <1>7. CASE Drop
    <2>1. UNCHANGED <<aside, moved>> /\ step' = "return" /\ "files" \in moved
      BY <1>7 DEF Drop, FilesInv
    <2> QED BY <1>1, <1>2, <2>1 DEF FilesBefore
  <1>8. CASE Return
    <2>1. "files" \in moved /\ step' = "putBack"
      BY <1>0, <1>8 DEF Return, Filling, FilesInv
    <2>2. \/ "files" \in moved' /\ aside'.files = aside.files
          \/ moved' = {} /\ live'.files = aside.files
      BY <1>0, <1>3, <1>8, <2>1 DEF Return, NextName, Names, Place, WithDb
    <2> QED BY <1>1, <1>2, <2>1, <2>2 DEF FilesBefore
  <1> QED BY <1>4, <1>5, <1>6, <1>7, <1>8 DEF Restore, PutBackEnds

(* The invariant is inductive: one case per way a step moves what it moves. *)
LEMMA FilesNext ==
  ASSUME TogetherAssumption
  PROVE  SafeInv /\ FilesInv /\ [Next]_vars => FilesInv'
  <1> SUFFICES ASSUME SafeInv, FilesInv, [Next]_vars PROVE FilesInv'
    OBVIOUS
  <1> USE DEF MoveSteps, CopyBackSteps, PutBackSteps, RestoreSteps, SetAsideSteps, AsideSteps
  <1> USE DEF job, history, disk, Stay
  <1>0. live \in Place /\ aside \in Place /\ TypeInv /\ Filling
    BY DEF SafeInv, TypeInv, TypeOK
  <1>1. CASE Restore /\ step' \in RestoreSteps
    <2>1. FilesSafe'
      <3>1. \A i \in kept \ purged :
              \/ \E p \in asides : i \in p.files
              \/ i \in FilesBefore /\ i \in Before.rows
        BY <1>0, <1>1, FilesMoveTogether DEF FilesInv, FilesSafe, FilesBefore
      <3>2. \A i \in kept' \ purged' :
              \/ \E p \in asides' : i \in p.files
              \/ i \in FilesBefore' /\ i \in Before'.rows
        BY <1>1, <3>1, FilesMoveTogether
      <3> QED BY <3>2 DEF FilesSafe, FilesBefore
    <2>2. step' \notin {"record", "unlink"}
      BY <1>1
    <2> QED BY <1>1, <2>1, <2>2, FilesMoveTogether DEF FilesInv
  <1>2. CASE Restore /\ step' \notin RestoreSteps
    <2>1. /\ step' = "idle" /\ moved' = {} /\ UNCHANGED <<kept, purged, seal, live>>
          /\ \/ step = "linkBack" /\ asides' = asides \cup {aside}
             \/ step = "putBack" /\ moved = {} /\ UNCHANGED asides
      BY <1>2 DEF Restore, MoveDb, MoveKey, MoveFiles, CopyDb, FillDb, CopyKey, FillKey, LinkBack,
         CopyBackFails, Abandon, Drop, Return, PutBackEnds
    <2>2. step = "linkBack" => "files" \in moved
      BY DEF FilesInv
    <2>3. FilesSafe'
      BY <2>1, <2>2 DEF FilesInv, FilesSafe, Before
    <2> QED BY <2>1, <2>3 DEF FilesInv
  <1>3. CASE SetAside
    <2>1. moved = {} /\ moved' = {} /\ UNCHANGED <<kept, purged, seal>> /\ step \in SetAsideSteps
      BY <1>0, <1>3 DEF SetAside, SetDb, SetKey, SetFiles, SetAsideFails, Filling
    <2>2. CASE SetDb \/ SetKey
      <3>1. live'.files = live.files /\ step' \in {"setKey", "setFiles"} /\ UNCHANGED asides
        BY <1>0, <2>2 DEF SetDb, SetKey, Place, WithDb
      <3>2. FilesSafe'
        BY <2>1, <3>1 DEF FilesInv, FilesSafe
      <3> QED BY <2>1, <3>1, <3>2 DEF FilesInv
    <2>3. CASE SetFiles
      <3>1. step' = "idle" /\ asides' = asides \cup {[aside EXCEPT !.files = live.files]}
        BY <2>3 DEF SetFiles, LeaveAside
      <3>2. [aside EXCEPT !.files = live.files].files = live.files
        BY <1>0, PlaceFields
      <3>3. FilesSafe'
        BY <2>1, <3>1, <3>2 DEF FilesInv, FilesSafe
      <3> QED BY <2>1, <3>1, <3>3 DEF FilesInv
    <2>4. CASE SetAsideFails
      <3>1. step \notin Apart /\ step' = "idle" /\ asides \subseteq asides' /\ UNCHANGED live
        BY <2>4 DEF SetAsideFails, LeaveAside, TogetherAssumption
      <3>2. FilesSafe'
        BY <2>1, <3>1, BesideStays DEF FilesInv
      <3> QED BY <2>1, <3>1, <3>2 DEF FilesInv
    <2> QED BY <1>3, <2>2, <2>3, <2>4 DEF SetAside
  <1>4. CASE Crash
    <2>1. /\ step \notin Apart /\ step' = "idle" /\ moved' = {} /\ asides \subseteq asides'
          /\ UNCHANGED <<live, kept, purged, seal>>
          /\ step \in AsideSteps => aside \in asides'
      BY <1>4 DEF Crash, TogetherAssumption
    <2>2. moved = {} \/ ("files" \in moved /\ step \in AsideSteps)
      BY <1>0, <2>1 DEF Filling, FilesInv, Apart
    <2>3. CASE moved = {}
      <3>1. FilesSafe'
        BY <2>1, <2>3, BesideStays DEF FilesInv
      <3> QED BY <2>1, <3>1 DEF FilesInv
    <2>4. CASE "files" \in moved /\ step \in AsideSteps
      <3>1. FilesSafe'
        BY <2>1, <2>4 DEF FilesInv, FilesSafe
      <3> QED BY <2>1, <3>1 DEF FilesInv
    <2> QED BY <2>2, <2>3, <2>4
  <1>5. CASE Next /\ ~Restore /\ ~SetAside /\ ~Crash
    BY <1>0, <1>5, FilesStayHome
  <1>6. CASE UNCHANGED vars
    BY <1>6 DEF vars, FilesInv, FilesSafe, Before
  <1> QED BY <1>1, <1>2, <1>3, <1>4, <1>5, <1>6

(* No attachment is lost, whatever is restored, set aside or interrupted,   *)
(* as long as nothing strikes between a database and its attachments.       *)
THEOREM FilesAreKept ==
  ASSUME TogetherAssumption
  PROVE  Spec => []FilesKept
  <1>1. Init => SafeInv /\ FilesInv
    BY SafeInit, FilesInit
  <1>2. SafeInv /\ FilesInv /\ [Next]_vars => (SafeInv /\ FilesInv)'
    BY SafeNext, FilesNext DEF TogetherAssumption
  <1>3. SafeInv /\ FilesInv => FilesKept
    BY DEF FilesInv, FilesSafe, FilesKept, StoredFiles, Stored
  <1> QED BY <1>1, <1>2, <1>3, PTL DEF Spec
===============================================================================
