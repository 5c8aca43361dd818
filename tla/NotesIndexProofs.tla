-------------------------- MODULE NotesIndexProofs --------------------------
(* Theorems about NotesIndex, for every set of notes, instants and texts,  *)
(* every size of a slice and any number of unlocks.  What a read does to   *)
(* the index is proved once, as lemmas about the index it is given, and    *)
(* the steps then differ only in the index they start from.                *)
EXTENDS NotesIndex, TLAPS

-----------------------------------------------------------------------------
(* What a read of the library makes of an index.                           *)

(* `r` is `ix`, or `ix` with the next notes of the library it is of; the   *)
(* end is reached only if they are all that was left.                      *)
ReadOf(ix, r) ==
  \/ r = ix
  \/ /\ ix.library = open
     /\ \E s \in Prefixes(ix), w \in BOOLEAN : \E c \in Cursors(ix, s) :
          r = With(ix, s, c, w) /\ (w => s = Rest(ix))

(* An index is typed, and its facets are those of its entries.             *)
Typed(ix) == ix \in Index /\ (ix.counted # Uncounted => ix.counted = ix.entries)

(* An index of the open library holds no stale entry, and skips no note,   *)
(* but for those whose write was not answered.                             *)
Sound(ix) ==
  ix.library = open =>
    /\ \A n \in Notes \ unanswered : ix.entries[n] # Gone => ix.entries[n] = rows[n]
    /\ \A n \in Notes \ unanswered :
         rows[n] # Gone /\ ix.entries[n] = Gone => ~ix.complete /\ Beyond(n, ix.next)

(* The fields of an index.                                                 *)
LEMMA IndexFields ==
  ASSUME NEW ix \in Index
  PROVE  /\ ix.library \in Numbers /\ ix.entries \in Rows
         /\ ix.next \in Cursor \cup {NoCursor}
         /\ ix.complete \in BOOLEAN /\ ix.filling \in BOOLEAN
         /\ ix.counted \in Rows \cup {Uncounted}
  BY DEF Index

(* An index with nothing in is an index, ...                               *)
LEMMA BlankIsTyped ==
  /\ \A lib \in Numbers : Typed(Blank(lib))
  /\ \A lib : /\ Blank(lib).library = lib /\ Blank(lib).entries = NoRows
               /\ Blank(lib).next = NoCursor
               /\ Blank(lib).filling = FALSE /\ Blank(lib).complete = FALSE
  <1>1. NoRows \in Rows
    BY DEF NoRows, Rows
  <1> QED BY <1>1 DEF Typed, Index, Blank

(* ... of no library.                                                      *)
LEMMA ClearedIsTyped ==
  /\ Typed(Cleared) /\ Cleared.library = None /\ Cleared.entries = NoRows
  /\ Cleared.filling = FALSE /\ Cleared.complete = FALSE /\ Cleared.next = NoCursor
  <1>1. None \in Numbers
    BY SliceAssumption DEF None, Numbers
  <1> QED BY <1>1, BlankIsTyped DEF Cleared

(* What With changes of an index, and what it leaves alone.                *)
LEMMA WithFields ==
  ASSUME NEW ix \in Index, NEW s, NEW c, NEW w \in BOOLEAN
  PROVE  LET r == With(ix, s, c, w) IN
         /\ r.library = ix.library /\ r.next = c /\ r.complete = w
         /\ r.filling = (ix.filling /\ ~w) /\ r.counted = Uncounted
         /\ r.entries = [n \in Notes |-> IF n \in s THEN rows[n] ELSE ix.entries[n]]
  BY DEF With, Index

(* A cursor on one of the notes read is where the notes beyond all of them *)
(* are.                                                                    *)
LEMMA CursorsAreBefore ==
  ASSUME TypeOK, NEW ix \in Index, NEW s \in Prefixes(ix), NEW c \in Cursors(ix, s)
  PROVE  /\ c \in Cursor \cup {NoCursor}
         /\ \A n \in Rest(ix) \ s : Beyond(n, c)
  <1>1. CASE s = {}
    BY <1>1, IndexFields DEF Cursors, Rest
  <1>2. CASE s # {}
    <2>1. PICK l \in s : c = [at |-> rows[l].at, id |-> l]
      BY <1>2 DEF Cursors
    <2>2. l \in Notes /\ rows[l] \in Row
      BY DEF Prefixes, Rest, TypeOK, Rows
    <2>3. c \in Cursor
      BY <2>1, <2>2 DEF Cursor, Row
    <2>4. ASSUME NEW n \in Rest(ix) \ s
          PROVE  Beyond(n, c)
      <3>1. Newer(l, n)
        BY DEF Prefixes
      <3>2. n \in Notes /\ rows[n] \in Row
        BY DEF Rest, TypeOK, Rows
      <3>3. rows[l].at \in Nat /\ rows[n].at \in Nat /\ l \in Nat /\ n \in Nat
        BY <2>2, <3>2, IdAssumption DEF Row
      <3> QED BY <2>1, <3>1, <3>3 DEF Newer, Beyond
    <2> QED BY <2>3, <2>4
  <1> QED BY <1>1, <1>2

(* All that is left is a beginning of it.                                  *)
LEMMA RestIsAPrefix ==
  ASSUME NEW ix
  PROVE  Rest(ix) \in Prefixes(ix)
  BY DEF Prefixes

(* Starting an index on the open library.                                  *)
LEMMA Starts ==
  ASSUME TypeOK, NEW ix, Typed(ix), open # None
  PROVE  /\ Typed(Started(ix, open)) /\ Started(ix, open).library = open
         /\ Sound(ix) => Sound(Started(ix, open))
  <1>1. CASE ix.library = open
    BY <1>1 DEF Started
  <1>2. CASE ix.library # open
    <2>1. Started(ix, open) = Blank(open)
      BY <1>2 DEF Started
    <2>2. Typed(Started(ix, open)) /\ open \in Numbers
      BY <2>1, BlankIsTyped DEF TypeOK
    <2>3. /\ Started(ix, open).library = open /\ Started(ix, open).entries = NoRows
          /\ ~Started(ix, open).complete /\ Started(ix, open).next = NoCursor
      BY <2>1, BlankIsTyped
    <2> QED BY <2>2, <2>3 DEF Sound, NoRows, Beyond
  <1> QED BY <1>1, <1>2

(* A read leaves an index typed, and as sound as it was.                   *)
LEMMA ReadKeeps ==
  ASSUME TypeOK, NEW ix, Typed(ix), NEW r, ReadOf(ix, r)
  PROVE  /\ Typed(r) /\ r.library = ix.library
         /\ Sound(ix) => Sound(r)
         /\ r.filling => ix.filling
         /\ ix.library # open => r = ix
  <1>1. CASE r = ix
    BY <1>1
  <1>2. CASE r # ix
    <2>1. PICK s \in Prefixes(ix), w \in BOOLEAN : \E c \in Cursors(ix, s) :
                 r = With(ix, s, c, w) /\ (w => s = Rest(ix))
      BY <1>2 DEF ReadOf
    <2>2. PICK c \in Cursors(ix, s) : r = With(ix, s, c, w) /\ (w => s = Rest(ix))
      BY <2>1
    <2>3. ix \in Index /\ ix.library = open
      BY <1>2 DEF Typed, ReadOf
    <2>4. /\ r.library = ix.library /\ r.next = c /\ r.complete = w
          /\ r.filling = (ix.filling /\ ~w) /\ r.counted = Uncounted
          /\ r.entries = [n \in Notes |-> IF n \in s THEN rows[n] ELSE ix.entries[n]]
      BY <2>2, <2>3, WithFields
    <2>5. s \subseteq Notes /\ \A n \in s : rows[n] # Gone
      BY DEF Prefixes, Rest
    <2>6. c \in Cursor \cup {NoCursor} /\ \A n \in Rest(ix) \ s : Beyond(n, c)
      BY <2>3, CursorsAreBefore
    <2>7. Typed(r)
      <3>1. r.entries \in Rows
        BY <2>3, <2>4, IndexFields DEF TypeOK, Rows
      <3>2. r = [library |-> r.library, entries |-> r.entries, next |-> r.next,
                 complete |-> r.complete, filling |-> r.filling, counted |-> r.counted]
        BY <2>2, <2>3 DEF With, Index
      <3>3. /\ r.library \in Numbers /\ r.next \in Cursor \cup {NoCursor}
            /\ r.complete \in BOOLEAN /\ r.filling \in BOOLEAN
            /\ r.counted \in Rows \cup {Uncounted}
        BY <2>3, <2>4, <2>6, IndexFields
      <3> QED BY <2>4, <3>1, <3>2, <3>3 DEF Typed, Index
    <2>8. ASSUME Sound(ix)
          PROVE  Sound(r)
      <3>1. /\ \A n \in Notes \ unanswered : ix.entries[n] # Gone => ix.entries[n] = rows[n]
            /\ \A n \in Notes \ unanswered :
                 rows[n] # Gone /\ ix.entries[n] = Gone
                   => ~ix.complete /\ Beyond(n, ix.next)
        BY <2>3, <2>8 DEF Sound
      <3>2. ASSUME NEW n \in Notes \ unanswered, r.entries[n] # Gone
            PROVE  r.entries[n] = rows[n]
        BY <2>4, <3>1, <3>2
      <3>3. ASSUME NEW n \in Notes \ unanswered, rows[n] # Gone, r.entries[n] = Gone
            PROVE  ~r.complete /\ Beyond(n, r.next)
        <4>1. n \notin s /\ ix.entries[n] = Gone
          BY <2>4, <2>5, <3>3
        <4>2. n \in Rest(ix) \ s
          BY <3>1, <3>3, <4>1 DEF Rest
        <4> QED BY <2>2, <2>4, <2>6, <4>2
      <3> QED BY <3>2, <3>3 DEF Sound
    <2> QED BY <2>3, <2>4, <2>7, <2>8
  <1> QED BY <1>1, <1>2

(* next_slice reads.                                                       *)
LEMMA NextSliceReads ==
  ASSUME NEW ix, NEW r \in NextSlice(ix)
  PROVE  ReadOf(ix, r)
  <1>1. CASE ix.complete \/ ix.library # open
    BY <1>1 DEF NextSlice, ReadOf
  <1>2. CASE ~(ix.complete \/ ix.library # open)
    <2>1. PICK s \in Slices(ix) : \E c \in Cursors(ix, s) :
                 r = With(ix, s, c, Cardinality(s) < Slice)
      BY <1>2 DEF NextSlice
    <2> DEFINE w == Cardinality(s) < Slice
    <2>2. s \in Prefixes(ix) /\ w \in BOOLEAN
      BY DEF Slices
    <2>3. w => s = Rest(ix)
      <3>1. CASE Cardinality(s) = Slice
        BY <3>1, SliceAssumption
      <3>2. CASE Cardinality(s) # Slice
        BY <3>2 DEF Slices
      <3> QED BY <3>1, <3>2
    <2>4. \E c \in Cursors(ix, s) : r = With(ix, s, c, w) /\ (w => s = Rest(ix))
      BY <2>1, <2>3
    <2> HIDE DEF w
    <2> QED BY <1>2, <2>2, <2>4 DEF ReadOf
  <1> QED BY <1>1, <1>2

(* ready reads, whether it reaches the end or an error.                    *)
LEMMA ReadyReads ==
  ASSUME NEW ix, ix.library = open, NEW r, r \in Whole(ix) \/ r \in CutShort(ix)
  PROVE  ReadOf(ix, r)
  <1>1. CASE r = ix
    BY <1>1 DEF ReadOf
  <1>2. CASE r # ix /\ r \in Whole(ix)
    <2>1. \E c \in Cursors(ix, Rest(ix)) : r = With(ix, Rest(ix), c, TRUE)
      BY <1>2 DEF Whole
    <2> QED BY <2>1, RestIsAPrefix DEF ReadOf
  <1>3. CASE r # ix /\ r \in CutShort(ix)
    <2>1. PICK s \in Prefixes(ix) : \E c \in Cursors(ix, s) : r = With(ix, s, c, FALSE)
      BY <1>3 DEF CutShort
    <2> QED BY <2>1 DEF ReadOf
  <1> QED BY <1>1, <1>2, <1>3

(* A list reads an index, or one just started.                             *)
LEMMA EnoughToListReads ==
  ASSUME TypeOK, open # None, NEW r \in EnoughToList(index), Typed(index)
  PROVE  ReadOf(index, r) \/ ReadOf(Started(index, open), r)
  <1>1. CASE ~index.filling
    BY <1>1, Starts, ReadyReads DEF EnoughToList
  <1>2. CASE index.filling /\ index.entries = NoRows
    BY <1>2, NextSliceReads DEF EnoughToList
  <1>3. CASE index.filling /\ index.entries # NoRows
    BY <1>3 DEF EnoughToList, ReadOf
  <1> QED BY <1>1, <1>2, <1>3

(* Counting the facets touches nothing else.                               *)
LEMMA CountedKeeps ==
  ASSUME NEW ix, Typed(ix)
  PROVE  /\ Typed(Counted(ix))
         /\ Counted(ix).library = ix.library /\ Counted(ix).filling = ix.filling
         /\ Counted(ix).entries = ix.entries /\ Counted(ix).complete = ix.complete
         /\ Counted(ix).next = ix.next
         /\ Sound(ix) => Sound(Counted(ix))
  <1>1. /\ Typed(Counted(ix))
        /\ Counted(ix).library = ix.library /\ Counted(ix).filling = ix.filling
        /\ Counted(ix).entries = ix.entries /\ Counted(ix).complete = ix.complete
        /\ Counted(ix).next = ix.next
    BY DEF Typed, Counted, Index
  <1> QED BY <1>1 DEF Sound

-----------------------------------------------------------------------------
(* Whatever fails.                                                         *)

(* An index that is not of the open library holds nothing.                 *)
HoldsOrCleared == index.library # open \/ open = None => index = Cleared

Shape == TypeOK /\ Typed(index) /\ HoldsOrCleared /\ PartOnlyWhileFilling

(* What a step of the jobs that only read leaves.                          *)
LEMMA ReadingJobs ==
  ASSUME Shape, open # None, UNCHANGED <<open, opened, rows, unanswered>>,
         NEW ix \in {index, Started(index, open)}, ReadOf(ix, index')
  PROVE  /\ Typed(index') /\ index'.library = ix.library
         /\ index'.filling => index.filling
         /\ ix.library # open => index' = Cleared
         /\ Sound(index) => Sound(index')
  <1>1. TypeOK /\ Typed(ix) /\ (Sound(index) => Sound(ix))
    BY Starts DEF Shape
  <1>2. ix.filling => index.filling
    BY BlankIsTyped DEF Started
  <1>3. ix.library # open => ix = Cleared
    BY Starts DEF Shape, HoldsOrCleared
  <1> QED BY <1>1, <1>2, <1>3, ReadKeeps

(* The first state has the shape.                                          *)
LEMMA InitShape == Init => Shape
  <1> SUFFICES ASSUME Init PROVE Shape
    OBVIOUS
  <1>1. TypeOK
    BY ClearedIsTyped, SliceAssumption
    DEF Init, TypeOK, Typed, Numbers, None, Rows, NoRows, Stages, Alive
  <1>2. Typed(index) /\ HoldsOrCleared /\ PartOnlyWhileFilling
    BY ClearedIsTyped DEF Init, HoldsOrCleared, PartOnlyWhileFilling
  <1> QED BY <1>1, <1>2 DEF Shape

(* Nothing written, nothing closed: what changes is the index and a fill.  *)
LEMMA ReadsKeepShape ==
  ASSUME Shape, open # None, UNCHANGED <<open, opened, rows, unanswered>>,
         fills' \in [Fills -> Stages],
         Typed(index'), index'.library # open => index' = Cleared,
         index'.filling /\ ~index'.complete => \E f \in Fills : fills'[f] \in Alive
  PROVE  Shape'
  <1>1. TypeOK'
    BY DEF Shape, TypeOK, Typed
  <1>2. Typed(index)' /\ HoldsOrCleared' /\ PartOnlyWhileFilling'
    BY DEF Typed, HoldsOrCleared, PartOnlyWhileFilling
  <1> QED BY <1>1, <1>2 DEF Shape

(* An index that is not filling, or whole, is read without a fill; one     *)
(* read further was being filled already.                                  *)
LEMMA AskedReadsKeepShape ==
  ASSUME Shape, open # None, UNCHANGED <<open, opened, rows, fills, unanswered>>,
         Typed(index'), index'.library # open => index' = Cleared,
         index'.filling /\ ~index'.complete => index.filling /\ ~index.complete
  PROVE  Shape'
  BY ReadsKeepShape DEF Shape, PartOnlyWhileFilling, TypeOK

(* What is complete, a read leaves complete.                               *)
LEMMA ReadsNeverUnread ==
  ASSUME NEW ix \in Index, NEW r
  PROVE  /\ r \in NextSlice(ix) /\ ix.complete => r = ix
         /\ r \in Whole(ix) => r.complete
         /\ r \in CutShort(ix) => ~ix.complete
  <1>1. ASSUME r \in Whole(ix), ~ix.complete
        PROVE  r.complete
    <2>1. PICK c \in Cursors(ix, Rest(ix)) : r = With(ix, Rest(ix), c, TRUE)
      BY <1>1 DEF Whole
    <2> QED BY <2>1, WithFields
  <1> QED BY <1>1 DEF NextSlice, Whole, CutShort

(* No step breaks the shape.                                               *)
LEMMA NextShape == Shape /\ [Next]_vars => Shape'
  <1> SUFFICES ASSUME Shape, [Next]_vars PROVE Shape'
    OBVIOUS
  <1> USE DEF Fills, Alive, Stages
  <1>0. /\ TypeOK /\ Typed(index) /\ index \in Index
        /\ open \in Numbers /\ opened \in Numbers /\ rows \in Rows
        /\ fills \in [Fills -> Stages] /\ unanswered \subseteq Notes
        /\ index.library # open \/ open = None => index = Cleared
        /\ index.filling /\ ~index.complete => \E f \in Fills : fills[f] \in Alive
    BY DEF Shape, TypeOK, HoldsOrCleared, PartOnlyWhileFilling
  <1>1. ASSUME NEW r \in Rows, Unlock(r)
        PROVE  Shape'
    <2>1. /\ opened' = opened + 1 /\ opened' \in Fills
          /\ opened' \in Numbers /\ open' \in Numbers /\ open' # None /\ rows' \in Rows
      BY <1>0, <1>1, SliceAssumption DEF Unlock, Install, Numbers, None
    <2>2. open # None => open' = open
      BY <1>1 DEF Unlock, Install
    <2> DEFINE ix == Started(index, open')
    <2>3. ix = IF index.library = open' THEN index ELSE Blank(open')
      BY DEF Started
    <2>4. Typed(ix) /\ ix.library = open'
      BY <1>0, <2>1, <2>3, BlankIsTyped
    <2> HIDE DEF ix
    <2>5. index' = [ix EXCEPT !.filling = TRUE]
      BY <1>1 DEF Unlock, ix
    <2>6. Typed(index)' /\ index'.library = open' /\ index' \in Index
      BY <2>4, <2>5 DEF Typed, Index
    <2>7. /\ fills' \in [Fills -> Stages] /\ fills'[opened'] \in Alive
          /\ UNCHANGED unanswered
      BY <1>0, <1>1, <2>1 DEF Unlock
    <2>8. TypeOK'
      BY <1>0, <2>1, <2>6, <2>7 DEF TypeOK
    <2>9. HoldsOrCleared' /\ PartOnlyWhileFilling'
      BY <2>1, <2>6, <2>7 DEF HoldsOrCleared, PartOnlyWhileFilling
    <2> QED BY <2>6, <2>8, <2>9 DEF Shape
  <1>2. ASSUME NEW r \in Rows, UnlockUnannounced(r)
        PROVE  Shape'
    <2>1. /\ opened' \in Numbers /\ open' \in Numbers /\ rows' \in Rows
          /\ index' = Cleared /\ UNCHANGED <<fills, unanswered>>
      BY <1>0, <1>2, SliceAssumption DEF UnlockUnannounced, Install, Numbers, None
    <2> QED BY <1>0, <2>1, ClearedIsTyped
            DEF Shape, TypeOK, Typed, HoldsOrCleared, PartOnlyWhileFilling
  <1>3. CASE Close
    <2>1. /\ index' = Cleared /\ open' \in Numbers /\ rows' \in Rows
          /\ UNCHANGED <<opened, fills>> /\ unanswered' = {}
      BY <1>3, ClearedIsTyped DEF Close, Typed, Index, Cleared
    <2> QED BY <1>0, <2>1, ClearedIsTyped
            DEF Shape, TypeOK, Typed, HoldsOrCleared, PartOnlyWhileFilling
  <1>4. ASSUME NEW f \in Fills, FillStart(f)
        PROVE  Shape'
    <2>1. /\ UNCHANGED <<open, opened, rows, unanswered>> /\ open # None
          /\ index' = Started(index, open) /\ ReadOf(Started(index, open), index')
          /\ fills' = [fills EXCEPT ![f] = "slice"]
      BY <1>4 DEF FillStart, Goes, ReadOf
    <2>2. fills' \in [Fills -> Stages] /\ fills'[f] \in Alive
      BY <1>0, <2>1
    <2> QED BY <1>0, <2>1, <2>2, ReadingJobs, ReadsKeepShape, Starts
  <1>5. ASSUME NEW f \in Fills, FillSlice(f)
        PROVE  Shape'
    <2>1. /\ UNCHANGED <<open, opened, rows, unanswered>> /\ open # None
          /\ index' \in NextSlice(index) /\ ReadOf(index, index')
          /\ fills' = [fills EXCEPT ![f] =
                IF ReadsOn THEN "tell" ELSE IF index'.complete THEN "ready" ELSE "done"]
         
      BY <1>5, NextSliceReads DEF FillSlice, Goes
    <2>2. fills' \in [Fills -> Stages]
      BY <1>0, <2>1
    <2>3. Typed(index') /\ index'.library = index.library
          /\ (index.library # open => index' = Cleared)
      BY <2>1, ReadingJobs
    <2>4. index'.filling /\ ~index'.complete => \E g \in Fills : fills'[g] \in Alive
      <3>1. CASE ReadsOn
        BY <1>0, <2>1, <3>1
      <3>2. CASE ~ReadsOn
        <4>1. index'.complete \/ index.complete \/ index.library # open
          BY <3>2 DEF ReadsOn
        <4>2. index.complete => index'.complete
          BY <1>0, <2>1, ReadsNeverUnread
        <4> QED BY <2>3, <4>1, <4>2, ClearedIsTyped
      <3> QED BY <3>1, <3>2
    <2> QED BY <1>0, <2>1, <2>2, <2>3, <2>4, ReadsKeepShape
  <1>6. ASSUME NEW f \in Fills,
               FillStartFails(f) \/ FillSliceFails(f) \/ FillMapLessFails(f)
        PROVE  Shape'
    <2>1. /\ UNCHANGED <<open, opened, rows, unanswered>> /\ open # None
          /\ fills' = [fills EXCEPT ![f] = "failed"]
      BY <1>6 DEF FillStartFails, FillSliceFails, FillMapLessFails, Goes
    <2>2. fills' \in [Fills -> Stages] /\ fills'[f] \in Alive
      BY <1>0, <2>1
    <2>3. Typed(index') /\ (index'.library # open => index' = Cleared)
      <3>1. CASE index' \in {index, Cleared}
        BY <1>0, <3>1, ClearedIsTyped DEF Typed
      <3>2. CASE index' \in NextSlice(index)
        <4>1. index'.library = index.library
          BY <1>0, <3>2, NextSliceReads, ReadKeeps
        <4> QED BY <2>1, <3>2, <4>1, NextSliceReads, ReadingJobs
      <3> QED BY <1>6, <3>1, <3>2 DEF FillStartFails, FillSliceFails, FillMapLessFails
    <2> QED BY <1>0, <2>1, <2>2, <2>3, ReadsKeepShape
  <1>7. ASSUME NEW f \in Fills, FillLocked(f) \/ Tell(f)
        PROVE  Shape'
    <2>1. UNCHANGED <<open, opened, rows, index, unanswered>>
      BY <1>7 DEF FillLocked, Tell, Goes
    <2>2. \E stage \in Stages :
            /\ fills' = [fills EXCEPT ![f] = stage]
            /\ fills[f] \in Alive => stage \in Alive
      BY <1>7 DEF FillLocked, Tell, Goes, At
    <2>3. fills' \in [Fills -> Stages] /\ \A g \in Fills : fills[g] \in Alive => fills'[g] \in Alive
      BY <1>0, <2>2
    <2> QED BY <1>0, <2>1, <2>3 DEF Shape, TypeOK, Typed, HoldsOrCleared, PartOnlyWhileFilling
  <1>8. ASSUME NEW f \in Fills, GiveUp(f)
        PROVE  Shape'
    <2>1. /\ UNCHANGED <<open, opened, rows, unanswered>>
          /\ index' = [index EXCEPT !.filling = FALSE]
          /\ fills' = [fills EXCEPT ![f] = "done"]
      BY <1>8 DEF GiveUp, Goes
    <2>2. /\ Typed(index') /\ ~index'.filling /\ index'.library = index.library
          /\ ~index.filling => index' = index
      <3>1. /\ index' \in Index /\ ~index'.filling
            /\ index'.library = index.library /\ index'.entries = index.entries
            /\ index'.next = index.next /\ index'.counted = index.counted
            /\ index'.complete = index.complete
        BY <1>0, <2>1 DEF Typed, Index
      <3>2. Typed(index')
        BY <1>0, <3>1 DEF Typed
      <3>3. ASSUME ~index.filling PROVE index' = index
        BY <1>0, <2>1, <3>3 DEF Typed, Index
      <3> QED BY <3>1, <3>2, <3>3
    <2>3. fills' \in [Fills -> Stages]
      BY <1>0, <2>1
    <2> QED BY <1>0, <2>1, <2>2, <2>3, ClearedIsTyped
            DEF Shape, TypeOK, Typed, HoldsOrCleared, PartOnlyWhileFilling
  <1>9. ASSUME NEW changed \in SUBSET Notes, NEW new \in [changed -> Row \cup {Gone}],
               \/ Write(changed, new) \/ WriteClearing(changed, new)
               \/ WriteUnanswered(changed, new)
        PROVE  Shape'
    <2>1. /\ UNCHANGED <<open, opened, fills>> /\ open # None
          /\ unanswered' \in SUBSET (unanswered \cup changed)
          /\ rows' = [n \in Notes |-> IF n \in changed THEN new[n] ELSE rows[n]]
      BY <1>9 DEF Write, WriteClearing, WriteUnanswered, Commit
    <2>2. rows' \in Rows
      BY <1>0, <2>1 DEF Rows
    <2>3. /\ Typed(index') /\ (index'.library # open => index' = Cleared)
          /\ index'.filling /\ ~index'.complete => index.filling /\ ~index.complete
      <3>1. CASE index' \in {index, Cleared}
        BY <1>0, <3>1, ClearedIsTyped
      <3>2. CASE index.library = open /\ index' = Refreshed(changed, new)
        <4>1. /\ index' \in Index /\ index'.library = index.library
              /\ index'.filling = index.filling /\ index'.complete = index.complete
              /\ index'.counted = IF changed = {} THEN index.counted ELSE Uncounted
              /\ index'.entries =
                   [n \in Notes |-> IF n \in changed THEN new[n] ELSE index.entries[n]]
          BY <1>0, <3>2 DEF Refreshed, Index, Rows
        <4>2. changed = {} => index'.entries = index.entries
          BY <1>0, <4>1, IndexFields DEF Rows
        <4> QED BY <1>0, <3>2, <4>1, <4>2 DEF Typed
      <3> QED BY <1>9, <3>1, <3>2 DEF Write, WriteClearing, WriteUnanswered
    <2> QED BY <1>0, <2>1, <2>2, <2>3
            DEF Shape, TypeOK, Typed, HoldsOrCleared, PartOnlyWhileFilling
  <1>10. CASE List \/ Board
    <2>1. PICK r : /\ index' = Counted(r)
                   /\ r \in EnoughToList(index) \/ r \in Whole(Started(index, open))
      BY <1>10 DEF List, Board
    <2>2. open # None /\ UNCHANGED <<open, opened, rows, fills, unanswered>>
      BY <1>10 DEF List, Board
    <2>3. ReadOf(index, r) \/ ReadOf(Started(index, open), r)
      BY <1>0, <2>1, <2>2, EnoughToListReads, ReadyReads, Starts
    <2>4. /\ Typed(r) /\ (r.library # open => r = Cleared)
          /\ r.filling => index.filling
      <3>1. CASE ReadOf(index, r)
        BY <1>0, <2>2, <3>1, ReadKeeps
      <3>2. CASE ReadOf(Started(index, open), r)
        <4>1. /\ Typed(Started(index, open)) /\ Started(index, open).library = open
              /\ Started(index, open).filling => index.filling
          BY <1>0, <2>2, Starts, BlankIsTyped DEF Started
        <4> QED BY <1>0, <3>2, <4>1, ReadKeeps
      <3> QED BY <2>3, <3>1, <3>2
    <2>5. r.filling /\ ~r.complete => index.filling /\ ~index.complete
      <3>1. CASE r \in Whole(Started(index, open))
        BY <1>0, <2>2, <3>1, Starts, ReadsNeverUnread DEF Typed
      <3>2. CASE r \in EnoughToList(index) /\ index.filling
        BY <1>0, <3>2, ReadsNeverUnread DEF EnoughToList
      <3> QED BY <2>1, <2>4, <3>1, <3>2
    <2>6. /\ Typed(index') /\ (index'.library # open => index' = Cleared)
          /\ index'.filling /\ ~index'.complete => index.filling /\ ~index.complete
      <3>1. /\ Typed(Counted(r)) /\ Counted(r).library = r.library
            /\ Counted(r).filling = r.filling /\ Counted(r).complete = r.complete
        BY <2>4, CountedKeeps
      <3>2. r.library = open
        <4>1. r \in EnoughToList(index) /\ index.filling => r.library = open
          BY <1>0, <2>2, <2>4, ClearedIsTyped, NextSliceReads, ReadKeeps DEF EnoughToList
        <4>2. Started(index, open).library = open /\ Typed(Started(index, open))
          BY <1>0, <2>2, Starts
        <4>3. r \in Whole(Started(index, open)) => r.library = open
          BY <1>0, <4>2, ReadyReads, ReadKeeps
        <4> QED BY <2>1, <4>1, <4>3 DEF EnoughToList
      <3> QED BY <2>1, <2>5, <3>1, <3>2
    <2> QED BY <2>2, <2>6, AskedReadsKeepShape
  <1>11. CASE ReadFails
    <2>1. open # None /\ UNCHANGED <<open, opened, rows, fills, unanswered>>
      BY <1>11 DEF ReadFails
    <2>2. CASE index' = Cleared
      BY <2>1, <2>2, ClearedIsTyped, AskedReadsKeepShape
    <2>3. CASE index' \in CutShort(Started(index, open))
      <3>1. ReadOf(Started(index, open), index')
        BY <1>0, <2>1, <2>3, Starts, ReadyReads
      <3>2. /\ Typed(index') /\ (index'.library # open => index' = Cleared)
            /\ index'.filling => index.filling
        <4>1. /\ Typed(Started(index, open)) /\ Started(index, open).library = open
              /\ Started(index, open).filling => index.filling
          BY <1>0, <2>1, Starts, BlankIsTyped DEF Started
        <4> QED BY <1>0, <3>1, <4>1, ReadKeeps
      <3>3. index'.filling => ~index.complete
        BY <1>0, <2>1, <2>3, Starts, ReadsNeverUnread, <3>2, ClearedIsTyped DEF Started, Typed
      <3> QED BY <2>1, <3>2, <3>3, AskedReadsKeepShape
    <2> QED BY <1>11, <2>2, <2>3 DEF ReadFails
  <1>12. CASE UNCHANGED vars
    BY <1>0, <1>12 DEF vars, Shape, TypeOK, Typed, HoldsOrCleared, PartOnlyWhileFilling
  <1> QED BY <1>1, <1>2, <1>3, <1>4, <1>5, <1>6, <1>7, <1>8, <1>9, <1>10, <1>11, <1>12
          DEF Next, FillStep

(* The shape is kept.                                                      *)
LEMMA ShapeIsKept == Spec => []Shape
  <1> QED BY InitShape, NextShape, PTL DEF Spec

(* Every variable keeps its type: a library number drawn at an unlock, an  *)
(* index whatever fill, read or write last touched it.                     *)
THEOREM TypeCorrect == Spec => []TypeOK
  <1>1. Shape => TypeOK
    BY DEF Shape
  <1> QED BY <1>1, ShapeIsKept, PTL

(* No decrypted note outlives its library, whatever SQLite fails and       *)
(* however many fills of earlier unlocks still run.                        *)
THEOREM LibrariesAreLetGo == Spec => []NothingOutlivesItsLibrary
  <1>1. Shape => NothingOutlivesItsLibrary
    BY DEF Shape, HoldsOrCleared, NothingOutlivesItsLibrary
  <1> QED BY <1>1, ShapeIsKept, PTL

(* The facets answered are always those of the entries there are.          *)
THEOREM FacetsAreCurrent == Spec => []FacetsCurrent
  <1>1. Shape => FacetsCurrent
    BY DEF Shape, Typed, FacetsCurrent
  <1> QED BY <1>1, ShapeIsKept, PTL

(* Lists answer from part of the index only while a fill is under way:     *)
(* `filling` is never left set with nobody to read the rest.               *)
THEOREM PartsAreFilled == Spec => []PartOnlyWhileFilling
  <1>1. Shape => PartOnlyWhileFilling
    BY DEF Shape
  <1> QED BY <1>1, ShapeIsKept, PTL

-----------------------------------------------------------------------------
(* What the index holds of the library.                                    *)

(* An index of no library has nothing to be wrong about.                   *)
LEMMA ClearedIsSound == Sound(Cleared)
  BY ClearedIsTyped DEF Sound, NoRows, Beyond

(* The first index is sound.                                               *)
LEMMA InitSound == Init => Sound(index)
  BY ClearedIsSound, ClearedIsTyped DEF Init, Sound, NoRows, Beyond

(* An index that is as sound of what the library was is sound of what it   *)
(* is, when nothing of it was written.                                     *)
LEMMA SoundAgain ==
  ASSUME UNCHANGED <<open, rows, unanswered>>, Sound(index')
  PROVE  Sound(index)'
  BY DEF Sound, Beyond

(* What was cleared is sound in the next state as well.                    *)
LEMMA ClearedAgain ==
  ASSUME index' = Cleared
  PROVE  Sound(index)'
  BY ClearedIsTyped DEF Sound, NoRows, Beyond

(* No step leaves a stale entry or skips a note, but for what it leaves     *)
(* unanswered.                                                             *)
LEMMA NextSound ==
  Shape /\ Sound(index) /\ [Next]_vars => Sound(index)'
  <1> SUFFICES ASSUME Shape, Sound(index), [Next]_vars PROVE Sound(index)'
    OBVIOUS
  <1>0. /\ TypeOK /\ Typed(index) /\ index \in Index /\ rows \in Rows
        /\ index.library # open \/ open = None => index = Cleared
    BY DEF Shape, TypeOK, HoldsOrCleared
  <1>1. ASSUME NEW r \in Rows, Unlock(r)
        PROVE  Sound(index)'
    <2>1. /\ open' # None /\ open' \in Nat
          /\ index' = [Started(index, open') EXCEPT !.filling = TRUE]
      BY <1>0, <1>1, SliceAssumption DEF Unlock, Install, TypeOK, Numbers, None
    <2>2. CASE index.library = open'
      <3>1. index.library # None
        BY <2>1, <2>2
      <3>2. open # None /\ index.library = open
        BY <1>0, <3>1, ClearedIsTyped
      <3>3. UNCHANGED <<open, rows, unanswered>>
        BY <1>1, <3>2 DEF Unlock, Install
      <3>4. index' = [index EXCEPT !.filling = TRUE]
        BY <2>1, <2>2 DEF Started
      <3>5. /\ index'.library = index.library /\ index'.entries = index.entries
            /\ index'.complete = index.complete /\ index'.next = index.next
        BY <1>0, <3>4 DEF Index
      <3> QED BY <3>3, <3>5, SoundAgain DEF Sound
    <2>3. CASE index.library # open'
      <3>1. index' = [Blank(open') EXCEPT !.filling = TRUE]
        BY <2>1, <2>3 DEF Started
      <3>2. index'.entries = NoRows /\ index'.complete = FALSE /\ index'.next = NoCursor
        BY <3>1 DEF Blank
      <3> QED BY <3>2 DEF Sound, NoRows, Beyond
    <2> QED BY <2>2, <2>3
  <1>2. CASE index' = Cleared
    BY <1>2, ClearedAgain
  <1>3. ASSUME open # None, UNCHANGED <<open, opened, rows, unanswered>>,
               NEW ix \in {index, Started(index, open)}, ReadOf(ix, index')
        PROVE  Sound(index)'
    BY <1>3, ReadingJobs, SoundAgain
  <1>4. ASSUME NEW f \in Fills, FillStep(f)
        PROVE  Sound(index)'
    <2>1. CASE FillStart(f)
      <3>1. /\ UNCHANGED <<open, opened, rows, unanswered>> /\ open # None
            /\ ReadOf(Started(index, open), index')
        BY <2>1 DEF FillStart, ReadOf
      <3> QED BY <3>1, <1>3
    <2>2. CASE FillSlice(f) \/ FillMapLessFails(f)
      <3>1. /\ UNCHANGED <<open, opened, rows, unanswered>> /\ open # None
            /\ ReadOf(index, index')
        BY <2>2, NextSliceReads DEF FillSlice, FillMapLessFails
      <3> QED BY <3>1, <1>3
    <2>3. CASE Tell(f) \/ FillLocked(f) \/ FillSliceFails(f)
      <3>1. UNCHANGED <<open, rows, index, unanswered>>
        BY <2>3 DEF Tell, FillLocked, FillSliceFails
      <3> QED BY <3>1, SoundAgain
    <2>4. CASE GiveUp(f)
      <3>1. UNCHANGED <<open, rows, unanswered>> /\ index' = [index EXCEPT !.filling = FALSE]
        BY <2>4 DEF GiveUp
      <3>2. /\ index'.library = index.library /\ index'.entries = index.entries
            /\ index'.complete = index.complete /\ index'.next = index.next
        BY <1>0, <3>1 DEF Index
      <3> QED BY <3>1, <3>2, SoundAgain DEF Sound
    <2>5. CASE FillStartFails(f)
      <3>1. UNCHANGED <<open, rows, unanswered>> /\ index' \in {index, Cleared}
        BY <2>5 DEF FillStartFails
      <3> QED BY <1>2, <3>1, SoundAgain
    <2> QED BY <1>4, <2>1, <2>2, <2>3, <2>4, <2>5 DEF FillStep
  <1>5. ASSUME NEW changed \in SUBSET Notes, NEW new \in [changed -> Row \cup {Gone}], Write(changed, new)
        PROVE  Sound(index)'
    <2>1. /\ open' = open /\ open # None
          /\ rows' = [n \in Notes |-> IF n \in changed THEN new[n] ELSE rows[n]]
          /\ unanswered' = unanswered \ changed
      BY <1>5 DEF Write, Commit
    <2>2. CASE index.library # open
      BY <1>0, <1>2, <1>5, <2>2 DEF Write
    <2>3. CASE index.library = open
      <3>1. index' = Refreshed(changed, new)
        BY <1>5, <2>3 DEF Write
      <3>2. /\ index'.library = open /\ index'.next = index.next
            /\ index'.complete = index.complete
            /\ index'.entries =
                 [n \in Notes |-> IF n \in changed THEN new[n] ELSE index.entries[n]]
        BY <1>0, <2>3, <3>1 DEF Refreshed, Index
      <3>3. ASSUME NEW n \in Notes \ unanswered', index'.entries[n] # Gone
            PROVE  index'.entries[n] = rows'[n]
        BY <2>1, <2>3, <3>2, <3>3 DEF Sound
      <3>4. ASSUME NEW n \in Notes \ unanswered', rows'[n] # Gone, index'.entries[n] = Gone
            PROVE  ~index'.complete /\ Beyond(n, index.next)'
        <4>1. rows'[n] = rows[n] /\ index.entries[n] = Gone /\ n \notin unanswered
          BY <2>1, <3>2, <3>4
        <4> QED BY <2>3, <3>2, <3>4, <4>1 DEF Sound, Beyond
      <3> QED BY <3>3, <3>4 DEF Sound
    <2> QED BY <2>2, <2>3
  <1>6. ASSUME NEW changed \in SUBSET Notes, NEW new \in [changed -> Row \cup {Gone}], WriteClearing(changed, new)
        PROVE  Sound(index)'
    BY <1>0, <1>2, <1>6 DEF WriteClearing
  <1>7. CASE List \/ Board
    <2>1. PICK r : /\ index' = Counted(r)
                   /\ r \in EnoughToList(index) \/ r \in Whole(Started(index, open))
      BY <1>7 DEF List, Board
    <2>2. open # None /\ UNCHANGED <<open, rows, unanswered>>
      BY <1>7 DEF List, Board
    <2>3. ReadOf(index, r) \/ ReadOf(Started(index, open), r)
      BY <1>0, <2>1, <2>2, EnoughToListReads, ReadyReads, Starts
    <2>4. Typed(r) /\ Sound(r)
      BY <1>0, <2>2, <2>3, Starts, ReadKeeps
    <2> QED BY <2>1, <2>2, <2>4, CountedKeeps, SoundAgain
  <1>8. CASE ReadFails
    <2>1. open # None /\ UNCHANGED <<open, opened, rows, unanswered>>
      BY <1>8 DEF ReadFails
    <2>2. CASE index' \in CutShort(Started(index, open))
      <3>1. ReadOf(Started(index, open), index')
        BY <1>0, <2>1, <2>2, Starts, ReadyReads
      <3> QED BY <1>3, <2>1, <3>1
    <2> QED BY <1>2, <1>8, <2>2 DEF ReadFails
  <1>9. ASSUME NEW changed \in SUBSET Notes, NEW new \in [changed -> Row \cup {Gone}], WriteUnanswered(changed, new)
        PROVE  Sound(index)'
    <2>1. /\ open' = open /\ index' = index
          /\ rows' = [n \in Notes |-> IF n \in changed THEN new[n] ELSE rows[n]]
          /\ index.library = open => unanswered' = unanswered \cup changed
      BY <1>9 DEF WriteUnanswered, Commit
    <2>2. \A n \in Notes \ (unanswered \cup changed) : rows'[n] = rows[n]
      BY <2>1
    <2> QED BY <2>1, <2>2 DEF Sound, Beyond
  <1>10. CASE UNCHANGED vars
    BY <1>10, SoundAgain DEF vars
  <1> QED BY <1>1, <1>2, <1>4, <1>5, <1>6, <1>7, <1>8, <1>9, <1>10
          DEF Next, UnlockUnannounced, Close

(* Both of them, together.                                                 *)
LEMMA SoundIsKept == Spec => []Sound(index)
  <1> QED BY InitSound, NextSound, ShapeIsKept, PTL DEF Spec

(* No entry is ever stale but by a write that was not answered: through    *)
(* every slice, write, clear, race of unlocks and switch of library.       *)
THEOREM NeverIsStale == Spec => []NeverStale
  <1>1. Sound(index) /\ FacetsCurrent => NeverStale
    BY DEF Sound, NeverStale
  <1> QED BY <1>1, SoundIsKept, FacetsAreCurrent, PTL

(* Nor is a live note skipped by the slices, for any number of them and    *)
(* however the notes move across the cursor.                               *)
THEOREM NothingIsSkipped == Spec => []NothingSkipped
  <1>1. Sound(index) => NothingSkipped
    BY DEF Sound, NothingSkipped
  <1> QED BY <1>1, SoundIsKept, PTL
=============================================================================
