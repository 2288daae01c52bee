------------------------- MODULE WordReaders_proofs -------------------------
(***************************************************************************)
(* For modules of any depth: a reader that fetches words takes one whole   *)
(* event, whatever arrives meanwhile, and leaves the next one untouched.   *)
(***************************************************************************)
EXTENDS WordReaders, TLAPS

\* Inside the loop, exactly the words of the oldest event before pos have been
\* stored, in order, and the count is theirs: that is what makes the limit of
\* the loop and the end word meet.
InLoop ==
  pc = "loop" =>
    /\ queue # <<>> /\ nonempty
    /\ pos \in 1..(Head(queue).len + 1)
    /\ wordcnt = pos /\ Len(stored) = pos
    /\ \A k \in 1..pos : stored[k] = WordOf(Head(queue), k - 1)

Inv == TypeOK /\ InStep /\ InLoop /\ OneEvent

----------------------------------------------------------------------------
(* The words of the buffer.                                                *)

LEMMA WordIsWord ==
  ASSUME NEW e \in Events, NEW k \in Nat
  PROVE  WordOf(e, k) \in WordSet
BY DEF WordOf, WordSet, Types, Events

LEMMA WordFields ==
  ASSUME NEW e \in Events, NEW k \in Nat
  PROVE  /\ WordOf(e, k).ev = e.ev /\ WordOf(e, k).at = k
         /\ k = 0 => WordOf(e, k).type = "header"
         /\ k \in 1..e.len => WordOf(e, k).type = "data"
         /\ k = e.len + 1 => WordOf(e, k).type = "eob"
<1>1. WordOf(e, k).ev = e.ev /\ WordOf(e, k).at = k
  BY DEF WordOf
<1>2. e.len \in Nat
  BY DEF Events
<1>3. ASSUME k = 0 PROVE WordOf(e, k).type = "header"
  BY <1>3 DEF WordOf
<1>4. ASSUME k \in 1..e.len PROVE WordOf(e, k).type = "data"
  <2>1. k # 0
    BY <1>2, <1>4
  <2> QED BY <1>4, <2>1 DEF WordOf
<1>5. ASSUME k = e.len + 1 PROVE WordOf(e, k).type = "eob"
  <2>1. k # 0 /\ k \notin 1..e.len
    BY <1>2, <1>5
  <2> QED BY <2>1 DEF WordOf
<1> QED BY <1>1, <1>3, <1>4, <1>5

LEMMA NextIsWord ==
  ASSUME BufferAssumption, BufferOK PROVE NextWord \in WordSet
<1>1. CASE queue = <<>>
  BY <1>1 DEF NextWord, Filler, WordSet, Types, BufferAssumption
<1>2. CASE queue # <<>>
  <2>1. Head(queue) \in Events /\ pos \in Nat
    BY <1>2 DEF BufferOK
  <2> QED BY <1>2, <2>1, WordIsWord DEF NextWord
<1> QED BY <1>1, <1>2

LEMMA TakeOK ==
  ASSUME BufferAssumption, BufferOK, Take,
         queue # <<>> => pos <= Head(queue).len + 1
  PROVE  BufferOK'
<1>1. CASE queue = <<>>
  BY <1>1 DEF Take, BufferOK
<1>2. CASE queue # <<>>
  <2>1. Head(queue) \in Events /\ Tail(queue) \in Seq(Events)
    BY <1>2 DEF BufferOK
  <2>2. Head(queue).len \in 0..Most
    BY <2>1 DEF Events
  <2> QED
    BY <1>2, <2>1, <2>2 DEF Take, BufferOK, BufferAssumption
<1> QED BY <1>1, <1>2

\* An event that arrives is put behind the others, if it is.
LEMMA ArriveOK ==
  ASSUME BufferAssumption, BufferOK, NEW n \in 0..Most, NEW d \in BOOLEAN,
         Arrive(n, d)
  PROVE  /\ BufferOK'
         /\ queue # <<>> => queue' # <<>> /\ Head(queue') = Head(queue)
<1>1. evid' \in 1..Ids
  BY DEF Arrive, BufferOK, BufferAssumption
<1>2. [ev |-> evid', len |-> n] \in Events
  BY <1>1 DEF Events
<1> QED
  BY <1>1, <1>2 DEF Arrive, BufferOK

----------------------------------------------------------------------------
(* The inductive invariant.                                                *)

LEMMA InvInit == ASSUME BufferAssumption PROVE Init => Inv
<1> SUFFICES ASSUME Init PROVE Inv
  OBVIOUS
<1>1. BufferOK
  BY DEF Init, BufferInit, BufferOK, BufferAssumption
<1>2. fn \in Readers
  BY DEF Init, Readers
<1>3. stored \in Seq(WordSet)
  BY DEF Init
<1>4. nonempty \in BOOLEAN
  BY DEF Init
<1>5. /\ wordcnt \in Nat /\ mp \in Nat /\ segmentsize \in Nat
      /\ eventsize \in Nat /\ sizeword \in Nat /\ clear \in 0..1
  BY DEF Init
<1>6. pc \in {"idle", "loop", "end"}
  BY DEF Init
<1>7. TypeOK
  BY <1>1, <1>2, <1>3, <1>4, <1>5, <1>6 DEF TypeOK
<1> QED
  BY <1>7 DEF Init, BufferInit, Inv, InStep, InLoop, OneEvent

LEMMA FirstKeeps ==
  ASSUME BufferAssumption, Inv, NEW r \in Readers, First(r) PROVE Inv'
<1> USE DEF Inv, InStep
<1>1. pos = 0 /\ BufferOK /\ NextWord \in WordSet
  BY NextIsWord DEF First, TypeOK
<1>2. queue # <<>> => Head(queue) \in Events
  BY <1>1 DEF BufferOK
<1>3. Take
  BY DEF First, Store
<1>4. BufferOK'
  BY <1>1, <1>2, <1>3, TakeOK DEF Events
<1>5. CASE queue = <<>>
  <2>1. NextWord = Filler /\ NextWord.type # "header"
    BY <1>5 DEF NextWord, Filler
  <2>2. pc' = "end" /\ nonempty' = FALSE /\ pos' = 0
    BY <1>1, <1>3, <1>5, <2>1 DEF First, Take
  <2>3. stored' = <<>> \/ stored' = <<NextWord>>
    BY DEF First, Store
  <2>4. stored' \in Seq(WordSet)
    <3>1. <<NextWord>> \in Seq(WordSet) /\ <<>> \in Seq(WordSet)
      BY <1>1
    <3> QED BY <2>3, <3>1
  <2>5. TypeOK'
    BY <1>4, <2>2, <2>4 DEF First, TypeOK, Counted
  <2> QED
    BY <2>1, <2>2, <2>3, <2>5 DEF InLoop, OneEvent
<1>6. CASE queue # <<>>
  <2>1. NextWord = WordOf(Head(queue), 0) /\ NextWord.type = "header"
    BY <1>1, <1>6 DEF NextWord, WordOf
  <2>2. pos' = 1 /\ queue' = queue
    BY <1>1, <1>2, <1>3, <1>6 DEF Take, Events
  <2>3. pc' = "loop" /\ nonempty' = TRUE /\ wordcnt' = 1
    BY <1>6, <2>1 DEF First, Refused
  <2>4. stored' = <<NextWord>>
    BY <2>1 DEF First, Refused, Store
  <2> QED
    BY <1>1, <1>2, <1>4, <1>6, <2>1, <2>2, <2>3, <2>4
    DEF First, TypeOK, InLoop, OneEvent, Counted, Refused, Events
<1> QED BY <1>5, <1>6

\* No limit of a reader lies inside an event, and every reader stops at the
\* end word and at no word of data.
LEMMA Limits ==
  ASSUME BufferAssumption, WordsAssumption, NEW r \in Readers
  PROVE  /\ r.words \in Nat /\ Most + 2 <= r.words
         /\ "eob" \in r.ends /\ "data" \notin r.ends
BY DEF BufferAssumption, WordsAssumption, Readers, v7XX_segdata, v7XX_segdata2,
       v7XX_multi_map_segdata, v785_segdata, v785_segdata2, v785_segmod,
       v775_segdata, v775_segmod, v792_segdata, v792_segmod, v767_segdata,
       v767_segmod, v1X90_segdata, Segdata, Segdata2, Segmod, NotData

LEMMA LoopKeeps ==
  ASSUME BufferAssumption, WordsAssumption, Inv, Loop PROVE Inv'
<1> DEFINE e == Head(queue)
<1>1. /\ BufferOK /\ queue # <<>> /\ fn \in Readers /\ stored \in Seq(WordSet)
      /\ pos \in 1..(e.len + 1) /\ wordcnt = pos /\ Len(stored) = pos
      /\ \A k \in 1..pos : stored[k] = WordOf(e, k - 1)
  BY DEF Inv, TypeOK, InLoop, Loop
<1>2. nonempty \in BOOLEAN /\ nonempty
  BY DEF Inv, TypeOK, InLoop, Loop
<1>3. e \in Events /\ e.len \in 0..Most
  <2>1. e \in Events
    BY <1>1 DEF BufferOK
  <2> QED BY <2>1 DEF Events
<1>4. NextWord = WordOf(e, pos) /\ NextWord \in WordSet
  <2>1. NextWord \in WordSet
    BY <1>1, NextIsWord
  <2> QED BY <1>1, <2>1 DEF NextWord
<1>5. Take /\ stored' = Append(stored, NextWord)
  BY DEF Loop, Store
<1>6. BufferOK'
  BY <1>1, <1>3, <1>5, TakeOK
<1>7. /\ stored' \in Seq(WordSet) /\ Len(stored') = pos + 1
      /\ \A k \in 1..(pos + 1) : stored'[k] = WordOf(e, k - 1)
  BY <1>1, <1>3, <1>4, <1>5
<1>8. TypeOK'
  <2>1. nonempty' \in BOOLEAN
    BY <1>2 DEF Loop
  <2>2. pc' \in {"idle", "loop", "end"}
    BY DEF Loop
  <2>3. /\ fn' \in Readers /\ wordcnt' \in Nat /\ mp' \in Nat
        /\ segmentsize' \in Nat /\ eventsize' \in Nat /\ sizeword' \in Nat
        /\ clear' \in 0..1
    BY <1>1 DEF Inv, TypeOK, Loop, Counted
  <2> QED BY <1>6, <1>7, <2>1, <2>2, <2>3 DEF TypeOK
<1>9. wordcnt' = pos + 1 /\ nonempty'
  BY <1>1, <1>2 DEF Loop
<1>10. CASE pos = e.len + 1
  <2>1. NextWord.type = "eob"
    BY <1>1, <1>3, <1>4, <1>10, WordFields
  <2>2. pc' = "end"
    BY <1>1, <2>1, Limits DEF Loop, Last
  <2>3. pos' = 0
    BY <1>1, <1>5, <1>10 DEF Take
  <2>4. Whole(stored')
    <3>1. \A k \in 1..(pos + 1) : stored'[k].ev = e.ev /\ stored'[k].at = k - 1
      BY <1>1, <1>3, <1>7, WordFields
    <3>2. stored'[1].type = "header"
      BY <1>1, <1>3, <1>7, WordFields
    <3>3. stored'[Len(stored')].type = "eob"
      BY <1>1, <1>3, <1>4, <1>7, <2>1
    <3>4. stored' # <<>>
      BY <1>1, <1>7
    <3>5. OfOneEvent(stored')
      BY <1>1, <1>3, <1>7, <3>1 DEF OfOneEvent
    <3> QED BY <3>2, <3>3, <3>4, <3>5 DEF Whole
  <2> QED
    BY <1>8, <1>9, <2>2, <2>3, <2>4 DEF Inv, InStep, InLoop, OneEvent
<1>11. CASE pos # e.len + 1
  <2>1. pos \in 1..e.len
    BY <1>1, <1>3, <1>11
  <2>2. NextWord.type = "data"
    BY <1>3, <1>4, <2>1, WordFields
  <2>3. pc' = "loop"
    <3>1. ~(wordcnt' >= fn.words)
      BY <1>1, <1>3, <1>9, <2>1, Limits DEF BufferAssumption
    <3> QED BY <1>1, <2>2, <3>1, Limits DEF Loop, Last
  <2>4. queue' = queue /\ pos' = pos + 1
    BY <1>1, <1>5, <1>11 DEF Take
  <2>5. InLoop'
    BY <1>1, <1>3, <1>7, <1>9, <2>1, <2>4 DEF InLoop
  <2> QED
    BY <1>8, <2>3, <2>5 DEF Inv, InStep, OneEvent
<1> QED BY <1>10, <1>11

LEMMA InvStep ==
  ASSUME BufferAssumption, WordsAssumption, Inv, [Next]_vars PROVE Inv'
<1>1. ASSUME NEW n \in 0..Most, Event(n) PROVE Inv'
  <2>1. /\ BufferOK'
        /\ queue # <<>> => queue' # <<>> /\ Head(queue') = Head(queue)
    BY <1>1, ArriveOK DEF Event, Inv, TypeOK
  <2>2. pos' = pos
    BY <1>1 DEF Event, Arrive
  <2> QED
    BY <1>1, <2>1, <2>2
    DEF Event, sizes, Inv, TypeOK, InStep, InLoop, OneEvent
<1>2. ASSUME NEW r \in Readers, First(r) PROVE Inv'
  BY <1>2, FirstKeeps
<1>3. CASE Loop
  BY <1>3, LoopKeeps
<1>4. CASE EndSegment
  BY <1>4 DEF EndSegment, buffer, Inv, TypeOK, BufferOK, InStep, InLoop,
              OneEvent
<1>5. CASE SetClear
  BY <1>5 DEF SetClear, Empty, sizes, Inv, TypeOK, BufferOK, InStep, InLoop,
              OneEvent
<1>6. CASE Unclear
  BY <1>6 DEF Unclear, buffer, sizes, Inv, TypeOK, BufferOK, InStep, InLoop,
              OneEvent
<1>7. CASE UNCHANGED vars
  BY <1>7 DEF vars, buffer, sizes, Inv, TypeOK, BufferOK, InStep, InLoop,
              OneEvent
<1> QED
  BY <1>1, <1>2, <1>3, <1>4, <1>5, <1>6, <1>7 DEF Next

----------------------------------------------------------------------------
(* Theorems.                                                               *)

\* Inv holds in every state.
THEOREM InvHolds ==
  ASSUME BufferAssumption, WordsAssumption PROVE Spec => []Inv
<1>1. Init => Inv
  BY InvInit
<1>2. Inv /\ [Next]_vars => Inv'
  BY InvStep
<1> QED BY <1>1, <1>2, PTL DEF Spec

\* The variables keep their types.
THEOREM TypeCorrect ==
  ASSUME BufferAssumption, WordsAssumption PROVE Spec => []TypeOK
<1>1. Inv => TypeOK
  BY DEF Inv
<1> QED BY <1>1, InvHolds, PTL

\* No reader leaves an event half read in the module, whatever arrives while
\* it is at work.
THEOREM StaysInStep ==
  ASSUME BufferAssumption, WordsAssumption PROVE Spec => []InStep
<1>1. Inv => InStep
  BY DEF Inv
<1> QED BY <1>1, InvHolds, PTL

\* A reader stores one whole event; without one, a filler word or nothing.
THEOREM StoresOneEvent ==
  ASSUME BufferAssumption, WordsAssumption PROVE Spec => []OneEvent
<1>1. Inv => OneEvent
  BY DEF Inv
<1> QED BY <1>1, InvHolds, PTL

----------------------------------------------------------------------------
(* The sizes.                                                              *)

\* In a reader, mp and wordcnt go with the words stored; segmentsize does too,
\* but for segmod, which does not touch it.
Sizes ==
  /\ SizesRight
  /\ pc # "idle" =>
       /\ wordcnt = Len(stored) /\ mp = 2 + 2 * wordcnt
       /\ fn.form # "segmod" => segmentsize = mp

LEMMA SizesStep ==
  ASSUME BufferAssumption, Inv, Sizes, [Next]_vars PROVE Sizes'
<1>1. stored \in Seq(WordSet) /\ NextWord \in WordSet
  BY NextIsWord DEF Inv, TypeOK
<1>2. mp \in Nat /\ wordcnt \in Nat /\ segmentsize \in Nat
  BY DEF Inv, TypeOK
<1>3. ASSUME NEW n \in 0..Most, Event(n) PROVE Sizes'
  BY <1>3 DEF Event, sizes, Sizes, SizesRight
<1>4. ASSUME NEW r \in Readers, First(r) PROVE Sizes'
  <2>1. pc' # "idle" /\ fn' = r
    BY <1>4 DEF First
  <2>2. CASE Refused(r)
    BY <1>4, <2>1, <2>2 DEF First, Sizes, SizesRight
  <2>3. CASE ~Refused(r)
    <3>1. Len(stored') = 1
      BY <1>1, <1>4, <2>3 DEF First, Store
    <3>2. wordcnt' = 1 /\ mp' = 4 /\ segmentsize' = Counted(r, 2)
      BY <1>4, <2>3 DEF First
    <3> QED BY <2>1, <3>1, <3>2 DEF Sizes, SizesRight, Counted
  <2> QED BY <2>2, <2>3
<1>5. CASE Loop
  <2>1. pc = "loop" /\ pc' # "idle" /\ fn' = fn
    BY <1>5 DEF Loop
  <2>2. Len(stored') = Len(stored) + 1
    BY <1>1, <1>5 DEF Loop, Store
  <2> QED
    BY <1>2, <1>5, <2>1, <2>2 DEF Loop, Sizes, SizesRight, Counted
<1>6. CASE EndSegment
  BY <1>1, <1>2, <1>6 DEF EndSegment, Sizes, SizesRight
<1>7. CASE SetClear
  BY <1>7 DEF SetClear, sizes, Sizes, SizesRight
<1>8. CASE Unclear
  BY <1>8 DEF Unclear, sizes, Sizes, SizesRight
<1>9. CASE UNCHANGED vars
  BY <1>9 DEF vars, sizes, Sizes, SizesRight
<1> QED
  BY <1>3, <1>4, <1>5, <1>6, <1>7, <1>8, <1>9 DEF Next

\* What is written for a segment, what the event counts and how far mp went
\* are one number, that of the words stored.
THEOREM SizesAgree ==
  ASSUME BufferAssumption, WordsAssumption PROVE Spec => []SizesRight
<1>1. Init => Sizes
  BY DEF Init, Sizes, SizesRight
<1>2. Inv /\ Sizes /\ [Next]_vars => Sizes'
  BY SizesStep
<1>3. Sizes => SizesRight
  BY DEF Sizes
<1> QED BY <1>1, <1>2, <1>3, InvHolds, PTL DEF Spec
=============================================================================
