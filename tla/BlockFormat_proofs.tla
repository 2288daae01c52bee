------------------------- MODULE BlockFormat_proofs -------------------------
(***************************************************************************)
(* A half is never overrun, for every size of the buffer and of the        *)
(* modules' data, as long as one event that begins at MAXBUFF has room     *)
(* (Capacity).  The sizes written back are right in any case.  A finished  *)
(* block comes apart again, at its sizes, into what was recorded.          *)
(***************************************************************************)
EXTENDS BlockFormat, TLAPS, SequenceTheorems, WellFoundedInduction

Ahead(s) == IF s = 1 THEN 3
            ELSE IF s = 2 THEN 5 + MaxLen
            ELSE IF s = 3 THEN 7 + 2 * MaxLen
            ELSE 9 + 3 * MaxLen     \* words of an event before segment s

\* What the sizes count at each point of an event.
SizeInv ==
  /\ pc \in {"segment", "reader", "endsegment"} => seg \in 1..3
  /\ pc = "endevent" => seg = 4
  /\ pc \in {"segment", "endevent"} => eventsize = mp - eventhmp
  /\ pc \in {"reader", "endsegment"} => /\ segmentsize = mp - segmenthmp
                                        /\ eventsize = segmenthmp - eventhmp

\* How far each call finds mp, counted from an event that began at MAXBUFF.
FillInv ==
  /\ pc = "idle" /\ chkblk = 1 => mp <= MaxBuff
  /\ pc = "event" => mp <= MaxBuff
  /\ pc \in {"segment", "endevent"} => mp <= MaxBuff + Ahead(seg)
  /\ pc = "reader" => mp <= MaxBuff + Ahead(seg) + 2
  /\ pc = "endsegment" => mp <= MaxBuff + Ahead(seg) + 2 + MaxLen
  /\ pc = "endblock" => mp <= MaxBuff + MaxEvent
  /\ pc = "sca" => mp <= MaxBuff + MaxEvent + 2
  /\ pc = "finished" => chkblk = 0
  /\ mp <= Half

----------------------------------------------------------------------------
LEMMA WordRange ==
  /\ End \in Nat /\ 0 \in 0..End /\ 1 \in 0..End /\ 2 \in 0..End
  /\ Flag \in Nat /\ Flag > 0 /\ End + 1 = 2 * Flag
BY FormatAssumption DEF End

LEMMA ModRange ==
  ASSUME NEW n \in Nat, NEW d \in Nat, d > 0 PROVE n % d \in 0..(d - 1)
OBVIOUS

LEMMA SmallMod ==
  ASSUME NEW n \in Nat, NEW d \in Nat, n < d PROVE n % d = n
OBVIOUS

LEMMA MarkedType == ASSUME NEW n \in Nat PROVE Marked(n) \in 0..End
<1>1. n % Flag \in 0..(Flag - 1) BY WordRange, ModRange
<1> QED BY <1>1, WordRange DEF Marked

LEMMA ShortType == ASSUME NEW n \in Nat PROVE Short(n) \in 0..End
<1>1. n % (End + 1) \in 0..(End + 1 - 1) BY WordRange, ModRange
<1> QED BY <1>1, WordRange DEF Short

\* A store of sixteen-bit words leaves a buffer of sixteen-bit words.
LEMMA StoredType ==
  ASSUME TypeOK, NEW x, \A k \in DOMAIN x : x[k] \in 0..End
  PROVE  Stored(x) \in [Buffer -> 0..End]
BY DEF TypeOK, Stored

LEMMA WordsType ==
  ASSUME TypeOK, NEW i \in Nat, NEW n \in Nat, NEW v \in 0..End
  PROVE  Stored(Words(i, n, v)) \in [Buffer -> 0..End]
<1>1. \A k \in DOMAIN Words(i, n, v) : Words(i, n, v)[k] \in 0..End
  BY DEF Words
<1> QED BY <1>1, StoredType

LEMMA StepInv ==
  ASSUME TypeOK, SizeInv, [Next]_vars
  PROVE  TypeOK' /\ SizeInv'
<1> USE FormatAssumption
<1>1. CASE Open
  <2>1. databuff' \in [Buffer -> 0..End] BY <1>1, WordRange DEF Open
  <2> QED BY <1>1, <2>1 DEF Open, TypeOK, SizeInv, sizes
<1>2. CASE InitBlock
  <2>1. databuff' \in [Buffer -> 0..End]
    <3>1. CASE chkblk = 1 BY <1>2, <3>1 DEF InitBlock, TypeOK
    <3>2. CASE chkblk # 1
      BY <1>2, <3>2, WordsType, WordRange DEF InitBlock
    <3> QED BY <3>1, <3>2
  <2> QED BY <1>2, <2>1 DEF InitBlock, TypeOK, SizeInv, sizes, Header
<1>3. CASE InitEvent
  <2>1. databuff' \in [Buffer -> 0..End]
    <3> DEFINE x == [i \in {mp + 1, mp + 2} |->
                       IF i = mp + 1 THEN Fid ELSE Short(eventid')]
    <3>1. Short(eventid') \in 0..End /\ Fid \in 0..End
      BY <1>3, ShortType, WordRange DEF InitEvent, TypeOK, Fid
    <3>2. \A k \in DOMAIN x : x[k] \in 0..End BY <3>1
    <3>3. databuff' = Stored(x) BY <1>3 DEF InitEvent
    <3> HIDE DEF x
    <3>4. Stored(x) \in [Buffer -> 0..End] BY <3>2, StoredType
    <3> QED BY <3>3, <3>4
  <2>2. /\ eventid' = eventid + 1 /\ eventhmp' = mp /\ eventsize' = 3
        /\ mp' = mp + 3 /\ seg' = 1 /\ pc' = "segment"
        /\ UNCHANGED <<dn, chkblk, segmenthmp, segmentsize, stopping, done>>
    BY <1>3 DEF InitEvent
  <2> QED BY <2>1, <2>2 DEF TypeOK, SizeInv
<1>4. CASE InitSegment
  <2>1. SegIds[seg] \in 0..End
    <3>1. seg = 1 \/ seg = 2 \/ seg = 3 BY <1>4 DEF InitSegment, SizeInv
    <3>2. SegIds[1] = 1 /\ SegIds[2] = 1 /\ SegIds[3] = 2 BY DEF SegIds
    <3>3. SegIds[seg] = 1 \/ SegIds[seg] = 2 BY <3>1, <3>2
    <3> QED BY <3>3, WordRange
  <2>2. databuff' \in [Buffer -> 0..End]
    <3>1. mp + 1 \in Nat /\ 1 \in Nat BY DEF TypeOK
    <3>2. Stored(Words(mp + 1, 1, SegIds[seg])) \in [Buffer -> 0..End]
      BY <2>1, <3>1, WordsType
    <3> QED BY <1>4, <3>2 DEF InitSegment
  <2> QED BY <1>4, <2>2 DEF InitSegment, TypeOK, SizeInv, OwnWords
<1>5. ASSUME NEW n \in 0..MaxLen, NEW x \in Payload, Reader(n, x)
      PROVE  TypeOK' /\ SizeInv'
  <2>1. databuff' \in [Buffer -> 0..End]
    BY <1>5, WordsType DEF Reader, TypeOK
  <2> QED BY <1>5, <2>1 DEF Reader, TypeOK, SizeInv
<1>6. CASE EndSegment
  <2>1. Short(segmentsize) \in 0..End BY ShortType DEF TypeOK
  <2>2. databuff' \in [Buffer -> 0..End]
    BY <1>6, <2>1, WordsType DEF EndSegment, TypeOK
  <2>3. Len(SegIds) = 3 BY DEF SegIds
  <2> QED BY <1>6, <2>2, <2>3 DEF EndSegment, TypeOK, SizeInv
<1>7. CASE EndEvent
  <2>1. databuff' \in [Buffer -> 0..End]
    BY <1>7, MarkedType, WordsType DEF EndEvent, TypeOK
  <2> QED BY <1>7, <2>1 DEF EndEvent, TypeOK, SizeInv, sizes
<1>8. CASE EndBlock
  <2>1. databuff' \in [Buffer -> 0..End]
    BY <1>8, WordsType, WordRange DEF EndBlock, TypeOK
  <2> QED BY <1>8, <2>1 DEF EndBlock, TypeOK, SizeInv, sizes
<1>9. CASE Sca
  <2>1. databuff' \in [Buffer -> 0..End]
    BY <1>9, WordsType, WordRange DEF Sca, TypeOK, Count
  <2> QED BY <1>9, <2>1 DEF Sca, TypeOK, SizeInv, sizes
<1>10. CASE Chmem
  BY <1>10 DEF Chmem, TypeOK, SizeInv, sizes, Other
<1>11. CASE Close
  BY <1>11 DEF Close, TypeOK, SizeInv, sizes
<1>12. CASE Stop
  BY <1>12 DEF Stop, TypeOK, SizeInv, sizes
<1>13. CASE UNCHANGED vars
  BY <1>13 DEF vars, TypeOK, SizeInv, sizes
<1> QED
  BY <1>1, <1>2, <1>3, <1>4, <1>5, <1>6, <1>7, <1>8, <1>9, <1>10, <1>11,
     <1>12, <1>13 DEF Next

LEMMA InitInv == Init => TypeOK /\ SizeInv
BY FormatAssumption, WordRange DEF Init, TypeOK, SizeInv

----------------------------------------------------------------------------
\* The buffer and the bookkeeping of bbrl.c keep their types, also when a half
\* is overrun.
THEOREM TypeCorrect == Spec => []TypeOK
<1>1. TypeOK /\ SizeInv /\ [Next]_vars => (TypeOK /\ SizeInv)' BY StepInv
<1> QED BY <1>1, InitInv, PTL DEF Spec

\* Every size that end_segment and end_event write back is the distance from
\* the word they write to the next free one.
THEOREM SizesAreRight == Spec => []SizesRight
<1>1. TypeOK /\ SizeInv /\ [Next]_vars => (TypeOK /\ SizeInv)' BY StepInv
<1>2. SizeInv => SizesRight BY DEF SizeInv, SizesRight
<1> QED BY <1>1, <1>2, InitInv, PTL DEF Spec

----------------------------------------------------------------------------
LEMMA FillStep ==
  ASSUME Capacity, TypeOK, SizeInv, FillInv, [Next]_vars
  PROVE  FillInv'
<1> USE FormatAssumption DEF FillInv, TypeOK
<1>0. MaxEvent = 9 + 3 * MaxLen BY DEF MaxEvent
<1>1. CASE Open BY <1>1 DEF Open
<1>2. CASE InitBlock BY <1>2 DEF InitBlock, Header
<1>3. CASE InitEvent
  BY <1>0, <1>3 DEF InitEvent, Ahead, Capacity
<1>4. CASE InitSegment
  BY <1>0, <1>4 DEF InitSegment, SizeInv, Ahead, Capacity
<1>5. ASSUME NEW n \in 0..MaxLen, NEW x \in Payload, Reader(n, x)
      PROVE  FillInv'
  BY <1>0, <1>5 DEF Reader, SizeInv, Ahead, Capacity
<1>6. CASE EndSegment
  <2>1. Len(SegIds) = 3 BY DEF SegIds
  <2>2. Ahead(seg + 1) = Ahead(seg) + 2 + MaxLen
    BY <1>6 DEF EndSegment, SizeInv, Ahead
  <2>3. Ahead(seg) \in Nat /\ Ahead(seg + 1) \in Nat
    BY <1>6 DEF EndSegment, SizeInv, Ahead
  <2>4. mp <= MaxBuff + Ahead(seg + 1) BY <1>6, <2>2, <2>3 DEF EndSegment
  <2> QED BY <1>6, <2>1, <2>4 DEF EndSegment, SizeInv
<1>7. CASE EndEvent
  <2>1. mp <= MaxBuff + MaxEvent
    BY <1>0, <1>7 DEF EndEvent, SizeInv, Ahead
  <2> QED BY <1>7, <2>1 DEF EndEvent, BlockOver
<1>8. CASE EndBlock BY <1>8 DEF EndBlock, Capacity, MaxEvent
<1>9. CASE Sca BY <1>9 DEF Sca
<1>10. CASE Chmem BY <1>10 DEF Chmem
<1>11. CASE Close BY <1>11 DEF Close
<1>12. CASE Stop
  BY <1>0, <1>12 DEF Stop
<1>13. CASE UNCHANGED vars BY <1>13 DEF vars, sizes
<1> QED
  BY <1>1, <1>2, <1>3, <1>4, <1>5, <1>6, <1>7, <1>8, <1>9, <1>10, <1>11,
     <1>12, <1>13 DEF Next

\* With room for the largest event beyond MAXBUFF no word falls outside the
\* half and no scaler word on the END words.
THEOREM NeverOverrun == ASSUME Capacity PROVE Spec => []Fits
<1>1. Init => FillInv
  BY FormatAssumption DEF Init, FillInv
<1>2. TypeOK /\ SizeInv /\ FillInv /\ [Next]_vars
        => (TypeOK /\ SizeInv /\ FillInv)'
  BY StepInv, FillStep
<1>3. TypeOK /\ FillInv => Fits
  BY FormatAssumption DEF TypeOK, FillInv, Fits, Capacity, MaxEvent
<1> QED BY <1>1, <1>2, <1>3, InitInv, PTL DEF Spec

----------------------------------------------------------------------------
\* A store into the half in use does not reach the other.
LEMMA OtherHalf ==
  ASSUME TypeOK, NEW x, DOMAIN x \subseteq 0..(Half - 1),
         databuff' = Stored(x), NEW i \in 0..(Half - 1)
  PROVE  databuff'[Base(Other(dn)) + i] = databuff[Base(Other(dn)) + i]
<1> USE FormatAssumption
<1>1. Base(0) = 0 /\ Base(1) = Half BY DEF Base
<1>2. Other(0) = 1 /\ Other(1) = 0 BY DEF Other
<1> DEFINE j == Base(Other(dn)) + i
<1>3. j \in Buffer /\ j - Base(dn) \notin 0..(Half - 1)
  <2>1. CASE dn = 0 BY <1>1, <1>2, <2>1 DEF Buffer
  <2>2. CASE dn = 1 BY <1>1, <1>2, <2>2 DEF Buffer
  <2> QED BY <2>1, <2>2 DEF TypeOK
<1>4. databuff' = [k \in Buffer |-> IF k - Base(dn) \in DOMAIN x
                                      THEN x[k - Base(dn)] ELSE databuff[k]]
  BY DEF Stored
<1> HIDE DEF j
<1>5. databuff'[j] = databuff[j] BY <1>3, <1>4
<1> QED BY <1>5 DEF j

LEMMA NeighbourStep ==
  ASSUME Capacity, TypeOK, SizeInv, FillInv, Next, pc # "closed",
         NEW i \in 0..(Half - 1)
  PROVE  databuff'[Base(Other(dn)) + i] = databuff[Base(Other(dn)) + i]
<1> USE FormatAssumption
<1>0. MaxEvent = 9 + 3 * MaxLen BY DEF MaxEvent
<1>w. ASSUME NEW a \in Nat, NEW n \in Nat, NEW v, a + n <= Half,
             databuff' = Stored(Words(a, n, v))
      PROVE  databuff'[Base(Other(dn)) + i] = databuff[Base(Other(dn)) + i]
  <2>1. DOMAIN Words(a, n, v) \subseteq 0..(Half - 1) BY <1>w DEF Words
  <2> QED BY <1>w, <2>1, OtherHalf
<1>2. CASE InitBlock
  <2>1. 0 + 2 <= Half BY DEF Header
  <2>2. CASE chkblk = 1 BY <1>2, <2>2 DEF InitBlock
  <2>3. CASE chkblk # 1 BY <1>2, <2>1, <2>3, <1>w DEF InitBlock
  <2> QED BY <2>2, <2>3
<1>3. CASE InitEvent
  <2> DEFINE x == [k \in {mp + 1, mp + 2} |->
                     IF k = mp + 1 THEN Fid ELSE Short(eventid')]
  <2>1. DOMAIN x \subseteq 0..(Half - 1)
    BY <1>0, <1>3 DEF InitEvent, TypeOK, FillInv, Capacity
  <2>2. databuff' = Stored(x) BY <1>3 DEF InitEvent
  <2> QED BY <2>1, <2>2, OtherHalf
<1>4. CASE InitSegment
  <2>1. mp + 1 + 1 <= Half
    BY <1>0, <1>4 DEF InitSegment, TypeOK, SizeInv, FillInv, Ahead, Capacity
  <2> QED BY <1>4, <2>1, <1>w DEF InitSegment, TypeOK
<1>5. ASSUME NEW n \in 0..MaxLen, NEW x \in Payload, Reader(n, x)
      PROVE  databuff'[Base(Other(dn)) + i] = databuff[Base(Other(dn)) + i]
  <2>1. mp + n <= Half
    BY <1>0, <1>5 DEF Reader, TypeOK, SizeInv, FillInv, Ahead, Capacity
  <2> QED BY <1>5, <2>1, <1>w DEF Reader, TypeOK
<1>6. CASE EndSegment
  <2>1. segmenthmp + 1 <= Half
    BY <1>0, <1>6 DEF EndSegment, TypeOK, SizeInv, FillInv, Ahead, Capacity
  <2> QED BY <1>6, <2>1, <1>w DEF EndSegment, TypeOK
<1>7. CASE EndEvent
  <2>1. eventhmp + 1 <= Half
    BY <1>0, <1>7 DEF EndEvent, TypeOK, SizeInv, FillInv, Ahead, Capacity
  <2> QED BY <1>7, <2>1, <1>w DEF EndEvent, TypeOK
<1>8. CASE EndBlock
  <2>1. mp + 2 <= Half
    BY <1>0, <1>8 DEF EndBlock, TypeOK, FillInv, Capacity
  <2> QED BY <1>8, <2>1, <1>w DEF EndBlock, TypeOK
<1>9. CASE Sca
  <2>1. Half - Scaler \in Nat /\ Half - Scaler + Scaler <= Half OBVIOUS
  <2> QED BY <1>9, <2>1, <1>w DEF Sca
<1>10. CASE Chmem \/ Close \/ Stop BY <1>10 DEF Chmem, Close, Stop
<1> QED
  BY <1>2, <1>3, <1>4, <1>5, <1>6, <1>7, <1>8, <1>9, <1>10 DEF Next, Open

\* With the same room, filling a half never changes a word of the other half,
\* which the client may be copying.
THEOREM NeighbourStaysIntact == ASSUME Capacity PROVE Spec => NeighbourIntact
<1>1. Init => FillInv
  BY FormatAssumption DEF Init, FillInv
<1>2. TypeOK /\ SizeInv /\ FillInv /\ [Next]_vars
        => (TypeOK /\ SizeInv /\ FillInv)'
  BY StepInv, FillStep
<1>3. TypeOK /\ SizeInv /\ FillInv /\ [Next]_vars =>
        [pc # "closed" =>
           \A i \in 0..(Half - 1) :
              databuff'[Base(Other(dn)) + i]
                = databuff[Base(Other(dn)) + i]]_vars
  BY NeighbourStep
<1> QED BY <1>1, <1>2, <1>3, InitInv, PTL DEF Spec, NeighbourIntact

----------------------------------------------------------------------------
(* A walk that goes forward: its recursive definition has a solution, and  *)
(* it collects what lies on a chain of steps.                              *)

LEMMA LeastNatural ==
  ASSUME NEW S \in SUBSET Nat, S # {}
  PROVE  \E m \in S : \A k \in S : m <= k
<1> DEFINE R == OpToRel(<, Nat)
<1>1. \A x, y \in Nat : <<x, y>> \in R <=> x < y
  BY DEF OpToRel
<1>2. IsWellFoundedOn(R, Nat)
  BY NatLessThanWellFounded
<1> HIDE DEF R
<1>3. PICK m \in S : \A y \in S : ~(<<y, m>> \in R)
  BY <1>2, WFMin
<1>4. \A y \in S : y \in Nat
  OBVIOUS
<1>5. \A y \in S : ~(y < m)
  BY <1>1, <1>3, <1>4
<1> QED BY <1>4, <1>5

\* Where the walk ends, what it finds at i, and where it goes from there.
Step(f, stop, item, next, i) ==
  IF i \in stop THEN <<>>
  ELSE <<item[i]>> \o (IF next[i] <= Half THEN f[next[i]] ELSE <<>>)

From(f, m, stop, item, next) ==
  \A i \in m..Half : f[i] = Step(f, stop, item, next, i)

LEMMA WalkOn ==
  ASSUME NEW stop, NEW item, NEW next,
         \A i \in 0..Half : i \notin stop => next[i] \in Nat /\ next[i] > i,
         NEW m \in Nat, m <= Half,
         NEW f, From(f, m + 1, stop, item, next)
  PROVE  \E g : From(g, m, stop, item, next)
<1> USE FormatAssumption
<1> DEFINE g == [i \in 0..Half |->
                   IF i = m THEN Step(f, stop, item, next, m) ELSE f[i]]
<1>1. \A i \in 0..Half : i # m => g[i] = f[i]
  OBVIOUS
<1>2. g[m] = Step(f, stop, item, next, m)
  OBVIOUS
<1> HIDE DEF g
<1>3. ASSUME NEW i \in m..Half PROVE g[i] = Step(g, stop, item, next, i)
  <2>1. Step(g, stop, item, next, i) = Step(f, stop, item, next, i)
    <3>1. CASE i \in stop
      BY <3>1 DEF Step
    <3>2. CASE i \notin stop /\ next[i] <= Half
      <4>1. i \in 0..Half /\ next[i] \in Nat /\ next[i] > i
        BY <3>2
      <4>2. next[i] \in 0..Half /\ next[i] # m
        BY <3>2, <4>1
      <4>3. g[next[i]] = f[next[i]]
        BY <1>1, <4>2
      <4> QED BY <4>3 DEF Step
    <3>3. CASE i \notin stop /\ ~(next[i] <= Half)
      BY <3>3 DEF Step
    <3> QED BY <3>1, <3>2, <3>3
  <2>2. CASE i = m
    BY <1>2, <2>1, <2>2
  <2>3. CASE i # m
    <3>1. i \in (m + 1)..Half /\ i \in 0..Half
      BY <2>3
    <3>2. f[i] = Step(f, stop, item, next, i)
      BY <3>1 DEF From
    <3> QED BY <1>1, <2>1, <2>3, <3>1, <3>2
  <2> QED BY <2>2, <2>3
<1> QED BY <1>3 DEF From

Walks(f, stop, item, next) ==
  f = [i \in 0..Half |-> Step(f, stop, item, next, i)]

LEMMA WalkExists ==
  ASSUME NEW stop, NEW item, NEW next,
         \A i \in 0..Half : i \notin stop => next[i] \in Nat /\ next[i] > i
  PROVE  \E f : Walks(f, stop, item, next)
<1> USE FormatAssumption
<1> DEFINE S == {m \in Nat : \E f : From(f, m, stop, item, next)}
<1>1. Half + 1 \in S
  <2>1. From(<<>>, Half + 1, stop, item, next)
    BY DEF From
  <2> QED BY <2>1
<1>2. PICK m \in S : \A k \in S : m <= k
  BY <1>1, LeastNatural
<1>3. m = 0
  <2> SUFFICES ASSUME m > 0 PROVE FALSE
    OBVIOUS
  <2>1. m - 1 \in Nat /\ m - 1 <= Half /\ (m - 1) + 1 = m
    BY <1>1, <1>2
  <2>2. PICK f : From(f, (m - 1) + 1, stop, item, next)
    BY <2>1
  <2>3. \E g : From(g, m - 1, stop, item, next)
    BY <2>1, <2>2, WalkOn
  <2>4. m - 1 \in S
    BY <2>1, <2>3
  <2> QED BY <1>2, <2>1, <2>4
<1>4. PICK f : From(f, 0, stop, item, next)
  BY <1>3
<1> DEFINE g == [i \in 0..Half |-> f[i]]
<1>5. \A i \in 0..Half : g[i] = f[i]
  OBVIOUS
<1>6. ASSUME NEW i \in 0..Half
      PROVE  f[i] = Step(g, stop, item, next, i)
  <2>1. f[i] = Step(f, stop, item, next, i)
    BY <1>4 DEF From
  <2>2. Step(g, stop, item, next, i) = Step(f, stop, item, next, i)
    <3>1. CASE i \in stop
      BY <3>1 DEF Step
    <3>2. CASE i \notin stop /\ next[i] <= Half
      <4>1. next[i] \in 0..Half
        BY <3>2
      <4>2. g[next[i]] = f[next[i]]
        BY <1>5, <4>1
      <4> HIDE DEF g
      <4> QED BY <4>2 DEF Step
    <3>3. CASE i \notin stop /\ ~(next[i] <= Half)
      BY <3>3 DEF Step
    <3> QED BY <3>1, <3>2, <3>3
  <2> QED BY <2>1, <2>2
<1>7. g = [i \in 0..Half |-> Step(g, stop, item, next, i)]
  BY <1>6
<1>8. Walks(g, stop, item, next)
  BY <1>7 DEF Walks
<1> QED BY <1>8

\* s lies between i and j: Ok says which <<from, to, what>> may be its parts.
Chain(Ok, s, i, j) ==
  \E q \in [1..(Len(s) + 1) -> i..j] :
    /\ q[1] = i /\ q[Len(s) + 1] = j
    /\ \A k \in 1..Len(s) : <<q[k], q[k + 1], s[k]>> \in Ok

LEMMA ChainEmpty ==
  ASSUME NEW Ok, NEW i \in Nat PROVE Chain(Ok, <<>>, i, i)
<1> DEFINE q == [k \in 1..1 |-> i]
<1>1. Len(<<>>) + 1 = 1 /\ 1..Len(<<>>) = {}
  OBVIOUS
<1>2. q \in [1..1 -> i..i] /\ q[1] = i
  OBVIOUS
<1> HIDE DEF q
<1>3. /\ q \in [1..(Len(<<>>) + 1) -> i..i] /\ q[Len(<<>>) + 1] = i
      /\ \A k \in 1..Len(<<>>) : <<q[k], q[k + 1], <<>>[k]>> \in Ok
  BY <1>1, <1>2
<1> QED BY <1>2, <1>3 DEF Chain

LEMMA ChainOrder ==
  ASSUME NEW S, NEW s \in Seq(S), NEW Ok, NEW i \in Nat, NEW j \in Nat,
         Chain(Ok, s, i, j)
  PROVE  i <= j
<1>1. Len(s) \in Nat
  BY LenProperties
<1>2. PICK q \in [1..(Len(s) + 1) -> i..j] : q[1] = i
  BY DEF Chain
<1>3. q[1] \in i..j
  BY <1>1, <1>2
<1> QED BY <1>2, <1>3

LEMMA ChainAppend ==
  ASSUME NEW S, NEW s \in Seq(S), NEW x \in S, NEW Ok,
         NEW i \in Nat, NEW m \in Nat, NEW j \in Nat, m <= j,
         Chain(Ok, s, i, m), <<m, j, x>> \in Ok
  PROVE  Chain(Ok, Append(s, x), i, j)
<1> DEFINE n == Len(s)
           t == Append(s, x)
<1>1. /\ n \in Nat /\ Len(t) = n + 1 /\ t[n + 1] = x
      /\ \A k \in 1..n : t[k] = s[k]
  BY LenProperties, AppendProperties
<1>2. i <= m
  BY ChainOrder
<1>3. PICK q \in [1..(n + 1) -> i..m] :
        /\ q[1] = i /\ q[n + 1] = m
        /\ \A k \in 1..n : <<q[k], q[k + 1], s[k]>> \in Ok
  BY DEF Chain
<1> HIDE DEF n, t
<1> DEFINE r == [k \in 1..(n + 2) |-> IF k <= n + 1 THEN q[k] ELSE j]
<1>4. /\ \A k \in 1..(n + 1) : r[k] = q[k]
      /\ r[n + 2] = j
  BY <1>1
<1>5. r \in [1..(n + 2) -> i..j]
  <2> SUFFICES ASSUME NEW k \in 1..(n + 2)
               PROVE  (IF k <= n + 1 THEN q[k] ELSE j) \in i..j
    OBVIOUS
  <2>1. CASE k <= n + 1
    <3>1. k \in 1..(n + 1)
      BY <1>1, <2>1
    <3>2. q[k] \in i..m
      BY <1>3, <3>1
    <3> QED BY <2>1, <3>2
  <2>2. CASE ~(k <= n + 1)
    BY <1>2, <2>2
  <2> QED BY <2>1, <2>2
<1> HIDE DEF r
<1>6. r[1] = i /\ r[(n + 1) + 1] = j
  BY <1>1, <1>3, <1>4
<1>7. ASSUME NEW k \in 1..(n + 1) PROVE <<r[k], r[k + 1], t[k]>> \in Ok
  <2>1. CASE k = n + 1
    <3>1. r[k] = m /\ r[k + 1] = j /\ t[k] = x
      BY <1>1, <1>3, <1>4, <2>1
    <3> QED BY <3>1
  <2>2. CASE k # n + 1
    <3>1. k \in 1..n /\ k \in 1..(n + 1) /\ k + 1 \in 1..(n + 1)
      BY <1>1, <2>2
    <3>2. r[k] = q[k] /\ r[k + 1] = q[k + 1] /\ t[k] = s[k]
      BY <1>1, <1>4, <3>1
    <3> QED BY <1>3, <3>1, <3>2
  <2> QED BY <2>1, <2>2
<1>8. r \in [1..(Len(t) + 1) -> i..j] /\ r[Len(t) + 1] = j
  BY <1>1, <1>5, <1>6
<1>9. Chain(Ok, t, i, j)
  BY <1>1, <1>6, <1>7, <1>8 DEF Chain
<1> QED BY <1>9 DEF t

\* Only the parts that end by j matter.
LEMMA ChainMono ==
  ASSUME NEW S, NEW s \in Seq(S), NEW Ok, NEW Ok2, NEW i, NEW j,
         Chain(Ok, s, i, j),
         \A a, c \in i..j : \A x : <<a, c, x>> \in Ok => <<a, c, x>> \in Ok2
  PROVE  Chain(Ok2, s, i, j)
<1>1. Len(s) \in Nat
  BY LenProperties
<1>2. PICK q \in [1..(Len(s) + 1) -> i..j] :
        /\ q[1] = i /\ q[Len(s) + 1] = j
        /\ \A k \in 1..Len(s) : <<q[k], q[k + 1], s[k]>> \in Ok
  BY DEF Chain
<1>3. ASSUME NEW k \in 1..Len(s) PROVE <<q[k], q[k + 1], s[k]>> \in Ok2
  <2>1. k \in 1..(Len(s) + 1) /\ k + 1 \in 1..(Len(s) + 1)
    BY <1>1
  <2>2. q[k] \in i..j /\ q[k + 1] \in i..j
    BY <1>2, <2>1
  <2> QED BY <1>2, <2>2
<1> QED BY <1>2, <1>3 DEF Chain

LEMMA SubSeqStep ==
  ASSUME NEW S, NEW s \in Seq(S), NEW k \in 1..Len(s)
  PROVE  <<s[k]>> \o SubSeq(s, k + 1, Len(s)) = SubSeq(s, k, Len(s))
<1> DEFINE n == Len(s)
<1>1. n \in Nat
  BY LenProperties
<1>2. SubSeq(s, k, k) \o SubSeq(s, k + 1, n) = SubSeq(s, k, n)
  BY <1>1, ConcatAdjacentSubSeq
<1>3. SubSeq(s, k, k) = <<s[k]>>
  <2>1. s[k] \in S /\ k \in Int
    BY ElementOfSeq
  <2>2. \A i \in k..k : i = k
    BY <2>1
  <2>3. /\ SubSeq(s, k, k) \in Seq(S) /\ Len(SubSeq(s, k, k)) = 1
        /\ SubSeq(s, k, k)[1] = s[k]
    <3>1. /\ SubSeq(s, k, k) \in Seq(S)
          /\ Len(SubSeq(s, k, k)) = IF k <= k THEN k - k + 1 ELSE 0
          /\ \A i \in 1..(k - k + 1) : SubSeq(s, k, k)[i] = s[k + i - 1]
      BY <2>1, <2>2, SubSeqProperties
    <3>2. k <= k /\ k - k + 1 = 1 /\ 1 \in 1..(k - k + 1) /\ k + 1 - 1 = k
      BY <2>1
    <3> QED BY <3>1, <3>2
  <2>4. /\ <<s[k]>> \in Seq(S) /\ Len(<<s[k]>>) = 1 /\ <<s[k]>>[1] = s[k]
    BY <2>1
  <2> DEFINE u == SubSeq(s, k, k)
             v == <<s[k]>>
  <2>5. u \in Seq(S) /\ v \in Seq(S) /\ Len(u) = 1 /\ Len(v) = 1
        /\ u[1] = v[1]
    BY <2>3, <2>4
  <2> HIDE DEF u, v
  <2>6. Len(u) = Len(v) /\ \A i \in 1..Len(u) : u[i] = v[i]
    BY <2>5
  <2>7. u = v
    BY <2>5, <2>6, SeqEqual
  <2> QED BY <2>7 DEF u, v
<1> QED BY <1>2, <1>3

\* A walk along a chain collects it.
LEMMA ChainWalk ==
  ASSUME NEW S, NEW s \in Seq(S), NEW Ok, NEW i \in Nat, NEW j \in Nat,
         j <= Half, Chain(Ok, s, i, j),
         NEW stop, NEW item, NEW next, NEW f,
         Walks(f, stop, item, next),
         j \in stop,
         \A a, c \in i..j : \A x : <<a, c, x>> \in Ok =>
           a \notin stop /\ item[a] = x /\ next[a] = c
  PROVE  f[i] = s
<1> USE FormatAssumption
<1> DEFINE n == Len(s)
<1>1. n \in Nat
  BY LenProperties
<1>2. PICK q \in [1..(n + 1) -> i..j] :
        /\ q[1] = i /\ q[n + 1] = j
        /\ \A k \in 1..n : <<q[k], q[k + 1], s[k]>> \in Ok
  BY DEF Chain
<1> HIDE DEF n
<1>3. \A k \in 1..(n + 1) : q[k] \in i..j /\ q[k] \in 0..Half
  BY <1>2
<1>f. \A m \in 0..Half : f[m] = Step(f, stop, item, next, m)
  BY DEF Walks
<1> DEFINE Bad == {d \in 0..n :
                     f[q[n + 1 - d]] # SubSeq(s, n + 1 - d, n)}
<1>4. Bad = {}
  <2> SUFFICES ASSUME Bad # {} PROVE FALSE
    OBVIOUS
  <2>1. PICK d \in Bad : \A e \in Bad : d <= e
    <3>1. Bad \in SUBSET Nat
      BY <1>1
    <3> QED BY <3>1, LeastNatural
  <2>2. d \in 0..n
    OBVIOUS
  <2> DEFINE k == n + 1 - d
  <2>3. f[q[k]] # SubSeq(s, k, n)
    OBVIOUS
  <2>b. \A e \in 0..n : e < d => f[q[n + 1 - e]] = SubSeq(s, n + 1 - e, n)
    BY <2>1, <2>2
  <2> HIDE DEF Bad
  <2>4. CASE d = 0
    <3>1. k = n + 1
      BY <1>1, <2>4
    <3>2. f[q[k]] = <<>>
      <4>1. q[k] = j /\ j \in 0..Half
        BY <1>2, <3>1
      <4>2. f[j] = Step(f, stop, item, next, j)
        BY <1>f, <4>1
      <4> QED BY <4>1, <4>2 DEF Step
    <3>3. SubSeq(s, n + 1, n) = <<>>
      BY <1>1, SubSeqEmpty
    <3> QED BY <2>3, <3>1, <3>2, <3>3
  <2>5. CASE d # 0
    <3>1. k \in 1..n /\ d - 1 \in 0..n /\ d - 1 < d
          /\ n + 1 - (d - 1) = k + 1 /\ k + 1 \in 1..(n + 1)
          /\ k \in 1..(n + 1)
      BY <1>1, <2>2, <2>5
    <3>2. f[q[k + 1]] = SubSeq(s, k + 1, n)
      BY <2>b, <3>1
    <3> HIDE DEF k
    <3>3. q[k] \notin stop /\ item[q[k]] = s[k] /\ next[q[k]] = q[k + 1]
      <4>1. q[k] \in i..j /\ q[k + 1] \in i..j
        BY <1>3, <3>1
      <4>2. <<q[k], q[k + 1], s[k]>> \in Ok
        BY <1>2, <3>1
      <4> QED BY <4>1, <4>2
    <3>4. f[q[k]] = Step(f, stop, item, next, q[k])
      BY <1>3, <1>f, <3>1
    <3>5. q[k + 1] \in 0..Half
      BY <1>3, <3>1
    <3>6. q[k + 1] <= Half
      BY <3>5
    <3>7. f[q[k]] = <<s[k]>> \o SubSeq(s, k + 1, n)
      BY <3>2, <3>3, <3>4, <3>6 DEF Step
    <3>8. <<s[k]>> \o SubSeq(s, k + 1, n) = SubSeq(s, k, n)
      BY <3>1, SubSeqStep DEF n
    <3> QED BY <2>3, <3>7, <3>8
  <2> QED BY <2>4, <2>5
<1>5. n \in 0..n /\ n + 1 - n = 1
  BY <1>1
<1>6. f[q[n + 1 - n]] = SubSeq(s, n + 1 - n, n)
  BY <1>4, <1>5
<1>7. f[i] = SubSeq(s, 1, n)
  BY <1>2, <1>5, <1>6
<1>8. SubSeq(s, 1, n) = s
  BY SubSeqFull DEF n
<1> QED BY <1>7, <1>8

----------------------------------------------------------------------------
(* What lies in a half.                                                    *)

Segment == [id : 0..End, words : Seq(0..End)]

\* the words of the half in use
Now == [i \in 0..Half |-> Word(i)]

WordsAt(b, a, c) == [k \in 1..(c - a - 2) |-> b[a + 1 + k]]

\* A segment with its size, its ID and its words, in the words b of a half.
SegmentOk(b) ==
  {t \in (0..Half) \X (0..Half) \X Segment :
     /\ t[2] - t[1] >= 2 /\ b[t[1]] = t[2] - t[1] /\ b[t[1] + 1] = t[3].id
     /\ t[3].words = WordsAt(b, t[1], t[2])}

\* An event with its size and its segments.
EventOk(b) ==
  {t \in (0..Half) \X (0..Half) \X Seq(Segment) :
     /\ t[2] - t[1] > 2 /\ b[t[1]] = Flag + (t[2] - t[1])
     /\ Chain(SegmentOk(b), t[3], t[1] + 3, t[2])}

LEMMA SegmentIn ==
  ASSUME NEW b, NEW a \in Nat, NEW c \in Nat, NEW x, c <= Half
  PROVE  <<a, c, x>> \in SegmentOk(b) <=>
           /\ a + 2 <= c /\ x \in Segment
           /\ b[a] = c - a /\ b[a + 1] = x.id
           /\ x.words = WordsAt(b, a, c)
<1> USE FormatAssumption
<1> DEFINE t == <<a, c, x>>
<1>1. t[1] = a /\ t[2] = c /\ t[3] = x
  OBVIOUS
<1>2. a + 2 <= c => a \in 0..Half /\ c \in 0..Half
  OBVIOUS
<1>3. t \in (0..Half) \X (0..Half) \X Segment <=>
        a \in 0..Half /\ c \in 0..Half /\ x \in Segment
  OBVIOUS
<1> HIDE DEF t
<1>4. t \in SegmentOk(b) <=>
        /\ t \in (0..Half) \X (0..Half) \X Segment
        /\ c - a >= 2 /\ b[a] = c - a /\ b[a + 1] = x.id
        /\ x.words = WordsAt(b, a, c)
  BY <1>1 DEF SegmentOk
<1>5. c - a >= 2 <=> a + 2 <= c
  OBVIOUS
<1>6. t \in SegmentOk(b) <=>
        /\ a + 2 <= c /\ x \in Segment
        /\ b[a] = c - a /\ b[a + 1] = x.id
        /\ x.words = WordsAt(b, a, c)
  BY <1>2, <1>3, <1>4, <1>5
<1> QED BY <1>6 DEF t

LEMMA SegmentHas ==
  ASSUME NEW b, NEW a \in Nat, NEW c \in Nat, NEW x, c <= Half,
         <<a, c, x>> \in SegmentOk(b)
  PROVE  /\ a + 2 <= c /\ x \in Segment
         /\ b[a] = c - a /\ b[a + 1] = x.id
         /\ x.words = WordsAt(b, a, c)
<1>1. <<a, c, x>> \in SegmentOk(b) <=>
        /\ a + 2 <= c /\ x \in Segment
        /\ b[a] = c - a /\ b[a + 1] = x.id
        /\ x.words = WordsAt(b, a, c)
  BY SegmentIn
<1>2. <<a, c, x>> \in SegmentOk(b)
  OBVIOUS
<1> QED BY ONLY <1>1, <1>2

LEMMA EventIn ==
  ASSUME NEW b, NEW a \in Nat, NEW c \in Nat, NEW x, c <= Half
  PROVE  <<a, c, x>> \in EventOk(b) <=>
           /\ a + 2 < c /\ x \in Seq(Segment)
           /\ b[a] = Flag + (c - a)
           /\ Chain(SegmentOk(b), x, a + 3, c)
<1> USE FormatAssumption
<1> DEFINE t == <<a, c, x>>
<1>1. t[1] = a /\ t[2] = c /\ t[3] = x
  OBVIOUS
<1>2. a + 2 < c => a \in 0..Half /\ c \in 0..Half
  OBVIOUS
<1>3. t \in (0..Half) \X (0..Half) \X Seq(Segment) <=>
        a \in 0..Half /\ c \in 0..Half /\ x \in Seq(Segment)
  OBVIOUS
<1> HIDE DEF t
<1>4. t \in EventOk(b) <=>
        /\ t \in (0..Half) \X (0..Half) \X Seq(Segment)
        /\ c - a > 2 /\ b[a] = Flag + (c - a)
        /\ Chain(SegmentOk(b), x, a + 3, c)
  BY <1>1 DEF EventOk
<1>5. c - a > 2 <=> a + 2 < c
  OBVIOUS
<1>6. t \in EventOk(b) <=>
        /\ a + 2 < c /\ x \in Seq(Segment)
        /\ b[a] = Flag + (c - a)
        /\ Chain(SegmentOk(b), x, a + 3, c)
  BY <1>2, <1>3, <1>4, <1>5
<1> QED BY <1>6 DEF t

LEMMA EventHas ==
  ASSUME NEW b, NEW a \in Nat, NEW c \in Nat, NEW x, c <= Half,
         <<a, c, x>> \in EventOk(b)
  PROVE  /\ a + 2 < c /\ x \in Seq(Segment)
         /\ b[a] = Flag + (c - a)
         /\ Chain(SegmentOk(b), x, a + 3, c)
<1>1. <<a, c, x>> \in EventOk(b) <=>
        /\ a + 2 < c /\ x \in Seq(Segment)
        /\ b[a] = Flag + (c - a)
        /\ Chain(SegmentOk(b), x, a + 3, c)
  BY EventIn
<1>2. <<a, c, x>> \in EventOk(b)
  OBVIOUS
<1> QED BY ONLY <1>1, <1>2

\* b and b2 agree on the words from i to before j.
Same(b, b2, i, j) == \A n \in i..(j - 1) : b2[n] = b[n]

LEMMA SegmentStays ==
  ASSUME NEW b, NEW b2, NEW i \in Nat, NEW j \in Nat, j <= Half,
         Same(b, b2, i, j),
         NEW a \in i..j, NEW c \in i..j, NEW x, <<a, c, x>> \in SegmentOk(b)
  PROVE  <<a, c, x>> \in SegmentOk(b2)
<1> USE FormatAssumption
<1>1. a \in Nat /\ c \in Nat /\ c <= Half /\ c <= j /\ i <= a
  OBVIOUS
<1>2. /\ a + 2 <= c /\ x \in Segment
      /\ b[a] = c - a /\ b[a + 1] = x.id
      /\ x.words = WordsAt(b, a, c)
  <2>1. <<a, c, x>> \in SegmentOk(b)
    OBVIOUS
  <2>2. <<a, c, x>> \in SegmentOk(b) <=>
          /\ a + 2 <= c /\ x \in Segment
          /\ b[a] = c - a /\ b[a + 1] = x.id
          /\ x.words = WordsAt(b, a, c)
    BY <1>1, SegmentIn
  <2> QED BY ONLY <2>1, <2>2
<1>3. b2[a] = b[a] /\ b2[a + 1] = b[a + 1]
  <2>1. a \in i..(j - 1) /\ a + 1 \in i..(j - 1)
    BY <1>1, <1>2
  <2> QED BY <2>1 DEF Same
<1>4. \A k \in 1..(c - a - 2) : b2[a + 1 + k] = b[a + 1 + k]
  <2> SUFFICES ASSUME NEW k \in 1..(c - a - 2)
               PROVE  b2[a + 1 + k] = b[a + 1 + k]
    OBVIOUS
  <2>1. a + 1 + k \in i..(j - 1)
    BY <1>1, <1>2
  <2> QED BY <2>1 DEF Same
<1>5. x.words = WordsAt(b2, a, c)
  BY <1>2, <1>4 DEF WordsAt
<1> QED BY <1>1, <1>2, <1>3, <1>5, SegmentIn

LEMMA SegmentsStay ==
  ASSUME NEW b, NEW b2, NEW i \in Nat, NEW j \in Nat, j <= Half,
         Same(b, b2, i, j), NEW s \in Seq(Segment),
         Chain(SegmentOk(b), s, i, j)
  PROVE  Chain(SegmentOk(b2), s, i, j)
<1>1. \A a, c \in i..j : \A x :
        <<a, c, x>> \in SegmentOk(b) => <<a, c, x>> \in SegmentOk(b2)
  BY SegmentStays
<1> QED BY <1>1, ChainMono

LEMMA EventsStay ==
  ASSUME NEW b, NEW b2, NEW i \in Nat, NEW j \in Nat, j <= Half,
         Same(b, b2, i, j), NEW s \in Seq(Seq(Segment)),
         Chain(EventOk(b), s, i, j)
  PROVE  Chain(EventOk(b2), s, i, j)
<1> USE FormatAssumption
<1>1. \A a, c \in i..j : \A x :
        <<a, c, x>> \in EventOk(b) => <<a, c, x>> \in EventOk(b2)
  <2> SUFFICES ASSUME NEW a \in i..j, NEW c \in i..j, NEW x,
                      <<a, c, x>> \in EventOk(b)
               PROVE  <<a, c, x>> \in EventOk(b2)
    OBVIOUS
  <2>1. a \in Nat /\ c \in Nat /\ c <= Half /\ c <= j /\ i <= a
    OBVIOUS
  <2>2. /\ a + 2 < c /\ x \in Seq(Segment)
        /\ b[a] = Flag + (c - a)
        /\ Chain(SegmentOk(b), x, a + 3, c)
    BY <2>1, EventHas
  <2>3. Same(b, b2, a + 3, c)
    BY <2>1 DEF Same
  <2>4. Chain(SegmentOk(b2), x, a + 3, c)
    <3>1. a + 3 \in Nat
      BY <2>1
    <3> QED BY <2>1, <2>2, <2>3, <3>1, SegmentsStay
  <2>5. b2[a] = b[a]
    <3>1. a \in i..(j - 1)
      BY <2>1, <2>2
    <3> QED BY <3>1 DEF Same
  <2> QED BY <2>1, <2>2, <2>4, <2>5, EventIn
<1> QED BY <1>1, ChainMono

----------------------------------------------------------------------------
(* The reader.                                                             *)

LEMMA NowIs ==
  /\ \A i \in 0..Half : Now[i] = Word(i)
  /\ Word(Half) = 0
BY FormatAssumption DEF Now, Word

\* Segments walks along a chain of segments.
LEMMA SegmentsFound ==
  ASSUME TypeOK, NEW i \in Nat, NEW j \in Nat, j <= Half,
         NEW s \in Seq(Segment), Chain(SegmentOk(Now), s, i, j)
  PROVE  Segments(i, j) = s
<1> USE FormatAssumption
<1> DEFINE stop == {n \in 0..Half : n >= j \/ Word(n) < 2}
           item == [n \in 0..Half |->
                      [id |-> Word(n + 1),
                       words |-> [k \in 1..(Word(n) - 2) |->
                                    Word(n + 1 + k)]]]
           next == [n \in 0..Half |-> n + Word(n)]
<1>1. \A n \in Int : Word(n) \in 0..End
  <2>1. \A n \in 0..(Half - 1) : Base(dn) + n \in Buffer
    <3>1. Base(0) = 0 /\ Base(1) = Half
      BY DEF Base
    <3> QED BY <3>1 DEF TypeOK, Buffer
  <2> QED BY <2>1, WordRange DEF TypeOK, Word
<1>2. \A n \in 0..Half : n \notin stop => next[n] \in Nat /\ next[n] > n
  <2> SUFFICES ASSUME NEW n \in 0..Half, n \notin stop
               PROVE  next[n] \in Nat /\ next[n] > n
    OBVIOUS
  <2>1. ~(Word(n) < 2) /\ Word(n) \in Nat
    BY <1>1, WordRange
  <2>2. next[n] = n + Word(n)
    OBVIOUS
  <2> HIDE DEF next
  <2> QED BY <2>1, <2>2
<1>3. \E f : Walks(f, stop, item, next)
  <2> HIDE DEF stop, item, next
  <2> QED BY <1>2, WalkExists
<1> DEFINE Walk(f) ==
      f = [n \in 0..Half |->
        IF n >= j \/ Word(n) < 2 THEN <<>>
        ELSE <<[id |-> Word(n + 1),
                words |-> [k \in 1..(Word(n) - 2) |-> Word(n + 1 + k)]]>>
             \o (IF n + Word(n) <= Half THEN f[n + Word(n)] ELSE <<>>)]
<1>4. ASSUME NEW f
      PROVE  Walk(f) <=> Walks(f, stop, item, next)
  <2>1. \A n \in 0..Half :
          Step(f, stop, item, next, n) =
            (IF n >= j \/ Word(n) < 2 THEN <<>>
             ELSE <<[id |-> Word(n + 1),
                     words |-> [k \in 1..(Word(n) - 2) |->
                                  Word(n + 1 + k)]]>>
                  \o (IF n + Word(n) <= Half THEN f[n + Word(n)]
                                             ELSE <<>>))
    BY DEF Step
  <2> HIDE DEF stop, item, next
  <2> QED BY <2>1 DEF Walks
<1>5. PICK f : Walk(f) /\ Segments(i, j) = f[i]
  <2>1. Segments(i, j) = (CHOOSE f : Walk(f))[i]
    BY DEF Segments
  <2>2. \E f : Walk(f)
    BY <1>3, <1>4
  <2> HIDE DEF Walk
  <2>3. Walk(CHOOSE f : Walk(f))
    BY <2>2
  <2> QED BY <2>1, <2>3
<1>6. Walks(f, stop, item, next)
  BY <1>4, <1>5
<1>7. j \in stop
  OBVIOUS
<1>8. \A a, c \in i..j : \A x : <<a, c, x>> \in SegmentOk(Now) =>
        a \notin stop /\ item[a] = x /\ next[a] = c
  <2> SUFFICES ASSUME NEW a \in i..j, NEW c \in i..j, NEW x,
                      <<a, c, x>> \in SegmentOk(Now)
               PROVE  a \notin stop /\ item[a] = x /\ next[a] = c
    OBVIOUS
  <2>1. a \in Nat /\ c \in Nat /\ c <= Half /\ c <= j
    OBVIOUS
  <2>2. /\ a + 2 <= c /\ x \in Segment
        /\ Now[a] = c - a /\ Now[a + 1] = x.id
        /\ x.words = WordsAt(Now, a, c)
    <3>1. PICK b : b = Now
      OBVIOUS
    <3>2. <<a, c, x>> \in SegmentOk(b)
      BY <3>1
    <3>3. /\ a + 2 <= c /\ x \in Segment
          /\ b[a] = c - a /\ b[a + 1] = x.id
          /\ x.words = WordsAt(b, a, c)
      <4> HIDE DEF stop, item, next
      <4> QED BY <2>1, <3>2, SegmentHas
    <3> QED BY <3>1, <3>3
  <2>3. Word(a) = c - a /\ Word(a + 1) = x.id
    <3>1. a \in 0..Half /\ a + 1 \in 0..Half
      BY <2>1, <2>2
    <3> QED BY <2>2, <3>1, NowIs
  <2>4. x.words = [k \in 1..(Word(a) - 2) |-> Word(a + 1 + k)]
    <3>1. \A k \in 1..(c - a - 2) : Now[a + 1 + k] = Word(a + 1 + k)
      <4> SUFFICES ASSUME NEW k \in 1..(c - a - 2)
                   PROVE  Now[a + 1 + k] = Word(a + 1 + k)
        OBVIOUS
      <4>1. a + 1 + k \in 0..Half
        BY <2>1, <2>2
      <4> QED BY <4>1, NowIs
    <3> QED BY <2>2, <2>3, <3>1 DEF WordsAt
  <2>5. x = [id |-> Word(a + 1),
             words |-> [k \in 1..(Word(a) - 2) |-> Word(a + 1 + k)]]
    BY <2>2, <2>3, <2>4 DEF Segment
  <2>6. a \in 0..Half
    BY <2>1, <2>2
  <2>7. item[a] = x
    BY <2>5, <2>6
  <2>8. next[a] = c
    <3>1. next[a] = a + Word(a)
      BY <2>6
    <3> HIDE DEF next
    <3> QED BY <2>1, <2>3, <3>1
  <2>9. a \notin stop
    <3>1. ~(a >= j) /\ ~(Word(a) < 2)
      BY <2>1, <2>2, <2>3
    <3> QED BY <3>1
  <2> QED BY <2>7, <2>8, <2>9
<1> HIDE DEF stop, item, next, Walk
<1>9. f[i] = s
  BY <1>6, <1>7, <1>8, ChainWalk
<1> QED BY <1>5, <1>9

\* Parsed walks along a chain of events that an END word follows; an event
\* shorter than 0x7fff words is not taken for one.
LEMMA EventsFound ==
  ASSUME TypeOK, Half < Flag, NEW j \in Nat, j < Half, Now[j] = End,
         NEW s \in Seq(Seq(Segment)), Chain(EventOk(Now), s, Header, j)
  PROVE  Parsed = s
<1> USE FormatAssumption
<1>h. Header \in Nat
  BY DEF Header
<1> DEFINE i == Header
           stop == {n \in 0..Half : Word(n) = End \/ Word(n) <= Flag + 2}
           item == [n \in 0..Half |-> Segments(n + 3, n + Word(n) - Flag)]
           next == [n \in 0..Half |-> n + Word(n) - Flag]
<1> HIDE DEF i
<1>1. \A n \in Int : Word(n) \in 0..End
  <2>1. \A n \in 0..(Half - 1) : Base(dn) + n \in Buffer
    <3>1. Base(0) = 0 /\ Base(1) = Half
      BY DEF Base
    <3> QED BY <3>1 DEF TypeOK, Buffer
  <2> QED BY <2>1, WordRange DEF TypeOK, Word
<1>2. \A n \in 0..Half : n \notin stop => next[n] \in Nat /\ next[n] > n
  <2> SUFFICES ASSUME NEW n \in 0..Half, n \notin stop
               PROVE  next[n] \in Nat /\ next[n] > n
    OBVIOUS
  <2>1. ~(Word(n) <= Flag + 2) /\ Word(n) \in Nat
    BY <1>1, WordRange
  <2>2. next[n] = n + Word(n) - Flag
    OBVIOUS
  <2> HIDE DEF next
  <2> QED BY <2>1, <2>2
<1>3. \E f : Walks(f, stop, item, next)
  <2> HIDE DEF stop, item, next
  <2> QED BY <1>2, WalkExists
<1> DEFINE Walk(f) ==
      f = [n \in 0..Half |->
        IF Word(n) = End \/ Word(n) <= Flag + 2 THEN <<>>
        ELSE LET to == n + Word(n) - Flag
             IN <<Segments(n + 3, to)>>
                \o (IF to <= Half THEN f[to] ELSE <<>>)]
<1>4. ASSUME NEW f
      PROVE  Walk(f) <=> Walks(f, stop, item, next)
  <2>1. \A n \in 0..Half :
          Step(f, stop, item, next, n) =
            (IF Word(n) = End \/ Word(n) <= Flag + 2 THEN <<>>
             ELSE LET to == n + Word(n) - Flag
                  IN <<Segments(n + 3, to)>>
                     \o (IF to <= Half THEN f[to] ELSE <<>>))
    BY DEF Step
  <2> HIDE DEF stop, item, next
  <2> QED BY <2>1 DEF Walks
<1>5. PICK f : Walk(f) /\ Parsed = f[i]
  <2>1. Parsed = (CHOOSE f : Walk(f))[i]
    BY DEF Parsed, i
  <2>2. \E f : Walk(f)
    BY <1>3, <1>4
  <2> HIDE DEF Walk
  <2>3. Walk(CHOOSE f : Walk(f))
    BY <2>2
  <2> QED BY <2>1, <2>3
<1>6. Walks(f, stop, item, next)
  BY <1>4, <1>5
<1>7. j \in stop
  <2>1. j \in 0..Half /\ Word(j) = End
    BY NowIs
  <2> QED BY <2>1
<1>8. \A a, c \in i..j : \A x : <<a, c, x>> \in EventOk(Now) =>
        a \notin stop /\ item[a] = x /\ next[a] = c
  <2> SUFFICES ASSUME NEW a \in i..j, NEW c \in i..j, NEW x,
                      <<a, c, x>> \in EventOk(Now)
               PROVE  a \notin stop /\ item[a] = x /\ next[a] = c
    OBVIOUS
  <2>1. a \in Nat /\ c \in Nat /\ c <= Half /\ c <= j
    BY <1>h DEF i
  <2>2. /\ a + 2 < c /\ x \in Seq(Segment)
        /\ Now[a] = Flag + (c - a)
        /\ Chain(SegmentOk(Now), x, a + 3, c)
    <3>1. PICK b : b = Now
      OBVIOUS
    <3>2. <<a, c, x>> \in EventOk(b)
      BY <3>1
    <3>3. /\ a + 2 < c /\ x \in Seq(Segment)
          /\ b[a] = Flag + (c - a)
          /\ Chain(SegmentOk(b), x, a + 3, c)
      <4> HIDE DEF stop, item, next
      <4> QED BY <2>1, <3>2, EventHas
    <3> QED BY <3>1, <3>3
  <2>3. a \in 0..Half
    BY <2>1, <2>2
  <2>4. Word(a) = Flag + (c - a)
    BY <2>2, <2>3, NowIs
  <2>5. a + Word(a) - Flag = c
    BY <2>1, <2>4
  <2>6. Segments(a + 3, c) = x
    <3>1. a + 3 \in Nat
      BY <2>1
    <3> HIDE DEF stop, item, next
    <3> QED BY <2>1, <2>2, <3>1, SegmentsFound
  <2>7. item[a] = x
    <3>1. item[a] = Segments(a + 3, a + Word(a) - Flag)
      BY <2>3
    <3> HIDE DEF item
    <3> QED BY <2>5, <2>6, <3>1
  <2>8. next[a] = c
    <3>1. next[a] = a + Word(a) - Flag
      BY <2>3
    <3> HIDE DEF next
    <3> QED BY <2>5, <3>1
  <2>9. a \notin stop
    <3>1. Word(a) # End /\ ~(Word(a) <= Flag + 2)
      BY <2>1, <2>2, <2>4 DEF End
    <3> QED BY <3>1
  <2> QED BY <2>7, <2>8, <2>9
<1>c. Chain(EventOk(Now), s, i, j)
  BY DEF i
<1>i. i \in Nat
  BY <1>h DEF i
<1> HIDE DEF stop, item, next, Walk
<1>9. f[i] = s
  BY <1>6, <1>7, <1>8, <1>c, <1>i, ChainWalk
<1> QED BY <1>5, <1>9

----------------------------------------------------------------------------
(* What a block holds while it is written.                                 *)

\* The last segment has its ID and its words, not yet its size.
LastRead(b, cur) ==
  \E segs \in Seq(Segment), x \in Segment :
    /\ cur = Append(segs, x)
    /\ Chain(SegmentOk(b), segs, eventhmp + 3, segmenthmp)
    /\ segmenthmp + 2 <= mp
    /\ b[segmenthmp + 1] = x.id /\ x.words = WordsAt(b, segmenthmp, mp)

\* The last event has its segments, not yet its size.
Writing(b) ==
  \E evs \in Seq(Seq(Segment)), cur \in Seq(Segment) :
    /\ events = Append(evs, cur)
    /\ Chain(EventOk(b), evs, Header, eventhmp)
    /\ pc \in {"segment", "endevent"} =>
         Chain(SegmentOk(b), cur, eventhmp + 3, mp)
    /\ pc = "reader" =>
         /\ Chain(SegmentOk(b), cur, eventhmp + 3, segmenthmp)
         /\ mp = segmenthmp + 2 /\ b[segmenthmp + 1] = SegIds[seg]
    /\ pc = "endsegment" => LastRead(b, cur)

Written(b, j) ==
  events \in Seq(Seq(Segment)) /\ Chain(EventOk(b), events, Header, j)

RoundInv ==
  /\ pc \in {"event", "endblock"} \/ (pc = "idle" /\ chkblk = 1) =>
       Written(Now, mp)
  /\ pc \in {"segment", "reader", "endsegment", "endevent"} => Writing(Now)
  /\ pc = "sca" => mp >= 2 /\ Now[mp - 2] = End /\ Written(Now, mp - 2)
  /\ pc = "finished" =>
       \E j \in 0..(Half - 1) : Now[j] = End /\ Written(Now, j)

LEMMA NowTypes == TypeOK => \A i \in 0..Half : Now[i] \in 0..End
<1> USE FormatAssumption
<1> SUFFICES ASSUME TypeOK, NEW i \in 0..Half PROVE Now[i] \in 0..End
  OBVIOUS
<1>1. i < Half => Base(dn) + i \in Buffer
  <2>1. Base(0) = 0 /\ Base(1) = Half
    BY DEF Base
  <2> QED BY <2>1 DEF TypeOK, Buffer
<1>2. Word(i) \in 0..End
  BY <1>1, WordRange DEF TypeOK, Word
<1> QED BY <1>2 DEF Now

LEMMA StoredNow ==
  ASSUME TypeOK, NEW x, DOMAIN x \subseteq 0..(Half - 1),
         databuff' = Stored(x), dn' = dn, NEW i \in 0..(Half - 1)
  PROVE  Now'[i] = IF i \in DOMAIN x THEN x[i] ELSE Now[i]
<1> USE FormatAssumption
<1>1. Base(0) = 0 /\ Base(1) = Half BY DEF Base
<1>2. Base(dn) \in Int /\ Base(dn') = Base(dn)
  BY <1>1 DEF TypeOK
<1> DEFINE j == Base(dn) + i
<1>3. j \in Buffer /\ j - Base(dn) = i
  BY <1>1 DEF TypeOK, Buffer
<1>4. databuff' = [k \in Buffer |-> IF k - Base(dn) \in DOMAIN x
                                      THEN x[k - Base(dn)] ELSE databuff[k]]
  BY DEF Stored
<1>5. Now'[i] = databuff'[j] /\ Now[i] = databuff[j]
  BY <1>2 DEF Now, Word
<1> HIDE DEF j
<1>6. databuff'[j] = IF i \in DOMAIN x THEN x[i] ELSE databuff[j]
  BY <1>3, <1>4
<1> QED BY <1>5, <1>6

\* A store of n words from a on, in the half.
LEMMA WordsNow ==
  ASSUME TypeOK, NEW a \in Nat, NEW n \in Nat, NEW v, a + n <= Half,
         databuff' = Stored(Words(a, n, v)), dn' = dn
  PROVE  /\ \A i \in 0..(Half - 1) : i < a => Now'[i] = Now[i]
         /\ \A i \in 0..(Half - 1) : i >= a + n => Now'[i] = Now[i]
         /\ \A i \in a..(a + n - 1) : Now'[i] = v
<1> USE FormatAssumption
<1> DEFINE x == Words(a, n, v)
<1>1. DOMAIN x = a..(a + n - 1) /\ \A i \in a..(a + n - 1) : x[i] = v
  BY DEF Words
<1>2. DOMAIN x \subseteq 0..(Half - 1)
  BY <1>1
<1>3. databuff' = Stored(x)
  OBVIOUS
<1> HIDE DEF x
<1>4. \A i \in 0..(Half - 1) :
        Now'[i] = IF i \in DOMAIN x THEN x[i] ELSE Now[i]
  BY <1>2, <1>3, StoredNow
<1>5. ASSUME NEW i \in 0..(Half - 1), i < a \/ i >= a + n
      PROVE  Now'[i] = Now[i]
  <2>1. i \notin a..(a + n - 1)
    BY <1>5
  <2> QED BY <1>1, <1>4, <2>1
<1>6. ASSUME NEW i \in a..(a + n - 1) PROVE Now'[i] = v
  <2>1. i \in 0..(Half - 1)
    BY <1>6
  <2> QED BY <1>1, <1>4, <2>1
<1> QED BY <1>5, <1>6

LEMMA SameNow == databuff' = databuff /\ dn' = dn => Now' = Now
BY DEF Now, Word

\* A block that is begun, before its first event.
LEMMA RoundInitBlock ==
  ASSUME Capacity, TypeOK, SizeInv, FillInv, RoundInv, InitBlock
  PROVE  RoundInv'
<1>1. pc = "idle" /\ pc' = "event" /\ chkblk' = 1 /\ dn' = dn
  BY DEF InitBlock
<1>2. CASE chkblk = 1
  <2>1. Written(Now, mp)
    BY <1>1, <1>2 DEF RoundInv
  <2>2. UNCHANGED <<databuff, mp, events>>
    BY <1>2 DEF InitBlock
  <2>3. Written(Now, mp)'
    BY <1>1, <2>1, <2>2, SameNow DEF Written
  <2> QED BY <1>1, <2>3 DEF RoundInv
<1>3. CASE chkblk # 1
  <2>1. mp' = Header /\ events' = <<>>
    BY <1>3 DEF InitBlock
  <2>2. <<>> \in Seq(Seq(Segment))
    OBVIOUS
  <2>3. Chain(EventOk(Now'), <<>>, Header, Header)
    BY ChainEmpty DEF Header
  <2>4. Written(Now, mp)'
    BY <2>1, <2>2, <2>3 DEF Written
  <2> QED BY <1>1, <2>4 DEF RoundInv
<1> QED BY <1>2, <1>3

\* An event begins behind the last one.
LEMMA RoundInitEvent ==
  ASSUME Capacity, TypeOK, SizeInv, FillInv, RoundInv, InitEvent
  PROVE  RoundInv'
<1> USE FormatAssumption
<1>1. /\ pc = "event" /\ pc' = "segment" /\ dn' = dn
      /\ eventhmp' = mp /\ mp' = mp + 3
      /\ events' = Append(events, <<>>)
      /\ databuff' = Stored([i \in {mp + 1, mp + 2} |->
                              IF i = mp + 1 THEN Fid ELSE Short(eventid')])
  BY DEF InitEvent
<1>2. PICK b : b = Now
  OBVIOUS
<1>3. PICK c : c = Now'
  OBVIOUS
<1>4. PICK m : m = mp
  OBVIOUS
<1>5. m \in Nat /\ m + 3 <= Half
  <2>1. mp <= MaxBuff /\ MaxEvent \in Nat /\ MaxEvent >= 3
    BY <1>1 DEF FillInv, MaxEvent
  <2> QED BY <1>4, <2>1 DEF TypeOK, Capacity
<1>6. Same(b, c, Header, m)
  <2> DEFINE x == [i \in {mp + 1, mp + 2} |->
                     IF i = mp + 1 THEN Fid ELSE Short(eventid')]
  <2>1. DOMAIN x = {m + 1, m + 2} /\ DOMAIN x \subseteq 0..(Half - 1)
    BY <1>4, <1>5
  <2>2. databuff' = Stored(x)
    BY <1>1
  <2> HIDE DEF x
  <2> SUFFICES ASSUME NEW n \in Header..(m - 1) PROVE c[n] = b[n]
    BY DEF Same
  <2>3. n \in 0..(Half - 1) /\ n \notin DOMAIN x
    BY <1>5, <2>1 DEF Header
  <2>4. Now'[n] = IF n \in DOMAIN x THEN x[n] ELSE Now[n]
    BY <1>1, <2>1, <2>2, <2>3, StoredNow
  <2> QED BY <1>2, <1>3, <2>3, <2>4
<1>7. events \in Seq(Seq(Segment)) /\ Chain(EventOk(b), events, Header, m)
  BY <1>1, <1>2, <1>4 DEF RoundInv, Written
<1>8. Chain(EventOk(c), events, Header, m)
  <2>1. PICK e : e = events
    OBVIOUS
  <2>2. Header \in Nat /\ m <= Half
    BY <1>5 DEF Header
  <2> QED BY <1>5, <1>6, <1>7, <2>1, <2>2, EventsStay
<1>9. Chain(SegmentOk(c), <<>>, m + 3, m + 3)
  BY <1>5, ChainEmpty
<1>10. Writing(Now)'
  <2>1. <<>> \in Seq(Segment)
    OBVIOUS
  <2>2. PICK e : e = events
    OBVIOUS
  <2>3. /\ events' = Append(e, <<>>)
        /\ Chain(EventOk(c), e, Header, eventhmp')
        /\ Chain(SegmentOk(c), <<>>, eventhmp' + 3, mp')
    BY <1>1, <1>4, <1>8, <1>9, <2>2
  <2>4. e \in Seq(Seq(Segment))
    BY <1>7, <2>2
  <2> QED BY <1>1, <1>3, <2>1, <2>3, <2>4 DEF Writing
<1> QED BY <1>1, <1>10 DEF RoundInv

LEMMA RoundInitSegment ==
  ASSUME Capacity, TypeOK, SizeInv, FillInv, RoundInv, InitSegment
  PROVE  RoundInv'
<1> USE FormatAssumption
<1>1. /\ pc = "segment" /\ pc' = "reader" /\ dn' = dn
      /\ segmenthmp' = mp /\ mp' = mp + 2
      /\ UNCHANGED <<events, eventhmp, seg>>
      /\ databuff' = Stored(Words(mp + 1, 1, SegIds[seg]))
  BY DEF InitSegment
<1>2. PICK b : b = Now
  OBVIOUS
<1>3. PICK c : c = Now'
  OBVIOUS
<1>4. PICK m : m = mp
  OBVIOUS
<1>5. PICK h : h = eventhmp
  OBVIOUS
<1>6. m \in Nat /\ h \in Nat /\ m + 2 <= Half
  <2>1. MaxEvent = 9 + 3 * MaxLen
    BY DEF MaxEvent
  <2> QED BY <1>1, <1>4, <1>5, <2>1
          DEF TypeOK, SizeInv, FillInv, Ahead, Capacity
<1>7. /\ \A i \in 0..(Half - 1) : i < m + 1 => c[i] = b[i]
      /\ c[m + 1] = SegIds[seg]
  <2>1. m + 1 \in Nat /\ 1 \in Nat /\ m + 1 + 1 <= Half
        /\ m + 1 \in (m + 1)..(m + 1 + 1 - 1)
    BY <1>6
  <2>2. PICK v : v = SegIds[seg]
    OBVIOUS
  <2>3. databuff' = Stored(Words(m + 1, 1, v))
    BY <1>1, <1>4, <2>2
  <2>4. /\ \A i \in 0..(Half - 1) : i < m + 1 => Now'[i] = Now[i]
        /\ \A i \in (m + 1)..(m + 1 + 1 - 1) : Now'[i] = v
    BY <1>1, <2>1, <2>3, WordsNow
  <2> QED BY <1>2, <1>3, <2>1, <2>2, <2>4
<1>8. PICK evs \in Seq(Seq(Segment)), cur \in Seq(Segment) :
        /\ events = Append(evs, cur)
        /\ Chain(EventOk(b), evs, Header, h)
        /\ Chain(SegmentOk(b), cur, h + 3, m)
  BY <1>1, <1>2, <1>4, <1>5 DEF RoundInv, Writing
<1>9. h + 3 \in Nat /\ h + 3 <= m /\ Header \in Nat /\ m <= Half /\ h <= Half
  <2>1. h + 3 \in Nat
    BY <1>6
  <2>2. h + 3 <= m
    BY <1>6, <1>8, <2>1, ChainOrder
  <2> QED BY <1>6, <2>2 DEF Header
<1>10. Same(b, c, Header, h) /\ Same(b, c, h + 3, m)
  BY <1>6, <1>7, <1>9 DEF Same
<1>11. Chain(EventOk(c), evs, Header, h) /\ Chain(SegmentOk(c), cur, h + 3, m)
  BY <1>6, <1>8, <1>9, <1>10, EventsStay, SegmentsStay
<1>12. Writing(Now)'
  <2>1. /\ events' = Append(evs, cur)
        /\ Chain(EventOk(c), evs, Header, eventhmp')
        /\ Chain(SegmentOk(c), cur, eventhmp' + 3, segmenthmp')
        /\ mp' = segmenthmp' + 2 /\ c[segmenthmp' + 1] = SegIds[seg']
    BY <1>1, <1>4, <1>5, <1>7, <1>8, <1>11
  <2> QED BY <1>1, <1>3, <2>1 DEF Writing
<1> QED BY <1>1, <1>12 DEF RoundInv

\* A segment is read into the last event.
LEMMA LastReplaced ==
  ASSUME NEW S, NEW s \in Seq(S), NEW x \in S, NEW z \in S
  PROVE  [Append(s, x) EXCEPT ![Len(Append(s, x))] = z] = Append(s, z)
<1> DEFINE n == Len(s)
           t == Append(s, x)
           u == Append(s, z)
<1>1. n \in Nat
  BY LenProperties
<1>2. /\ t \in Seq(S) /\ Len(t) = n + 1 /\ t[n + 1] = x
      /\ \A k \in 1..n : t[k] = s[k]
  BY AppendProperties
<1>3. /\ u \in Seq(S) /\ Len(u) = n + 1 /\ u[n + 1] = z
      /\ \A k \in 1..n : u[k] = s[k]
  BY AppendProperties
<1>4. t \in [1..(n + 1) -> S] /\ u \in [1..(n + 1) -> S]
  <2>1. t \in [1..Len(t) -> S] /\ u \in [1..Len(u) -> S]
    BY <1>2, <1>3, LenProperties
  <2> QED BY <1>2, <1>3, <2>1
<1> HIDE DEF n, t, u
<1>5. [t EXCEPT ![n + 1] = z] = u
  <2> DEFINE v == [t EXCEPT ![n + 1] = z]
  <2>1. v \in [1..(n + 1) -> S]
    BY <1>4
  <2>2. \A k \in 1..(n + 1) : v[k] = u[k]
    <3> SUFFICES ASSUME NEW k \in 1..(n + 1) PROVE v[k] = u[k]
      OBVIOUS
    <3>1. CASE k = n + 1 BY <1>1, <1>3, <1>4, <3>1
    <3>2. CASE k # n + 1
      <4>1. k \in 1..n
        BY <1>1, <3>2
      <4>2. v[k] = t[k]
        BY <1>4, <3>2
      <4> QED BY <1>2, <1>3, <4>1, <4>2
    <3> QED BY <3>1, <3>2
  <2> HIDE DEF v
  <2>3. v = [k \in 1..(n + 1) |-> v[k]] /\ u = [k \in 1..(n + 1) |-> u[k]]
    BY <1>4, <2>1
  <2>4. [k \in 1..(n + 1) |-> v[k]] = [k \in 1..(n + 1) |-> u[k]]
    BY <2>2
  <2>5. v = u
    BY <2>3, <2>4
  <2> QED BY <2>5 DEF v
<1>6. [t EXCEPT ![Len(t)] = z] = u
  BY <1>2, <1>5
<1> QED BY <1>6 DEF t, u

LEMMA RoundReader ==
  ASSUME Capacity, TypeOK, SizeInv, FillInv, RoundInv,
         NEW n \in 0..MaxLen, NEW x \in Payload, Reader(n, x)
  PROVE  RoundInv'
<1> USE FormatAssumption
<1> DEFINE y == [id |-> SegIds[seg], words |-> [k \in 1..n |-> x]]
<1>1. /\ pc = "reader" /\ pc' = "endsegment" /\ dn' = dn
      /\ mp' = mp + n
      /\ UNCHANGED <<eventhmp, segmenthmp>>
      /\ events' = [events EXCEPT ![Len(events)] = Append(@, y)]
      /\ databuff' = Stored(Words(mp, n, x))
  BY DEF Reader
<1>2. PICK b : b = Now
  OBVIOUS
<1>3. PICK c : c = Now'
  OBVIOUS
<1>4. PICK m : m = mp
  OBVIOUS
<1>5. PICK h : h = eventhmp
  OBVIOUS
<1>6. PICK g : g = segmenthmp
  OBVIOUS
<1>7. m \in Nat /\ h \in Nat /\ g \in Nat /\ m + n <= Half
  <2>1. MaxEvent = 9 + 3 * MaxLen
    BY DEF MaxEvent
  <2> QED BY <1>1, <1>4, <1>5, <1>6, <2>1
          DEF TypeOK, SizeInv, FillInv, Ahead, Capacity
<1>8. /\ \A i \in 0..(Half - 1) : i < m => c[i] = b[i]
      /\ \A i \in m..(m + n - 1) : c[i] = x
  <2>1. databuff' = Stored(Words(m, n, x)) /\ n \in Nat
    BY <1>1, <1>4
  <2>2. /\ \A i \in 0..(Half - 1) : i < m => Now'[i] = Now[i]
        /\ \A i \in m..(m + n - 1) : Now'[i] = x
    BY <1>1, <1>7, <2>1, WordsNow
  <2> QED BY <1>2, <1>3, <2>2
<1>9. PICK evs \in Seq(Seq(Segment)), cur \in Seq(Segment) :
        /\ events = Append(evs, cur)
        /\ Chain(EventOk(b), evs, Header, h)
        /\ Chain(SegmentOk(b), cur, h + 3, g)
        /\ m = g + 2 /\ b[g + 1] = SegIds[seg]
  BY <1>1, <1>2, <1>4, <1>5, <1>6 DEF RoundInv, Writing
<1>10. h + 3 \in Nat /\ h + 3 <= g /\ Header \in Nat /\ g <= Half /\ h <= Half
  <2>1. h + 3 \in Nat
    BY <1>7
  <2>2. h + 3 <= g
    BY <1>7, <1>9, <2>1, ChainOrder
  <2> QED BY <1>7, <1>9, <2>2 DEF Header
<1>11. Same(b, c, Header, h) /\ Same(b, c, h + 3, g)
  BY <1>7, <1>8, <1>9, <1>10 DEF Same, Header
<1>12. Chain(EventOk(c), evs, Header, h) /\ Chain(SegmentOk(c), cur, h + 3, g)
  BY <1>7, <1>9, <1>10, <1>11, EventsStay, SegmentsStay
<1>13. y \in Segment
  <2>1. seg = 1 \/ seg = 2 \/ seg = 3
    BY <1>1 DEF SizeInv
  <2>2. SegIds[1] = 1 /\ SegIds[2] = 1 /\ SegIds[3] = 2
    BY DEF SegIds
  <2>3. SegIds[seg] \in 0..End
    BY <2>1, <2>2, WordRange
  <2>4. x \in 0..End /\ n \in Nat
    OBVIOUS
  <2>5. [k \in 1..n |-> x] \in Seq(0..End)
    BY <2>4
  <2> QED BY <2>3, <2>5 DEF Segment
<1>14. c[g + 1] = y.id
  <2>1. g + 1 \in 0..(Half - 1) /\ g + 1 < m
    BY <1>7, <1>9
  <2>2. c[g + 1] = b[g + 1]
    BY <1>8, <2>1
  <2> QED BY <1>9, <2>2
<1>15. y.words = WordsAt(c, g, m + n)
  <2>1. m + n - g - 2 = n
    BY <1>7, <1>9
  <2>2. \A k \in 1..n : c[g + 1 + k] = x
    <3> SUFFICES ASSUME NEW k \in 1..n PROVE c[g + 1 + k] = x
      OBVIOUS
    <3>1. g + 1 + k \in m..(m + n - 1)
      BY <1>7, <1>9
    <3> QED BY <1>8, <3>1
  <2>3. WordsAt(c, g, m + n) = [k \in 1..n |-> c[g + 1 + k]]
    <3>1. PICK w : w = m + n
      OBVIOUS
    <3>2. WordsAt(c, g, w) = [k \in 1..(w - g - 2) |-> c[g + 1 + k]]
      BY DEF WordsAt
    <3>3. w - g - 2 = n
      BY <1>7, <1>9, <3>1
    <3>4. WordsAt(c, g, w) = [k \in 1..n |-> c[g + 1 + k]]
      BY <3>2, <3>3
    <3> QED BY <3>1, <3>4
  <2>4. [k \in 1..n |-> c[g + 1 + k]] = [k \in 1..n |-> x]
    BY <2>2
  <2>5. y.words = [k \in 1..n |-> x]
    OBVIOUS
  <2> QED BY ONLY <2>3, <2>4, <2>5
<1> HIDE DEF y
<1>16. PICK z \in Seq(Segment) :
         events' = Append(evs, z) /\ z = Append(cur, y)
  <2>1. Append(cur, y) \in Seq(Segment)
    BY <1>13, AppendProperties
  <2>2. events[Len(events)] = cur
    BY <1>9, AppendProperties
  <2>3. events' = [events EXCEPT ![Len(events)] = Append(cur, y)]
    BY <1>1, <2>2
  <2>4. PICK z \in Seq(Segment) : z = Append(cur, y)
    BY <2>1
  <2>5. [Append(evs, cur) EXCEPT ![Len(Append(evs, cur))] = z]
          = Append(evs, z)
    BY LastReplaced
  <2>6. events' = Append(evs, z)
    BY <1>9, <2>3, <2>4, <2>5
  <2> QED BY <2>4, <2>6
<1>17. LastRead(c, z)'
  <2>1. eventhmp' = h /\ segmenthmp' = g /\ mp' = m + n
    BY <1>1, <1>4, <1>5, <1>6
  <2>2. g + 2 <= m + n
    BY <1>7, <1>9
  <2>3. \E segs \in Seq(Segment), w \in Segment :
          /\ z = Append(segs, w)
          /\ Chain(SegmentOk(c), segs, h + 3, g)
          /\ g + 2 <= m + n
          /\ c[g + 1] = w.id /\ w.words = WordsAt(c, g, m + n)
    BY <1>12, <1>13, <1>14, <1>15, <1>16, <2>2
  <2> QED BY <2>1, <2>3 DEF LastRead
<1>18. Writing(Now)'
  <2>1. /\ events' = Append(evs, z)
        /\ Chain(EventOk(c), evs, Header, eventhmp')
    <3>1. eventhmp' = h
      BY <1>1, <1>5
    <3> QED BY <1>12, <1>16, <3>1
  <2> QED BY <1>1, <1>3, <1>17, <2>1 DEF Writing
<1> QED BY <1>1, <1>18 DEF RoundInv

\* The size of the last segment is written.
LEMMA RoundEndSegment ==
  ASSUME Capacity, Half < Flag, TypeOK, SizeInv, FillInv, RoundInv, EndSegment
  PROVE  RoundInv'
<1> USE FormatAssumption
<1>1. /\ pc = "endsegment" /\ pc' \in {"segment", "endevent"} /\ dn' = dn
      /\ UNCHANGED <<mp, eventhmp, segmenthmp, events>>
      /\ databuff' = Stored(Words(segmenthmp, 1, Short(segmentsize)))
  BY DEF EndSegment
<1>2. PICK b : b = Now
  OBVIOUS
<1>3. PICK c : c = Now'
  OBVIOUS
<1>4. PICK m : m = mp
  OBVIOUS
<1>5. PICK h : h = eventhmp
  OBVIOUS
<1>6. PICK g : g = segmenthmp
  OBVIOUS
<1>7. m \in Nat /\ h \in Nat /\ g \in Nat /\ m <= Half
  BY <1>4, <1>5, <1>6 DEF TypeOK, FillInv
<1>8. PICK evs \in Seq(Seq(Segment)), cur \in Seq(Segment) :
        /\ events = Append(evs, cur)
        /\ Chain(EventOk(b), evs, Header, h)
        /\ LastRead(b, cur)
  BY <1>1, <1>2, <1>5 DEF RoundInv, Writing
<1>9. PICK segs \in Seq(Segment), x \in Segment :
        /\ cur = Append(segs, x)
        /\ Chain(SegmentOk(b), segs, h + 3, g)
        /\ g + 2 <= m
        /\ b[g + 1] = x.id /\ x.words = WordsAt(b, g, m)
  BY <1>4, <1>5, <1>6, <1>8 DEF LastRead
<1>10. Short(segmentsize) = m - g
  <2>1. segmentsize = m - g
    BY <1>1, <1>4, <1>6 DEF SizeInv
  <2>2. m - g \in Nat /\ m - g < End + 1 /\ End + 1 \in Nat
    BY <1>7, <1>9, WordRange
  <2>3. (m - g) % (End + 1) = m - g
    BY <2>2, SmallMod
  <2> QED BY <2>1, <2>3 DEF Short
<1>11. /\ \A i \in 0..(Half - 1) : i < g => c[i] = b[i]
       /\ \A i \in 0..(Half - 1) : i >= g + 1 => c[i] = b[i]
       /\ c[g] = m - g
  <2>1. PICK v : v = Short(segmentsize)
    OBVIOUS
  <2>2. databuff' = Stored(Words(g, 1, v)) /\ g + 1 <= Half
        /\ g \in g..(g + 1 - 1)
    BY <1>1, <1>6, <1>7, <1>9, <2>1
  <2>3. /\ \A i \in 0..(Half - 1) : i < g => Now'[i] = Now[i]
        /\ \A i \in 0..(Half - 1) : i >= g + 1 => Now'[i] = Now[i]
        /\ \A i \in g..(g + 1 - 1) : Now'[i] = v
    BY <1>1, <1>7, <2>2, WordsNow
  <2> QED BY <1>2, <1>3, <1>10, <2>1, <2>2, <2>3
<1>12. h + 3 \in Nat /\ h + 3 <= g /\ Header \in Nat /\ g <= Half /\ h <= Half
  <2>1. h + 3 \in Nat
    BY <1>7
  <2>2. h + 3 <= g
    BY <1>7, <1>9, <2>1, ChainOrder
  <2> QED BY <1>7, <1>9, <2>2 DEF Header
<1>13. Same(b, c, Header, h) /\ Same(b, c, h + 3, g)
  BY <1>7, <1>9, <1>11, <1>12 DEF Same, Header
<1>14. Chain(EventOk(c), evs, Header, h) /\ Chain(SegmentOk(c), segs, h + 3, g)
  BY <1>7, <1>8, <1>9, <1>12, <1>13, EventsStay, SegmentsStay
<1>15. x.words = WordsAt(c, g, m)
  <2>1. \A k \in 1..(m - g - 2) : c[g + 1 + k] = b[g + 1 + k]
    <3> SUFFICES ASSUME NEW k \in 1..(m - g - 2)
                 PROVE  c[g + 1 + k] = b[g + 1 + k]
      OBVIOUS
    <3>1. g + 1 + k \in 0..(Half - 1) /\ g + 1 + k >= g + 1
      BY <1>7, <1>9
    <3> QED BY <1>11, <3>1
  <2> QED BY <1>9, <2>1 DEF WordsAt
<1>16. c[g + 1] = x.id
  <2>1. g + 1 \in 0..(Half - 1) /\ g + 1 >= g + 1
    BY <1>7, <1>9
  <2> QED BY <1>9, <1>11, <2>1
<1>17. <<g, m, x>> \in SegmentOk(c)
  <2>1. <<g, m, x>> \in SegmentOk(c) <=>
          /\ g + 2 <= m /\ x \in Segment
          /\ c[g] = m - g /\ c[g + 1] = x.id
          /\ x.words = WordsAt(c, g, m)
    BY <1>7, SegmentIn
  <2>2. x \in Segment
    OBVIOUS
  <2> QED BY ONLY <1>9, <1>11, <1>15, <1>16, <2>1, <2>2
<1>18. Chain(SegmentOk(c), cur, h + 3, m)
  <2>1. g <= m
    BY <1>7, <1>9
  <2>2. Chain(SegmentOk(c), Append(segs, x), h + 3, m)
    BY <1>7, <1>12, <1>14, <1>17, <2>1, ChainAppend
  <2> QED BY <1>9, <2>2
<1>19. Writing(Now)'
  <2>1. eventhmp' = h /\ mp' = m /\ events' = Append(evs, cur)
    BY <1>1, <1>4, <1>5, <1>8
  <2>2. /\ events' = Append(evs, cur)
        /\ Chain(EventOk(c), evs, Header, eventhmp')
        /\ Chain(SegmentOk(c), cur, eventhmp' + 3, mp')
    BY <1>14, <1>18, <2>1
  <2> QED BY <1>1, <1>3, <2>2 DEF Writing
<1> QED BY <1>1, <1>19 DEF RoundInv

\* The size of the last event is written.
LEMMA RoundEndEvent ==
  ASSUME Capacity, Half < Flag, TypeOK, SizeInv, FillInv, RoundInv, EndEvent
  PROVE  RoundInv'
<1> USE FormatAssumption
<1>1. /\ pc = "endevent" /\ pc' \in {"idle", "endblock"} /\ dn' = dn
      /\ UNCHANGED <<mp, eventhmp, events>>
      /\ databuff' = Stored(Words(eventhmp, 1, Marked(eventsize)))
  BY DEF EndEvent, sizes
<1>2. PICK b : b = Now
  OBVIOUS
<1>3. PICK c : c = Now'
  OBVIOUS
<1>4. PICK m : m = mp
  OBVIOUS
<1>5. PICK h : h = eventhmp
  OBVIOUS
<1>6. m \in Nat /\ h \in Nat /\ m <= Half
  BY <1>4, <1>5 DEF TypeOK, FillInv
<1>7. PICK evs \in Seq(Seq(Segment)), cur \in Seq(Segment) :
        /\ events = Append(evs, cur)
        /\ Chain(EventOk(b), evs, Header, h)
        /\ Chain(SegmentOk(b), cur, h + 3, m)
  BY <1>1, <1>2, <1>4, <1>5 DEF RoundInv, Writing
<1>8. h + 3 \in Nat /\ h + 3 <= m /\ Header \in Nat /\ h <= Half
  <2>1. h + 3 \in Nat
    BY <1>6
  <2>2. h + 3 <= m
    BY <1>6, <1>7, <2>1, ChainOrder
  <2> QED BY <1>6, <2>2 DEF Header
<1>9. Marked(eventsize) = Flag + (m - h)
  <2>1. eventsize = m - h
    BY <1>1, <1>4, <1>5 DEF SizeInv
  <2>2. m - h \in Nat /\ m - h < Flag /\ Flag \in Nat
    BY <1>6, <1>8
  <2>3. (m - h) % Flag = m - h
    BY <2>2, SmallMod
  <2> QED BY <2>1, <2>3 DEF Marked
<1>10. /\ \A i \in 0..(Half - 1) : i < h => c[i] = b[i]
       /\ \A i \in 0..(Half - 1) : i >= h + 1 => c[i] = b[i]
       /\ c[h] = Flag + (m - h)
  <2>1. PICK v : v = Marked(eventsize)
    OBVIOUS
  <2>2. databuff' = Stored(Words(h, 1, v)) /\ h + 1 <= Half
        /\ h \in h..(h + 1 - 1)
    BY <1>1, <1>5, <1>6, <1>8, <2>1
  <2>3. /\ \A i \in 0..(Half - 1) : i < h => Now'[i] = Now[i]
        /\ \A i \in 0..(Half - 1) : i >= h + 1 => Now'[i] = Now[i]
        /\ \A i \in h..(h + 1 - 1) : Now'[i] = v
    BY <1>1, <1>6, <2>2, WordsNow
  <2> QED BY <1>2, <1>3, <1>9, <2>1, <2>2, <2>3
<1>11. Same(b, c, Header, h) /\ Same(b, c, h + 3, m)
  BY <1>6, <1>8, <1>10 DEF Same, Header
<1>12. Chain(EventOk(c), evs, Header, h) /\ Chain(SegmentOk(c), cur, h + 3, m)
  BY <1>6, <1>7, <1>8, <1>11, EventsStay, SegmentsStay
<1>13. <<h, m, cur>> \in EventOk(c)
  <2>1. <<h, m, cur>> \in EventOk(c) <=>
          /\ h + 2 < m /\ cur \in Seq(Segment)
          /\ c[h] = Flag + (m - h)
          /\ Chain(SegmentOk(c), cur, h + 3, m)
    BY <1>6, EventIn
  <2>2. h + 2 < m /\ cur \in Seq(Segment)
    BY <1>6, <1>8
  <2> QED BY ONLY <1>10, <1>12, <2>1, <2>2
<1>14. Written(Now, mp)'
  <2>1. PICK e \in Seq(Seq(Segment)) : e = events
    BY <1>7, AppendProperties
  <2>2. h <= m
    BY <1>6, <1>8
  <2>3. Chain(EventOk(c), Append(evs, cur), Header, m)
    BY <1>6, <1>8, <1>12, <1>13, <2>2, ChainAppend
  <2>4. mp' = m /\ events' = e /\ e = Append(evs, cur)
    BY <1>1, <1>4, <1>7, <2>1
  <2>5. Chain(EventOk(c), events', Header, mp')
    BY <2>3, <2>4
  <2> QED BY <1>3, <2>1, <2>4, <2>5 DEF Written
<1> QED BY <1>1, <1>14 DEF RoundInv

\* The END words, behind the last event.
LEMMA RoundEndBlock ==
  ASSUME Capacity, TypeOK, SizeInv, FillInv, RoundInv, EndBlock
  PROVE  RoundInv'
<1> USE FormatAssumption
<1>1. /\ pc = "endblock" /\ pc' = "sca" /\ dn' = dn /\ mp' = mp + 2
      /\ UNCHANGED events
      /\ databuff' = Stored(Words(mp, 2, End))
  BY DEF EndBlock
<1>2. PICK b : b = Now
  OBVIOUS
<1>3. PICK c : c = Now'
  OBVIOUS
<1>4. PICK m : m = mp
  OBVIOUS
<1>5. m \in Nat /\ m + 2 <= Half /\ Header \in Nat
  <2>1. mp <= MaxBuff + MaxEvent /\ MaxEvent \in Nat
    BY <1>1 DEF FillInv, MaxEvent
  <2> QED BY <1>4, <2>1 DEF TypeOK, Capacity, Header
<1>6. /\ \A i \in 0..(Half - 1) : i < m => c[i] = b[i]
      /\ c[m] = End
  <2>1. databuff' = Stored(Words(m, 2, End)) /\ 2 \in Nat
        /\ m \in m..(m + 2 - 1)
    BY <1>1, <1>4, <1>5
  <2>2. /\ \A i \in 0..(Half - 1) : i < m => Now'[i] = Now[i]
        /\ \A i \in m..(m + 2 - 1) : Now'[i] = End
    BY <1>1, <1>5, <2>1, WordsNow
  <2> QED BY <1>2, <1>3, <2>1, <2>2
<1>7. PICK e \in Seq(Seq(Segment)) :
        e = events /\ Chain(EventOk(b), e, Header, m)
  BY <1>1, <1>2, <1>4 DEF RoundInv, Written
<1>8. Chain(EventOk(c), e, Header, m)
  <2>1. Same(b, c, Header, m) /\ m <= Half
    BY <1>5, <1>6 DEF Same, Header
  <2> QED BY <1>5, <1>7, <2>1, EventsStay
<1>9. mp' - 2 = m /\ mp' >= 2 /\ events' = e
  BY <1>1, <1>4, <1>5, <1>7
<1>10. Written(Now, mp - 2)'
  <2>1. Chain(EventOk(c), e, Header, mp' - 2)
    BY <1>8, <1>9
  <2> QED BY <1>3, <1>9, <2>1 DEF Written
<1>11. Now'[mp' - 2] = End
  BY <1>3, <1>6, <1>9
<1> QED BY <1>1, <1>9, <1>10, <1>11 DEF RoundInv

\* The scaler words fall behind the END words.
LEMMA RoundSca ==
  ASSUME Capacity, TypeOK, SizeInv, FillInv, RoundInv, Sca
  PROVE  RoundInv'
<1> USE FormatAssumption
<1>1. /\ pc = "sca" /\ pc' = "finished" /\ dn' = dn
      /\ UNCHANGED events
      /\ databuff' = Stored(Words(Half - Scaler, Scaler, Count))
  BY DEF Sca
<1>2. PICK b : b = Now
  OBVIOUS
<1>3. PICK c : c = Now'
  OBVIOUS
<1>4. PICK m : m = mp - 2
  OBVIOUS
<1>5. m \in Nat /\ m < Half - Scaler /\ Header \in Nat
  <2>1. mp <= MaxBuff + MaxEvent + 2 /\ MaxEvent \in Nat /\ mp >= 2
    BY <1>1 DEF FillInv, MaxEvent, RoundInv
  <2> QED BY <1>4, <2>1 DEF TypeOK, Capacity, Header
<1>6. \A i \in 0..(Half - 1) : i < Half - Scaler => c[i] = b[i]
  <2>1. PICK a : a = Half - Scaler
    OBVIOUS
  <2>2. a \in Nat /\ a + Scaler <= Half /\ Scaler \in Nat
        /\ databuff' = Stored(Words(a, Scaler, Count))
    BY <1>1, <2>1
  <2>3. \A i \in 0..(Half - 1) : i < a => Now'[i] = Now[i]
    BY <1>1, <2>2, WordsNow
  <2> QED BY <1>2, <1>3, <2>1, <2>3
<1>7. PICK e \in Seq(Seq(Segment)) :
        e = events /\ Chain(EventOk(b), e, Header, m) /\ b[m] = End
  BY <1>1, <1>2, <1>4 DEF RoundInv, Written
<1>8. m \in 0..(Half - 1) /\ m <= Half
  BY <1>5
<1>9. c[m] = End
  BY <1>5, <1>6, <1>7, <1>8
<1>10. Chain(EventOk(c), e, Header, m)
  <2>1. Same(b, c, Header, m)
    <3> SUFFICES ASSUME NEW n \in Header..(m - 1) PROVE c[n] = b[n]
      BY DEF Same
    <3>1. n \in 0..(Half - 1) /\ n < Half - Scaler
      BY <1>5 DEF Header
    <3> QED BY <1>6, <3>1
  <2> QED BY <1>5, <1>7, <1>8, <2>1, EventsStay
<1>11. Now'[m] = End /\ Written(Now, m)'
  BY <1>1, <1>3, <1>7, <1>9, <1>10 DEF Written
<1> QED BY <1>1, <1>8, <1>11 DEF RoundInv

\* The calls that store nothing.
LEMMA RoundSame ==
  ASSUME RoundInv, UNCHANGED <<databuff, dn, mp, events>>,
         Stop \/ UNCHANGED vars
  PROVE  RoundInv'
<1>1. Now' = Now
  BY SameNow
<1>2. CASE Stop
  <2>1. pc = "idle" /\ pc' = (IF chkblk = 1 THEN "endblock" ELSE "closed")
    BY <1>2 DEF Stop
  <2>2. CASE chkblk = 1
    <3>1. Written(Now, mp)
      BY <2>1, <2>2 DEF RoundInv
    <3>2. Written(Now, mp)'
      BY <1>1, <3>1 DEF Written
    <3> QED BY <2>1, <2>2, <3>2 DEF RoundInv
  <2>3. CASE chkblk # 1
    BY <2>1, <2>3 DEF RoundInv
  <2> QED BY <2>2, <2>3
<1>3. CASE UNCHANGED vars
  <2>1. UNCHANGED <<pc, chkblk, seg, eventhmp, segmenthmp>>
    BY <1>3 DEF vars, sizes
  <2>2. Writing(Now) => Writing(Now)'
    BY <1>1, <2>1 DEF Writing, LastRead
  <2>3. \A j : Written(Now, j) => Written(Now, j)'
    BY <1>1 DEF Written
  <2> QED BY <1>1, <2>1, <2>2, <2>3 DEF RoundInv, Written
<1> QED BY <1>2, <1>3

LEMMA RoundStep ==
  ASSUME Capacity, Half < Flag, TypeOK, SizeInv, FillInv, RoundInv,
         [Next]_vars
  PROVE  RoundInv'
<1>1. CASE Open
  <2>1. pc' = "idle" /\ chkblk' = 0
    BY <1>1 DEF Open
  <2> QED BY <2>1 DEF RoundInv
<1>2. CASE InitBlock BY <1>2, RoundInitBlock
<1>3. CASE InitEvent BY <1>3, RoundInitEvent
<1>4. CASE InitSegment BY <1>4, RoundInitSegment
<1>5. ASSUME NEW n \in 0..MaxLen, NEW x \in Payload, Reader(n, x)
      PROVE  RoundInv'
  BY <1>5, RoundReader
<1>6. CASE EndSegment BY <1>6, RoundEndSegment
<1>7. CASE EndEvent BY <1>7, RoundEndEvent
<1>8. CASE EndBlock BY <1>8, RoundEndBlock
<1>9. CASE Sca BY <1>9, RoundSca
<1>10. CASE Chmem
  <2>1. pc' = "idle" /\ chkblk' = 0
    BY <1>10 DEF Chmem, FillInv
  <2> QED BY <2>1 DEF RoundInv
<1>11. CASE Close
  <2>1. pc' = "closed"
    BY <1>11 DEF Close
  <2> QED BY <2>1 DEF RoundInv
<1>12. CASE Stop
  BY <1>12, RoundSame DEF Stop
<1>13. CASE UNCHANGED vars
  BY <1>13, RoundSame DEF vars
<1> QED
  BY <1>1, <1>2, <1>3, <1>4, <1>5, <1>6, <1>7, <1>8, <1>9, <1>10, <1>11,
     <1>12, <1>13 DEF Next

\* A finished block comes apart again at its size words: what a reader finds
\* that goes from one event to the next until END, and in an event from one
\* segment to the next, are the events and segments evt() recorded, whatever
\* their words are.  A size must be shorter than the flag it is marked with:
\* BLKSIZE/2 is 0x2000 words, the flag 0x8000.
THEOREM BlocksRoundTrip ==
  ASSUME Capacity, Half < Flag PROVE Spec => []RoundTrip
<1>1. Init => FillInv /\ RoundInv
  BY FormatAssumption DEF Init, FillInv, RoundInv
<1>2. TypeOK /\ SizeInv /\ FillInv /\ RoundInv /\ [Next]_vars
        => (TypeOK /\ SizeInv /\ FillInv /\ RoundInv)'
  BY StepInv, FillStep, RoundStep
<1>3. TypeOK /\ RoundInv => RoundTrip
  <2> SUFFICES ASSUME TypeOK, RoundInv, pc = "finished"
               PROVE  Parsed = events
    BY DEF RoundTrip
  <2>1. PICK j \in 0..(Half - 1) : Now[j] = End /\ Written(Now, j)
    BY DEF RoundInv
  <2>2. j \in Nat /\ j < Half
    BY FormatAssumption
  <2>3. PICK e \in Seq(Seq(Segment)) :
          e = events /\ Chain(EventOk(Now), e, Header, j)
    BY <2>1 DEF Written
  <2>4. Parsed = e
    BY <2>1, <2>2, <2>3, EventsFound
  <2> QED BY <2>3, <2>4
<1> QED BY <1>1, <1>2, <1>3, InitInv, PTL DEF Spec
=============================================================================
