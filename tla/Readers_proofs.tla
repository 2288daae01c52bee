--------------------------- MODULE Readers_proofs ---------------------------
(***************************************************************************)
(* For units of any size: the addresses the readers compute (the ring of   *)
(* samples, the windows of a long transfer, the mapped pages) are those of *)
(* the data that is asked for, and the words kept of a DMA transfer are    *)
(* those of one event.                                                     *)
(***************************************************************************)
EXTENDS Readers, WordReaders_proofs, Integers, SequenceTheorems,
        WellFoundedInduction

----------------------------------------------------------------------------
(* Division with a remainder, for a divisor that is not a number.          *)

LEMMA DivMod ==
  ASSUME NEW n \in Nat \ {0}, NEW x \in Int
  PROVE  /\ x \div n \in Int /\ x % n \in 0..(n - 1)
         /\ x = n * (x \div n) + (x % n)
OBVIOUS

\* A multiple of n between -n and n is 0.
LEMMA MultipleBelow ==
  ASSUME NEW n \in Nat \ {0}, NEW q \in Int, n * q < n, -n < n * q
  PROVE  q = 0
<1>1. ASSUME q >= 1 PROVE n * q >= n
  <2> DEFINE s == q - 1
  <2>1. s \in Nat /\ q = s + 1
    BY <1>1
  <2>2. n * s \in Nat /\ n * q = n * s + n
    BY <2>1
  <2> QED BY <2>2
<1>2. ASSUME q <= -1 PROVE n * q <= -n
  <2> DEFINE s == -1 - q
  <2>1. s \in Nat /\ q = -1 - s
    BY <1>2
  <2>2. n * s \in Nat /\ n * q = -n - n * s
    BY <2>1
  <2> QED BY <2>2
<1>3. n * q \in Int
  OBVIOUS
<1> QED BY <1>1, <1>2, <1>3

LEMMA ModUnique ==
  ASSUME NEW n \in Nat \ {0}, NEW q \in Int, NEW r \in 0..(n - 1)
  PROVE  (n * q + r) % n = r
<1> DEFINE x == n * q + r
<1>1. x \in Int
  OBVIOUS
<1>2. PICK d \in Int, m \in 0..(n - 1) : m = x % n /\ x = n * d + m
  BY <1>1, DivMod
<1> HIDE DEF x
<1>3. n * (q - d) = m - r
  BY <1>2 DEF x
<1>4. q - d = 0
  BY <1>3, MultipleBelow
<1>5. n * (q - d) = 0
  BY <1>4
<1> QED BY <1>2, <1>3, <1>5 DEF x

----------------------------------------------------------------------------
(* The ring of samples.                                                    *)

\* Going back from the trigger, and forward, is going round the ring.
LEMMA BackRound ==
  ASSUME NEW n \in Nat \ {0}, NEW p \in 0..(n - 1), NEW m \in 0..(n - 1)
  PROVE  (p - m) % n = IF p - m < 0 THEN n + (p - m) ELSE p - m
<1>1. CASE p - m < 0
  <2>1. n + (p - m) \in 0..(n - 1) /\ n * (-1) + (n + (p - m)) = p - m
    BY <1>1
  <2>2. (n * (-1) + (n + (p - m))) % n = n + (p - m)
    BY <2>1, ModUnique
  <2> QED BY <1>1, <2>1, <2>2
<1>2. CASE ~(p - m < 0)
  <2>1. p - m \in 0..(n - 1) /\ n * 0 + (p - m) = p - m
    BY <1>2
  <2>2. (n * 0 + (p - m)) % n = p - m
    BY <2>1, ModUnique
  <2> QED BY <1>2, <2>1, <2>2
<1> QED BY <1>1, <1>2

LEMMA ForwardRound ==
  ASSUME NEW n \in Nat \ {0}, NEW x \in Int
  PROVE  (x + 1) % n = IF (x % n) + 1 >= n THEN (x % n) + 1 - n
                                           ELSE (x % n) + 1
<1>1. PICK d \in Int, m \in 0..(n - 1) : m = x % n /\ x = n * d + m
  BY DivMod
<1>2. CASE m + 1 >= n
  <2>1. m + 1 = n
    BY <1>1, <1>2
  <2>2. n * (d + 1) + 0 = x + 1
    <3> DEFINE y == n * d
               z == n * (d + 1)
    <3>1. y \in Int /\ z = y + n
      OBVIOUS
    <3>2. x = y + m
      BY <1>1
    <3> HIDE DEF y, z
    <3>3. z + 0 = x + 1
      BY <2>1, <3>1, <3>2
    <3> QED BY <3>3 DEF z
  <2>3. (n * (d + 1) + 0) % n = 0
    BY ModUnique
  <2> QED BY <1>1, <1>2, <2>1, <2>2, <2>3
<1>3. CASE ~(m + 1 >= n)
  <2>1. m + 1 \in 0..(n - 1) /\ n * d + (m + 1) = x + 1
    BY <1>1, <1>3
  <2>2. (n * d + (m + 1)) % n = m + 1
    BY <2>1, ModUnique
  <2> QED BY <1>1, <1>3, <2>1, <2>2
<1> QED BY <1>2, <1>3

\* While the ring is read, adptr is at the last sample that was read, and the
\* words counted are the samples.
RingInv ==
  /\ memPc = "sis" =>
       /\ memWordcnt = Len(samples) /\ memWordcnt <= max
       /\ adptr = Memory!Before(Len(samples), max)
  /\ LatestSamples

LEMMA RingInit == Memory!Init => RingInv
BY DEF Memory!Init, RingInv, LatestSamples, Memory!LatestSamples

LEMMA RingStep ==
  ASSUME Memory!TypeOK, RingInv, [Memory!Next]_memory PROVE RingInv'
<1> USE DEF RingInv, LatestSamples, Memory!LatestSamples
<1>1. /\ Ring \in Nat \ {0} /\ Limit \in 0..(Ring - 1)
      /\ trigger \in 0..(Ring - 1) /\ max \in 0..Limit
      /\ samples \in Seq(0..(Ring - 1)) /\ adptr \in 0..(Ring - 1)
      /\ Requests \subseteq Nat /\ memWordcnt \in Nat /\ flagged \in BOOLEAN
  BY ReadersAssumption DEF Memory!MemoryAssumption, Memory!TypeOK
<1>2. ASSUME NEW m \in Requests, NEW p \in 0..(Ring - 1),
             Memory!SisBegin(m, p)
      PROVE  RingInv'
  <2>1. Memory!Capped(m) \in 0..(Ring - 1)
    BY <1>1 DEF Memory!Capped
  <2>2. /\ trigger' = p /\ max' = Memory!Capped(m) /\ samples' = <<>>
        /\ adptr' = Memory!Back(p, max') /\ memWordcnt' = 0
        /\ memPc' = "sis"
    BY <1>2 DEF Memory!SisBegin
  <2>3. (p - max') % Ring = adptr'
    BY <1>1, <2>1, <2>2, BackRound DEF Memory!Back
  <2>4. Len(samples') = 0 /\ p - max' + 0 = p - max'
    BY <1>1, <2>1, <2>2
  <2>5. adptr' = Memory!Before(Len(samples), max)'
    BY <2>2, <2>3, <2>4 DEF Memory!Before
  <2> QED BY <1>1, <2>1, <2>2, <2>4, <2>5
<1>3. ASSUME NEW bit \in BOOLEAN, Memory!SisLoop(bit) PROVE RingInv'
  <2> DEFINE n == Len(samples)
  <2>1. /\ memPc = "sis" /\ memWordcnt = n /\ memWordcnt < max
        /\ adptr = Memory!Before(n, max) /\ n \in Nat
    BY <1>1, <1>3 DEF Memory!SisLoop
  <2>2. /\ adptr' = Memory!Forward(adptr) /\ samples' = Append(samples, adptr')
        /\ memWordcnt' = memWordcnt + 1
        /\ memPc' = memPc /\ trigger' = trigger /\ max' = max
    BY <1>3 DEF Memory!SisLoop
  <2>3. adptr' = (trigger - max + (n + 1)) % Ring
    <3> DEFINE x == trigger - max + n
    <3>1. x \in Int /\ x + 1 = trigger - max + (n + 1) /\ adptr = x % Ring
      BY <1>1, <2>1 DEF Memory!Before
    <3> HIDE DEF x
    <3>2. adptr' = (x + 1) % Ring
      BY <1>1, <2>2, <3>1, ForwardRound DEF Memory!Forward
    <3> QED BY <3>1, <3>2
  <2>4. Len(samples') = n + 1 /\ samples'[n + 1] = adptr'
    BY <1>1, <2>2
  <2>5. \A k \in 1..n : samples'[k] = samples[k]
    BY <1>1, <2>2
  <2>6. \A k \in 1..Len(samples') :
          samples'[k] = (trigger - max + k) % Ring
    <3>1. \A k \in 1..n : samples'[k] = (trigger - max + k) % Ring
      BY <2>5 DEF Memory!Before
    <3>2. samples'[n + 1] = (trigger - max + (n + 1)) % Ring
      BY <2>3, <2>4
    <3>3. 1..(n + 1) = (1..n) \cup {n + 1}
      BY <2>1
    <3> QED BY <2>4, <3>1, <3>2, <3>3
  <2>7. memWordcnt' <= max' /\ memWordcnt' = n + 1
    BY <1>1, <2>1, <2>2
  <2> QED BY <2>1, <2>2, <2>3, <2>4, <2>6, <2>7 DEF Memory!Before
<1>4. CASE Memory!SisEnd
  BY <1>1, <1>4 DEF Memory!SisEnd, Memory!sis, Memory!Before
<1>5. ASSUME NEW d \in Depths, Memory!MadcBegin(d) PROVE RingInv'
  BY <1>5 DEF Memory!MadcBegin, Memory!sis, Memory!Before
<1>6. ASSUME NEW done \in BOOLEAN, Memory!MadcLoop(done) PROVE RingInv'
  BY <1>6 DEF Memory!MadcLoop, Memory!sis, Memory!Before
<1>7. CASE Memory!MadcEnd
  BY <1>7 DEF Memory!MadcEnd, Memory!sis, Memory!Before
<1>8. ASSUME NEW a \in Areas, Memory!Mmp(a) PROVE RingInv'
  BY <1>8 DEF Memory!Mmp, Memory!sis, Memory!Before
<1>9. CASE UNCHANGED memory
  BY <1>9 DEF memory, Memory!Before
<1> QED
  BY <1>2, <1>3, <1>4, <1>5, <1>6, <1>7, <1>8, <1>9 DEF Memory!Next

\* The variables of the memory readers keep their types.
LEMMA MemoryTypes == Memory!TypeOK /\ [Memory!Next]_memory => Memory!TypeOK'
<1> SUFFICES ASSUME Memory!TypeOK, [Memory!Next]_memory PROVE Memory!TypeOK'
  OBVIOUS
<1>1. /\ Ring \in Nat \ {0} /\ Limit \in 0..(Ring - 1)
      /\ Requests \subseteq Nat /\ Depths \subseteq Nat /\ Window \in Nat \ {0}
  BY ReadersAssumption DEF Memory!MemoryAssumption
<1>2. /\ memPc \in {"idle", "sis", "madc"} /\ memWordcnt \in Nat
      /\ trigger \in 0..(Ring - 1) /\ max \in 0..Limit
      /\ adptr \in 0..(Ring - 1) /\ flagged \in BOOLEAN
      /\ samples \in Seq(0..(Ring - 1)) /\ depth \in Depths \cup {0}
      /\ written \in SUBSET Nat /\ missing \in SUBSET Nat
  BY DEF Memory!TypeOK
<1>3. ASSUME NEW m \in Requests, NEW p \in 0..(Ring - 1),
             Memory!SisBegin(m, p)
      PROVE  Memory!TypeOK'
  <2>1. max' \in 0..Limit
    BY <1>1, <1>3 DEF Memory!SisBegin, Memory!Capped
  <2>2. adptr' \in 0..(Ring - 1)
    BY <1>1, <1>3, <2>1 DEF Memory!SisBegin, Memory!Back
  <2>3. samples' \in Seq(0..(Ring - 1))
    BY <1>3 DEF Memory!SisBegin
  <2>4. flagged' \in BOOLEAN
    BY <1>3 DEF Memory!SisBegin
  <2> QED
    BY <1>2, <1>3, <2>1, <2>2, <2>3, <2>4
    DEF Memory!SisBegin, Memory!madc, Memory!TypeOK
<1>4. ASSUME NEW bit \in BOOLEAN, Memory!SisLoop(bit) PROVE Memory!TypeOK'
  <2>1. adptr' \in 0..(Ring - 1)
    BY <1>1, <1>2, <1>4 DEF Memory!SisLoop, Memory!Forward
  <2>2. samples' \in Seq(0..(Ring - 1))
    BY <1>2, <1>4, <2>1 DEF Memory!SisLoop
  <2>3. flagged' \in BOOLEAN
    BY <1>4 DEF Memory!SisLoop
  <2> QED
    BY <1>2, <1>4, <2>1, <2>2, <2>3
    DEF Memory!SisLoop, Memory!madc, Memory!TypeOK
<1>5. CASE Memory!SisEnd
  BY <1>2, <1>5 DEF Memory!SisEnd, Memory!sis, Memory!madc, Memory!TypeOK
<1>6. ASSUME NEW d \in Depths, Memory!MadcBegin(d) PROVE Memory!TypeOK'
  BY <1>2, <1>6 DEF Memory!MadcBegin, Memory!sis, Memory!TypeOK
<1>7. ASSUME NEW done \in BOOLEAN, Memory!MadcLoop(done)
      PROVE  Memory!TypeOK'
  <2> DEFINE words == memWordcnt..(memWordcnt + Memory!Chunk - 1)
  <2>1. words \in SUBSET Nat
    BY <1>1, <1>2 DEF Memory!Chunk
  <2>2. /\ written' = written \cup words \/ written' = written
        /\ missing' = missing \cup words \/ missing' = missing
    BY <1>7 DEF Memory!MadcLoop
  <2> HIDE DEF words
  <2>3. written' \in SUBSET Nat /\ missing' \in SUBSET Nat
    BY <1>2, <2>1, <2>2
  <2> QED
    BY <1>1, <1>2, <1>7, <2>3
    DEF Memory!MadcLoop, Memory!sis, Memory!TypeOK
<1>8. CASE Memory!MadcEnd
  BY <1>2, <1>8 DEF Memory!MadcEnd, Memory!sis, Memory!madc, Memory!TypeOK
<1>9. ASSUME NEW a \in Areas, Memory!Mmp(a) PROVE Memory!TypeOK'
  BY <1>2, <1>9 DEF Memory!Mmp, Memory!sis, Memory!madc, Memory!TypeOK
<1>10. CASE UNCHANGED memory
  BY <1>2, <1>10 DEF memory, Memory!TypeOK
<1> QED
  BY <1>3, <1>4, <1>5, <1>6, <1>7, <1>8, <1>9, <1>10 DEF Memory!Next

LEMMA MemoryInitTypes == Memory!Init => Memory!TypeOK
<1> SUFFICES ASSUME Memory!Init PROVE Memory!TypeOK
  OBVIOUS
<1>1. Ring \in Nat \ {0} /\ Limit \in 0..(Ring - 1)
  BY ReadersAssumption DEF Memory!MemoryAssumption
<1>2. samples \in Seq(0..(Ring - 1))
  BY DEF Memory!Init
<1>3. flagged \in BOOLEAN
  BY DEF Memory!Init
<1> QED BY <1>1, <1>2, <1>3 DEF Memory!Init, Memory!TypeOK

----------------------------------------------------------------------------
(* The windows of a transfer.                                              *)

\* n words, rounded up to whole windows.
LEMMA UpToWindow ==
  ASSUME NEW n \in Nat \ {0}, NEW x \in Nat, NEW j \in Nat,
         x <= n * j, n * j < x + n
  PROVE  n * j = IF x % n = 0 THEN x ELSE x - (x % n) + n
<1>1. PICK d \in Int, m \in 0..(n - 1) : m = x % n /\ x = n * d + m
  <2>1. x \in Int
    OBVIOUS
  <2>2. /\ x \div n \in Int /\ x % n \in 0..(n - 1)
        /\ x = n * (x \div n) + (x % n)
    BY <2>1, DivMod
  <2> QED BY <2>2
<1>2. CASE m = 0
  <2> DEFINE q == j - d
  <2>1. q \in Int /\ n * q = n * j - n * d
    OBVIOUS
  <2>2. n * q < n /\ -n < n * q
    BY <1>1, <1>2, <2>1
  <2>3. q = 0
    BY <2>1, <2>2, MultipleBelow
  <2> QED BY <1>1, <1>2, <2>3
<1>3. CASE m # 0
  <2> DEFINE q == j - d - 1
  <2>1. q \in Int /\ n * q = n * j - n * d - n
    OBVIOUS
  <2>2. n * q < n /\ -n < n * q
    BY <1>1, <1>3, <2>1
  <2>3. q = 0
    <3> HIDE DEF q
    <3> QED BY <2>1, <2>2, MultipleBelow
  <2>4. n * q = 0
    BY <2>3
  <2>5. n * j = n * d + n
    <3> DEFINE a == n * j
               b == n * d
    <3>1. a \in Int /\ b \in Int /\ 0 = a - b - n
      BY <2>1, <2>4
    <3> HIDE DEF a, b
    <3>2. a = b + n
      BY <3>1
    <3> QED BY <3>2 DEF a, b
  <2>6. n * j = x - m + n
    <3> DEFINE b == n * d
    <3>1. b \in Int /\ n * j = b + n /\ x = b + m
      BY <1>1, <2>5
    <3> HIDE DEF b
    <3>2. b = x - m
      BY <3>1
    <3> QED BY <3>1, <3>2
  <2> QED BY <1>1, <1>3, <2>6
<1> QED BY <1>2, <1>3

\* Between two transfers the words before the count have had their turn: whole
\* windows of them, or all when they are fewer than a window.
Turns(j) ==
  /\ memWordcnt = Window * j /\ memWordcnt < depth + Window
  /\ written \cap missing = {}
  /\ written \cup missing =
       0..((IF j > 0 /\ depth < Window THEN depth ELSE memWordcnt) - 1)

WindowsInv ==
  /\ memPc = "madc" => \E j \in Nat : Turns(j)
  /\ WindowsCover

LEMMA WindowsStep ==
  ASSUME Memory!TypeOK, WindowsInv, [Memory!Next]_memory PROVE WindowsInv'
<1> USE DEF WindowsInv, WindowsCover, Memory!WindowsCover
<1>1. /\ Window \in Nat \ {0} /\ Depths \subseteq Nat /\ depth \in Nat
      /\ memWordcnt \in Nat
      /\ written \in SUBSET Nat /\ missing \in SUBSET Nat
  BY ReadersAssumption DEF Memory!MemoryAssumption, Memory!TypeOK
<1>2. ASSUME NEW d \in Depths, Memory!MadcBegin(d) PROVE WindowsInv'
  <2>1. /\ depth' \in Nat /\ written' = {} /\ missing' = {}
        /\ memWordcnt' = 0 /\ memPc' = "madc"
    BY <1>1, <1>2 DEF Memory!MadcBegin
  <2>2. memWordcnt' = Window * 0 /\ memWordcnt' < depth' + Window
    <3>1. Window * 0 = 0 /\ \A x \in Nat : 0 < x + Window
      BY <1>1
    <3> QED BY <2>1, <3>1
  <2>3. Turns(0)'
    <3>1. 0..(0 - 1) = {} /\ ~(0 > 0)
      OBVIOUS
    <3> QED BY <2>1, <2>2, <3>1 DEF Turns
  <2> QED BY <2>1, <2>3
<1>3. ASSUME NEW done \in BOOLEAN, Memory!MadcLoop(done) PROVE WindowsInv'
  <2> DEFINE words == memWordcnt..(memWordcnt + Memory!Chunk - 1)
             past == written \cup missing
  <2>1. /\ memPc = "madc" /\ memPc' = "madc" /\ memWordcnt < depth
        /\ memWordcnt' = memWordcnt + Window /\ depth' = depth
    BY <1>3 DEF Memory!MadcLoop
  <2>2. PICK j \in Nat : Turns(j)
    BY <2>1
  <2>3. \/ written' = written \cup words /\ missing' = missing
        \/ missing' = missing \cup words /\ written' = written
    BY <1>3 DEF Memory!MadcLoop
  <2>4. memWordcnt' = Window * (j + 1) /\ memWordcnt' < depth' + Window
    BY <1>1, <2>1, <2>2 DEF Turns
  <2>5. /\ depth < Window => j = 0 /\ memWordcnt = 0
        /\ past = 0..(memWordcnt - 1)
    <3>1. ASSUME depth < Window PROVE j = 0 /\ memWordcnt = 0
      <4>1. j = 0
        <5>1. Window * j < Window /\ -Window < Window * j /\ j \in Int
          BY <1>1, <2>1, <2>2, <3>1 DEF Turns
        <5> QED BY <1>1, <5>1, MultipleBelow
      <4> QED BY <1>1, <2>2, <4>1 DEF Turns
    <3>2. ~(j > 0 /\ depth < Window)
      BY <3>1
    <3> QED BY <2>2, <3>1, <3>2 DEF Turns
  <2>6. written \cap words = {} /\ missing \cap words = {}
    <3>1. \A i \in words : i \in Int /\ i >= memWordcnt
      BY <1>1 DEF Memory!Chunk
    <3>2. \A i \in past : i \in Int /\ i < memWordcnt
      BY <1>1, <2>5
    <3> HIDE DEF words
    <3>3. \A i \in words : i \notin past
      BY <1>1, <3>1, <3>2
    <3> QED BY <3>3
  <2>7. (written \cap missing)' = {}
    <3> HIDE DEF words
    <3> QED BY <2>2, <2>3, <2>6 DEF Turns
  <2>8. (written \cup missing)' = past \cup words
    <3> HIDE DEF words
    <3> QED BY <2>3
  <2>9. /\ depth < Window => past \cup words = 0..(depth - 1)
        /\ ~(depth < Window) =>
             past \cup words = 0..(memWordcnt + Window - 1)
    <3>1. CASE depth < Window
      <4>1. words = 0..(depth - 1) /\ past = {}
        BY <1>1, <2>5, <3>1 DEF Memory!Chunk
      <4> QED BY <3>1, <4>1
    <3>2. CASE ~(depth < Window)
      <4>1. words = memWordcnt..(memWordcnt + Window - 1)
        BY <3>2 DEF Memory!Chunk
      <4>2. (0..(memWordcnt - 1)) \cup (memWordcnt..(memWordcnt + Window - 1))
              = 0..(memWordcnt + Window - 1)
        BY <1>1
      <4>3. past = 0..(memWordcnt - 1)
        BY <2>5
      <4>4. past \cup words = 0..(memWordcnt + Window - 1)
        <5> HIDE DEF words, past
        <5> QED BY <4>1, <4>2, <4>3
      <4> QED BY <3>2, <4>4
    <3> QED BY <3>1, <3>2
  <2>10. Turns(j + 1)'
    <3> DEFINE reach == IF j + 1 > 0 /\ depth' < Window THEN depth'
                        ELSE memWordcnt'
    <3>1. (written \cup missing)' = 0..(reach - 1)
      <4>1. CASE depth < Window
        <5>1. reach = depth
          BY <2>1, <4>1
        <5> HIDE DEF reach, words, past
        <5> QED BY <2>8, <2>9, <4>1, <5>1
      <4>2. CASE ~(depth < Window)
        <5>1. reach = memWordcnt + Window
          BY <2>1, <4>2
        <5>2. reach - 1 = memWordcnt + Window - 1
          BY <1>1, <5>1
        <5> HIDE DEF reach, words, past
        <5> QED BY <2>8, <2>9, <4>2, <5>2
      <4> QED BY <4>1, <4>2
    <3> QED BY <2>4, <2>7, <3>1 DEF Turns
  <2> QED BY <2>1, <2>10
<1>4. ASSUME NEW m \in Requests, NEW p \in 0..(Ring - 1),
             Memory!SisBegin(m, p)
      PROVE  WindowsInv'
  BY <1>4 DEF Memory!SisBegin, Memory!madc, Memory!Reached
<1>5. ASSUME NEW bit \in BOOLEAN, Memory!SisLoop(bit) PROVE WindowsInv'
  BY <1>5 DEF Memory!SisLoop, Memory!madc, Memory!Reached
<1>6. CASE Memory!SisEnd
  BY <1>6 DEF Memory!SisEnd, Memory!madc, Memory!Reached
<1>7. CASE Memory!MadcEnd
  <2>1. /\ memPc = "madc" /\ memPc' = "idle" /\ memWordcnt >= depth
        /\ UNCHANGED <<depth, written, missing>>
    BY <1>7 DEF Memory!MadcEnd, Memory!madc
  <2>2. PICK j \in Nat : Turns(j)
    BY <2>1
  <2>3. (IF j > 0 /\ depth < Window THEN depth ELSE memWordcnt)
          = Memory!Reached(depth)
    <3>1. CASE depth < Window
      <4>1. j = 0 => memWordcnt = 0 /\ depth = 0
        BY <1>1, <2>1, <2>2 DEF Turns
      <4> QED BY <1>1, <3>1, <4>1 DEF Memory!Reached
    <3>2. CASE ~(depth < Window)
      <4>1. Window * j = IF depth % Window = 0 THEN depth
                         ELSE depth - (depth % Window) + Window
        BY <1>1, <2>1, <2>2, UpToWindow DEF Turns
      <4> QED BY <2>2, <3>2, <4>1 DEF Turns, Memory!Reached
    <3> QED BY <3>1, <3>2
  <2>4. /\ written \cup missing = 0..(Memory!Reached(depth) - 1)
        /\ written \cap missing = {}
    BY <2>2, <2>3 DEF Turns
  <2>5. Memory!Reached(depth) \in Nat /\ depth <= Memory!Reached(depth)
    <3>1. depth % Window \in 0..(Window - 1)
      BY <1>1, DivMod
    <3> QED BY <1>1, <3>1 DEF Memory!Reached
  <2>6. 0..(depth - 1) \subseteq written \cup missing
    BY <1>1, <2>4, <2>5
  <2>7. Memory!Reached(depth)' = Memory!Reached(depth)
    BY <2>1 DEF Memory!Reached
  <2> QED BY <2>1, <2>4, <2>6, <2>7
<1>8. ASSUME NEW a \in Areas, Memory!Mmp(a) PROVE WindowsInv'
  BY <1>8 DEF Memory!Mmp, Memory!madc, Memory!Reached
<1>9. CASE UNCHANGED memory
  BY <1>9 DEF memory, Turns, Memory!Reached
<1> QED
  BY <1>2, <1>3, <1>4, <1>5, <1>6, <1>7, <1>8, <1>9 DEF Memory!Next

----------------------------------------------------------------------------
(* The mapped pages.                                                       *)

\* What is filled up to whole pages is whole pages, less than one more.
LEMMA FilledUp ==
  ASSUME NEW n \in Nat \ {0}, NEW x \in Nat
  PROVE  LET f == x + (IF x % n = 0 THEN 0 ELSE n - (x % n))
         IN f \in Nat /\ f % n = 0 /\ x <= f /\ f < x + n
<1>1. PICK d \in Int, m \in 0..(n - 1) : m = x % n /\ x = n * d + m
  <2>1. x \in Int
    OBVIOUS
  <2> QED BY <2>1, DivMod
<1>2. CASE m = 0
  BY <1>1, <1>2
<1>3. CASE m # 0
  <2> DEFINE y == n * d
             z == n * (d + 1)
  <2>1. y \in Int /\ z = y + n /\ z + 0 = z
    OBVIOUS
  <2>2. (z + 0) % n = 0
    BY ModUnique
  <2>3. x = y + m
    BY <1>1
  <2> HIDE DEF y, z
  <2>4. x + (n - m) = z
    BY <1>1, <2>1, <2>3
  <2> QED BY <1>1, <1>3, <2>1, <2>2, <2>4
<1> QED BY <1>2, <1>3

\* A remainder is no more than the number.
LEMMA RemainderBelow ==
  ASSUME NEW n \in Nat \ {0}, NEW x \in Nat
  PROVE  x % n \in 0..(n - 1) /\ x % n <= x
<1>1. PICK d \in Int, m \in 0..(n - 1) : m = x % n /\ x = n * d + m
  <2>1. x \in Int
    OBVIOUS
  <2> QED BY <2>1, DivMod
<1>2. ASSUME d < 0 PROVE FALSE
  <2> DEFINE s == -1 - d
             y == n * d
  <2>1. s \in Nat /\ d = -1 - s
    BY <1>2
  <2>2. n * s \in Nat /\ y = -n - n * s
    BY <2>1
  <2>3. x = y + m
    BY <1>1
  <2> HIDE DEF y
  <2> QED BY <1>1, <2>2, <2>3
<1>3. CASE d >= 0
  <2>1. n * d \in Nat
    BY <1>3
  <2> QED BY <1>1, <2>1
<1> QED BY <1>2, <1>3

\* What is left when the remainder is taken off is a multiple.
LEMMA CutOff ==
  ASSUME NEW n \in Nat \ {0}, NEW x \in Nat
  PROVE  (x - (x % n)) % n = 0
<1>1. PICK d \in Int, m \in 0..(n - 1) : m = x % n /\ x = n * d + m
  <2>1. x \in Int
    OBVIOUS
  <2> QED BY <2>1, DivMod
<1>2. (n * d + 0) % n = 0 /\ n * d \in Int
  BY ModUnique
<1>3. x - m = n * d + 0
  BY <1>1, <1>2
<1> QED BY <1>1, <1>2, <1>3

LEMMA PagesInit == Memory!Init => PagesCover
<1> SUFFICES ASSUME Memory!Init PROVE PagesCover
  OBVIOUS
<1>1. Page \in Nat \ {0}
  BY ReadersAssumption DEF Memory!MemoryAssumption
<1>2. Page % Page = 0 /\ 0 % Page = 0
  <2>1. (Page * 1 + 0) % Page = 0 /\ (Page * 0 + 0) % Page = 0
    BY <1>1, ModUnique
  <2>2. Page * 1 + 0 = Page /\ Page * 0 + 0 = 0
    BY <1>1
  <2> QED BY <2>1, <2>2
<1> QED BY <1>1, <1>2 DEF Memory!Init, PagesCover, Memory!PagesCover

LEMMA PagesStep ==
  ASSUME PagesCover, [Memory!Next]_memory PROVE PagesCover'
<1>1. Page \in Nat \ {0} /\ Areas \subseteq Nat \X (Nat \ {0})
  BY ReadersAssumption DEF Memory!MemoryAssumption
<1>2. ASSUME NEW a \in Areas, Memory!Mmp(a) PROVE PagesCover'
  <2> DEFINE doff == a[1] % Page
             n == a[2] + doff
  <2>1. a[1] \in Nat /\ a[2] \in Nat \ {0}
    BY <1>1
  <2>2. doff \in 0..(Page - 1) /\ doff <= a[1]
    BY <1>1, <2>1, RemainderBelow
  <2>3. map' = [paddr |-> a[1] - doff, size |-> Memory!Mapped(a[2], doff),
                ptr |-> a[1] - doff + doff, area |-> a]
    BY <1>2 DEF Memory!Mmp
  <2>4. (a[1] - doff) % Page = 0
    BY <1>1, <2>1, CutOff
  <2> HIDE DEF doff
  <2>5. n \in Nat
    BY <2>1, <2>2
  <2> DEFINE f == Memory!Mapped(a[2], doff)
  <2>6. f \in Nat /\ f % Page = 0 /\ n <= f /\ f < n + Page
    BY <1>1, <2>5, FilledUp DEF Memory!Mapped
  <2> HIDE DEF f
  <2>7. /\ map'.paddr = a[1] - doff /\ map'.size = f
        /\ map'.area[1] = a[1] /\ map'.area[2] = a[2]
    BY <2>3 DEF f
  <2>8. /\ a[1] - doff <= a[1] /\ a[1] < a[1] - doff + Page
        /\ a[1] + a[2] - 1 < a[1] - doff + f
        /\ a[1] - doff + f <= a[1] + a[2] - 1 + Page
    BY <1>1, <2>1, <2>2, <2>6
  <2> QED BY <2>4, <2>6, <2>7, <2>8 DEF PagesCover, Memory!PagesCover
<1>3. ASSUME UNCHANGED map PROVE PagesCover'
  BY <1>3 DEF PagesCover, Memory!PagesCover
<1>4. ASSUME [\E m \in Requests, p \in 0..(Ring - 1) :
                Memory!SisBegin(m, p)]_memory
      PROVE  UNCHANGED map
  BY <1>4 DEF Memory!SisBegin, memory
<1>5. ASSUME \E bit \in BOOLEAN : Memory!SisLoop(bit) PROVE UNCHANGED map
  BY <1>5 DEF Memory!SisLoop
<1>6. ASSUME Memory!SisEnd \/ Memory!MadcEnd PROVE UNCHANGED map
  BY <1>6 DEF Memory!SisEnd, Memory!MadcEnd
<1>7. ASSUME \/ \E d \in Depths : Memory!MadcBegin(d)
             \/ \E done \in BOOLEAN : Memory!MadcLoop(done)
      PROVE  UNCHANGED map
  BY <1>7 DEF Memory!MadcBegin, Memory!MadcLoop
<1> QED
  BY <1>2, <1>3, <1>4, <1>5, <1>6, <1>7 DEF Memory!Next

----------------------------------------------------------------------------
(* Least and greatest members.                                             *)

LEMMA LeastNatural ==
  ASSUME NEW S \in SUBSET Nat, S # {}
  PROVE  \E m \in S : \A k \in S : m <= k
<1> DEFINE R == OpToRel(<, Nat)
<1>1. \A x, y \in Nat : <<x, y>> \in R <=> x < y
  BY DEF OpToRel
<1>2. IsWellFoundedOn(R, Nat)
  BY NatLessThanWellFounded
<1> HIDE DEF R
<1>3. PICK m \in S : \A y \in S : ~(<<y, m>> \in R)
  BY <1>2, WFMin
<1>4. \A y \in S : y \in Nat
  OBVIOUS
<1>5. \A y \in S : ~(y < m)
  BY <1>1, <1>3, <1>4
<1>6. \A y \in S : m <= y
  BY <1>4, <1>5
<1> QED BY <1>6

LEMMA GreatestNatural ==
  ASSUME NEW n \in Nat, NEW S \in SUBSET (0..n), S # {}
  PROVE  \E m \in S : \A k \in S : m >= k
<1> DEFINE T == {n - k : k \in S}
<1>1. T \in SUBSET Nat
  <2>1. \A k \in S : n - k \in Nat
    OBVIOUS
  <2> QED BY <2>1
<1>2. T # {}
  OBVIOUS
<1>3. PICK t \in T : \A k \in T : t <= k
  BY <1>1, <1>2, LeastNatural
<1>4. PICK m \in S : t = n - m
  BY <1>3
<1>5. \A k \in S : m >= k
  <2> TAKE k \in S
  <2>1. n - k \in T
    OBVIOUS
  <2>2. n - m <= n - k
    BY <1>3, <1>4, <2>1
  <2>3. m \in 0..n /\ k \in 0..n
    OBVIOUS
  <2> QED BY <2>2, <2>3
<1> QED BY <1>5

LEMMA MinIsLeast ==
  ASSUME NEW S \in SUBSET Nat, S # {}
  PROVE  Dma!Min(S) \in S /\ \A k \in S : Dma!Min(S) <= k
<1>1. \E m \in S : \A k \in S : m <= k
  BY LeastNatural
<1> QED BY <1>1 DEF Dma!Min

LEMMA MaxIsGreatest ==
  ASSUME NEW n \in Nat, NEW S \in SUBSET (0..n), S # {}
  PROVE  Dma!Max(S) \in S /\ \A k \in S : Dma!Max(S) >= k
<1>1. \E m \in S : \A k \in S : m >= k
  BY GreatestNatural
<1> QED BY <1>1 DEF Dma!Max

----------------------------------------------------------------------------
(* What v785_dmasegdata copies.                                            *)

\* More words of its event follow the word w.
Inside(w) == w.type \in {"header", "data"}

\* As long as no event ends in them, the words of d are those of one event.
Run(d) ==
  \A i \in 1..Len(d) : \A j \in i..Len(d) :
    (\A k \in i..(j - 1) : Inside(d[k])) =>
      d[j].ev = d[i].ev /\ d[j].at = d[i].at + (j - i)

LEMMA RunAt ==
  ASSUME NEW d, Run(d), NEW i \in 1..Len(d), NEW j \in i..Len(d),
         \A k \in i..(j - 1) : Inside(d[k])
  PROVE  d[j].ev = d[i].ev /\ d[j].at = d[i].at + (j - i)
BY Zenon DEF Run

\* The words that v785_dmasegdata copies.
Copied(d) == SubSeq(d, Dma!staadr(d) + 1, Dma!stoadr(d) + 1)

\* From the word copied first to the one before the last, no event ends.
LEMMA CopiedBounds ==
  ASSUME Rsize \in Nat, Rsize > 1, NEW d \in Seq(WordSet), Len(d) = Rsize
  PROVE  /\ Dma!staadr(d) \in 0..(Rsize - 1) /\ Dma!stoadr(d) \in 0..(Rsize - 1)
         /\ Dma!staadr(d) <= Dma!stoadr(d)
         /\ Rsize > 2 =>
              \A l \in Dma!staadr(d)..(Dma!stoadr(d) - 1) : Inside(d[l + 1])
<1> DEFINE B == Dma!Breaking(d)
           m == Dma!Min(B)
           seen == {h \in 0..(Rsize - 1) :
                      Dma!Header(d, h) /\ \A b \in B : h <= b}
           a == Dma!staadr(d)
           z == Dma!stoadr(d)
<1>1. B \in SUBSET (0..(Rsize - 1)) /\ B \in SUBSET Nat
  BY DEF Dma!Breaking
<1>2. \A l \in 0..(Rsize - 1) : l \in B <=> Dma!Breaks(d, l)
  BY DEF Dma!Breaking
<1>3. /\ z = IF B = {} THEN Rsize - 1
             ELSE IF Dma!HeaderBefore(d, m) THEN m ELSE 0
      /\ a = IF seen = {} THEN 0 ELSE Dma!Max(seen)
  BY DEF Dma!stoadr, Dma!staadr
<1>4. B # {} => m \in B /\ \A b \in B : m <= b
  BY <1>1, MinIsLeast
<1>5. seen # {} => a \in seen
  <2>1. seen \in SUBSET (0..(Rsize - 1)) /\ Rsize - 1 \in Nat
    OBVIOUS
  <2> QED BY <1>3, <2>1, MaxIsGreatest
<1> HIDE DEF B, m, a, z
<1>6. a \in 0..(Rsize - 1)
  BY <1>3, <1>5
<1>7. z \in 0..(Rsize - 1)
  <2>1. CASE B = {}
    BY <1>3, <2>1
  <2>2. CASE B # {}
    <3>1. m \in 0..(Rsize - 1) /\ 0 \in 0..(Rsize - 1)
      <4>1. m \in B
        BY <1>4, <2>2
      <4>2. m \in 0..(Rsize - 1)
        BY <1>1, <4>1
      <4> QED BY <4>2
    <3>2. z = m \/ z = 0
      BY <1>3, <2>2
    <3> QED BY <3>1, <3>2
  <2> QED BY <2>1, <2>2
<1>8. ASSUME Rsize > 2, NEW l \in a..(z - 1) PROVE Inside(d[l + 1])
  <2>1. l \in 0..(Rsize - 1) /\ l < z /\ a <= l
    BY <1>6, <1>7
  <2>2. CASE seen = {}
    <3>1. ASSUME NEW h \in 0..(Rsize - 1), Dma!Header(d, h)
          PROVE  \E b \in B : ~(h <= b)
      BY <2>2, <3>1
    <3>2. CASE B = {}
      <4>1. ~Dma!HeaderBefore(d, 2)
        BY <1>8, <3>1, <3>2 DEF Dma!HeaderBefore
      <4>2. Dma!Breaks(d, 2)
        BY <4>1 DEF Dma!Breaks
      <4> QED BY <1>2, <1>8, <3>2, <4>2
    <3>3. CASE B # {}
      <4>1. ~Dma!HeaderBefore(d, m)
        <5> SUFFICES ASSUME NEW h \in 0..m, Dma!Header(d, h) PROVE FALSE
          BY DEF Dma!HeaderBefore
        <5>1. /\ m \in 0..(Rsize - 1)
              /\ \A b \in B : m <= b /\ b \in 0..(Rsize - 1)
          BY <1>1, <1>4, <3>3
        <5>2. h \in 0..(Rsize - 1)
          BY <5>1
        <5>3. \A b \in B : h <= b
          BY <5>1
        <5> QED BY <3>1, <5>2, <5>3
      <4>2. z = 0
        BY <1>3, <3>3, <4>1
      <4> QED BY <2>1, <4>2
    <3> QED BY <3>2, <3>3
  <2>3. CASE seen # {}
    <3>1. Dma!Header(d, a)
      BY <1>5, <2>3
    <3>2. Dma!HeaderBefore(d, l)
      BY <1>6, <2>1, <3>1 DEF Dma!HeaderBefore
    <3>3. l \notin B
      <4>1. CASE B = {}
        BY <4>1
      <4>2. CASE B # {}
        <5>1. z = m \/ z = 0
          BY <1>3, <4>2
        <5>2. l < m
          BY <1>6, <2>1, <5>1
        <5>3. m \in Nat /\ \A b \in B : m <= b
          BY <1>1, <1>4, <4>2
        <5>4. ASSUME l \in B PROVE FALSE
          <6>1. m <= l
            BY <5>3, <5>4
          <6> QED BY <2>1, <5>2, <5>3, <6>1
        <5> QED BY <5>4
      <4> QED BY <4>1, <4>2
    <3>4. ~Dma!Ending(d, l)
      BY <1>2, <2>1, <3>2, <3>3 DEF Dma!Breaks
    <3>5. d[l + 1] \in WordSet
      BY <2>1
    <3> QED BY <3>4, <3>5 DEF Dma!Ending, Inside, WordSet, Types
  <2> QED BY <2>2, <2>3
<1>9. a <= z
  <2>1. CASE seen = {}
    BY <1>3, <1>7, <2>1
  <2>2. CASE seen # {} /\ B = {}
    BY <1>3, <1>6, <2>2
  <2>3. CASE seen # {} /\ B # {}
    <3>1. m \in B /\ m \in Nat
      BY <1>1, <1>4, <2>3
    <3>2. a <= m /\ Dma!Header(d, a)
      BY <1>5, <2>3, <3>1
    <3>3. Dma!HeaderBefore(d, m)
      BY <1>6, <3>1, <3>2 DEF Dma!HeaderBefore
    <3>4. z = m
      BY <1>3, <2>3, <3>3
    <3> QED BY <3>2, <3>4
  <2> QED BY <2>1, <2>2, <2>3
<1> QED BY <1>6, <1>7, <1>8, <1>9 DEF a, z

\* So what is copied is of one event.
LEMMA CopiedOfOneEvent ==
  ASSUME Rsize \in Nat, Rsize > 1, NEW d \in Seq(WordSet), Len(d) = Rsize
  PROVE  /\ Copied(d) \in Seq(WordSet)
         /\ Rsize > 2 /\ Run(d) => OfOneEvent(Copied(d))
<1> DEFINE a == Dma!staadr(d)
           z == Dma!stoadr(d)
           s == Copied(d)
<1>1. /\ a \in 0..(Rsize - 1) /\ z \in 0..(Rsize - 1)
      /\ Rsize > 2 => \A l \in a..(z - 1) : Inside(d[l + 1])
  BY CopiedBounds
<1>2. s = SubSeq(d, a + 1, z + 1)
  BY DEF Copied
<1> HIDE DEF a, z, s
<1> DEFINE f == a + 1
           t == z + 1
<1>3. /\ s \in Seq(WordSet)
      /\ Len(s) = IF a <= z THEN z - a + 1 ELSE 0
      /\ \A k \in 1..Len(s) : s[k] = d[a + k]
  <2>1. f \in Int /\ t \in Int /\ \A i \in f..t : d[i] \in WordSet
    BY <1>1
  <2>2. f = a + 1 /\ t = z + 1 /\ s = SubSeq(d, f, t)
    BY <1>2
  <2> HIDE DEF f, t
  <2>3. /\ s \in Seq(WordSet)
        /\ Len(s) = IF f <= t THEN t - f + 1 ELSE 0
        /\ \A k \in 1..(t - f + 1) : s[k] = d[f + k - 1]
    BY <2>1, <2>2, SubSeqProperties
  <2>4. Len(s) = IF a <= z THEN z - a + 1 ELSE 0
    BY <1>1, <2>2, <2>3
  <2>5. ASSUME NEW k \in 1..Len(s) PROVE s[k] = d[a + k]
    <3>1. k \in 1..(t - f + 1) /\ f + k - 1 = a + k
      BY <1>1, <2>2, <2>4
    <3> QED BY <2>3, <3>1
  <2> QED BY <2>3, <2>4, <2>5
<1>4. ASSUME Rsize > 2, Run(d) PROVE OfOneEvent(s)
  <2> SUFFICES ASSUME NEW k \in 1..Len(s)
               PROVE  s[k].ev = s[1].ev /\ s[k].at = s[1].at + k - 1
    BY DEF OfOneEvent
  <2>1. a <= z /\ k \in 1..(z - a + 1)
    BY <1>1, <1>3
  <2>2. a + 1 \in 1..Len(d) /\ a + k \in (a + 1)..Len(d)
    BY <1>1, <2>1
  <2> DEFINE j == a + k
  <2>3. \A i \in f..(j - 1) : Inside(d[i])
    <3> TAKE i \in f..(j - 1)
    <3>1. i - 1 \in a..(z - 1) /\ (i - 1) + 1 = i
      BY <1>1, <2>1
    <3> QED BY <1>1, <1>4, <3>1
  <2>4. d[j].ev = d[f].ev /\ d[j].at = d[f].at + (j - f)
    <3>1. f \in 1..Len(d) /\ j \in f..Len(d)
      BY <2>2
    <3> HIDE DEF f, j
    <3> QED BY <1>4, <2>3, <3>1, RunAt
  <2>5. d[a + 1].at \in Nat
    <3>1. d[a + 1] \in WordSet
      BY <2>2
    <3> QED BY <3>1 DEF WordSet
  <2>6. s[k] = d[a + k] /\ s[1] = d[a + 1]
    BY <1>1, <1>3, <2>1
  <2> QED BY <1>1, <2>1, <2>4, <2>5, <2>6
<1> QED BY <1>3, <1>4 DEF s

\* The words d are those of e from its header on, and fillers after its end.
Holds(d, e) ==
  \A k \in 1..Len(d) :
    d[k] = IF k <= e.len + 2 THEN WordOf(e, k - 1) ELSE Filler

\* And of a whole event with fillers behind it, the event is copied.
LEMMA CopiedWhole ==
  ASSUME BufferAssumption, Rsize \in Nat, Most + 2 <= Rsize,
         NEW d \in Seq(WordSet), Len(d) = Rsize,
         NEW e \in Events, Holds(d, e)
  PROVE  Whole(Copied(d))
<1> DEFINE n == e.len
           B == Dma!Breaking(d)
           m == Dma!Min(B)
           seen == {h \in 0..(Rsize - 1) :
                      Dma!Header(d, h) /\ \A b \in B : h <= b}
<1>1. n \in 0..Most /\ Most \in Nat
  BY DEF Events, BufferAssumption
<1>2. /\ \A k \in 1..(n + 2) : d[k] = WordOf(e, k - 1)
      /\ \A k \in (n + 3)..Rsize : d[k] = Filler
  BY <1>1 DEF Holds
<1>3. d[1].type = "header"
  <2>1. d[1] = WordOf(e, 0)
    BY <1>1, <1>2
  <2> QED BY <2>1, WordFields
<1>4. \A l \in 1..n : d[l + 1].type = "data"
  <2> TAKE l \in 1..n
  <2>1. d[l + 1] = WordOf(e, l) /\ l \in Nat /\ l \in 1..e.len
    BY <1>1, <1>2
  <2> QED BY <2>1, WordFields
<1>5. d[n + 2].type = "eob"
  <2>1. d[n + 2] = WordOf(e, n + 1) /\ n + 1 \in Nat /\ n + 1 = e.len + 1
    BY <1>1, <1>2
  <2> QED BY <2>1, WordFields
<1>6. \A k \in (n + 3)..Rsize : d[k].type = "filler"
  BY <1>2 DEF Filler
<1> HIDE DEF n, B, m, seen
<1>7. \A l \in 0..(Rsize - 1) : Dma!HeaderBefore(d, l)
  BY <1>3 DEF Dma!HeaderBefore, Dma!Header
<1>8. \A l \in 0..n : ~Dma!Ending(d, l)
  <2> TAKE l \in 0..n
  <2>1. l = 0 \/ l \in 1..n
    BY <1>1
  <2> QED BY <1>3, <1>4, <2>1 DEF Dma!Ending
<1>9. Dma!Ending(d, n + 1)
  <2>1. (n + 1) + 1 = n + 2
    BY <1>1
  <2> QED BY <1>5, <2>1 DEF Dma!Ending
<1>10. /\ n + 1 \in B /\ B \in SUBSET Nat
       /\ \A b \in B : n + 1 <= b
  <2>1. n + 1 \in 0..(Rsize - 1)
    BY <1>1
  <2>2. n + 1 \in B
    BY <1>7, <1>9, <2>1 DEF B, Dma!Breaking, Dma!Breaks
  <2>3. B \in SUBSET Nat
    BY DEF B, Dma!Breaking
  <2>4. \A b \in B : b \notin 0..n
    BY <1>7, <1>8 DEF B, Dma!Breaking, Dma!Breaks
  <2>5. \A b \in B : n + 1 <= b
    <3> TAKE b \in B
    <3>1. b \in Nat /\ b \notin 0..n
      BY <2>3, <2>4
    <3> QED BY <1>1, <3>1
  <2> QED BY <2>2, <2>3, <2>5
<1>11. m = n + 1
  <2>1. m \in B /\ \A b \in B : m <= b
    BY <1>10, MinIsLeast DEF m
  <2>2. m \in Nat /\ m <= n + 1 /\ n + 1 <= m
    BY <1>10, <2>1
  <2> QED BY <1>1, <2>2
<1>12. Dma!stoadr(d) = n + 1
  <2>1. n + 1 \in 0..(Rsize - 1) /\ B # {}
    BY <1>1, <1>10
  <2> QED BY <1>7, <1>11, <2>1 DEF Dma!stoadr, B, m
<1>13. Dma!staadr(d) = 0
  <2>1. 0 \in seen
    <3>1. Dma!Header(d, 0) /\ 0 \in 0..(Rsize - 1)
      BY <1>1, <1>3 DEF Dma!Header
    <3>2. \A b \in B : 0 <= b
      BY <1>10
    <3> QED BY <3>1, <3>2 DEF seen
  <2>2. \A h \in seen : h = 0
    <3> TAKE h \in seen
    <3>1. h \in 0..(Rsize - 1) /\ Dma!Header(d, h)
      BY DEF seen
    <3>2. ~(h \in 1..n)
      BY <1>4, <3>1 DEF Dma!Header
    <3>3. h # n + 1
      <4>1. (n + 1) + 1 = n + 2
        BY <1>1
      <4> QED BY <1>5, <3>1, <4>1 DEF Dma!Header
    <3>4. ~(h + 1 \in (n + 3)..Rsize)
      BY <1>6, <3>1 DEF Dma!Header
    <3> QED BY <1>1, <3>1, <3>2, <3>3, <3>4
  <2>3. seen \in SUBSET (0..(Rsize - 1)) /\ Rsize - 1 \in Nat /\ seen # {}
    BY <1>1, <2>1 DEF seen
  <2>4. Dma!Max(seen) = 0
    BY <2>2, <2>3, MaxIsGreatest
  <2> QED BY <2>3, <2>4 DEF Dma!staadr, seen, B
<1> DEFINE s == Copied(d)
<1>14. /\ Len(s) = n + 2
       /\ \A k \in 1..(n + 2) : s[k] = d[k]
  <2> DEFINE t == n + 2
  <2>1. s = SubSeq(d, 1, t)
    <3>1. 0 + 1 = 1 /\ n + 1 + 1 = n + 2
      BY <1>1
    <3> QED BY <1>12, <1>13, <3>1 DEF Copied
  <2>2. t \in Int /\ 1 <= t /\ \A k \in 1..t : d[k] \in WordSet
    BY <1>1
  <2> HIDE DEF t, s
  <2>3. /\ Len(s) = t - 1 + 1
        /\ \A k \in 1..(t - 1 + 1) : s[k] = d[1 + k - 1]
    BY <2>1, <2>2, SubSeqProperties
  <2>4. Len(s) = t /\ \A k \in 1..t : s[k] = d[k]
    BY <2>2, <2>3
  <2> QED BY <2>4 DEF t
<1> HIDE DEF s
<1>15. /\ s[1].type = "header" /\ s[Len(s)].type = "eob" /\ s # <<>>
  BY <1>1, <1>3, <1>5, <1>14
<1>16. OfOneEvent(s)
  <2>1. \A k \in 1..(n + 2) : s[k].ev = e.ev /\ s[k].at = k - 1
    <3> TAKE k \in 1..(n + 2)
    <3>1. s[k] = WordOf(e, k - 1) /\ k - 1 \in Nat
      BY <1>1, <1>2, <1>14
    <3> QED BY <3>1, WordFields
  <2>2. 1 \in 1..(n + 2)
    BY <1>1
  <2>3. s[1].ev = e.ev /\ s[1].at = 0
    BY <2>1, <2>2
  <2> QED BY <1>1, <1>14, <2>1, <2>3 DEF OfOneEvent
<1> QED BY <1>15, <1>16 DEF Whole, s

----------------------------------------------------------------------------
(* The DMA readers.                                                        *)

\* The oldest event is taken no further than its end word.
PosInv == dmaQueue # <<>> => dmaPos <= Head(dmaQueue).len + 1

\* The last word fetched goes before the next one in the module.
Linked ==
  dmadata # <<>> /\ Inside(dmadata[Len(dmadata)]) =>
    /\ dmaQueue # <<>>
    /\ dmadata[Len(dmadata)].ev = Head(dmaQueue).ev
    /\ dmadata[Len(dmadata)].at + 1 = dmaPos

\* Only a transfer of the event FIFO's length is never given up; what the
\* engine is still at when a reader starts is Rsize words, the most that the
\* half has been given room for here.
EngineInv ==
  /\ Run(dmadata)
  /\ engine = "on" =>
       /\ Linked /\ todo <= Rsize
       /\ IF rd = "fifo" THEN dmaPc = "wait" ELSE todo = Rsize
  /\ dmaPc # "idle" => busy = 1
  /\ dmaPc = "wait" => /\ dmaMp = 2 /\ dmaSegmentsize = 2
                       /\ \A i \in Dma!Halfwords : dmaData[i] = Dma!Stale

\* A reader that began with one event has so far fetched this event's words
\* and then fillers; the rest of the event is in the module.
CleanInv ==
  dmaPc = "wait" /\ clean =>
    /\ engine = "on"
    /\ \E e \in Events :
         /\ Holds(dmadata, e)
         /\ IF Len(dmadata) < e.len + 2
              THEN dmaQueue = <<e>> /\ dmaPos = Len(dmadata)
              ELSE dmaQueue = <<>>

DmaInv ==
  Dma!TypeOK /\ PosInv /\ EngineInv /\ CleanInv /\ DmaSizesRight

LEMMA RsizeFacts ==
  /\ Rsize \in Nat /\ Most \in Nat /\ Most + 2 <= Rsize /\ Rsize > 1
  /\ BufferAssumption
BY ReadersAssumption DEF BufferAssumption, Dma!RsizeAssumption

\* The instance has a buffer of its own, of the same words.
LEMMA SameWords ==
  /\ Dma!Events = Events /\ Dma!WordSet = WordSet /\ Dma!Filler = Filler
  /\ \A e, k : Dma!WordOf(e, k) = WordOf(e, k)
  /\ \A s : Dma!OfOneEvent(s) <=> OfOneEvent(s)
  /\ \A s : Dma!Whole(s) <=> Whole(s)
<1>1. Dma!Events = Events
  BY DEF Dma!Events, Events
<1>2. Dma!WordSet = WordSet
  BY DEF Dma!WordSet, WordSet, Dma!Types, Types
<1>3. Dma!Filler = Filler
  BY DEF Dma!Filler, Filler
<1>4. \A e, k : Dma!WordOf(e, k) = WordOf(e, k)
  BY DEF Dma!WordOf, WordOf
<1>5. \A s : Dma!OfOneEvent(s) <=> OfOneEvent(s)
  BY DEF Dma!OfOneEvent, OfOneEvent
<1>6. \A s : Dma!Whole(s) <=> Whole(s)
  BY <1>5 DEF Dma!Whole, Whole
<1> QED BY <1>1, <1>2, <1>3, <1>4, <1>5, <1>6

LEMMA DmaTypes ==
  Dma!TypeOK <=>
    /\ dmaQueue \in Seq(Events) /\ dmaPos \in 0..(Most + 1)
    /\ dmaEvid \in 1..Ids /\ (dmaQueue = <<>> => dmaPos = 0)
    /\ dmaPc \in {"idle", "wait", "end"} /\ rd \in {"v785", "bbrl", "fifo"}
    /\ busy \in 0..1 /\ engine \in {"on", "off"} /\ todo \in Nat
    /\ dmadata \in Seq(WordSet)
    /\ dmaData \in [Dma!Halfwords -> WordSet \cup {Dma!Stale}]
    /\ dmaMp \in Nat /\ dmaSegmentsize \in Nat /\ clean \in BOOLEAN
BY SameWords DEF Dma!TypeOK, Dma!BufferOK, Dma!Halfwords, Dma!Stale

LEMMA DmaTypesNext ==
  Dma!TypeOK' <=>
    /\ dmaQueue' \in Seq(Events) /\ dmaPos' \in 0..(Most + 1)
    /\ dmaEvid' \in 1..Ids /\ (dmaQueue' = <<>> => dmaPos' = 0)
    /\ dmaPc' \in {"idle", "wait", "end"}
    /\ rd' \in {"v785", "bbrl", "fifo"}
    /\ busy' \in 0..1 /\ engine' \in {"on", "off"} /\ todo' \in Nat
    /\ dmadata' \in Seq(WordSet)
    /\ dmaData' \in [Dma!Halfwords -> WordSet \cup {Dma!Stale}]
    /\ dmaMp' \in Nat /\ dmaSegmentsize' \in Nat /\ clean' \in BOOLEAN
BY SameWords DEF Dma!TypeOK, Dma!BufferOK, Dma!Halfwords, Dma!Stale

LEMMA DmaInit == Dma!Init => DmaInv /\ DmaOneEvent
<1> SUFFICES ASSUME Dma!Init PROVE DmaInv /\ DmaOneEvent
  OBVIOUS
<1>1. /\ dmaQueue = <<>> /\ dmaPos = 0 /\ dmaEvid = Ids
      /\ dmaPc = "idle" /\ rd = "v785" /\ busy = 0 /\ engine = "off"
      /\ todo = 0 /\ dmadata = <<>> /\ dmaMp = 0 /\ dmaSegmentsize = 0
      /\ dmaData = [i \in Dma!Halfwords |-> Dma!Stale] /\ clean = FALSE
  BY DEF Dma!Init, Dma!BufferInit
<1>2. Ids \in Nat \ {0} /\ Most \in Nat
  BY RsizeFacts DEF BufferAssumption
<1>3. clean \in BOOLEAN
  BY <1>1
<1>4. <<>> \in Seq(Events) /\ <<>> \in Seq(WordSet) /\ Len(<<>>) = 0
  OBVIOUS
<1>5. Dma!TypeOK
  BY <1>1, <1>2, <1>3, <1>4, DmaTypes
<1>6. PosInv /\ CleanInv /\ DmaSizesRight /\ DmaOneEvent
  BY <1>1 DEF PosInv, CleanInv, DmaSizesRight, Dma!SizesRight, DmaOneEvent,
              Dma!OneEvent
<1>7. EngineInv
  <2>1. Run(dmadata)
    BY <1>1, <1>4 DEF Run
  <2> QED BY <1>1, <2>1 DEF EngineInv
<1> QED BY <1>5, <1>6, <1>7 DEF DmaInv

LEMMA DmaEventStep ==
  ASSUME DmaInv, NEW n \in 0..Most, Dma!Event(n) PROVE DmaInv'
<1>1. /\ dmaQueue \in Seq(Events) /\ dmaPos \in 0..(Most + 1)
      /\ dmaEvid \in 1..Ids /\ (dmaQueue = <<>> => dmaPos = 0)
      /\ busy = 0 /\ busy' = 1 /\ dmaPc = "idle"
  BY DmaTypes DEF DmaInv, EngineInv, Dma!Event
<1>2. /\ UNCHANGED <<dmaPc, rd, engine, todo, dmadata, dmaMp, dmaSegmentsize,
                     dmaData, clean>>
      /\ dmaPos' = dmaPos
  BY DEF Dma!Event, Dma!dma, Dma!segment, Dma!Arrive
<1>3. dmaEvid' \in 1..Ids
  BY <1>1, RsizeFacts DEF Dma!Event, Dma!Arrive, BufferAssumption
<1> DEFINE e == [ev |-> dmaEvid', len |-> n]
<1>4. e \in Events
  BY <1>3 DEF Events
<1>5. dmaQueue' = dmaQueue \/ dmaQueue' = Append(dmaQueue, e)
  BY DEF Dma!Event, Dma!Arrive
<1> HIDE DEF e
<1>6. /\ dmaQueue' \in Seq(Events)
      /\ dmaQueue # <<>> => dmaQueue' # <<>> /\ Head(dmaQueue') = Head(dmaQueue)
      /\ dmaQueue' # <<>> => Head(dmaQueue') \in Events
  BY <1>1, <1>4, <1>5
<1>7. Dma!TypeOK'
  <2>1. dmaQueue' = <<>> => dmaPos' = 0
    BY <1>1, <1>2, <1>6
  <2>2. /\ dmaPc' \in {"idle", "wait", "end"}
        /\ rd' \in {"v785", "bbrl", "fifo"}
        /\ busy' \in 0..1 /\ engine' \in {"on", "off"} /\ todo' \in Nat
        /\ dmadata' \in Seq(WordSet)
        /\ dmaData' \in [Dma!Halfwords -> WordSet \cup {Dma!Stale}]
        /\ dmaMp' \in Nat /\ dmaSegmentsize' \in Nat
    BY <1>1, <1>2, DmaTypes DEF DmaInv
  <2>3. clean' \in BOOLEAN
    BY <1>2, DmaTypes DEF DmaInv
  <2> QED BY <1>1, <1>2, <1>3, <1>6, <2>1, <2>2, <2>3, DmaTypesNext
<1>8. PosInv'
  <2>1. CASE dmaQueue = <<>>
    <3>1. dmaQueue' # <<>> => Head(dmaQueue').len \in Nat
      BY <1>6, RsizeFacts DEF Events
    <3> QED BY <1>1, <1>2, <2>1, <3>1 DEF PosInv
  <2>2. CASE dmaQueue # <<>>
    BY <1>2, <1>6, <2>2 DEF DmaInv, PosInv
  <2> QED BY <2>1, <2>2
<1>9. EngineInv'
  <2>1. Run(dmadata)'
    BY <1>2 DEF DmaInv, EngineInv, Run, Inside
  <2>2. Linked => Linked'
    BY <1>2, <1>6 DEF Linked, Inside
  <2> QED BY <1>1, <1>2, <2>1, <2>2 DEF DmaInv, EngineInv
<1>10. CleanInv' /\ DmaSizesRight'
  BY <1>1, <1>2 DEF CleanInv, DmaSizesRight, Dma!SizesRight
<1> QED BY <1>7, <1>8, <1>9, <1>10 DEF DmaInv

LEMMA DmaFetchStep == ASSUME DmaInv, Dma!Fetch PROVE DmaInv'
<1> DEFINE w == Dma!NextWord
           n == Len(dmadata)
<1>1. /\ dmaQueue \in Seq(Events) /\ dmaPos \in 0..(Most + 1)
      /\ dmaEvid \in 1..Ids /\ (dmaQueue = <<>> => dmaPos = 0)
      /\ dmadata \in Seq(WordSet) /\ n \in Nat
  BY DmaTypes DEF DmaInv
<1>2. /\ engine = "on" /\ dmadata' = Append(dmadata, w) /\ Dma!Take
      /\ UNCHANGED <<dmaPc, rd, busy, engine, todo, dmaMp, dmaSegmentsize,
                     dmaData, clean>>
  BY DEF Dma!Fetch, Dma!segment
<1>3. PosInv /\ EngineInv /\ CleanInv /\ Linked /\ Run(dmadata)
  BY <1>2 DEF DmaInv, EngineInv
<1>4. dmaQueue # <<>> =>
        /\ Head(dmaQueue) \in Events /\ Head(dmaQueue).len \in 0..Most
        /\ Tail(dmaQueue) \in Seq(Events)
        /\ dmaPos \in Nat /\ dmaPos <= Head(dmaQueue).len + 1
        /\ w = WordOf(Head(dmaQueue), dmaPos)
  <2> SUFFICES ASSUME dmaQueue # <<>>
               PROVE /\ Head(dmaQueue) \in Events
                     /\ Head(dmaQueue).len \in 0..Most
                     /\ Tail(dmaQueue) \in Seq(Events)
                     /\ dmaPos \in Nat /\ dmaPos <= Head(dmaQueue).len + 1
                     /\ w = WordOf(Head(dmaQueue), dmaPos)
    OBVIOUS
  <2>1. Head(dmaQueue) \in Events /\ Tail(dmaQueue) \in Seq(Events)
    BY <1>1
  <2>2. Head(dmaQueue).len \in 0..Most
    BY <2>1 DEF Events
  <2>3. w = WordOf(Head(dmaQueue), dmaPos)
    BY SameWords DEF Dma!NextWord
  <2>4. dmaPos \in Nat /\ dmaPos <= Head(dmaQueue).len + 1
    BY <1>1, <1>3, RsizeFacts DEF PosInv
  <2> QED BY <2>1, <2>2, <2>3, <2>4
<1>5. dmaQueue = <<>> => w = Filler
  BY SameWords DEF Dma!NextWord
<1> HIDE DEF w
<1>6. w \in WordSet
  <2>1. Filler \in WordSet
    BY RsizeFacts DEF Filler, WordSet, Types, BufferAssumption
  <2> QED BY <1>4, <1>5, <2>1, WordIsWord
<1>7. /\ dmadata' \in Seq(WordSet) /\ Len(dmadata') = n + 1
      /\ dmadata'[n + 1] = w /\ \A k \in 1..n : dmadata'[k] = dmadata[k]
      /\ dmadata' # <<>>
  BY <1>1, <1>2, <1>6, AppendProperties
<1>8. dmaQueue = <<>> => dmaQueue' = dmaQueue /\ dmaPos' = dmaPos
  BY <1>2 DEF Dma!Take
<1>9. dmaQueue # <<>> /\ dmaPos = Head(dmaQueue).len + 1 =>
        dmaQueue' = Tail(dmaQueue) /\ dmaPos' = 0 /\ w.type = "eob"
  BY <1>2, <1>4, WordFields DEF Dma!Take
<1>10. dmaQueue # <<>> /\ dmaPos # Head(dmaQueue).len + 1 =>
         /\ dmaQueue' = dmaQueue /\ dmaPos' = dmaPos + 1
         /\ dmaPos <= Head(dmaQueue).len
  BY <1>2, <1>4 DEF Dma!Take
<1>11. /\ dmaQueue' \in Seq(Events) /\ dmaPos' \in 0..(Most + 1)
       /\ dmaEvid' \in 1..Ids /\ (dmaQueue' = <<>> => dmaPos' = 0)
       /\ PosInv'
  <2>1. dmaEvid' \in 1..Ids
    BY <1>1, <1>2 DEF Dma!Take
  <2>2. CASE dmaQueue = <<>>
    BY <1>1, <1>8, <2>1, <2>2 DEF PosInv
  <2>3. CASE dmaQueue # <<>> /\ dmaPos = Head(dmaQueue).len + 1
    <3>1. dmaQueue' # <<>> => Head(dmaQueue').len \in Nat
      <4>1. dmaQueue' \in Seq(Events)
        BY <1>4, <1>9, <2>3
      <4>2. dmaQueue' # <<>> => Head(dmaQueue') \in Events
        BY <4>1
      <4> QED BY <4>2, RsizeFacts DEF Events
    <3>2. dmaQueue' = Tail(dmaQueue) /\ dmaPos' = 0
      BY <1>9, <2>3
    <3>3. dmaQueue' \in Seq(Events)
      BY <1>4, <2>3, <3>2
    <3>4. PosInv'
      BY <3>1, <3>2 DEF PosInv
    <3>5. 0 \in 0..(Most + 1)
      BY RsizeFacts
    <3> QED BY <2>1, <3>2, <3>3, <3>4, <3>5
  <2>4. CASE dmaQueue # <<>> /\ dmaPos # Head(dmaQueue).len + 1
    <3>1. dmaQueue' = dmaQueue /\ dmaPos' = dmaPos + 1
      BY <1>10, <2>4
    <3>2. dmaPos' \in 0..(Most + 1) /\ dmaPos' <= Head(dmaQueue).len + 1
      BY <1>4, <1>10, <2>4, <3>1, RsizeFacts
    <3> QED BY <1>1, <2>1, <2>4, <3>1, <3>2 DEF PosInv
  <2> QED BY <2>2, <2>3, <2>4
<1>12. Dma!TypeOK'
  <2>1. /\ dmaPc' \in {"idle", "wait", "end"}
        /\ rd' \in {"v785", "bbrl", "fifo"}
        /\ busy' \in 0..1 /\ engine' \in {"on", "off"} /\ todo' \in Nat
        /\ dmaData' \in [Dma!Halfwords -> WordSet \cup {Dma!Stale}]
        /\ dmaMp' \in Nat /\ dmaSegmentsize' \in Nat
    BY <1>2, DmaTypes DEF DmaInv
  <2>2. clean' \in BOOLEAN
    BY <1>2, DmaTypes DEF DmaInv
  <2> QED BY <1>7, <1>11, <2>1, <2>2, DmaTypesNext
<1>13. Linked'
  <2> SUFFICES ASSUME Inside(w)
               PROVE  /\ dmaQueue' # <<>>
                      /\ w.ev = Head(dmaQueue').ev /\ w.at + 1 = dmaPos'
    BY <1>7 DEF Linked, Inside
  <2>1. dmaQueue # <<>>
    BY <1>5 DEF Inside, Filler
  <2>2. dmaPos # Head(dmaQueue).len + 1
    BY <1>9, <2>1 DEF Inside
  <2> QED BY <1>4, <1>10, <2>1, <2>2, WordFields
<1>14. Run(dmadata)'
  <2> SUFFICES ASSUME NEW i \in 1..(n + 1), NEW j \in i..(n + 1),
                      \A k \in i..(j - 1) : Inside(dmadata'[k])
               PROVE  /\ dmadata'[j].ev = dmadata'[i].ev
                      /\ dmadata'[j].at = dmadata'[i].at + (j - i)
    BY <1>7 DEF Run, Inside
  <2>1. CASE j <= n
    <3>1. i \in 1..n /\ j \in i..n /\ \A k \in i..(j - 1) : k \in 1..n
      BY <1>1, <2>1
    <3>2. \A k \in i..(j - 1) : Inside(dmadata[k])
      BY <1>7, <3>1
    <3>3. /\ dmadata[j].ev = dmadata[i].ev
          /\ dmadata[j].at = dmadata[i].at + (j - i)
      BY <1>3, <3>1, <3>2, RunAt
    <3>4. dmadata'[i] = dmadata[i] /\ dmadata'[j] = dmadata[j]
      BY <1>7, <3>1
    <3> QED BY <3>3, <3>4
  <2>2. CASE i = n + 1
    <3>1. j = n + 1 /\ w.at \in Nat
      BY <1>1, <1>6, <2>2 DEF WordSet
    <3> QED BY <1>1, <1>7, <2>2, <3>1
  <2>3. CASE i <= n /\ j = n + 1
    <3>1. i \in 1..n /\ n \in i..n /\ \A k \in i..n : k \in 1..n
      BY <1>1, <2>3
    <3>2. \A k \in i..n : Inside(dmadata[k])
      <4> TAKE k \in i..n
      <4>1. k \in i..(j - 1) /\ k \in 1..n
        BY <1>1, <2>3, <3>1
      <4> QED BY <1>7, <4>1
    <3>3. \A k \in i..(n - 1) : Inside(dmadata[k])
      <4> TAKE k \in i..(n - 1)
      <4>1. k \in i..n
        BY <1>1
      <4> QED BY <3>2, <4>1
    <3>4. /\ dmadata[n].ev = dmadata[i].ev
          /\ dmadata[n].at = dmadata[i].at + (n - i)
      BY <1>3, <3>1, <3>3, RunAt
    <3>5. /\ dmaQueue # <<>> /\ dmadata[n].ev = Head(dmaQueue).ev
          /\ dmadata[n].at + 1 = dmaPos
      <4>1. dmadata # <<>> /\ Inside(dmadata[n])
        BY <1>1, <2>3, <3>1, <3>2
      <4> QED BY <1>3, <4>1 DEF Linked
    <3>6. w.ev = dmadata[n].ev /\ w.at = dmadata[n].at + 1
      BY <1>4, <3>5, WordFields
    <3>7. dmadata'[i] = dmadata[i] /\ dmadata'[j] = w
      BY <1>7, <2>3, <3>1
    <3>8. dmadata[i].at \in Nat
      <4>1. dmadata[i] \in WordSet
        BY <1>1, <3>1
      <4> QED BY <4>1 DEF WordSet
    <3>9. \A a \in Nat : a + (n - i) + 1 = a + (n + 1 - i)
      BY <1>1
    <3>10. w.at = dmadata[i].at + (n + 1 - i) /\ w.ev = dmadata[i].ev
      BY <3>4, <3>6, <3>8, <3>9
    <3> QED BY <2>3, <3>7, <3>10
  <2> QED BY <1>1, <2>1, <2>2, <2>3
<1>15. EngineInv'
  BY <1>2, <1>3, <1>13, <1>14 DEF EngineInv
<1>16. CleanInv'
  <2> SUFFICES ASSUME dmaPc = "wait", clean
               PROVE  \E e \in Events :
                        /\ Holds(dmadata', e)
                        /\ IF Len(dmadata') < e.len + 2
                             THEN dmaQueue' = <<e>> /\ dmaPos' = Len(dmadata')
                             ELSE dmaQueue' = <<>>
    BY <1>2 DEF CleanInv, Holds
  <2>1. PICK e \in Events :
          /\ Holds(dmadata, e)
          /\ IF n < e.len + 2 THEN dmaQueue = <<e>> /\ dmaPos = n
             ELSE dmaQueue = <<>>
    BY <1>3 DEF CleanInv
  <2>2. e.len \in Nat
    BY RsizeFacts DEF Events
  <2>3. w = IF n + 1 <= e.len + 2 THEN WordOf(e, n) ELSE Filler
    <3>1. CASE n < e.len + 2
      <4>1. dmaQueue # <<>> /\ Head(dmaQueue) = e /\ dmaPos = n
        BY <2>1, <3>1
      <4> QED BY <1>1, <1>4, <2>2, <3>1, <4>1
    <3>2. CASE ~(n < e.len + 2)
      BY <1>1, <1>5, <2>1, <2>2, <3>2
    <3> QED BY <3>1, <3>2
  <2>4. Holds(dmadata', e)
    <3> SUFFICES ASSUME NEW k \in 1..(n + 1)
                 PROVE  dmadata'[k] = IF k <= e.len + 2 THEN WordOf(e, k - 1)
                                      ELSE Filler
      BY <1>7 DEF Holds
    <3>1. CASE k = n + 1
      <4>1. k - 1 = n
        BY <1>1, <3>1
      <4> QED BY <1>7, <2>3, <3>1, <4>1
    <3>2. CASE k # n + 1
      <4>1. k \in 1..n
        BY <1>1, <3>2
      <4> QED BY <1>7, <2>1, <4>1 DEF Holds
    <3> QED BY <3>1, <3>2
  <2>5. IF n + 1 < e.len + 2 THEN dmaQueue' = <<e>> /\ dmaPos' = n + 1
        ELSE dmaQueue' = <<>>
    <3>1. CASE n < e.len + 2
      <4>1. dmaQueue = <<e>> /\ dmaQueue # <<>> /\ Head(dmaQueue) = e
            /\ dmaPos = n /\ Tail(dmaQueue) = <<>>
        <5>1. dmaQueue = <<e>> /\ dmaPos = n
          BY <2>1, <3>1
        <5>2. <<e>> # <<>> /\ Head(<<e>>) = e /\ <<e>> \in Seq(Events)
          OBVIOUS
        <5>3. Tail(<<e>>) \in Seq(Events) /\ Len(Tail(<<e>>)) = 0
          BY <5>2, HeadTailProperties
        <5>4. Tail(<<e>>) = <<>>
          BY <5>3
        <5> QED BY <5>1, <5>2, <5>4
      <4>2. CASE n = e.len + 1
        BY <1>9, <2>2, <4>1, <4>2
      <4>3. CASE n # e.len + 1
        BY <1>1, <1>10, <2>2, <3>1, <4>1, <4>3
      <4> QED BY <4>2, <4>3
    <3>2. CASE ~(n < e.len + 2)
      BY <1>1, <1>8, <2>1, <2>2, <3>2
    <3> QED BY <3>1, <3>2
  <2> QED BY <1>7, <2>4, <2>5
<1>17. DmaSizesRight'
  BY <1>2 DEF DmaInv, DmaSizesRight, Dma!SizesRight
<1> QED BY <1>11, <1>12, <1>15, <1>16, <1>17 DEF DmaInv

LEMMA DmaStartStep ==
  ASSUME DmaInv, NEW r \in {"v785", "bbrl", "fifo"}, Dma!Start(r)
  PROVE  DmaInv'
<1>1. /\ dmaQueue \in Seq(Events) /\ dmaPos \in 0..(Most + 1)
      /\ dmaEvid \in 1..Ids /\ (dmaQueue = <<>> => dmaPos = 0)
      /\ dmadata \in Seq(WordSet) /\ todo \in Nat
      /\ engine \in {"on", "off"}
  BY DmaTypes DEF DmaInv
<1>2. /\ dmaPc = "idle" /\ busy = 1
      /\ r = "fifo" => dmaQueue # <<>> /\ dmaPos = 0 /\ engine = "off"
      /\ rd' = r /\ dmaPc' = "wait" /\ dmaMp' = 2 /\ dmaSegmentsize' = 2
      /\ dmaData' = [i \in Dma!Halfwords |-> Dma!Stale]
      /\ UNCHANGED <<dmaQueue, dmaPos, dmaEvid, busy>>
  BY DEF Dma!Start, Dma!buffer
<1>3. \/ engine' = "on" /\ todo' = Dma!Words(r) /\ dmadata' = <<>>
      \/ engine = "on" /\ UNCHANGED <<engine, todo, dmadata>>
  BY DEF Dma!Start, Dma!dma
<1>4. clean' = (engine = "off" /\ Len(dmaQueue) = 1 /\ dmaPos = 0)
  BY DEF Dma!Start
<1>5. clean' \in BOOLEAN
  BY <1>4
<1>6. /\ Dma!Words(r) \in Nat /\ Dma!Words(r) <= Rsize
      /\ r # "fifo" => Dma!Words(r) = Rsize
  <2>1. CASE r = "fifo"
    <3>1. Head(dmaQueue) \in Events
      BY <1>1, <1>2, <2>1
    <3>2. Head(dmaQueue).len \in 0..Most
      BY <3>1, RsizeFacts DEF Events
    <3> QED
      BY <2>1, <3>2, RsizeFacts DEF Dma!Words, Dma!v1X90_multi_map_dma_segdata
  <2>2. CASE r # "fifo"
    BY <2>2, RsizeFacts DEF Dma!Words
  <2> QED BY <2>1, <2>2
<1>7. /\ engine' = "on" /\ todo' \in Nat /\ dmadata' \in Seq(WordSet)
  <2>1. <<>> \in Seq(WordSet)
    OBVIOUS
  <2> QED BY <1>1, <1>3, <1>6, <2>1
<1>8. Dma!TypeOK'
  <2>1. /\ dmaQueue' \in Seq(Events) /\ dmaPos' \in 0..(Most + 1)
        /\ dmaEvid' \in 1..Ids /\ (dmaQueue' = <<>> => dmaPos' = 0)
    BY <1>1, <1>2
  <2>2. /\ dmaPc' \in {"idle", "wait", "end"}
        /\ rd' \in {"v785", "bbrl", "fifo"}
        /\ busy' \in 0..1 /\ engine' \in {"on", "off"}
        /\ dmaMp' \in Nat /\ dmaSegmentsize' \in Nat
    BY <1>2, <1>7
  <2>3. dmaData' \in [Dma!Halfwords -> WordSet \cup {Dma!Stale}]
    BY <1>2
  <2> QED BY <1>5, <1>7, <2>1, <2>2, <2>3, DmaTypesNext
<1>9. PosInv'
  BY <1>2 DEF DmaInv, PosInv
<1>10. EngineInv'
  <2>1. CASE todo' = Dma!Words(r) /\ dmadata' = <<>>
    <3>1. Run(dmadata)' /\ Linked'
      <4>1. Len(dmadata') = 0
        BY <2>1
      <4> QED BY <2>1, <4>1 DEF Run, Linked
    <3> QED BY <1>2, <1>6, <2>1, <3>1 DEF EngineInv
  <2>2. CASE engine = "on" /\ UNCHANGED <<engine, todo, dmadata>>
    <3>1. Run(dmadata) /\ Linked /\ rd # "fifo" /\ todo = Rsize
      BY <1>2, <2>2 DEF DmaInv, EngineInv
    <3>2. r # "fifo"
      BY <1>2, <2>2
    <3>3. Run(dmadata)' /\ Linked'
      BY <1>2, <2>2, <3>1 DEF Run, Linked, Inside
    <3> QED BY <1>2, <2>2, <3>1, <3>2, <3>3, RsizeFacts DEF EngineInv
  <2> QED BY <1>3, <2>1, <2>2
<1>11. CleanInv'
  <2> SUFFICES ASSUME clean'
               PROVE  \E e \in Events :
                        /\ Holds(dmadata', e)
                        /\ IF Len(dmadata') < e.len + 2
                             THEN dmaQueue' = <<e>> /\ dmaPos' = Len(dmadata')
                             ELSE dmaQueue' = <<>>
    BY <1>7 DEF CleanInv, Holds
  <2>1. engine = "off" /\ Len(dmaQueue) = 1 /\ dmaPos = 0
    BY <1>4
  <2>2. dmadata' = <<>> /\ Len(dmadata') = 0
    BY <1>3, <2>1
  <2> DEFINE e == Head(dmaQueue)
  <2>3. e \in Events /\ dmaQueue = <<e>>
    <3>1. e \in Events /\ e = dmaQueue[1]
      <4>1. dmaQueue # <<>>
        BY <2>1
      <4>2. Head(dmaQueue) \in Events
        BY <1>1, <4>1
      <4>3. Head(dmaQueue) = dmaQueue[1]
        BY <1>1, <4>1
      <4> QED BY <4>2, <4>3
    <3> HIDE DEF e
    <3>2. /\ <<e>> \in Seq(Events) /\ Len(<<e>>) = Len(dmaQueue)
          /\ \A i \in 1..Len(dmaQueue) : dmaQueue[i] = <<e>>[i]
      BY <2>1, <3>1
    <3> QED BY <1>1, <3>1, <3>2, SeqEqual
  <2>4. e.len \in Nat
    BY <2>3, RsizeFacts DEF Events
  <2>5. Holds(dmadata', e)
    BY <2>2 DEF Holds
  <2> HIDE DEF e
  <2> QED BY <1>2, <2>1, <2>2, <2>3, <2>4, <2>5
<1>12. DmaSizesRight'
  BY <1>2 DEF DmaSizesRight, Dma!SizesRight
<1> QED BY <1>8, <1>9, <1>10, <1>11, <1>12 DEF DmaInv

\* The store of n words of the fetched ones, from the k-th on.
LEMMA DmaCopy ==
  ASSUME DmaInv, dmaPc = "wait",
         NEW k \in Nat, NEW n \in 0..Rsize, k + n <= Len(dmadata),
         dmaData' = Dma!memcpy(dmadata, k, n * 4), dmaMp' = 2 + 2 * n
  PROVE  /\ dmaData' \in [Dma!Halfwords -> WordSet \cup {Dma!Stale}]
         /\ \A i \in Dma!Halfwords :
              dmaData'[i] # Dma!Stale <=> i \in 2..(dmaMp' - 1)
         /\ Dma!Stored' = SubSeq(dmadata, k + 1, k + n)
<1>1. /\ dmadata \in Seq(WordSet) /\ dmaMp = 2 /\ Len(dmadata) \in Nat
      /\ \A i \in Dma!Halfwords : dmaData[i] = Dma!Stale
  BY DmaTypes DEF DmaInv, EngineInv
<1>2. n \in Nat /\ Rsize \in Nat /\ (n * 4) \div 2 = 2 * n /\ n <= Rsize
  BY RsizeFacts
<1>3. Dma!Stale \notin WordSet
  BY DEF Dma!Stale, WordSet, Types
<1>4. dmaData' = [i \in Dma!Halfwords |->
                    IF i \in 2..(2 + 2 * n - 1)
                    THEN dmadata[k + (i - 2) \div 2 + 1] ELSE dmaData[i]]
  BY <1>1, <1>2 DEF Dma!memcpy
<1>5. \A i \in Dma!Halfwords :
        dmaData'[i] = IF i \in 2..(2 * n + 1)
                      THEN dmadata[k + (i - 2) \div 2 + 1] ELSE Dma!Stale
  <2>1. 2 + 2 * n - 1 = 2 * n + 1
    BY <1>2
  <2> QED BY <1>1, <1>4, <2>1
<1>6. ASSUME NEW i \in 2..(2 * n + 1)
      PROVE  dmadata[k + (i - 2) \div 2 + 1] \in WordSet
  <2> DEFINE h == (i - 2) \div 2
  <2>1. h \in 0..(n - 1)
    BY <1>2
  <2> HIDE DEF h
  <2>2. k + h + 1 \in 1..Len(dmadata)
    BY <1>1, <1>2, <2>1
  <2> QED BY <1>1, <2>2 DEF h
<1>7. dmaData' \in [Dma!Halfwords -> WordSet \cup {Dma!Stale}]
  <2>1. \A i \in Dma!Halfwords : dmaData'[i] \in WordSet \cup {Dma!Stale}
    BY <1>5, <1>6
  <2>2. dmaData' = [i \in Dma!Halfwords |-> dmaData'[i]]
    BY <1>4
  <2> QED BY <2>1, <2>2
<1>8. \A i \in Dma!Halfwords :
        dmaData'[i] # Dma!Stale <=> i \in 2..(dmaMp' - 1)
  <2>1. dmaMp' - 1 = 2 * n + 1
    BY <1>2
  <2> QED BY <1>3, <1>5, <1>6, <2>1
<1>9. Dma!Stored' = SubSeq(dmadata, k + 1, k + n)
  <2>1. Dma!Stored' = [j \in 1..n |-> dmaData'[2 * j]]
    <3>1. (dmaMp' - 2) \div 2 = n
      BY <1>2
    <3> QED BY <3>1 DEF Dma!Stored
  <2>2. ASSUME NEW j \in 1..n PROVE dmaData'[2 * j] = dmadata[k + j]
    <3>1. 2 * j \in 2..(2 * n + 1) /\ (2 * j - 2) \div 2 = j - 1
      BY <1>2
    <3>2. 2 * j \in Dma!Halfwords
      BY <1>2, <3>1 DEF Dma!Halfwords
    <3>3. k + (j - 1) + 1 = k + j
      OBVIOUS
    <3> QED BY <1>5, <3>1, <3>2, <3>3
  <2> DEFINE f == k + 1
             t == k + n
             c == SubSeq(dmadata, f, t)
             g == [j \in 1..n |-> dmadata[k + j]]
  <2>3. Dma!Stored' = g
    BY <2>1, <2>2
  <2>4. f \in Int /\ t \in Int /\ \A i \in f..t : dmadata[i] \in WordSet
    BY <1>1, <1>2
  <2>5. f = k + 1 /\ t = k + n /\ t - f + 1 = n
    BY <1>2
  <2>6. c = SubSeq(dmadata, f, t)
    OBVIOUS
  <2> HIDE DEF f, t, c
  <2>7. /\ c \in Seq(WordSet)
        /\ Len(c) = IF f <= t THEN t - f + 1 ELSE 0
        /\ \A j \in 1..(t - f + 1) : c[j] = dmadata[f + j - 1]
    BY <2>4, <2>6, SubSeqProperties
  <2>8. Len(c) = n /\ \A j \in 1..n : c[j] = dmadata[k + j]
    <3>1. Len(c) = n
      BY <1>2, <2>5, <2>7
    <3>2. ASSUME NEW j \in 1..n PROVE c[j] = dmadata[k + j]
      <4>1. f + j - 1 = k + j
        BY <2>5
      <4> QED BY <2>5, <2>7, <4>1
    <3> QED BY <3>1, <3>2
  <2>9. \A j \in 1..n : dmadata[k + j] \in WordSet
    <3> TAKE j \in 1..n
    <3>1. k + j \in f..t
      BY <2>5
    <3> QED BY <2>4, <3>1
  <2>10. /\ g \in Seq(WordSet) /\ Len(g) = n
         /\ \A j \in 1..n : g[j] = dmadata[k + j]
    BY <1>2, <2>9
  <2> HIDE DEF g
  <2>11. g = c
    BY <2>7, <2>8, <2>10, SeqEqual
  <2> QED BY <2>3, <2>5, <2>6, <2>11
<1> QED BY <1>7, <1>8, <1>9

\* What a reader does that has had its words: each of the three stores n words
\* that were fetched, and moves mp and the size by their halves.
LEMMA DmaFinished ==
  ASSUME DmaInv, Dma!Finish
  PROVE  /\ \E k \in Nat, n \in 0..Rsize :
              /\ k + n <= Len(dmadata)
              /\ dmaData' = Dma!memcpy(dmadata, k, n * 4)
              /\ dmaMp' = 2 + 2 * n /\ dmaSegmentsize' = 2 + 2 * n
              /\ rd = "v785" => /\ k = Dma!staadr(dmadata)
                                /\ n = Dma!stoadr(dmadata) - k + 1
         /\ rd = "v785" => Len(dmadata) = Rsize
<1>1. /\ dmadata \in Seq(WordSet) /\ rd \in {"v785", "bbrl", "fifo"}
      /\ todo \in Nat
  BY DmaTypes DEF DmaInv
<1>2. /\ rd # "fifo" => Len(dmadata) = Rsize
      /\ Len(dmadata) = todo /\ todo <= Rsize
      /\ dmaMp = 2 /\ dmaSegmentsize = 2
  BY DEF Dma!Finish, DmaInv, EngineInv
<1>3. CASE rd = "v785"
  <2> DEFINE k == Dma!staadr(dmadata)
             z == Dma!stoadr(dmadata)
             n == z - k + 1
  <2>1. k \in 0..(Rsize - 1) /\ z \in 0..(Rsize - 1) /\ k <= z
    BY <1>1, <1>2, <1>3, RsizeFacts, CopiedBounds
  <2>2. Dma!v785_dmasegdata(dmadata)
    BY <1>3 DEF Dma!Finish
  <2>3. /\ dmaData' = Dma!memcpy(dmadata, k, n * 4)
        /\ dmaSegmentsize' = dmaSegmentsize + n * 2
        /\ dmaMp' = dmaMp + n * 2
    BY <2>2 DEF Dma!v785_dmasegdata
  <2>4. /\ k \in Nat /\ n \in 0..Rsize /\ k + n <= Len(dmadata)
        /\ 2 + n * 2 = 2 + 2 * n
    <3> HIDE DEF k, z
    <3> QED BY <1>2, <1>3, <2>1, RsizeFacts
  <2>5. n = Dma!stoadr(dmadata) - k + 1
    OBVIOUS
  <2> HIDE DEF k, n
  <2>6. dmaMp' = 2 + 2 * n /\ dmaSegmentsize' = 2 + 2 * n
    BY <1>2, <2>3, <2>4
  <2>7. k = Dma!staadr(dmadata)
    BY DEF k
  <2> QED BY <1>2, <1>3, <2>3, <2>4, <2>5, <2>6, <2>7
<1>4. CASE rd = "bbrl"
  <2>1. Dma!dmasegdata(dmadata)
    BY <1>4 DEF Dma!Finish
  <2>2. /\ dmaData' = Dma!memcpy(dmadata, 0, Rsize * 4)
        /\ dmaMp' = 2 + 2 * Rsize /\ dmaSegmentsize' = 2 + 2 * Rsize
    BY <1>2, <2>1, RsizeFacts DEF Dma!dmasegdata
  <2>3. 0 \in Nat /\ Rsize \in 0..Rsize /\ 0 + Rsize <= Len(dmadata)
    BY <1>2, <1>4, RsizeFacts
  <2> QED BY <1>4, <2>2, <2>3
<1>5. CASE rd = "fifo"
  <2>1. Dma!univ_dma_segdata(dmadata, todo * 4)
    BY <1>5 DEF Dma!Finish
  <2>2. (todo * 4) \div 2 = 2 * todo
    BY <1>1
  <2>3. /\ dmaData' = Dma!memcpy(dmadata, 0, todo * 4)
        /\ dmaMp' = 2 + 2 * todo /\ dmaSegmentsize' = 2 + 2 * todo
    BY <1>2, <2>1, <2>2 DEF Dma!univ_dma_segdata
  <2>4. 0 \in Nat /\ todo \in 0..Rsize /\ 0 + todo <= Len(dmadata)
    BY <1>1, <1>2, RsizeFacts
  <2> QED BY <1>5, <2>3, <2>4
<1> QED BY <1>1, <1>3, <1>4, <1>5

\* And of the mark of a timeout.
LEMMA DmaMark ==
  ASSUME DmaInv, Dma!Timeout
  PROVE  /\ dmaData' \in [Dma!Halfwords -> WordSet \cup {Dma!Stale}]
         /\ dmaMp' = 4 /\ dmaSegmentsize' = 4
         /\ \A i \in Dma!Halfwords :
              dmaData'[i] # Dma!Stale <=> i \in 2..(dmaMp' - 1)
         /\ Dma!Stored' = <<Filler>>
<1>1. /\ dmaMp = 2 /\ dmaSegmentsize = 2
      /\ \A i \in Dma!Halfwords : dmaData[i] = Dma!Stale
      /\ dmaData \in [Dma!Halfwords -> WordSet \cup {Dma!Stale}]
  BY DmaTypes DEF DmaInv, EngineInv, Dma!Timeout
<1>2. Filler \in WordSet /\ Filler # Dma!Stale
  BY RsizeFacts DEF Filler, WordSet, Types, BufferAssumption, Dma!Stale
<1>3. 2 \in Dma!Halfwords /\ 3 \in Dma!Halfwords /\ Dma!Halfwords \subseteq Nat
  BY RsizeFacts DEF Dma!Halfwords
<1>4. /\ dmaData' = [dmaData EXCEPT ![2] = Filler, ![3] = Filler]
      /\ dmaMp' = 4 /\ dmaSegmentsize' = 4
  <2>1. /\ dmaData' = [dmaData EXCEPT ![dmaMp] = Filler, ![dmaMp + 1] = Filler]
        /\ dmaMp' = dmaMp + 2 /\ dmaSegmentsize' = dmaSegmentsize + 2
    BY SameWords DEF Dma!Timeout
  <2> QED BY <1>1, <2>1
<1>5. dmaData' \in [Dma!Halfwords -> WordSet \cup {Dma!Stale}]
  BY <1>1, <1>2, <1>4
<1>6. \A i \in Dma!Halfwords :
        dmaData'[i] = IF i \in {2, 3} THEN Filler ELSE Dma!Stale
  BY <1>1, <1>3, <1>4
<1>7. \A i \in Dma!Halfwords :
        dmaData'[i] # Dma!Stale <=> i \in 2..(dmaMp' - 1)
  <2>1. dmaMp' - 1 = 3 /\ \A i \in Nat : i \in 2..3 <=> i \in {2, 3}
    BY <1>4
  <2> QED BY <1>2, <1>3, <1>6, <2>1
<1>8. Dma!Stored' = <<Filler>>
  <2>1. (dmaMp' - 2) \div 2 = 1
    BY <1>4
  <2>2. Dma!Stored' = [j \in 1..1 |-> dmaData'[2 * j]]
    BY <2>1 DEF Dma!Stored
  <2>3. dmaData'[2 * 1] = Filler
    BY <1>3, <1>6
  <2>4. Dma!Stored' = [j \in 1..1 |-> Filler]
    BY <2>2, <2>3
  <2> QED BY <2>4
<1> QED BY <1>4, <1>5, <1>7, <1>8

\* A reader's last step before end_segment, whatever it has stored.
LEMMA DmaEndStep ==
  ASSUME DmaInv, dmaPc = "wait", dmaPc' = "end",
         dmaData' \in [Dma!Halfwords -> WordSet \cup {Dma!Stale}],
         dmaMp' \in Nat, dmaSegmentsize' = dmaMp',
         \A i \in Dma!Halfwords :
           dmaData'[i] # Dma!Stale <=> i \in 2..(dmaMp' - 1),
         engine' \in {"on", "off"},
         engine' = "on" => engine = "on" /\ rd # "fifo",
         UNCHANGED <<dmaQueue, dmaPos, dmaEvid, rd, busy, todo, dmadata, clean>>
  PROVE  DmaInv'
<1>1. Dma!TypeOK'
  <2>1. /\ dmaQueue' \in Seq(Events) /\ dmaPos' \in 0..(Most + 1)
        /\ dmaEvid' \in 1..Ids /\ (dmaQueue' = <<>> => dmaPos' = 0)
        /\ rd' \in {"v785", "bbrl", "fifo"} /\ busy' \in 0..1 /\ todo' \in Nat
        /\ dmadata' \in Seq(WordSet)
    BY DmaTypes DEF DmaInv
  <2>2. clean' \in BOOLEAN
    BY DmaTypes DEF DmaInv
  <2>3. dmaPc' \in {"idle", "wait", "end"} /\ dmaSegmentsize' \in Nat
    OBVIOUS
  <2> QED BY <2>1, <2>2, <2>3, DmaTypesNext
<1>2. PosInv'
  BY DEF DmaInv, PosInv
<1>3. EngineInv'
  <2>1. Run(dmadata)' /\ busy' = 1 /\ (Linked => Linked')
    BY DEF DmaInv, EngineInv, Run, Linked, Inside
  <2> QED BY <2>1 DEF DmaInv, EngineInv
<1>4. CleanInv'
  BY DEF CleanInv
<1>5. DmaSizesRight'
  BY DEF DmaSizesRight, Dma!SizesRight, Dma!Halfwords, Dma!Stale
<1> QED BY <1>1, <1>2, <1>3, <1>4, <1>5 DEF DmaInv

LEMMA DmaStep == DmaInv /\ [Dma!Next]_dma => DmaInv'
<1> SUFFICES ASSUME DmaInv, [Dma!Next]_dma PROVE DmaInv'
  OBVIOUS
<1>1. ASSUME NEW n \in 0..Most, Dma!Event(n) PROVE DmaInv'
  BY <1>1, DmaEventStep
<1>2. ASSUME NEW r \in {"v785", "bbrl", "fifo"}, Dma!Start(r) PROVE DmaInv'
  BY <1>2, DmaStartStep
<1>3. CASE Dma!Fetch
  BY <1>3, DmaFetchStep
<1>4. CASE Dma!Finish
  <2>1. PICK k \in Nat, n \in 0..Rsize :
          /\ k + n <= Len(dmadata)
          /\ dmaData' = Dma!memcpy(dmadata, k, n * 4)
          /\ dmaMp' = 2 + 2 * n /\ dmaSegmentsize' = 2 + 2 * n
    BY <1>4, DmaFinished
  <2>2. /\ dmaPc = "wait" /\ dmaPc' = "end" /\ engine' = "off"
        /\ UNCHANGED <<dmaQueue, dmaPos, dmaEvid, rd, busy, todo, dmadata,
                       clean>>
    BY <1>4 DEF Dma!Finish, Dma!buffer
  <2>3. /\ dmaData' \in [Dma!Halfwords -> WordSet \cup {Dma!Stale}]
        /\ \A i \in Dma!Halfwords :
             dmaData'[i] # Dma!Stale <=> i \in 2..(dmaMp' - 1)
    BY <2>1, <2>2, DmaCopy
  <2>4. dmaMp' \in Nat /\ dmaSegmentsize' = dmaMp'
    BY <2>1, RsizeFacts
  <2> QED BY <2>2, <2>3, <2>4, DmaEndStep
<1>5. CASE Dma!Timeout
  <2>1. /\ dmaPc = "wait" /\ dmaPc' = "end" /\ engine' = engine /\ rd # "fifo"
        /\ UNCHANGED <<dmaQueue, dmaPos, dmaEvid, rd, busy, todo, dmadata,
                       clean>>
    BY <1>5 DEF Dma!Timeout, Dma!buffer, Dma!dma
  <2>2. engine \in {"on", "off"}
    BY DmaTypes DEF DmaInv
  <2>3. /\ dmaData' \in [Dma!Halfwords -> WordSet \cup {Dma!Stale}]
        /\ dmaMp' \in Nat /\ dmaSegmentsize' = dmaMp'
        /\ \A i \in Dma!Halfwords :
             dmaData'[i] # Dma!Stale <=> i \in 2..(dmaMp' - 1)
    BY <1>5, DmaMark
  <2> QED BY <2>1, <2>2, <2>3, DmaEndStep
<1>6. CASE Dma!EndSegment
  <2>1. /\ dmaPc' = "idle" /\ busy' = 0 /\ dmaPc = "end"
        /\ UNCHANGED <<dmaQueue, dmaPos, dmaEvid, rd, engine, todo, dmadata,
                       dmaMp, dmaSegmentsize, dmaData, clean>>
    BY <1>6 DEF Dma!EndSegment, Dma!buffer, Dma!dma, Dma!segment
  <2>2. Dma!TypeOK'
    <3>1. clean' \in BOOLEAN
      BY <2>1, DmaTypes DEF DmaInv
    <3>2. dmaPc' \in {"idle", "wait", "end"} /\ busy' \in 0..1
      BY <2>1
    <3> QED BY <2>1, <3>1, <3>2, DmaTypes, DmaTypesNext DEF DmaInv
  <2>3. Run(dmadata)' /\ (Linked => Linked')
    BY <2>1 DEF DmaInv, EngineInv, Run, Linked, Inside
  <2>4. EngineInv'
    BY <2>1, <2>3 DEF DmaInv, EngineInv
  <2>5. PosInv' /\ CleanInv' /\ DmaSizesRight'
    BY <2>1 DEF DmaInv, PosInv, CleanInv, DmaSizesRight, Dma!SizesRight
  <2> QED BY <2>2, <2>4, <2>5 DEF DmaInv
<1>7. CASE UNCHANGED dma
  <2>1. Dma!TypeOK'
    BY <1>7, DmaTypes, DmaTypesNext DEF dma, DmaInv
  <2>2. EngineInv'
    BY <1>7 DEF dma, DmaInv, EngineInv, Run, Linked, Inside
  <2>3. CleanInv'
    BY <1>7 DEF dma, DmaInv, CleanInv, Holds
  <2>4. PosInv' /\ DmaSizesRight'
    BY <1>7 DEF dma, DmaInv, PosInv, DmaSizesRight, Dma!SizesRight
  <2> QED BY <2>1, <2>2, <2>3, <2>4 DEF DmaInv
<1> QED
  BY <1>1, <1>2, <1>3, <1>4, <1>5, <1>6, <1>7 DEF Dma!Next

LEMMA SameStored ==
  ASSUME DmaOneEvent, UNCHANGED <<dmaPc, rd, dmaData, dmaMp, clean>>
  PROVE  DmaOneEvent'
<1>1. Dma!Stored' = Dma!Stored
  BY DEF Dma!Stored
<1> QED
  BY <1>1 DEF DmaOneEvent, Dma!OneEvent, Dma!OfOneEvent, Dma!Whole, Dma!Filler

\* With a module that has a channel at all, Rsize is more than 2.
LEMMA DmaOneEventStep ==
  Most > 0 /\ DmaInv /\ DmaOneEvent /\ [Dma!Next]_dma => DmaOneEvent'
<1> SUFFICES ASSUME Most > 0, DmaInv, DmaOneEvent, [Dma!Next]_dma
             PROVE  DmaOneEvent'
  OBVIOUS
<1> USE DEF DmaOneEvent, Dma!OneEvent
<1>1. CASE Dma!Finish
  <2> SUFFICES ASSUME rd = "v785"
               PROVE  /\ OfOneEvent(Dma!Stored')
                      /\ clean => Whole(Dma!Stored')
    BY <1>1, SameWords DEF Dma!Finish
  <2>1. dmaPc = "wait" /\ dmadata \in Seq(WordSet) /\ Len(dmadata) = Rsize
    BY <1>1, DmaFinished, DmaTypes DEF Dma!Finish, DmaInv
  <2>2. Rsize \in Nat /\ Rsize > 2 /\ Rsize > 1
    BY RsizeFacts
  <2>3. Dma!Stored' = Copied(dmadata)
    <3>1. PICK k \in Nat, n \in 0..Rsize :
            /\ k + n <= Len(dmadata)
            /\ dmaData' = Dma!memcpy(dmadata, k, n * 4)
            /\ dmaMp' = 2 + 2 * n
            /\ k = Dma!staadr(dmadata) /\ n = Dma!stoadr(dmadata) - k + 1
      BY <1>1, DmaFinished
    <3>2. Dma!Stored' = SubSeq(dmadata, k + 1, k + n)
      BY <2>1, <3>1, DmaCopy
    <3>3. Dma!stoadr(dmadata) \in 0..(Rsize - 1)
      BY <2>1, <2>2, CopiedBounds
    <3>4. k + n = Dma!stoadr(dmadata) + 1
      <4> DEFINE z == Dma!stoadr(dmadata)
      <4>1. n = z - k + 1 /\ z \in 0..(Rsize - 1)
        BY <3>1, <3>3
      <4> HIDE DEF z
      <4>2. k + n = z + 1
        BY <2>2, <4>1
      <4> QED BY <4>2 DEF z
    <3> QED BY <3>1, <3>2, <3>4 DEF Copied
  <2>4. OfOneEvent(Dma!Stored')
    BY <2>1, <2>2, <2>3, CopiedOfOneEvent DEF DmaInv, EngineInv
  <2>5. ASSUME clean PROVE Whole(Dma!Stored')
    <3>1. PICK e \in Events : Holds(dmadata, e)
      BY <2>1, <2>5 DEF DmaInv, CleanInv
    <3> QED BY <2>1, <2>3, <3>1, RsizeFacts, CopiedWhole
  <2> QED BY <2>4, <2>5
<1>2. CASE Dma!Timeout
  <2>1. Dma!Stored' = <<Filler>>
    BY <1>2, DmaMark
  <2>2. OfOneEvent(<<Filler>>)
    BY DEF OfOneEvent, Filler
  <2> QED BY <2>1, <2>2, SameWords
<1>3. ASSUME NEW n \in 0..Most, Dma!Event(n) PROVE DmaOneEvent'
  BY <1>3, SameStored DEF Dma!Event, Dma!dma, Dma!segment
<1>4. ASSUME NEW r \in {"v785", "bbrl", "fifo"}, Dma!Start(r)
      PROVE  DmaOneEvent'
  BY <1>4 DEF Dma!Start
<1>5. CASE Dma!Fetch
  BY <1>5, SameStored DEF Dma!Fetch, Dma!segment
<1>6. CASE Dma!EndSegment
  BY <1>6 DEF Dma!EndSegment
<1>7. CASE UNCHANGED dma
  BY <1>7, SameStored DEF dma
<1> QED
  BY <1>1, <1>2, <1>3, <1>4, <1>5, <1>6, <1>7 DEF Dma!Next

----------------------------------------------------------------------------
(* The crate: one unit is read, the others stay as they are.               *)

\* The inductive invariants of the units.
ReadersInv ==
  /\ Inv /\ Sizes
  /\ DmaInv
  /\ Memory!TypeOK /\ RingInv /\ WindowsInv /\ PagesCover

LEMMA OneUnit ==
  ASSUME [ReadersNext]_readersVars
  PROVE  [Next]_vars /\ [Dma!Next]_dma /\ [Memory!Next]_memory
<1>1. CASE NextByWord
  BY <1>1 DEF NextByWord
<1>2. CASE NextByDma
  BY <1>2 DEF NextByDma
<1>3. CASE NextMemory
  BY <1>3 DEF NextMemory
<1>4. CASE UNCHANGED readersVars
  BY <1>4 DEF readersVars
<1> QED BY <1>1, <1>2, <1>3, <1>4 DEF ReadersNext

LEMMA WindowsInit == Memory!Init => WindowsInv
<1> SUFFICES ASSUME Memory!Init PROVE WindowsInv
  OBVIOUS
<1>1. Window \in Nat \ {0}
  BY ReadersAssumption DEF Memory!MemoryAssumption
<1>2. memPc = "idle" /\ depth = 0 /\ written = {} /\ missing = {}
  BY DEF Memory!Init
<1>3. Memory!Reached(0) = 0
  BY <1>1 DEF Memory!Reached
<1> QED BY <1>2, <1>3 DEF WindowsInv, WindowsCover, Memory!WindowsCover

LEMMA ReadersInvInit == ReadersInit => ReadersInv /\ DmaOneEvent
<1>1. BufferAssumption
  BY ReadersAssumption
<1>2. Init => Inv
  BY <1>1, InvInit
<1>3. Init => Sizes
  BY DEF Init, Sizes, SizesRight
<1> QED
  BY <1>2, <1>3, DmaInit, MemoryInitTypes, RingInit, WindowsInit, PagesInit
  DEF ReadersInit, ReadersInv

LEMMA ReadersInvStep ==
  ReadersInv /\ [ReadersNext]_readersVars => ReadersInv'
<1> SUFFICES ASSUME ReadersInv, [ReadersNext]_readersVars PROVE ReadersInv'
  OBVIOUS
<1>1. BufferAssumption /\ WordsAssumption
  BY ReadersAssumption
<1>2. [Next]_vars /\ [Dma!Next]_dma /\ [Memory!Next]_memory
  BY OneUnit
<1>3. Inv' /\ Sizes'
  BY <1>1, <1>2, InvStep, SizesStep DEF ReadersInv
<1>4. DmaInv'
  BY <1>2, DmaStep DEF ReadersInv
<1>5. Memory!TypeOK' /\ RingInv' /\ WindowsInv' /\ PagesCover'
  BY <1>2, MemoryTypes, RingStep, WindowsStep, PagesStep DEF ReadersInv
<1> QED BY <1>3, <1>4, <1>5 DEF ReadersInv

\* The positions in ring, window, page and DMA buffer that the readers keep
\* between two accesses are those the next access needs.
THEOREM ReadersInvHolds == ReadersSpec => []ReadersInv
BY ReadersInvInit, ReadersInvStep, PTL DEF ReadersSpec

\* The variables keep their types.
THEOREM ReadersTypesHold == ReadersSpec => []ReadersTypeOK
<1>1. ReadersInv => ReadersTypeOK
  BY DEF ReadersInv, ReadersTypeOK, Inv, DmaInv
<1> QED BY <1>1, ReadersInvHolds, PTL

\* sis3300_segdata_pre reads the samples just before the trigger, wherever the
\* ring wraps, for every size of ring and every limit below it.
THEOREM SamplesAreLatest == ReadersSpec => []LatestSamples
<1>1. ReadersInv => LatestSamples
  BY DEF ReadersInv, RingInv
<1> QED BY <1>1, ReadersInvHolds, PTL

\* When madc32_dmasegdata returns, each word asked for has been transferred
\* once or was in a window given up, and buff is touched behind them only when
\* more than a window is asked for and not whole windows: then exactly to the
\* end of the last window, for every depth and size of window.
THEOREM WindowsDoCover == ReadersSpec => []WindowsCover
<1>1. ReadersInv => WindowsCover
  BY DEF ReadersInv, WindowsInv
<1> QED BY <1>1, ReadersInvHolds, PTL

\* The pages mmp maps hold the DMA buffer, wherever it begins and ends.
THEOREM PagesDoCover == ReadersSpec => []PagesCover
<1>1. ReadersInv => PagesCover
  BY DEF ReadersInv
<1> QED BY <1>1, ReadersInvHolds, PTL

\* After an answer or a timeout the size of the segment is mp, and the halfwords
\* stored are those from the segment's header up to mp, for each of the three
\* ways the readers compute bytes, halfwords and words, and wherever the header
\* and the end are found in the words fetched.
THEOREM DmaSizesAgree == ReadersSpec => []DmaSizesRight
<1>1. ReadersInv => DmaSizesRight
  BY DEF ReadersInv, DmaInv
<1> QED BY <1>1, ReadersInvHolds, PTL

\* v785_dmasegdata keeps words of one event only, even with a transfer that
\* was given up earlier, and the whole of an event that the module held alone:
\* for a module with a channel at all (with none, Rsize may be 2, and the end
\* of one event and a filler are both kept).
THEOREM DmaKeepsOneEvent ==
  ASSUME Most > 0 PROVE ReadersSpec => []DmaOneEvent
<1>1. Most > 0 /\ ReadersInv /\ DmaOneEvent /\ [ReadersNext]_readersVars
        => DmaOneEvent'
  BY OneUnit, DmaOneEventStep DEF ReadersInv
<1>2. ReadersInv /\ DmaOneEvent /\ [ReadersNext]_readersVars => DmaOneEvent'
  BY <1>1
<1> QED BY <1>2, ReadersInvInit, ReadersInvHolds, PTL DEF ReadersSpec
=============================================================================
