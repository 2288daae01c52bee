---------------------------- MODULE Camac_proofs ----------------------------
(***************************************************************************)
(* For blocks of any room and lists of any length: in each of the three    *)
(* formats the sizes written back lead from part to part, whichever        *)
(* readers filled them; and the commands and entries compiled for CC/NET   *)
(* fit each other, so that what it gives is what direct reads give.        *)
(***************************************************************************)
EXTENDS Camac, TLAPS, SequenceTheorems

----------------------------------------------------------------------------
(* Blocks: the invariant.                                                  *)

\* The size that the segment at a carries, in format f and words d.
SizeAt(f, d, a) == IF f = "BBRL" THEN d[a]
                   ELSE IF f = "BBDAQ" THEN d[a + 1] + 2 ELSE d[a + 1]

BlocksTypes ==
  /\ format \in {"BBRL", "BBDAQ", "IWADAQ"}
  /\ state \in {"closed", "idle", "done", "block", "event", "segment"}
  /\ data \in [0..(Top - 1) -> Int] /\ mp \in 0..Top
  /\ blkid \in 0..MaxBlocks
  /\ eventhmp \in 0..Top /\ segmenthmp \in 0..Top
  /\ eventsize \in 0..Top /\ segmentsize \in 0..Top
  /\ starts \in Seq(Nat) /\ events \in Seq(Nat)

\* The segments that are finished lead to mp; with one open they lead to it,
\* and its counter to mp.  What carries a size lies below what is written next.
StartsInv ==
  /\ state = "event" \/ (state = "block" /\ format # "BBRL") =>
       \A k \in 1..Len(starts) :
         /\ starts[k] + 2 <= mp
         /\ starts[k] + SizeAt(format, data, starts[k])
              = IF k = Len(starts) THEN mp ELSE starts[k + 1]
  /\ state = "segment" =>
       /\ Len(starts) > 0 /\ starts[Len(starts)] + 2 <= mp
       /\ IF format = "BBRL"
            THEN /\ segmenthmp = starts[Len(starts)]
                 /\ segmenthmp + segmentsize = mp
            ELSE /\ segmenthmp = starts[Len(starts)] + 1
                 /\ segmenthmp + 1 + segmentsize = mp
       /\ \A k \in 1..(Len(starts) - 1) :
            /\ starts[k] + 2 <= starts[Len(starts)]
            /\ starts[k] + SizeAt(format, data, starts[k]) = starts[k + 1]

\* The same for events, which only BBRL has.
EventsInv ==
  format = "BBRL" =>
    /\ state = "block" =>
         \A k \in 1..Len(events) :
           /\ events[k] + 3 <= mp
           /\ events[k] + (data[events[k]] - Blocks!Flag)
                = IF k = Len(events) THEN mp ELSE events[k + 1]
    /\ state \in {"event", "segment"} =>
         /\ Len(events) > 0 /\ eventhmp = events[Len(events)]
         /\ eventhmp + 3 <= mp
         /\ state = "event" => eventhmp + eventsize = mp
         /\ state = "segment" => /\ eventhmp + eventsize = segmenthmp
                                 /\ eventhmp + 3 <= segmenthmp
         /\ \A k \in 1..(Len(events) - 1) :
              /\ events[k] + 3 <= eventhmp
              /\ events[k] + (data[events[k]] - Blocks!Flag) = events[k + 1]

\* Words before the segments of a block, in the other two formats.
Head0 == IF format = "BBDAQ" THEN 3 ELSE 4

\* In these, eventsize counts all segments, with their heads.
CountInv ==
  format # "BBRL" =>
    /\ state \in {"block", "event"} => eventsize + Head0 = mp
    /\ state = "segment" => eventsize + Head0 + 1 = segmenthmp
    /\ state = "done" =>
         /\ mp > 0 /\ data[mp - 1] = Blocks!End
         /\ format = "BBDAQ" => data[2] = mp - 3
         /\ format = "IWADAQ" => data[3] = mp - 2

BlocksInv == BlocksTypes /\ StartsInv /\ EventsInv /\ CountInv

LEMMA BlocksFacts ==
  /\ MaxLen \in Nat /\ Nch \in Nat /\ MaxBlocks \in Nat /\ Top \in Nat
  /\ Top >= 4
BY CamacAssumption DEF Blocks!CamacBlocksAssumption

----------------------------------------------------------------------------
(* Blocks: what is written.                                                *)

LEMMA Written ==
  ASSUME data \in [0..(Top - 1) -> Int], NEW ws,
         \A x \in DOMAIN ws : ws[x] \in Int, Blocks!Write(ws)
  PROVE  /\ data' \in [0..(Top - 1) -> Int]
         /\ \A x \in 0..(Top - 1) :
              data'[x] = IF x \in DOMAIN ws THEN ws[x] ELSE data[x]
<1>1. data' = [x \in 0..(Top - 1) |->
                 IF x \in DOMAIN ws THEN ws[x] ELSE data[x]]
  BY DEF Blocks!Write
<1> QED BY <1>1

LEMMA WordsWritten ==
  ASSUME data \in [0..(Top - 1) -> Int],
         NEW a \in Nat, NEW n \in Nat, NEW w \in Int,
         Blocks!Write(Blocks!Words(a, n, w))
  PROVE  /\ data' \in [0..(Top - 1) -> Int]
         /\ \A x \in 0..(Top - 1) :
              data'[x] = IF x \in a..(a + n - 1) THEN w ELSE data[x]
<1> DEFINE ws == Blocks!Words(a, n, w)
<1>1. DOMAIN ws = a..(a + n - 1) /\ \A x \in DOMAIN ws : ws[x] = w
  BY DEF Blocks!Words
<1> HIDE DEF ws
<1>2. /\ data' \in [0..(Top - 1) -> Int]
      /\ \A x \in 0..(Top - 1) :
           data'[x] = IF x \in DOMAIN ws THEN ws[x] ELSE data[x]
  BY <1>1, Written DEF ws
<1> QED BY <1>1, <1>2

\* Where nothing is written at a place and the next, the size there stays.
LEMMA SizeStays ==
  ASSUME NEW f, NEW d, NEW e, NEW a, e[a] = d[a], e[a + 1] = d[a + 1]
  PROVE  SizeAt(f, e, a) = SizeAt(f, d, a)
BY DEF SizeAt

LEMMA BlocksInit == Blocks!Init => BlocksInv
<1> SUFFICES ASSUME Blocks!Init PROVE BlocksInv
  OBVIOUS
<1>1. BlocksTypes
  <2>1. <<>> \in Seq(Nat)
    OBVIOUS
  <2> QED BY <2>1, BlocksFacts DEF Blocks!Init, BlocksTypes
<1>2. StartsInv /\ EventsInv /\ CountInv
  BY DEF Blocks!Init, StartsInv, EventsInv, CountInv
<1> QED BY <1>1, <1>2 DEF BlocksInv

LEMMA InitMemKeeps == ASSUME BlocksInv, Blocks!init_mem PROVE BlocksInv'
<1>1. state' = "idle" /\ data' = [j \in DOMAIN data |-> 0] /\ blkid' = 0
      /\ UNCHANGED <<format, mp, eventhmp, eventsize, segmenthmp, segmentsize,
                     events, starts>>
  BY DEF Blocks!init_mem, Blocks!counters
<1>2. BlocksTypes'
  BY <1>1, BlocksFacts DEF BlocksInv, BlocksTypes
<1>3. StartsInv' /\ EventsInv' /\ CountInv'
  BY <1>1 DEF StartsInv, EventsInv, CountInv
<1> QED BY <1>2, <1>3 DEF BlocksInv

LEMMA InitBlockKeeps == ASSUME BlocksInv, Blocks!init_block PROVE BlocksInv'
<1>1. /\ format \in {"BBRL", "BBDAQ", "IWADAQ"}
      /\ data \in [0..(Top - 1) -> Int] /\ blkid \in 0..MaxBlocks
  BY DEF BlocksInv, BlocksTypes
<1>2. /\ state' = "block" /\ blkid' = blkid + 1 /\ blkid < MaxBlocks
      /\ events' = <<>> /\ starts' = <<>>
      /\ eventsize' = IF format = "BBRL" THEN eventsize ELSE 0
      /\ UNCHANGED <<format, eventhmp, segmenthmp, segmentsize>>
  BY DEF Blocks!init_block, Blocks!Bbrl
<1>3. /\ mp' = IF format = "BBDAQ" THEN 3 ELSE 4
      /\ data' \in [0..(Top - 1) -> Int]
  <2>1. CASE format = "BBRL"
    <3>1. Blocks!Write(Blocks!Words(0, 2, 0)) /\ mp' = 4
      BY <2>1 DEF Blocks!init_block
    <3> QED BY <1>1, <2>1, <3>1, WordsWritten
  <2>2. CASE format = "BBDAQ"
    <3> DEFINE ws == [j \in 0..1 |-> IF j = 0 THEN 0 ELSE blkid]
    <3>1. Blocks!Write(ws) /\ mp' = 3
      BY <2>2 DEF Blocks!init_block
    <3>2. \A x \in DOMAIN ws : ws[x] \in Int
      BY <1>1
    <3> QED BY <1>1, <2>2, <3>1, <3>2, Written
  <2>3. CASE format = "IWADAQ"
    <3> DEFINE ws == [j \in 0..3 |-> IF j = 1 THEN 32
                                     ELSE IF j = 2 THEN 8192 ELSE 0]
    <3>1. Blocks!Write(ws) /\ mp' = 4
      BY <2>3 DEF Blocks!init_block
    <3>2. \A x \in DOMAIN ws : ws[x] \in Int
      OBVIOUS
    <3> QED BY <1>1, <2>3, <3>1, <3>2, Written
  <2> QED BY <1>1, <2>1, <2>2, <2>3
<1>4. <<>> \in Seq(Nat) /\ Len(<<>>) = 0
  OBVIOUS
<1>5. BlocksTypes'
  BY <1>1, <1>2, <1>3, <1>4, BlocksFacts DEF BlocksInv, BlocksTypes
<1>6. StartsInv' /\ EventsInv' /\ CountInv'
  BY <1>1, <1>2, <1>3, <1>4 DEF StartsInv, EventsInv, CountInv, Head0
<1> QED BY <1>5, <1>6 DEF BlocksInv

\* Every action that goes on with a block keeps these.
LEMMA TypesOf ==
  BlocksInv =>
    /\ format \in {"BBRL", "BBDAQ", "IWADAQ"}
    /\ state \in {"closed", "idle", "done", "block", "event", "segment"}
    /\ data \in [0..(Top - 1) -> Int] /\ mp \in 0..Top
    /\ blkid \in 0..MaxBlocks
    /\ eventhmp \in 0..Top /\ segmenthmp \in 0..Top
    /\ eventsize \in 0..Top /\ segmentsize \in 0..Top
    /\ starts \in Seq(Nat) /\ events \in Seq(Nat)
    /\ Top \in Nat /\ Top >= 4
BY BlocksFacts DEF BlocksInv, BlocksTypes

LEMMA InitEventKeeps == ASSUME BlocksInv, Blocks!init_event PROVE BlocksInv'
<1>1. /\ format \in {"BBRL", "BBDAQ", "IWADAQ"}
      /\ data \in [0..(Top - 1) -> Int]
      /\ mp \in 0..Top /\ starts \in Seq(Nat) /\ events \in Seq(Nat)
      /\ Top \in Nat /\ mp \in Nat /\ mp + 1 \in Nat
  BY TypesOf
<1>2. /\ state = "block" /\ mp + 9 <= Top /\ state' = "event"
      /\ UNCHANGED <<format, blkid, segmenthmp, segmentsize>>
  BY DEF Blocks!init_event
<1>3. CASE format = "BBRL"
  <2>1. /\ eventhmp' = mp /\ eventsize' = 3 /\ mp' = mp + 3
        /\ Blocks!Write(Blocks!Words(mp + 1, 2, 1))
        /\ events' = Append(events, mp) /\ starts' = <<>>
    BY <1>3 DEF Blocks!init_event, Blocks!Bbrl
  <2>2. /\ data' \in [0..(Top - 1) -> Int]
        /\ \A x \in 0..mp : data'[x] = data[x]
    <3> DEFINE a == mp + 1
    <3>1. a \in Nat /\ a > mp /\ Blocks!Write(Blocks!Words(a, 2, 1))
      BY <1>1, <2>1
    <3> HIDE DEF a
    <3>2. /\ data' \in [0..(Top - 1) -> Int]
          /\ \A x \in 0..(Top - 1) :
               data'[x] = IF x \in a..(a + 2 - 1) THEN 1 ELSE data[x]
      BY <1>1, <3>1, WordsWritten
    <3>3. \A x \in 0..mp : x \in 0..(Top - 1) /\ x \notin a..(a + 2 - 1)
      BY <1>1, <1>2, <3>1
    <3> QED BY <3>2, <3>3
  <2>3. BlocksTypes'
    <3>1. <<>> \in Seq(Nat) /\ Append(events, mp) \in Seq(Nat)
      BY <1>1
    <3>2. mp' \in 0..Top /\ eventsize' \in 0..Top /\ eventhmp' \in 0..Top
      BY <1>1, <1>2, <2>1
    <3> QED BY <1>2, <2>1, <2>2, <3>1, <3>2 DEF BlocksInv, BlocksTypes
  <2>4. StartsInv'
    BY <1>2, <2>1 DEF StartsInv
  <2>5. EventsInv'
    <3> DEFINE n == Len(events)
    <3>1. /\ Len(events') = n + 1 /\ events'[n + 1] = mp /\ n \in Nat
          /\ \A k \in 1..n : events'[k] = events[k]
      BY <1>1, <2>1
    <3>2. \A k \in 1..n :
            /\ events[k] + 3 <= mp
            /\ events[k] + (data[events[k]] - Blocks!Flag)
                 = IF k = n THEN mp ELSE events[k + 1]
      BY <1>2, <1>3 DEF BlocksInv, EventsInv
    <3>3. ASSUME NEW k \in 1..(Len(events') - 1)
          PROVE  /\ events'[k] + 3 <= mp
                 /\ events'[k] + (data'[events'[k]] - Blocks!Flag)
                      = events'[k + 1]
      <4>1. k \in 1..n /\ events[k] \in Nat /\ events'[k] = events[k]
        BY <1>1, <3>1
      <4>2. events[k] \in 0..mp
        BY <1>1, <3>2, <4>1
      <4>3. data'[events[k]] = data[events[k]]
        BY <2>2, <4>2
      <4>4. events'[k + 1] = IF k = n THEN mp ELSE events[k + 1]
        BY <3>1, <4>1
      <4> QED BY <3>2, <4>1, <4>3, <4>4
    <3>4. /\ Len(events') > 0 /\ eventhmp' = events'[Len(events')]
          /\ eventhmp' + 3 <= mp' /\ eventhmp' + eventsize' = mp'
      BY <1>1, <2>1, <3>1
    <3> QED BY <1>2, <2>1, <3>3, <3>4 DEF EventsInv, Blocks!Flag
  <2>6. CountInv'
    BY <1>2, <1>3 DEF CountInv
  <2> QED BY <2>3, <2>4, <2>5, <2>6 DEF BlocksInv
<1>4. CASE format # "BBRL"
  <2>1. UNCHANGED <<data, mp, eventhmp, eventsize, events, starts>>
    BY <1>4 DEF Blocks!init_event, Blocks!Bbrl
  <2>2. BlocksTypes'
    BY <1>2, <2>1 DEF BlocksInv, BlocksTypes
  <2>3. StartsInv'
    BY <1>2, <1>4, <2>1 DEF BlocksInv, StartsInv
  <2>4. EventsInv' /\ CountInv'
    BY <1>2, <1>4, <2>1 DEF BlocksInv, EventsInv, CountInv, Head0
  <2> QED BY <2>2, <2>3, <2>4 DEF BlocksInv
<1> QED BY <1>3, <1>4

LEMMA EndEventKeeps == ASSUME BlocksInv, Blocks!end_event PROVE BlocksInv'
<1>1. /\ format \in {"BBRL", "BBDAQ", "IWADAQ"}
      /\ data \in [0..(Top - 1) -> Int]
      /\ mp \in 0..Top /\ starts \in Seq(Nat) /\ events \in Seq(Nat)
      /\ Top \in Nat /\ mp \in Nat /\ eventhmp \in Nat /\ eventsize \in Nat
  BY TypesOf
<1>2. /\ state = "event" /\ state' = "block"
      /\ UNCHANGED <<format, mp, blkid, eventhmp, eventsize, segmenthmp,
                     segmentsize, events, starts>>
  BY DEF Blocks!end_event, Blocks!counters
<1>3. CASE format = "BBRL"
  <2> DEFINE w == eventsize + Blocks!Flag
  <2>1. w \in Int /\ Blocks!Write(Blocks!Words(eventhmp, 1, w))
    BY <1>1, <1>3 DEF Blocks!end_event, Blocks!Bbrl, Blocks!Flag
  <2>2. /\ data' \in [0..(Top - 1) -> Int]
        /\ \A x \in 0..(Top - 1) :
             data'[x] = IF x = eventhmp THEN w ELSE data[x]
    <3>1. /\ data' \in [0..(Top - 1) -> Int]
          /\ \A x \in 0..(Top - 1) :
               data'[x] = IF x \in eventhmp..(eventhmp + 1 - 1)
                            THEN w ELSE data[x]
      <4> HIDE DEF w
      <4> QED BY <1>1, <2>1, WordsWritten
    <3> QED BY <1>1, <3>1
  <2>3. BlocksTypes'
    BY <1>2, <2>2 DEF BlocksInv, BlocksTypes
  <2>4. StartsInv' /\ CountInv'
    BY <1>2, <1>3 DEF StartsInv, CountInv
  <2>5. EventsInv'
    <3> DEFINE n == Len(events)
    <3>1. /\ n > 0 /\ n \in Nat /\ eventhmp = events[n] /\ eventhmp + 3 <= mp
          /\ eventhmp + eventsize = mp
          /\ \A k \in 1..(n - 1) :
               /\ events[k] + 3 <= eventhmp
               /\ events[k] + (data[events[k]] - Blocks!Flag) = events[k + 1]
      BY <1>1, <1>2, <1>3 DEF BlocksInv, EventsInv
    <3>2. ASSUME NEW k \in 1..n
          PROVE  /\ events[k] + 3 <= mp
                 /\ events[k] + (data'[events[k]] - Blocks!Flag)
                      = IF k = n THEN mp ELSE events[k + 1]
      <4>1. CASE k = n
        <5>1. eventhmp \in 0..(Top - 1)
          BY <1>1, <3>1
        <5>2. data'[eventhmp] - Blocks!Flag = eventsize
          BY <1>1, <2>2, <5>1 DEF Blocks!Flag
        <5> QED BY <1>1, <3>1, <4>1, <5>2
      <4>2. CASE k # n
        <5>1. k \in 1..(n - 1) /\ events[k] \in Nat
          <6>1. events[k] \in Nat
            BY <1>1
          <6>2. k \in 1..(n - 1)
            BY <3>1, <4>2
          <6> QED BY <6>1, <6>2
        <5>2. events[k] + 3 <= eventhmp
          BY <3>1, <5>1
        <5>3. events[k] \in 0..(Top - 1) /\ events[k] # eventhmp
              /\ events[k] + 3 <= mp
          <6>1. events[k] \in Nat /\ events[k] + 3 <= eventhmp
                /\ eventhmp + 3 <= mp
            BY <3>1, <5>1, <5>2
          <6>2. \A x \in Nat :
                  x + 3 <= eventhmp /\ eventhmp + 3 <= mp =>
                    x \in 0..(Top - 1) /\ x # eventhmp /\ x + 3 <= mp
            BY <1>1
          <6> QED BY <6>1, <6>2
        <5>4. data'[events[k]] = data[events[k]]
          BY <2>2, <5>3
        <5>5. events[k] + (data[events[k]] - Blocks!Flag) = events[k + 1]
          BY <3>1, <5>1
        <5> QED BY <4>2, <5>3, <5>4, <5>5
      <4> QED BY <4>1, <4>2
    <3> QED BY <1>2, <3>2 DEF EventsInv, Blocks!Flag
  <2> QED BY <2>3, <2>4, <2>5 DEF BlocksInv
<1>4. CASE format # "BBRL"
  <2>1. data' = data
    BY <1>4 DEF Blocks!end_event, Blocks!Bbrl
  <2>2. BlocksTypes'
    BY <1>2, <2>1 DEF BlocksInv, BlocksTypes
  <2>3. StartsInv'
    BY <1>2, <1>4, <2>1 DEF BlocksInv, StartsInv
  <2>4. EventsInv' /\ CountInv'
    BY <1>2, <1>4, <2>1 DEF BlocksInv, EventsInv, CountInv, Head0
  <2> QED BY <2>2, <2>3, <2>4 DEF BlocksInv
<1> QED BY <1>3, <1>4

\* With an event open, the segments before mp keep their sizes as long as what
\* is below mp does.
LEMMA SegmentsBelow ==
  ASSUME BlocksInv, state = "event",
         NEW d, \A x \in 0..(mp - 1) : d[x] = data[x]
  PROVE  \A k \in 1..Len(starts) :
           /\ starts[k] \in Nat /\ starts[k] + 2 <= mp
           /\ starts[k] + SizeAt(format, d, starts[k])
                = IF k = Len(starts) THEN mp ELSE starts[k + 1]
<1> SUFFICES ASSUME NEW k \in 1..Len(starts)
             PROVE  /\ starts[k] \in Nat /\ starts[k] + 2 <= mp
                    /\ starts[k] + SizeAt(format, d, starts[k])
                         = IF k = Len(starts) THEN mp ELSE starts[k + 1]
  OBVIOUS
<1>1. /\ starts[k] + 2 <= mp
      /\ starts[k] + SizeAt(format, data, starts[k])
           = IF k = Len(starts) THEN mp ELSE starts[k + 1]
  BY DEF BlocksInv, StartsInv
<1>2. starts[k] \in Nat /\ mp \in Nat
  BY TypesOf
<1> DEFINE a == starts[k]
<1>3. a \in 0..(mp - 1) /\ a + 1 \in 0..(mp - 1)
  BY <1>1, <1>2
<1>4. SizeAt(format, d, a) = SizeAt(format, data, a)
  BY <1>3, SizeStays
<1> QED BY <1>1, <1>2, <1>4

\* And so do the events before the one that is open.
LEMMA EventsBelow ==
  ASSUME BlocksInv, format = "BBRL", state \in {"event", "segment"},
         NEW d, \A x \in 0..(eventhmp - 1) : d[x] = data[x]
  PROVE  \A k \in 1..(Len(events) - 1) :
           /\ events[k] + 3 <= eventhmp
           /\ events[k] + (d[events[k]] - Blocks!Flag) = events[k + 1]
<1> SUFFICES ASSUME NEW k \in 1..(Len(events) - 1)
             PROVE  /\ events[k] + 3 <= eventhmp
                    /\ events[k] + (d[events[k]] - Blocks!Flag) = events[k + 1]
  OBVIOUS
<1>1. /\ events[k] + 3 <= eventhmp
      /\ events[k] + (data[events[k]] - Blocks!Flag) = events[k + 1]
  BY DEF BlocksInv, EventsInv
<1>2. eventhmp \in Nat /\ events \in Seq(Nat)
  BY TypesOf
<1>3. events[k] \in Nat
  <2>1. k \in 1..Len(events)
    BY <1>2
  <2> QED BY <1>2, <2>1
<1>4. events[k] \in 0..(eventhmp - 1)
  BY <1>1, <1>2, <1>3
<1> QED BY <1>1, <1>4

LEMMA InitSegmentKeeps ==
  ASSUME BlocksInv, Blocks!init_segment PROVE BlocksInv'
<1>1. /\ format \in {"BBRL", "BBDAQ", "IWADAQ"}
      /\ data \in [0..(Top - 1) -> Int]
      /\ mp \in 0..Top /\ starts \in Seq(Nat) /\ events \in Seq(Nat)
      /\ Top \in Nat /\ mp \in Nat /\ eventhmp \in Nat /\ eventsize \in Nat
  BY TypesOf
<1>2. /\ state = "event" /\ mp + 4 <= Top /\ state' = "segment"
      /\ mp' = mp + 2 /\ starts' = Append(starts, mp)
      /\ UNCHANGED <<format, blkid, eventhmp, eventsize, events>>
  BY DEF Blocks!init_segment
<1>3. /\ data' \in [0..(Top - 1) -> Int]
      /\ \A x \in 0..(mp - 1) : data'[x] = data[x]
      /\ IF format = "BBRL"
           THEN segmenthmp' = mp /\ segmentsize' = 2
           ELSE segmenthmp' = mp + 1 /\ segmentsize' = 0
  <2>1. CASE format = "BBRL"
    <3> DEFINE a == mp + 1
    <3>1. a \in Nat /\ a > mp /\ Blocks!Write(Blocks!Words(a, 1, 1))
          /\ segmenthmp' = mp /\ segmentsize' = 2
      BY <1>1, <2>1 DEF Blocks!init_segment, Blocks!Bbrl
    <3> HIDE DEF a
    <3>2. /\ data' \in [0..(Top - 1) -> Int]
          /\ \A x \in 0..(Top - 1) :
               data'[x] = IF x \in a..(a + 1 - 1) THEN 1 ELSE data[x]
      BY <1>1, <3>1, WordsWritten
    <3>3. \A x \in 0..(mp - 1) : x \in 0..(Top - 1) /\ x \notin a..(a + 1 - 1)
      BY <1>1, <1>2, <3>1
    <3> QED BY <2>1, <3>1, <3>2, <3>3
  <2>2. CASE format # "BBRL"
    <3>1. Blocks!Write(Blocks!Words(mp, 1, Blocks!Mark))
          /\ segmenthmp' = mp + 1 /\ segmentsize' = 0
      BY <2>2 DEF Blocks!init_segment, Blocks!Bbrl
    <3>2. Blocks!Mark \in Int
      BY DEF Blocks!Mark
    <3>3. /\ data' \in [0..(Top - 1) -> Int]
          /\ \A x \in 0..(Top - 1) :
               data'[x] = IF x \in mp..(mp + 1 - 1)
                            THEN Blocks!Mark ELSE data[x]
      BY <1>1, <3>1, <3>2, WordsWritten
    <3>4. \A x \in 0..(mp - 1) : x \in 0..(Top - 1) /\ x \notin mp..(mp + 1 - 1)
      BY <1>1, <1>2
    <3> QED BY <2>2, <3>1, <3>3, <3>4
  <2> QED BY <2>1, <2>2
<1>4. BlocksTypes'
  <2>1. starts' \in Seq(Nat)
    BY <1>1, <1>2
  <2>2. mp' \in 0..Top /\ segmenthmp' \in 0..Top /\ segmentsize' \in 0..Top
    <3>1. \A x \in Nat : x + 4 <= Top =>
            x \in 0..Top /\ x + 1 \in 0..Top /\ x + 2 \in 0..Top
      BY <1>1
    <3>2. mp \in 0..Top /\ mp + 1 \in 0..Top /\ mp + 2 \in 0..Top
      BY <1>1, <1>2, <3>1
    <3>3. 0 \in 0..Top /\ 2 \in 0..Top
      BY BlocksFacts
    <3>4. segmenthmp' \in {mp, mp + 1} /\ segmentsize' \in {0, 2}
      BY <1>3
    <3> QED BY <1>2, <3>2, <3>3, <3>4
  <2> QED BY <1>2, <1>3, <2>1, <2>2 DEF BlocksInv, BlocksTypes
<1>5. StartsInv'
  <2> DEFINE n == Len(starts)
  <2>1. /\ Len(starts') = n + 1 /\ starts'[n + 1] = mp /\ n \in Nat
        /\ \A k \in 1..n : starts'[k] = starts[k]
    BY <1>1, <1>2
  <2>2. \A k \in 1..n :
          /\ starts[k] \in Nat /\ starts[k] + 2 <= mp
          /\ starts[k] + SizeAt(format, data', starts[k])
               = IF k = n THEN mp ELSE starts[k + 1]
    BY <1>2, <1>3, SegmentsBelow
  <2>3. ASSUME NEW k \in 1..(Len(starts') - 1)
        PROVE  /\ starts'[k] + 2 <= starts'[Len(starts')]
               /\ starts'[k] + SizeAt(format', data', starts'[k])
                    = starts'[k + 1]
    <3>1. k \in 1..n /\ starts'[k] = starts[k]
      BY <2>1
    <3>2. starts'[k + 1] = IF k = n THEN mp ELSE starts[k + 1]
      BY <2>1, <3>1
    <3> QED BY <1>2, <2>1, <2>2, <3>1, <3>2
  <2>4. /\ Len(starts') > 0 /\ starts'[Len(starts')] + 2 <= mp'
        /\ IF format' = "BBRL"
             THEN /\ segmenthmp' = starts'[Len(starts')]
                  /\ segmenthmp' + segmentsize' = mp'
             ELSE /\ segmenthmp' = starts'[Len(starts')] + 1
                  /\ segmenthmp' + 1 + segmentsize' = mp'
    BY <1>1, <1>2, <1>3, <2>1
  <2> QED BY <1>2, <2>3, <2>4 DEF StartsInv
<1>6. EventsInv'
  <2> SUFFICES ASSUME format = "BBRL" PROVE EventsInv'
    BY <1>2 DEF EventsInv
  <2>1. /\ Len(events) > 0 /\ eventhmp = events[Len(events)]
        /\ eventhmp + 3 <= mp /\ eventhmp + eventsize = mp
    BY <1>2 DEF BlocksInv, EventsInv
  <2>2. \A x \in 0..(eventhmp - 1) : data'[x] = data[x]
    <3>1. \A x \in 0..(eventhmp - 1) : x \in 0..(mp - 1)
      BY <1>1, <2>1
    <3> QED BY <1>3, <3>1
  <2>3. \A k \in 1..(Len(events) - 1) :
          /\ events[k] + 3 <= eventhmp
          /\ events[k] + (data'[events[k]] - Blocks!Flag) = events[k + 1]
    BY <1>2, <2>2, EventsBelow
  <2>4. eventhmp' + 3 <= mp' /\ eventhmp' + eventsize' = segmenthmp'
        /\ eventhmp' + 3 <= segmenthmp'
    <3>1. segmenthmp' = mp /\ mp' = mp + 2
      BY <1>2, <1>3
    <3>2. eventhmp' = eventhmp /\ eventsize' = eventsize
      BY <1>2
    <3>3. eventhmp + 3 <= mp + 2
      BY <1>1, <2>1
    <3> QED BY <2>1, <3>1, <3>2, <3>3
  <2> QED BY <1>2, <2>1, <2>3, <2>4 DEF EventsInv, Blocks!Flag
<1>7. CountInv'
  BY <1>1, <1>2, <1>3 DEF BlocksInv, CountInv, Head0
<1> QED BY <1>4, <1>5, <1>6, <1>7 DEF BlocksInv

LEMMA EndSegmentKeeps ==
  ASSUME BlocksInv, Blocks!end_segment PROVE BlocksInv'
<1>1. /\ format \in {"BBRL", "BBDAQ", "IWADAQ"}
      /\ data \in [0..(Top - 1) -> Int]
      /\ mp \in 0..Top /\ starts \in Seq(Nat) /\ events \in Seq(Nat)
      /\ Top \in Nat /\ mp \in Nat /\ eventhmp \in Nat /\ eventsize \in Nat
      /\ segmenthmp \in Nat /\ segmentsize \in Nat
  BY TypesOf
<1> DEFINE w == IF format = "IWADAQ" THEN segmentsize + 2 ELSE segmentsize
<1>2. /\ state = "segment" /\ state' = "event"
      /\ Blocks!Write(Blocks!Words(segmenthmp, 1, w))
      /\ eventsize' = IF format = "BBRL" THEN eventsize + segmentsize
                      ELSE eventsize + segmentsize + 2
      /\ UNCHANGED <<format, mp, blkid, eventhmp, segmenthmp, segmentsize,
                     events, starts>>
  BY DEF Blocks!end_segment, Blocks!SizeWritten, Blocks!EventSizeAfter,
         Blocks!Bbrl
<1>3. /\ data' \in [0..(Top - 1) -> Int]
      /\ \A x \in 0..(Top - 1) :
           data'[x] = IF x = segmenthmp THEN w ELSE data[x]
  <2>1. w \in Int
    BY <1>1
  <2> HIDE DEF w
  <2>2. /\ data' \in [0..(Top - 1) -> Int]
        /\ \A x \in 0..(Top - 1) :
             data'[x] = IF x \in segmenthmp..(segmenthmp + 1 - 1)
                          THEN w ELSE data[x]
    BY <1>1, <1>2, <2>1, WordsWritten
  <2> QED BY <1>1, <2>2
<1> DEFINE n == Len(starts)
           a == starts[n]
<1>4. /\ n > 0 /\ n \in Nat /\ a \in Nat /\ a + 2 <= mp
      /\ IF format = "BBRL" THEN segmenthmp = a /\ segmenthmp + segmentsize = mp
         ELSE segmenthmp = a + 1 /\ segmenthmp + 1 + segmentsize = mp
      /\ \A k \in 1..(n - 1) :
           /\ starts[k] + 2 <= a
           /\ starts[k] + SizeAt(format, data, starts[k]) = starts[k + 1]
  <2>1. n > 0 /\ n \in Nat
    BY <1>1, <1>2 DEF BlocksInv, StartsInv
  <2>2. a \in Nat
    BY <1>1, <2>1
  <2> QED BY <1>2, <2>1, <2>2 DEF BlocksInv, StartsInv
<1>5. eventsize' \in 0..Top
  <2>1. CASE format = "BBRL"
    BY <1>1, <1>2, <1>4, <2>1 DEF BlocksInv, EventsInv
  <2>2. CASE format # "BBRL"
    BY <1>1, <1>2, <1>4, <2>2 DEF BlocksInv, CountInv, Head0
  <2> QED BY <2>1, <2>2
<1>6. BlocksTypes'
  BY <1>2, <1>3, <1>5 DEF BlocksInv, BlocksTypes
<1>7. StartsInv'
  <2>1. ASSUME NEW k \in 1..n
        PROVE  /\ starts[k] + 2 <= mp
               /\ starts[k] + SizeAt(format, data', starts[k])
                    = IF k = n THEN mp ELSE starts[k + 1]
    <3>1. CASE k = n
      <4>1. a + SizeAt(format, data', a) = mp
        <5>1. segmenthmp \in 0..(Top - 1)
          BY <1>1, <1>4
        <5>2. data'[segmenthmp] = w
          BY <1>3, <5>1
        <5>3. CASE format = "BBRL"
          <6>1. SizeAt(format, data', a) = segmentsize /\ segmenthmp = a
            BY <1>4, <5>2, <5>3 DEF SizeAt
          <6> QED BY <1>4, <5>3, <6>1
        <5>4. CASE format # "BBRL"
          <6>1. SizeAt(format, data', a) = segmentsize + 2
            BY <1>1, <1>4, <5>2, <5>4 DEF SizeAt
          <6>2. a + 1 + 1 + segmentsize = mp
            BY <1>4, <5>4
          <6> HIDE DEF a
          <6> QED BY <1>1, <1>4, <6>1, <6>2
        <5> QED BY <5>3, <5>4
      <4> QED BY <1>4, <3>1, <4>1
    <3>2. CASE k # n
      <4>1. k \in 1..(n - 1)
        BY <1>4, <3>2
      <4>2. starts[k] \in Nat
        BY <1>1
      <4> DEFINE b == starts[k]
      <4>3. b + 2 <= a /\ b + SizeAt(format, data, b) = starts[k + 1]
        BY <1>4, <4>1
      <4>4. b \in Nat /\ (segmenthmp = a \/ segmenthmp = a + 1)
        BY <1>4, <4>2
      <4> HIDE DEF a, b
      <4>5. /\ b \in 0..(Top - 1) /\ b + 1 \in 0..(Top - 1)
            /\ b # segmenthmp /\ b + 1 # segmenthmp /\ b + 2 <= mp
        BY <1>1, <1>4, <4>3, <4>4
      <4>6. SizeAt(format, data', b) = SizeAt(format, data, b)
        BY <1>3, <4>5, SizeStays
      <4> QED BY <3>2, <4>3, <4>5, <4>6 DEF b
    <3> QED BY <3>1, <3>2
  <2> QED BY <1>2, <2>1 DEF StartsInv
<1>8. EventsInv'
  <2> SUFFICES ASSUME format = "BBRL" PROVE EventsInv'
    BY <1>2 DEF EventsInv
  <2>1. /\ Len(events) > 0 /\ eventhmp = events[Len(events)]
        /\ eventhmp + 3 <= mp /\ eventhmp + eventsize = segmenthmp
        /\ eventhmp + 3 <= segmenthmp
    BY <1>2 DEF BlocksInv, EventsInv
  <2>2. \A x \in 0..(eventhmp - 1) : data'[x] = data[x]
    <3> TAKE x \in 0..(eventhmp - 1)
    <3>1. \A y \in Nat : y + 3 <= mp => \A z \in 0..(y - 1) :
            z \in 0..(Top - 1)
      BY <1>1
    <3>2. x \in 0..(Top - 1)
      BY <1>1, <2>1, <3>1
    <3>3. x # segmenthmp
      BY <1>1, <2>1
    <3> QED BY <1>3, <3>2, <3>3
  <2>3. \A k \in 1..(Len(events) - 1) :
          /\ events[k] + 3 <= eventhmp
          /\ events[k] + (data'[events[k]] - Blocks!Flag) = events[k + 1]
    BY <1>2, <2>2, EventsBelow
  <2>4. eventhmp + eventsize' = mp
    <3>1. eventsize' = eventsize + segmentsize
      BY <1>2
    <3>2. segmenthmp + segmentsize = mp
      BY <1>4
    <3>3. \A x, y, z, t \in Nat :
            x + y = t /\ t + z = mp => x + (y + z) = mp
      BY <1>1
    <3>4. eventhmp + (eventsize + segmentsize) = mp
      <4>1. /\ eventhmp \in Nat /\ eventsize \in Nat
            /\ segmentsize \in Nat /\ segmenthmp \in Nat
        BY <1>1
      <4>2. eventhmp + eventsize = segmenthmp
        BY <2>1
      <4> QED BY <3>2, <3>3, <4>1, <4>2, Zenon
    <3> QED BY <3>1, <3>4
  <2> QED BY <1>2, <2>1, <2>3, <2>4 DEF EventsInv, Blocks!Flag
<1>9. CountInv'
  <2> SUFFICES ASSUME format # "BBRL" PROVE eventsize' + Head0 = mp
    BY <1>2 DEF CountInv, Head0
  <2>1. eventsize + Head0 + 1 = segmenthmp
    BY <1>2 DEF BlocksInv, CountInv
  <2> QED BY <1>1, <1>2, <1>4, <2>1 DEF Head0
<1> QED BY <1>6, <1>7, <1>8, <1>9 DEF BlocksInv

LEMMA EndBlockKeeps == ASSUME BlocksInv, Blocks!end_block PROVE BlocksInv'
<1>1. /\ format \in {"BBRL", "BBDAQ", "IWADAQ"}
      /\ data \in [0..(Top - 1) -> Int]
      /\ mp \in 0..Top /\ Top \in Nat /\ mp \in Nat /\ eventsize \in Nat
  BY TypesOf
<1>2. /\ state = "block" /\ mp + 2 <= Top /\ state' = "done"
      /\ UNCHANGED <<format, blkid, eventhmp, eventsize, segmenthmp,
                     segmentsize, events, starts>>
  BY DEF Blocks!end_block, Blocks!counters
<1>3. StartsInv' /\ EventsInv'
  BY <1>2 DEF StartsInv, EventsInv
<1>4. \A x \in Nat : x + 2 <= Top => /\ x \in 0..(Top - 1)
                                     /\ x + 1 \in 0..(Top - 1)
                                     /\ x + 1 \in 0..Top /\ x + 2 \in 0..Top
  BY <1>1
<1>5. Blocks!End \in Int
  BY DEF Blocks!End
<1>6. CASE format = "BBRL"
  <2>1. Blocks!Write(Blocks!Words(mp, 2, Blocks!End)) /\ mp' = mp + 2
    BY <1>6 DEF Blocks!end_block
  <2>2. data' \in [0..(Top - 1) -> Int]
    BY <1>1, <1>5, <2>1, WordsWritten
  <2>3. mp' \in 0..Top
    BY <1>1, <1>2, <1>4, <2>1
  <2>4. BlocksTypes'
    BY <1>2, <2>2, <2>3 DEF BlocksInv, BlocksTypes
  <2>5. CountInv'
    BY <1>2, <1>6 DEF CountInv
  <2> QED BY <1>3, <2>4, <2>5 DEF BlocksInv
<1>7. CASE format = "BBDAQ"
  <2> DEFINE ws == [j \in {2, mp} |->
                      IF j = 2 THEN eventsize + 1 ELSE Blocks!End]
  <2>1. Blocks!Write(ws) /\ mp' = mp + 1
    BY <1>7 DEF Blocks!end_block
  <2>2. \A x \in DOMAIN ws : ws[x] \in Int
    BY <1>1, <1>5
  <2>3. eventsize + 3 = mp
    BY <1>2, <1>7 DEF BlocksInv, CountInv, Head0
  <2>4. DOMAIN ws = {2, mp} /\ ws[2] = eventsize + 1 /\ ws[mp] = Blocks!End
    BY <1>1, <2>3
  <2> HIDE DEF ws
  <2>5. /\ data' \in [0..(Top - 1) -> Int]
        /\ \A x \in 0..(Top - 1) :
             data'[x] = IF x \in DOMAIN ws THEN ws[x] ELSE data[x]
    BY <1>1, <2>1, <2>2, Written
  <2>6. 2 \in 0..(Top - 1) /\ mp \in 0..(Top - 1)
    BY <1>1, <1>2, <2>3
  <2>7. data'[2] = eventsize + 1 /\ data'[mp] = Blocks!End
    BY <2>4, <2>5, <2>6
  <2>8. mp' \in 0..Top
    BY <1>1, <1>2, <1>4, <2>1
  <2>9. BlocksTypes'
    BY <1>2, <2>5, <2>8 DEF BlocksInv, BlocksTypes
  <2>10. mp' > 0 /\ mp' - 1 = mp /\ mp' - 3 = eventsize + 1
    BY <1>1, <2>1, <2>3
  <2>11. CountInv'
    BY <1>2, <1>7, <2>7, <2>10 DEF CountInv, Blocks!End
  <2> QED BY <1>3, <2>9, <2>11 DEF BlocksInv
<1>8. CASE format = "IWADAQ"
  <2> DEFINE ws == [j \in {3, mp, mp + 1} |->
                      IF j = 3 THEN eventsize + 4 ELSE Blocks!End]
  <2>1. Blocks!Write(ws) /\ mp' = mp + 2
    BY <1>8 DEF Blocks!end_block
  <2>2. \A x \in DOMAIN ws : ws[x] \in Int
    BY <1>1, <1>5
  <2>3. eventsize + 4 = mp
    BY <1>2, <1>8 DEF BlocksInv, CountInv, Head0
  <2>4. /\ DOMAIN ws = {3, mp, mp + 1} /\ ws[3] = eventsize + 4
        /\ ws[mp + 1] = Blocks!End
    BY <1>1, <2>3
  <2> HIDE DEF ws
  <2>5. /\ data' \in [0..(Top - 1) -> Int]
        /\ \A x \in 0..(Top - 1) :
             data'[x] = IF x \in DOMAIN ws THEN ws[x] ELSE data[x]
    BY <1>1, <2>1, <2>2, Written
  <2>6. 3 \in 0..(Top - 1) /\ mp + 1 \in 0..(Top - 1)
    BY <1>1, <1>2, <2>3
  <2>7. data'[3] = eventsize + 4 /\ data'[mp + 1] = Blocks!End
    BY <2>4, <2>5, <2>6
  <2>8. mp' \in 0..Top
    BY <1>1, <1>2, <1>4, <2>1
  <2>9. BlocksTypes'
    BY <1>2, <2>5, <2>8 DEF BlocksInv, BlocksTypes
  <2>10. mp' > 0 /\ mp' - 1 = mp + 1 /\ mp' - 2 = eventsize + 4
    BY <1>1, <2>1, <2>3
  <2>11. CountInv'
    BY <1>2, <1>8, <2>7, <2>10 DEF CountInv, Blocks!End
  <2> QED BY <1>3, <2>9, <2>11 DEF BlocksInv
<1> QED BY <1>1, <1>6, <1>7, <1>8

LEMMA CountersMove ==
  ASSUME NEW h \in Nat, NEW z \in Nat, NEW x \in Nat, NEW n \in Nat,
         NEW t \in Nat, h + z = x, x + n \in 0..t, h + 3 <= x
  PROVE  h + (z + n) = x + n /\ z + n \in 0..t /\ h + 3 <= x + n
OBVIOUS

LEMMA PlacesBelow ==
  ASSUME NEW h \in Nat, NEW x \in Nat, h + 3 <= x
  PROVE  \A y \in 0..(h - 1) : y \in 0..(x - 1)
OBVIOUS

LEMMA RoomOf ==
  ASSUME NEW x \in Nat, NEW l \in Nat, NEW n \in Nat, NEW t \in Nat,
         x + 2 + l + n + 2 <= t
  PROVE  /\ x + (n + 2 + l) = x + 2 + l + n /\ x + 2 + l + n \in 0..t
         /\ x + 2 <= x + (n + 2 + l)
OBVIOUS

\* Whatever is read, the segment's counter moves with mp, and what carries a
\* size lies below.
LEMMA ReadKeeps ==
  ASSUME BlocksInv, NEW n \in Nat, Blocks!Read(n, n) PROVE BlocksInv'
<1>1. /\ format \in {"BBRL", "BBDAQ", "IWADAQ"}
      /\ data \in [0..(Top - 1) -> Int]
      /\ mp \in 0..Top /\ starts \in Seq(Nat) /\ events \in Seq(Nat)
      /\ Top \in Nat /\ mp \in Nat /\ eventhmp \in Nat /\ eventsize \in Nat
      /\ segmenthmp \in Nat /\ segmentsize \in Nat
  BY TypesOf
<1>2. /\ state = "segment" /\ state' = state /\ mp + n + 2 <= Top
      /\ Blocks!Write(Blocks!Words(mp, n, Blocks!Value))
      /\ mp' = mp + n /\ segmentsize' = segmentsize + n
      /\ UNCHANGED <<format, state, blkid, eventhmp, eventsize, segmenthmp,
                     events, starts>>
  BY DEF Blocks!Read
<1>3. /\ data' \in [0..(Top - 1) -> Int]
      /\ \A x \in 0..(mp - 1) : data'[x] = data[x]
  <2>1. Blocks!Value \in Int
    BY DEF Blocks!Value
  <2>2. /\ data' \in [0..(Top - 1) -> Int]
        /\ \A x \in 0..(Top - 1) :
             data'[x] = IF x \in mp..(mp + n - 1) THEN Blocks!Value ELSE data[x]
    BY <1>1, <1>2, <2>1, WordsWritten
  <2>3. \A x \in 0..(mp - 1) : x \in 0..(Top - 1) /\ x \notin mp..(mp + n - 1)
    BY <1>1, <1>2
  <2> QED BY <2>2, <2>3
<1> DEFINE m == Len(starts)
           a == starts[m]
<1>4. /\ m > 0 /\ m \in Nat /\ a \in Nat /\ a + 2 <= mp
      /\ format = "BBRL" => segmenthmp = a /\ segmenthmp + segmentsize = mp
      /\ format # "BBRL" =>
           segmenthmp = a + 1 /\ segmenthmp + 1 + segmentsize = mp
      /\ \A k \in 1..(m - 1) :
           /\ starts[k] + 2 <= a
           /\ starts[k] + SizeAt(format, data, starts[k]) = starts[k + 1]
  <2>1. m > 0 /\ m \in Nat
    BY <1>1, <1>2 DEF BlocksInv, StartsInv
  <2>2. a \in Nat
    BY <1>1, <2>1
  <2> QED BY <1>2, <2>1, <2>2 DEF BlocksInv, StartsInv
<1>5. /\ mp' \in 0..Top /\ segmentsize' \in 0..Top /\ a + 2 <= mp'
      /\ format = "BBRL" => segmenthmp + segmentsize' = mp'
      /\ format # "BBRL" => segmenthmp + 1 + segmentsize' = mp'
  <2>1. \A x, h, z, y \in Nat :
          x + n + 2 <= Top /\ (h + z = x \/ h + 1 + z = x) /\ y + 2 <= x =>
            /\ x + n \in 0..Top /\ z + n \in 0..Top /\ y + 2 <= x + n
            /\ h + z = x => h + (z + n) = x + n
            /\ h + 1 + z = x => h + 1 + (z + n) = x + n
    BY <1>1
  <2>2. \/ segmenthmp + segmentsize = mp
        \/ segmenthmp + 1 + segmentsize = mp
    BY <1>4
  <2>3. /\ mp + n \in 0..Top /\ segmentsize + n \in 0..Top /\ a + 2 <= mp + n
        /\ segmenthmp + segmentsize = mp =>
             segmenthmp + (segmentsize + n) = mp + n
        /\ segmenthmp + 1 + segmentsize = mp =>
             segmenthmp + 1 + (segmentsize + n) = mp + n
    <3>1. mp + n + 2 <= Top /\ a + 2 <= mp /\ a \in Nat
      BY <1>2, <1>4
    <3> HIDE DEF a
    <3> QED BY <1>1, <2>1, <2>2, <3>1
  <2>4. mp' = mp + n /\ segmentsize' = segmentsize + n
    BY <1>2
  <2> QED BY <1>4, <2>3, <2>4
<1>6. BlocksTypes'
  BY <1>2, <1>3, <1>5 DEF BlocksInv, BlocksTypes
<1>7. StartsInv'
  <2>1. ASSUME NEW k \in 1..(m - 1)
        PROVE  /\ starts[k] + 2 <= a
               /\ starts[k] + SizeAt(format, data', starts[k]) = starts[k + 1]
    <3>1. k \in 1..m
      BY <1>4
    <3>2. starts[k] \in Nat
      BY <1>1, <3>1
    <3> DEFINE b == starts[k]
    <3>3. b + 2 <= a /\ b + SizeAt(format, data, b) = starts[k + 1]
      BY <1>4
    <3>4. b \in Nat
      BY <3>2
    <3> HIDE DEF a, b
    <3>5. b \in 0..(mp - 1) /\ b + 1 \in 0..(mp - 1)
      BY <1>1, <1>4, <3>3, <3>4
    <3>6. SizeAt(format, data', b) = SizeAt(format, data, b)
      BY <1>3, <3>5, SizeStays
    <3> QED BY <3>3, <3>6 DEF b
  <2> QED BY <1>2, <1>4, <1>5, <2>1 DEF StartsInv
<1>8. EventsInv'
  <2> SUFFICES ASSUME format = "BBRL" PROVE EventsInv'
    BY <1>2 DEF EventsInv
  <2>1. /\ Len(events) > 0 /\ eventhmp = events[Len(events)]
        /\ eventhmp + 3 <= mp /\ eventhmp + eventsize = segmenthmp
        /\ eventhmp + 3 <= segmenthmp
    BY <1>2 DEF BlocksInv, EventsInv
  <2>2. \A x \in 0..(eventhmp - 1) : data'[x] = data[x]
    <3>1. \A x \in 0..(eventhmp - 1) : x \in 0..(mp - 1)
      BY <1>1, <2>1, PlacesBelow
    <3> QED BY <1>3, <3>1
  <2>3. \A k \in 1..(Len(events) - 1) :
          /\ events[k] + 3 <= eventhmp
          /\ events[k] + (data'[events[k]] - Blocks!Flag) = events[k + 1]
    BY <1>2, <2>2, EventsBelow
  <2>4. eventhmp + 3 <= mp + n
    BY <1>1, <2>1
  <2> QED BY <1>2, <2>1, <2>3, <2>4 DEF EventsInv, Blocks!Flag
<1>9. CountInv'
  BY <1>2 DEF BlocksInv, CountInv, Head0
<1> QED BY <1>6, <1>7, <1>8, <1>9 DEF BlocksInv

\* A segment that is written at one go carries the size it was given.
LEMMA SegmentKeeps ==
  ASSUME BlocksInv, NEW n \in Nat, NEW ws \in Seq(Nat), NEW s \in Nat,
         s = n + 2 + Len(ws), Blocks!Segment(s, ws, n, s),
         segmenthmp' \in {mp, segmenthmp}
  PROVE  BlocksInv'
<1>1. /\ format \in {"BBRL", "BBDAQ", "IWADAQ"}
      /\ data \in [0..(Top - 1) -> Int]
      /\ mp \in 0..Top /\ starts \in Seq(Nat) /\ events \in Seq(Nat)
      /\ Top \in Nat /\ mp \in Nat /\ eventhmp \in Nat /\ eventsize \in Nat
      /\ segmenthmp \in 0..Top /\ Len(ws) \in Nat
  BY TypesOf
<1> DEFINE l == Len(ws)
           W == [j \in mp..(mp + 1 + l + n) |->
                   IF j = mp THEN s ELSE IF j = mp + 1 THEN 1
                   ELSE IF j - mp - 1 \in DOMAIN ws THEN ws[j - mp - 1]
                   ELSE Blocks!Value]
<1>2. /\ format = "BBRL" /\ state = "event" /\ state' = state
      /\ mp + 2 + l + n + 2 <= Top
      /\ Blocks!Write(W)
      /\ mp' = mp + 2 + l + n /\ eventsize' = eventsize + s
      /\ starts' = Append(starts, mp)
      /\ UNCHANGED <<format, state, blkid, eventhmp, segmentsize, events>>
  BY DEF Blocks!Segment, Blocks!Bbrl
<1>3. /\ data' \in [0..(Top - 1) -> Int]
      /\ \A x \in 0..(mp - 1) : data'[x] = data[x]
      /\ data'[mp] = s
  <2>1. \A x \in DOMAIN W : W[x] \in Int
    BY <1>1 DEF Blocks!Value
  <2>2. DOMAIN W = mp..(mp + 1 + l + n) /\ mp \in DOMAIN W /\ W[mp] = s
    BY <1>1
  <2> HIDE DEF W
  <2>3. /\ data' \in [0..(Top - 1) -> Int]
        /\ \A x \in 0..(Top - 1) :
             data'[x] = IF x \in DOMAIN W THEN W[x] ELSE data[x]
    BY <1>1, <1>2, <2>1, Written
  <2>4. \A x \in 0..(mp - 1) : x \in 0..(Top - 1) /\ x \notin DOMAIN W
    BY <1>1, <2>2
  <2>5. mp \in 0..(Top - 1)
    BY <1>1, <1>2
  <2> QED BY <2>2, <2>3, <2>4, <2>5
<1>4. /\ mp' = mp + s /\ mp + s \in 0..Top /\ mp + 2 <= mp + s
  <2>1. l \in Nat /\ mp + 2 + l + n + 2 <= Top /\ s = n + 2 + l
    BY <1>1, <1>2
  <2>2. mp' = mp + 2 + l + n
    BY <1>2
  <2> HIDE DEF l
  <2>3. /\ mp + (n + 2 + l) = mp + 2 + l + n /\ mp + 2 + l + n \in 0..Top
        /\ mp + 2 <= mp + (n + 2 + l)
    BY <1>1, <2>1, RoomOf
  <2> QED BY <2>1, <2>2, <2>3
<1>5. /\ Len(events) > 0 /\ eventhmp = events[Len(events)]
      /\ eventhmp + 3 <= mp /\ eventhmp + eventsize = mp
  BY <1>2 DEF BlocksInv, EventsInv
<1>6. /\ eventhmp + (eventsize + s) = mp + s /\ eventsize + s \in 0..Top
      /\ eventhmp + 3 <= mp + s
  <2>1. eventhmp + 3 <= mp /\ eventhmp + eventsize = mp
    BY <1>5
  <2>2. mp + s \in 0..Top
    BY <1>4
  <2>3. /\ eventhmp \in Nat /\ eventsize \in Nat /\ mp \in Nat
        /\ s \in Nat /\ Top \in Nat
    BY <1>1
  <2> QED BY ONLY <2>1, <2>2, <2>3, CountersMove
<1>7. BlocksTypes'
  <2>1. Append(starts, mp) \in Seq(Nat)
    BY <1>1
  <2>2. segmenthmp' \in 0..Top
    BY <1>1
  <2> QED BY <1>2, <1>3, <1>4, <1>6, <2>1, <2>2 DEF BlocksInv, BlocksTypes
<1>8. StartsInv'
  <2> DEFINE m == Len(starts)
  <2>1. /\ Len(starts') = m + 1 /\ starts'[m + 1] = mp /\ m \in Nat
        /\ \A k \in 1..m : starts'[k] = starts[k]
    <3>1. starts' = Append(starts, mp) /\ starts \in Seq(Nat) /\ mp \in Nat
      BY <1>1, <1>2
    <3> QED BY ONLY <3>1, AppendProperties, LenProperties
  <2>2. \A k \in 1..m :
          /\ starts[k] \in Nat /\ starts[k] + 2 <= mp
          /\ starts[k] + SizeAt(format, data', starts[k])
               = IF k = m THEN mp ELSE starts[k + 1]
    BY <1>2, <1>3, SegmentsBelow
  <2>3. ASSUME NEW k \in 1..Len(starts')
        PROVE  /\ starts'[k] + 2 <= mp'
               /\ starts'[k] + SizeAt(format', data', starts'[k])
                    = IF k = Len(starts') THEN mp' ELSE starts'[k + 1]
    <3>1. CASE k = m + 1
      <4>1. SizeAt(format', data', mp) = s
        BY <1>2, <1>3 DEF SizeAt
      <4>2. starts'[k] = mp /\ k = Len(starts')
        BY <2>1, <3>1
      <4> QED BY <1>4, <4>1, <4>2
    <3>2. CASE k # m + 1
      <4>1. k \in 1..m
        BY <2>1, <3>2
      <4>2. starts'[k] = starts[k] /\ k # Len(starts')
        BY <2>1, <3>2, <4>1
      <4>3. starts'[k + 1] = IF k = m THEN mp ELSE starts[k + 1]
        BY <2>1, <4>1
      <4>4. starts[k] + SizeAt(format, data', starts[k]) = starts'[k + 1]
        BY <2>2, <4>1, <4>3
      <4>5. starts[k] + 2 <= mp + s
        <5>1. starts[k] \in Nat /\ starts[k] + 2 <= mp
          BY <2>2, <4>1
        <5> DEFINE b == starts[k]
        <5>2. b \in Nat /\ b + 2 <= mp
          BY <5>1
        <5> HIDE DEF b
        <5>3. b + 2 <= mp + s
          BY <1>1, <5>2
        <5> QED BY <5>3 DEF b
      <4> QED BY <1>2, <1>4, <4>2, <4>4, <4>5
    <3> QED BY <3>1, <3>2
  <2> QED BY <1>2, <2>3 DEF StartsInv
<1>9. EventsInv'
  <2>1. \A x \in 0..(eventhmp - 1) : data'[x] = data[x]
    <3>1. \A x \in 0..(eventhmp - 1) : x \in 0..(mp - 1)
      BY <1>1, <1>5, PlacesBelow
    <3> QED BY <1>3, <3>1
  <2>2. \A k \in 1..(Len(events) - 1) :
          /\ events[k] + 3 <= eventhmp
          /\ events[k] + (data'[events[k]] - Blocks!Flag) = events[k + 1]
    BY <1>2, <2>1, EventsBelow
  <2>3. eventhmp' + 3 <= mp' /\ eventhmp' + eventsize' = mp'
    <3>1. /\ eventhmp' = eventhmp /\ eventsize' = eventsize + s
          /\ mp' = mp + s
      BY <1>2, <1>4
    <3> QED BY <1>6, <3>1
  <2> QED BY <1>2, <1>5, <2>2, <2>3 DEF EventsInv, Blocks!Flag
<1>10. CountInv'
  BY <1>2 DEF CountInv
<1> QED BY <1>7, <1>8, <1>9, <1>10 DEF BlocksInv

----------------------------------------------------------------------------
(* Blocks: every behaviour.                                                *)

LEMMA BlocksNext == ASSUME BlocksInv, Blocks!Next PROVE BlocksInv'
<1>1. /\ Top \in Nat /\ MaxLen \in Nat /\ Nch \in Nat
      /\ mp \in 0..Top /\ segmenthmp \in 0..Top
  BY BlocksFacts, TypesOf
<1>2. ASSUME Blocks!OfOneWord PROVE BlocksInv'
  <2>1. Blocks!Read(1, 1)
    BY <1>2 DEF Blocks!OfOneWord, Blocks!read_segdata, Blocks!rpv130_segdata
  <2> QED BY <2>1, ReadKeeps
<1>3. ASSUME Blocks!OfTwoWords PROVE BlocksInv'
  <2>1. \/ Blocks!Read(2, 2) \/ Blocks!Read(2 * Nch, 2 * Nch)
    BY <1>3 DEF Blocks!OfTwoWords, Blocks!read_segdata24, Blocks!caen_dummy,
                Blocks!v560_segdata
  <2>2. 2 * Nch \in Nat
    BY <1>1
  <2> QED BY <2>1, <2>2, ReadKeeps
<1>4. ASSUME NEW len \in 0..MaxLen, Blocks!OfLength(len) PROVE BlocksInv'
  <2>1. len \in Nat /\ 2 * len \in Nat
    BY <1>1
  <2>2. ASSUME \/ Blocks!read_segndata(len) \/ Blocks!read_segsdata(len)
               \/ Blocks!read_segbdata(len)
        PROVE BlocksInv'
    <3>1. Blocks!Read(len, len)
      BY <2>2 DEF Blocks!read_segndata, Blocks!read_segsdata,
                  Blocks!read_segbdata
    <3> QED BY <2>1, <3>1, ReadKeeps
  <2>3. ASSUME Blocks!read_segqrdata(len) \/ Blocks!read_segqsdata(len)
        PROVE BlocksInv'
    <3>1. PICK rlen \in 0..len : Blocks!Read(rlen, rlen)
      BY <2>3 DEF Blocks!read_segqrdata, Blocks!read_segqsdata
    <3>2. rlen \in Nat
      BY <2>1
    <3> QED BY <3>1, <3>2, ReadKeeps
  <2>4. ASSUME Blocks!madc32_map_segdata(len) PROVE BlocksInv'
    <3>1. Blocks!Read(2 * len, 2 * len)
      BY <2>4 DEF Blocks!madc32_map_segdata
    <3> QED BY <2>1, <3>1, ReadKeeps
  <2>5. ASSUME \/ Blocks!read_segmod(len) \/ Blocks!read_segsmod(len)
               \/ Blocks!read_segbmod(len)
        PROVE BlocksInv'
    <3>1. /\ Blocks!Segment(len + 2, <<>>, len, len + 2)
          /\ segmenthmp' \in {mp, segmenthmp}
      BY <2>5 DEF Blocks!read_segmod, Blocks!read_segsmod,
                  Blocks!read_segbmod
    <3>2. /\ <<>> \in Seq(Nat) /\ len + 2 \in Nat
          /\ len + 2 = len + 2 + Len(<<>>)
      BY <2>1, EmptySeq
    <3> QED BY <2>1, <3>1, <3>2, SegmentKeeps
  <2>6. ASSUME Blocks!read_segmemmod(len) PROVE BlocksInv'
    <3>1. /\ Blocks!Segment(len + 3, <<len>>, len, len + 3)
          /\ segmenthmp' \in {mp, segmenthmp}
      BY <2>6 DEF Blocks!read_segmemmod
    <3>2. /\ <<len>> \in Seq(Nat) /\ len + 3 \in Nat
          /\ len + 3 = len + 2 + Len(<<len>>)
      BY <2>1
    <3> QED BY <2>1, <3>1, <3>2, SegmentKeeps
  <2> QED BY <1>4, <2>2, <2>3, <2>4, <2>5, <2>6 DEF Blocks!OfLength
<1> QED BY <1>2, <1>3, <1>4, InitMemKeeps, InitBlockKeeps, InitEventKeeps,
           InitSegmentKeeps, EndSegmentKeeps, EndEventKeeps, EndBlockKeeps
        DEF Blocks!Next

LEMMA BlocksStep == BlocksInv /\ [Next]_vars => BlocksInv'
<1> SUFFICES ASSUME BlocksInv, [Next]_vars PROVE BlocksInv'
  OBVIOUS
<1>1. CASE NextBlocks
  BY <1>1, BlocksNext DEF NextBlocks
<1>2. CASE UNCHANGED bridge
  <2>1. BlocksTypes' /\ StartsInv'
    BY <1>2 DEF bridge, BlocksInv, BlocksTypes, StartsInv
  <2>2. EventsInv' /\ CountInv'
    BY <1>2 DEF bridge, BlocksInv, EventsInv, CountInv, Head0
  <2> QED BY <2>1, <2>2 DEF BlocksInv
<1>3. NextList \/ UNCHANGED vars => UNCHANGED bridge
  BY DEF NextList, vars
<1> QED BY <1>1, <1>2, <1>3 DEF Next

\* Between any two calls of bbrl.c, bbdaq.c or iwadaq.c each segment ends where
\* the next begins, and the sizes not written back yet count from their heads.
THEOREM BlocksInvHolds == Spec => []BlocksInv
<1>1. Init => BlocksInv
  BY BlocksInit DEF Init
<1> QED BY <1>1, BlocksStep, PTL DEF Spec

\* The size of every segment leads to the next one, and the last to where
\* the event ends, whichever calls filled them (init_segment to end_segment,
\* read_segmod, read_segmemmod).
THEOREM SegmentsDoLead == Spec => []SegmentsLead
<1>1. BlocksInv => SegmentsLead
  <2> SUFFICES ASSUME BlocksInv, state = "event",
                      NEW k \in 1..Len(starts)
               PROVE  starts[k] + Blocks!SegmentWords(starts[k])
                        = IF k = Len(starts) THEN mp ELSE starts[k + 1]
    <3>1. DOMAIN starts = 1..Len(starts)
      BY DEF BlocksInv, BlocksTypes
    <3> QED BY <3>1 DEF SegmentsLead, Blocks!SegmentsLead, Blocks!Leads
  <2>1. starts[k] + SizeAt(format, data, starts[k])
          = IF k = Len(starts) THEN mp ELSE starts[k + 1]
    BY DEF BlocksInv, StartsInv
  <2>2. Blocks!SegmentWords(starts[k]) = SizeAt(format, data, starts[k])
    BY TypesOf DEF Blocks!SegmentWords, SizeAt
  <2> QED BY <2>1, <2>2
<1> QED BY <1>1, BlocksInvHolds, PTL

\* The size of every event leads to the next one (end_event of bbrl.c), and
\* the length in a block's header is right (end_block of bbdaq.c, iwadaq.c).
THEOREM LengthsDoLead == Spec => []LengthsLead
<1>1. BlocksInv => LengthsLead
  <2> SUFFICES ASSUME BlocksInv PROVE LengthsLead
    OBVIOUS
  <2>1. ASSUME format = "BBRL", state = "block", NEW k \in DOMAIN events
        PROVE  events[k] + (data[events[k]] - Blocks!Flag)
                 = IF k = Len(events) THEN mp ELSE events[k + 1]
    <3>1. DOMAIN events = 1..Len(events)
      BY DEF BlocksInv, BlocksTypes
    <3> QED BY <2>1, <3>1 DEF BlocksInv, EventsInv
  <2>2. state = "done" =>
          /\ format = "BBDAQ" => data[2] = mp - 3 /\ data[mp - 1] = Blocks!End
          /\ format = "IWADAQ" => data[3] = mp - 2 /\ data[mp - 1] = Blocks!End
    BY DEF BlocksInv, CountInv
  <2> QED BY <2>1, <2>2
          DEF LengthsLead, Blocks!LengthsLead, Blocks!Leads, Blocks!Bbrl
<1> QED BY <1>1, BlocksInvHolds, PTL

----------------------------------------------------------------------------
(* CCNET: the invariant.                                                   *)

Words == {"number", "low", "high"} \X Nat \X Nat

BlockWords == [data : Seq(Words), hmp : Nat, size : Nat]

CallsMade == [op : {"init", "read", "read24", "end", "write"}, arg : Nat]
Entries == [cmd : {"INIT", "SHORT", "INT", "END", "SKP"}, val : Nat]

\* The entry that is written beside a call.
Fits(c, s) ==
  \/ c.op = "init" /\ s.cmd = "INIT" /\ s.val = c.arg
  \/ c.op = "read" /\ s.cmd = "SHORT" /\ s.val = c.arg
  \/ c.op = "read24" /\ s.cmd = "INT" /\ s.val = c.arg
  \/ c.op = "end" /\ s.cmd = "END"
  \/ c.op = "write" /\ s.cmd = "SKP" /\ s.val = 1

ListTypes ==
  /\ phase \in {"write", "load", "idle", "rec"} /\ open \in BOOLEAN
  /\ gen \in 0..Cmdlen /\ event \in 1..Events /\ full \in BOOLEAN
  /\ calls \in Seq(CallsMade) /\ segcmd \in Seq(Entries)
  /\ Len(segcmd) = Len(calls)
  /\ i \in 0..Len(calls) /\ taken \in 0..gen /\ idx = 2 + 2 * taken
  /\ rplybuf \in [0..(2 * Cmdlen + 1) -> Nat \X Nat]
  /\ clrbuf \in Seq({0}) /\ Len(clrbuf) \in 0..1

FitsInv == \A k \in 1..Len(calls) : Fits(calls[k], segcmd[k])

\* f[k] commands were generated for the first k calls.
Counts(f) ==
  /\ f \in [0..Len(calls) -> 0..gen]
  /\ f[0] = 0 /\ f[Len(calls)] = gen
  /\ \A k \in 1..Len(calls) : f[k] = f[k - 1] + List!Used(calls[k])
  /\ phase = "rec" => taken = f[i]

Tally == \E f \in [0..Len(calls) -> 0..gen] : Counts(f)

\* The list of commands is loaded as it was generated.
Loaded ==
  cmdbuf = IF phase \in {"idle", "rec"} THEN [c \in 1..gen |-> c] ELSE <<>>

\* Where nothing is missing, the replies are those of this event, in order.
Answered ==
  phase = "rec" /\ full =>
    \A k \in 1..gen : rplybuf[2 * k] = <<event, k>>

\* Two blocks that differ in values at most.
SameShape(b, d) ==
  /\ b \in BlockWords /\ d \in BlockWords
  /\ b.hmp = d.hmp /\ b.size = d.size /\ b.hmp \in 0..Len(b.data)
  /\ Len(b.data) = Len(d.data)
  /\ \A k \in 1..Len(b.data) :
       \/ List!IsValue(b.data[k]) /\ List!IsValue(d.data[k])
       \/ b.data[k] = d.data[k]

Shapes == SameShape(rec, dir) /\ (full => rec = dir)

ListInv == ListTypes /\ FitsInv /\ Tally /\ Loaded /\ Answered /\ Shapes

LEMMA ListFacts ==
  /\ Cmdlen \in Nat /\ MaxCalls \in Nat /\ MaxLen \in Nat
  /\ Events \in Nat /\ Events > 0
BY CamacAssumption DEF List!CcnetAssumption

----------------------------------------------------------------------------
(* CCNET: the words of a block.                                            *)

LEMMA IsSequence ==
  ASSUME NEW S, NEW n \in Nat, NEW f \in [1..n -> S]
  PROVE  f \in Seq(S) /\ Len(f) = n
OBVIOUS

\* The words of the n values v, and what they have in common with those of
\* other values.
LEMMA ShortsWords ==
  ASSUME NEW n \in Nat, NEW v \in [1..n -> Nat \X Nat]
  PROVE  /\ List!Shorts(v, n) \in Seq(Words) /\ Len(List!Shorts(v, n)) = n
         /\ \A k \in 1..n : List!IsValue(List!Shorts(v, n)[k])
<1> DEFINE s == List!Shorts(v, n)
<1>1. s = [k \in 1..n |-> <<"low", v[k][1], v[k][2]>>]
  BY DEF List!Shorts, List!Low
<1>2. \A k \in 1..n : v[k][1] \in Nat /\ v[k][2] \in Nat
  OBVIOUS
<1>3. s \in [1..n -> Words]
  BY <1>1, <1>2 DEF Words
<1>4. \A k \in 1..n : List!IsValue(s[k])
  BY <1>1 DEF List!IsValue
<1> QED BY <1>3, <1>4, IsSequence

LEMMA Halves ==
  ASSUME NEW n \in Nat, NEW k \in 1..(2 * n)
  PROVE  IF k % 2 = 1 THEN (k + 1) \div 2 \in 1..n ELSE k \div 2 \in 1..n
OBVIOUS

LEMMA IntsWords ==
  ASSUME NEW n \in Nat, NEW v \in [1..n -> Nat \X Nat]
  PROVE  /\ List!Ints(v, n) \in Seq(Words) /\ Len(List!Ints(v, n)) = 2 * n
         /\ \A k \in 1..(2 * n) : List!IsValue(List!Ints(v, n)[k])
<1> DEFINE s == List!Ints(v, n)
           m == 2 * n
           h(k) == IF k % 2 = 1 THEN (k + 1) \div 2 ELSE k \div 2
<1>1. /\ DOMAIN s = 1..m /\ m \in Nat
      /\ s = [k \in 1..m |-> s[k]]
  BY DEF List!Ints
<1>2. ASSUME NEW k \in 1..m
      PROVE  s[k] \in Words /\ s[k][1] # "number"
  <2>1. s[k] = <<IF k % 2 = 1 THEN "low" ELSE "high", v[h(k)][1], v[h(k)][2]>>
    BY DEF List!Ints, List!Low, List!High
  <2>2. h(k) \in 1..n
    BY Halves
  <2>3. v[h(k)][1] \in Nat /\ v[h(k)][2] \in Nat
    <3> HIDE DEF h
    <3> QED BY <2>2
  <2> HIDE DEF h, s
  <2> QED BY <2>1, <2>3 DEF Words
<1> HIDE DEF s, m
<1>3. s \in [1..m -> Words]
  BY <1>1, <1>2
<1> QED BY <1>1, <1>2, <1>3, IsSequence DEF s, m, List!IsValue

----------------------------------------------------------------------------
(* CCNET: an entry beside its call keeps the shape of the two blocks.      *)

LEMMA Joined ==
  ASSUME NEW s \in Seq(Words), NEW t \in Seq(Words), NEW n, NEW l,
         Len(s) = n, Len(t) = l
  PROVE  /\ s \o t \in Seq(Words) /\ Len(s \o t) = n + l
         /\ \A k \in 1..(n + l) :
              (s \o t)[k] = IF k <= n THEN s[k] ELSE t[k - n]
BY ConcatProperties

LEMMA Ended ==
  ASSUME NEW b \in BlockWords
  PROVE  List!end_segment(b)
           = [data |-> [b.data EXCEPT ![b.hmp] = List!Plain(b.size)],
              hmp |-> b.hmp, size |-> b.size]
BY DEF List!end_segment, BlockWords

LEMMA AddShape ==
  ASSUME NEW b, NEW d, SameShape(b, d),
         NEW ws \in Seq(Words), NEW vs \in Seq(Words), Len(ws) = Len(vs),
         \A k \in 1..Len(ws) : List!IsValue(ws[k]) /\ List!IsValue(vs[k])
  PROVE  SameShape(List!Add(b, ws), List!Add(d, vs))
<1> DEFINE n == Len(b.data)
           l == Len(ws)
<1>1. /\ b \in BlockWords /\ d \in BlockWords /\ n \in Nat /\ l \in Nat
      /\ ws \in Seq(Words) /\ vs \in Seq(Words)
      /\ \A k \in 1..n :
           \/ List!IsValue(b.data[k]) /\ List!IsValue(d.data[k])
           \/ b.data[k] = d.data[k]
      /\ b.hmp = d.hmp /\ b.size = d.size /\ b.hmp \in 0..n /\ Len(d.data) = n
      /\ b.data \in Seq(Words) /\ d.data \in Seq(Words)
      /\ b.size \in Nat /\ b.hmp \in Nat
      /\ Len(b.data) = n /\ Len(ws) = l /\ Len(vs) = l
  BY DEF SameShape, BlockWords
<1> HIDE DEF n, l
<1> DEFINE B == List!Add(b, ws)
           D == List!Add(d, vs)
<1>2. /\ B = [data |-> b.data \o ws, hmp |-> b.hmp, size |-> b.size + l]
      /\ D = [data |-> d.data \o vs, hmp |-> d.hmp, size |-> d.size + l]
  BY <1>1 DEF List!Add
<1> HIDE DEF B, D
<1>3. /\ b.data \o ws \in Seq(Words) /\ Len(b.data \o ws) = n + l
      /\ \A k \in 1..(n + l) :
           (b.data \o ws)[k] = IF k <= n THEN b.data[k] ELSE ws[k - n]
  <2>1. /\ b.data \in Seq(Words) /\ ws \in Seq(Words)
        /\ Len(b.data) = n /\ Len(ws) = l
    BY <1>1
  <2> QED BY ONLY <2>1, Joined
<1>4. /\ d.data \o vs \in Seq(Words) /\ Len(d.data \o vs) = n + l
      /\ \A k \in 1..(n + l) :
           (d.data \o vs)[k] = IF k <= n THEN d.data[k] ELSE vs[k - n]
  <2>1. /\ d.data \in Seq(Words) /\ vs \in Seq(Words)
        /\ Len(d.data) = n /\ Len(vs) = l
    BY <1>1
  <2> QED BY ONLY <2>1, Joined
<1>5. B \in BlockWords /\ D \in BlockWords
  <2>1. b.size + l \in Nat /\ d.size + l \in Nat
    BY <1>1
  <2> QED BY <1>1, <1>2, <1>3, <1>4, <2>1 DEF BlockWords
<1>6. /\ B.hmp = D.hmp /\ B.size = D.size /\ Len(B.data) = n + l
      /\ Len(D.data) = n + l /\ B.hmp \in 0..(n + l)
  <2>1. b.hmp \in 0..(n + l)
    BY <1>1
  <2> QED BY <1>1, <1>2, <1>3, <1>4, <2>1
<1>7. ASSUME NEW k \in 1..(n + l)
      PROVE  \/ List!IsValue(B.data[k]) /\ List!IsValue(D.data[k])
             \/ B.data[k] = D.data[k]
  <2>1. CASE k <= n
    <3>1. k \in 1..n
      BY <1>1, <2>1
    <3>2. \/ List!IsValue(b.data[k]) /\ List!IsValue(d.data[k])
          \/ b.data[k] = d.data[k]
      BY <1>1, <3>1, Zenon
    <3>3. B.data[k] = b.data[k] /\ D.data[k] = d.data[k]
      BY <1>2, <1>3, <1>4, <2>1
    <3> QED BY <3>2, <3>3
  <2>2. CASE ~(k <= n)
    <3>1. k - n \in 1..Len(ws)
      BY <1>1, <2>2
    <3>2. /\ (b.data \o ws)[k] = ws[k - n] /\ (d.data \o vs)[k] = vs[k - n]
      BY <1>3, <1>4, <2>2
    <3>3. B.data = b.data \o ws /\ D.data = d.data \o vs
      BY <1>2
    <3>4. List!IsValue(ws[k - n]) /\ List!IsValue(vs[k - n])
      BY <3>1
    <3> QED BY <3>2, <3>3, <3>4
  <2> QED BY <2>1, <2>2
<1>8. \A k \in 1..Len(B.data) :
        \/ List!IsValue(B.data[k]) /\ List!IsValue(D.data[k])
        \/ B.data[k] = D.data[k]
  BY <1>6, <1>7
<1>9. B.hmp \in 0..Len(B.data) /\ Len(B.data) = Len(D.data)
  BY <1>6
<1> QED BY <1>5, <1>6, <1>8, <1>9 DEF SameShape, B, D

LEMMA InitShape ==
  ASSUME NEW b, NEW d, SameShape(b, d), NEW id \in Nat
  PROVE  SameShape(List!init_segment(b, id), List!init_segment(d, id))
<1> DEFINE n == Len(b.data)
           ws == <<List!Plain(0), List!Plain(id)>>
           l == Len(ws)
           B == List!init_segment(b, id)
           D == List!init_segment(d, id)
<1>1. /\ n \in Nat /\ Len(d.data) = n /\ Len(b.data) = n
      /\ b.data \in Seq(Words) /\ d.data \in Seq(Words)
      /\ \A k \in 1..n :
           \/ List!IsValue(b.data[k]) /\ List!IsValue(d.data[k])
           \/ b.data[k] = d.data[k]
  BY DEF SameShape, BlockWords
<1>2. ws \in Seq(Words) /\ Len(ws) = 2
  <2>1. List!Plain(0) \in Words /\ List!Plain(id) \in Words
    BY DEF List!Plain, Words
  <2> QED BY <2>1
<1>3. /\ B = [data |-> b.data \o ws, hmp |-> n + 1, size |-> 2]
      /\ D = [data |-> d.data \o ws, hmp |-> n + 1, size |-> 2]
  BY <1>1 DEF List!init_segment
<1> HIDE DEF ws, B, D, n
<1>4. /\ b.data \o ws \in Seq(Words) /\ Len(b.data \o ws) = n + 2
      /\ \A k \in 1..(n + 2) :
           (b.data \o ws)[k] = IF k <= n THEN b.data[k] ELSE ws[k - n]
  <2>1. /\ b.data \in Seq(Words) /\ ws \in Seq(Words)
        /\ Len(b.data) = n /\ Len(ws) = l
    BY <1>1, <1>2
  <2> HIDE DEF l
  <2>2. /\ b.data \o ws \in Seq(Words) /\ Len(b.data \o ws) = n + l
        /\ \A k \in 1..(n + l) :
             (b.data \o ws)[k] = IF k <= n THEN b.data[k] ELSE ws[k - n]
    BY ONLY <2>1, Joined
  <2> QED BY <1>2, <2>2 DEF l
<1>5. /\ d.data \o ws \in Seq(Words) /\ Len(d.data \o ws) = n + 2
      /\ \A k \in 1..(n + 2) :
           (d.data \o ws)[k] = IF k <= n THEN d.data[k] ELSE ws[k - n]
  <2>1. /\ d.data \in Seq(Words) /\ ws \in Seq(Words)
        /\ Len(d.data) = n /\ Len(ws) = l
    BY <1>1, <1>2
  <2> HIDE DEF l
  <2>2. /\ d.data \o ws \in Seq(Words) /\ Len(d.data \o ws) = n + l
        /\ \A k \in 1..(n + l) :
             (d.data \o ws)[k] = IF k <= n THEN d.data[k] ELSE ws[k - n]
    BY ONLY <2>1, Joined
  <2> QED BY <1>2, <2>2 DEF l
<1>6. n + 1 \in Nat /\ n + 1 \in 0..(n + 2)
  BY <1>1
<1>7. B \in BlockWords /\ D \in BlockWords
  BY <1>3, <1>4, <1>5, <1>6 DEF BlockWords
<1>8. /\ B.hmp = D.hmp /\ B.size = D.size /\ Len(B.data) = n + 2
      /\ Len(D.data) = n + 2 /\ B.hmp \in 0..(n + 2)
  BY <1>3, <1>4, <1>5, <1>6
<1>9. ASSUME NEW k \in 1..(n + 2)
      PROVE  \/ List!IsValue(B.data[k]) /\ List!IsValue(D.data[k])
             \/ B.data[k] = D.data[k]
  <2>1. CASE k <= n
    <3>1. k \in 1..n
      BY <1>1, <2>1
    <3>2. \/ List!IsValue(b.data[k]) /\ List!IsValue(d.data[k])
          \/ b.data[k] = d.data[k]
      BY <1>1, <3>1, Zenon
    <3>3. B.data[k] = b.data[k] /\ D.data[k] = d.data[k]
      BY <1>3, <1>4, <1>5, <2>1
    <3> QED BY <3>2, <3>3
  <2>2. CASE ~(k <= n)
    <3>1. (b.data \o ws)[k] = ws[k - n] /\ (d.data \o ws)[k] = ws[k - n]
      BY <1>4, <1>5, <2>2
    <3>2. B.data = b.data \o ws /\ D.data = d.data \o ws
      BY <1>3
    <3> QED BY <3>1, <3>2
  <2> QED BY <2>1, <2>2
<1>10. \A k \in 1..Len(B.data) :
         \/ List!IsValue(B.data[k]) /\ List!IsValue(D.data[k])
         \/ B.data[k] = D.data[k]
  BY <1>8, <1>9
<1>11. B.hmp \in 0..Len(B.data) /\ Len(B.data) = Len(D.data)
  BY <1>8
<1> QED BY <1>7, <1>8, <1>10, <1>11 DEF SameShape, B, D

LEMMA EndShape ==
  ASSUME NEW b, NEW d, SameShape(b, d)
  PROVE  SameShape(List!end_segment(b), List!end_segment(d))
<1> DEFINE n == Len(b.data)
           w == List!Plain(b.size)
           B == List!end_segment(b)
           D == List!end_segment(d)
<1>1. /\ n \in Nat /\ Len(d.data) = n
      /\ b \in BlockWords /\ d \in BlockWords
      /\ b.data \in Seq(Words) /\ d.data \in Seq(Words)
      /\ b.hmp = d.hmp /\ b.size = d.size /\ b.size \in Nat
      /\ b.hmp \in Nat /\ b.hmp \in 0..n /\ Len(b.data) = n
      /\ \A k \in 1..n :
           \/ List!IsValue(b.data[k]) /\ List!IsValue(d.data[k])
           \/ b.data[k] = d.data[k]
  BY DEF SameShape, BlockWords
<1>2. w \in Words
  BY <1>1 DEF List!Plain, Words
<1>3. /\ B = [data |-> [b.data EXCEPT ![b.hmp] = w], hmp |-> b.hmp,
              size |-> b.size]
      /\ D = [data |-> [d.data EXCEPT ![b.hmp] = w], hmp |-> b.hmp,
              size |-> b.size]
  BY <1>1, Ended
<1> HIDE DEF w, B, D, n
<1>4. /\ B.data \in Seq(Words) /\ Len(B.data) = n
      /\ D.data \in Seq(Words) /\ Len(D.data) = n
      /\ \A k \in 1..n :
           /\ B.data[k] = IF k = b.hmp THEN w ELSE b.data[k]
           /\ D.data[k] = IF k = b.hmp THEN w ELSE d.data[k]
  <2>1. /\ b.data \in [1..n -> Words] /\ d.data \in [1..n -> Words]
    BY <1>1, LenProperties
  <2>2. B.data \in [1..n -> Words] /\ D.data \in [1..n -> Words]
    BY <1>2, <1>3, <2>1
  <2>3. \A k \in 1..n :
          /\ B.data[k] = IF k = b.hmp THEN w ELSE b.data[k]
          /\ D.data[k] = IF k = b.hmp THEN w ELSE d.data[k]
    BY <1>3, <2>1
  <2> QED BY <1>1, <2>2, <2>3, IsSequence
<1>5. B \in BlockWords /\ D \in BlockWords
  BY <1>1, <1>3, <1>4 DEF BlockWords
<1>6. ASSUME NEW k \in 1..n
      PROVE  \/ List!IsValue(B.data[k]) /\ List!IsValue(D.data[k])
             \/ B.data[k] = D.data[k]
  <2>1. \/ List!IsValue(b.data[k]) /\ List!IsValue(d.data[k])
        \/ b.data[k] = d.data[k]
    BY <1>1
  <2> QED BY <1>4, <2>1
<1>7. /\ B.hmp = D.hmp /\ B.size = D.size /\ Len(B.data) = n
      /\ Len(D.data) = n /\ B.hmp \in 0..n
  BY <1>1, <1>3, <1>4
<1>8. \A k \in 1..Len(B.data) :
        \/ List!IsValue(B.data[k]) /\ List!IsValue(D.data[k])
        \/ B.data[k] = D.data[k]
  BY <1>6, <1>7
<1>9. B.hmp \in 0..Len(B.data) /\ Len(B.data) = Len(D.data)
  BY <1>7
<1> QED BY <1>5, <1>7, <1>8, <1>9 DEF SameShape, B, D

----------------------------------------------------------------------------
(* CCNET: compiling.                                                       *)

LEMMA ListInit == List!Init => ListInv
<1> SUFFICES ASSUME List!Init PROVE ListInv
  OBVIOUS
<1>1. ListTypes
  <2>1. /\ <<>> \in Seq(CallsMade) /\ <<>> \in Seq(Entries)
        /\ <<>> \in Seq({0}) /\ Len(<<>>) = 0
    OBVIOUS
  <2>2. open \in BOOLEAN /\ full \in BOOLEAN
    BY DEF List!Init
  <2>3. Len(calls) = 0 /\ Len(segcmd) = 0 /\ Len(clrbuf) = 0
    BY <2>1 DEF List!Init
  <2>4. rplybuf \in [0..(2 * Cmdlen + 1) -> Nat \X Nat]
    BY DEF List!Init
  <2>5. /\ gen \in 0..Cmdlen /\ event \in 1..Events /\ i \in 0..0
        /\ taken \in 0..gen /\ idx = 2 + 2 * taken
    BY ListFacts DEF List!Init
  <2> QED BY <2>1, <2>2, <2>3, <2>4, <2>5 DEF List!Init, ListTypes
<1>2. FitsInv
  BY DEF List!Init, FitsInv
<1>3. Tally
  <2> DEFINE f == [k \in 0..0 |-> 0]
  <2>1. f \in [0..Len(calls) -> 0..gen] /\ Counts(f)
    BY DEF List!Init, Counts
  <2> QED BY <2>1 DEF Tally
<1>4. Loaded /\ Answered
  BY DEF List!Init, Loaded, Answered
<1>5. Shapes
  <2>1. List!Blank \in BlockWords /\ List!Blank.hmp = 0
        /\ Len(List!Blank.data) = 0
    BY DEF List!Blank, BlockWords
  <2> QED BY <2>1 DEF List!Init, Shapes, SameShape
<1> QED BY <1>1, <1>2, <1>3, <1>4, <1>5 DEF ListInv

\* A call's entry and commands: the two lists grow together.
LEMMA CompileKeeps ==
  ASSUME ListInv, NEW op, NEW arg, NEW cmd, NEW val, NEW n \in Nat,
         List!Compile(List!Call(op, arg), cmd, val, n), open' \in BOOLEAN,
         List!Call(op, arg) \in CallsMade,
         [cmd |-> cmd, val |-> val] \in Entries,
         Fits(List!Call(op, arg), [cmd |-> cmd, val |-> val]),
         List!Used(List!Call(op, arg)) = n
  PROVE  ListInv'
<1> DEFINE c == List!Call(op, arg)
           s == [cmd |-> cmd, val |-> val]
           l == Len(calls)
<1>1. /\ phase = "write" /\ gen + n <= Cmdlen
      /\ calls' = Append(calls, c) /\ segcmd' = Append(segcmd, s)
      /\ gen' = gen + n
      /\ UNCHANGED <<phase, cmdbuf, clrbuf, rplybuf, event, full, i, idx, rec,
                     dir, taken>>
  BY DEF List!Compile
<1>2. c \in CallsMade /\ s \in Entries /\ Fits(c, s) /\ List!Used(c) = n
  OBVIOUS
<1> HIDE DEF c, s
<1>3. /\ calls \in Seq(CallsMade) /\ segcmd \in Seq(Entries)
      /\ l \in Nat /\ Len(segcmd) = l /\ gen \in 0..Cmdlen /\ gen \in Nat
      /\ i \in 0..l /\ taken \in 0..gen
  BY ListFacts DEF ListInv, ListTypes
<1>4. /\ calls' \in Seq(CallsMade) /\ Len(calls') = l + 1 /\ calls'[l + 1] = c
      /\ \A k \in 1..l : calls'[k] = calls[k]
  BY ONLY <1>1, <1>2, <1>3, AppendProperties, LenProperties
<1>5. /\ segcmd' \in Seq(Entries) /\ Len(segcmd') = l + 1
      /\ segcmd'[l + 1] = s /\ \A k \in 1..l : segcmd'[k] = segcmd[k]
  BY ONLY <1>1, <1>2, <1>3, AppendProperties, LenProperties
<1>6. gen' \in 0..Cmdlen /\ \A x \in 0..gen : x \in 0..gen'
  BY <1>1, <1>3, ListFacts
<1>7. ListTypes'
  <2>1. full' \in BOOLEAN /\ open' \in BOOLEAN
    BY <1>1 DEF ListInv, ListTypes
  <2>2. i' \in 0..Len(calls') /\ taken' \in 0..gen'
    BY <1>1, <1>3, <1>4, <1>6
  <2> QED BY <1>1, <1>4, <1>5, <1>6, <2>1, <2>2 DEF ListInv, ListTypes
<1>8. FitsInv'
  <2> SUFFICES ASSUME NEW k \in 1..Len(calls')
               PROVE  Fits(calls'[k], segcmd'[k])
    BY DEF FitsInv
  <2>1. CASE k = l + 1
    BY <1>2, <1>4, <1>5, <2>1
  <2>2. CASE k # l + 1
    <3>1. k \in 1..l
      BY <1>3, <1>4, <2>2
    <3> QED BY <1>4, <1>5, <3>1 DEF ListInv, FitsInv
  <2> QED BY <2>1, <2>2
<1>9. Tally'
  <2>1. PICK f \in [0..l -> 0..gen] : Counts(f)
    BY DEF ListInv, Tally
  <2> DEFINE g == [k \in 0..(l + 1) |-> IF k = l + 1 THEN gen' ELSE f[k]]
  <2>2. g \in [0..Len(calls') -> 0..gen']
    <3>1. ASSUME NEW k \in 0..(l + 1) PROVE g[k] \in 0..gen'
      <4>1. CASE k = l + 1
        BY <1>1, <1>3, <4>1
      <4>2. CASE k # l + 1
        <5>1. k \in 0..l
          BY <1>3, <4>2
        <5> QED BY <1>6, <4>2, <5>1
      <4> QED BY <4>1, <4>2
    <3> QED BY <1>4, <3>1
  <2>3. g[0] = 0 /\ g[l + 1] = gen' /\ g[l] = gen
    BY <1>3, <2>1 DEF Counts
  <2>4. ASSUME NEW k \in 1..(l + 1)
        PROVE  g[k] = g[k - 1] + List!Used(calls'[k])
    <3>1. CASE k = l + 1
      BY <1>1, <1>2, <1>3, <1>4, <2>3, <3>1
    <3>2. CASE k # l + 1
      <4>1. k \in 1..l /\ k \in 0..l /\ k - 1 \in 0..l
        BY <1>3, <3>2
      <4>2. g[k] = f[k] /\ g[k - 1] = f[k - 1]
        BY <1>3, <4>1
      <4>3. f[k] = f[k - 1] + List!Used(calls[k]) /\ calls'[k] = calls[k]
        BY <1>4, <2>1, <4>1 DEF Counts
      <4> QED BY <4>2, <4>3
    <3> QED BY <3>1, <3>2
  <2> HIDE DEF g
  <2>5. PICK h : h = g
    OBVIOUS
  <2>6. Counts(h)'
    BY <1>1, <1>4, <2>2, <2>3, <2>4, <2>5 DEF Counts, List!Used
  <2> QED BY <2>2, <2>5, <2>6 DEF Tally
<1>10. Loaded' /\ Answered'
  BY <1>1 DEF ListInv, Loaded, Answered
<1>11. Shapes'
  BY <1>1 DEF ListInv, Shapes
<1> QED BY <1>7, <1>8, <1>9, <1>10, <1>11 DEF ListInv

LEMMA MadeKeeps ==
  ASSUME ListInv,
         \/ List!mk_init_segment(Len(calls) + 1)
         \/ List!mk_read_segdata \/ List!mk_read_segdata24
         \/ \E len \in 0..MaxLen : List!mk_read_segndata(len)
         \/ \E len \in 0..MaxLen : List!mk_read_segndata24(len)
         \/ List!mk_end_segment \/ List!mk_control_mod
  PROVE  ListInv'
<1>1. open \in BOOLEAN /\ Len(calls) + 1 \in Nat /\ MaxLen \in Nat
  <2>1. calls \in Seq(CallsMade)
    BY DEF ListInv, ListTypes
  <2> QED BY <2>1, ListFacts DEF ListInv, ListTypes
<1>2. ASSUME NEW id \in Nat, List!mk_init_segment(id) PROVE ListInv'
  <2>1. /\ open' \in BOOLEAN
        /\ List!Compile(List!Call("init", id), "INIT", id, 0)
    BY <1>2 DEF List!mk_init_segment
  <2>2. /\ List!Call("init", id) \in CallsMade
        /\ [cmd |-> "INIT", val |-> id] \in Entries
        /\ Fits(List!Call("init", id), [cmd |-> "INIT", val |-> id])
        /\ List!Used(List!Call("init", id)) = 0
    BY DEF List!Call, CallsMade, Entries, Fits, List!Used
  <2> QED BY <2>1, <2>2, CompileKeeps
<1>3. ASSUME NEW len \in Nat, List!mk_read_segndata(len) PROVE ListInv'
  <2>1. List!Compile(List!Call("read", len), "SHORT", len, len)
    BY <1>3 DEF List!mk_read_segndata
  <2>2. open' \in BOOLEAN
    BY <1>1, <1>3 DEF List!mk_read_segndata, List!More
  <2>3. /\ List!Call("read", len) \in CallsMade
        /\ [cmd |-> "SHORT", val |-> len] \in Entries
        /\ Fits(List!Call("read", len), [cmd |-> "SHORT", val |-> len])
        /\ List!Used(List!Call("read", len)) = len
    BY DEF List!Call, CallsMade, Entries, Fits, List!Used
  <2> QED BY <2>1, <2>2, <2>3, CompileKeeps
<1>4. ASSUME NEW len \in Nat, List!mk_read_segndata24(len) PROVE ListInv'
  <2>1. List!Compile(List!Call("read24", len), "INT", len, len)
    BY <1>4 DEF List!mk_read_segndata24
  <2>2. open' \in BOOLEAN
    BY <1>1, <1>4 DEF List!mk_read_segndata24, List!More
  <2>3. /\ List!Call("read24", len) \in CallsMade
        /\ [cmd |-> "INT", val |-> len] \in Entries
        /\ Fits(List!Call("read24", len), [cmd |-> "INT", val |-> len])
        /\ List!Used(List!Call("read24", len)) = len
    BY DEF List!Call, CallsMade, Entries, Fits, List!Used
  <2> QED BY <2>1, <2>2, <2>3, CompileKeeps
<1>5. ASSUME List!mk_end_segment PROVE ListInv'
  <2>1. open' \in BOOLEAN /\ List!Compile(List!Call("end", 0), "END", 0, 0)
    BY <1>5 DEF List!mk_end_segment
  <2>2. /\ List!Call("end", 0) \in CallsMade
        /\ [cmd |-> "END", val |-> 0] \in Entries
        /\ Fits(List!Call("end", 0), [cmd |-> "END", val |-> 0])
        /\ List!Used(List!Call("end", 0)) = 0
    BY DEF List!Call, CallsMade, Entries, Fits, List!Used
  <2> QED BY <2>1, <2>2, CompileKeeps
<1>6. ASSUME List!mk_control_mod PROVE ListInv'
  <2>1. List!Compile(List!Call("write", 0), "SKP", 1, 1)
    BY <1>6 DEF List!mk_control_mod
  <2>2. open' \in BOOLEAN
    BY <1>1, <1>6 DEF List!mk_control_mod, List!More
  <2>3. /\ List!Call("write", 0) \in CallsMade
        /\ [cmd |-> "SKP", val |-> 1] \in Entries
        /\ Fits(List!Call("write", 0), [cmd |-> "SKP", val |-> 1])
        /\ List!Used(List!Call("write", 0)) = 1
    BY DEF List!Call, CallsMade, Entries, Fits, List!Used
  <2> QED BY <2>1, <2>2, <2>3, CompileKeeps
<1>7. 1 \in Nat /\ \A len \in 0..MaxLen : len \in Nat
  BY <1>1
<1> QED BY <1>1, <1>2, <1>3, <1>4, <1>5, <1>6, <1>7
        DEF List!mk_read_segdata, List!mk_read_segdata24

\* Between two runs, and at the start of one, the counts are as they were.
LEMMA ListsStay ==
  ASSUME ListInv, UNCHANGED <<calls, open, segcmd, gen>>,
         phase' # "rec" \/ (i' = 0 /\ taken' = 0)
  PROVE  FitsInv' /\ Tally'
<1>1. FitsInv'
  BY DEF ListInv, FitsInv
<1>2. PICK f \in [0..Len(calls) -> 0..gen] : Counts(f)
  BY DEF ListInv, Tally
<1>3. Counts(f)'
  BY <1>2 DEF Counts, List!Used
<1> QED BY <1>1, <1>2, <1>3 DEF Tally

LEMMA MainKeeps == ASSUME ListInv, List!mk_main PROVE ListInv'
<1>1. /\ phase = "write" /\ phase' = "load"
      /\ UNCHANGED <<calls, open, segcmd, gen, cmdbuf, clrbuf, rplybuf, event,
                     full, i, idx, rec, dir, taken>>
  BY DEF List!mk_main, List!lists
<1>2. ListTypes'
  BY <1>1 DEF ListInv, ListTypes
<1>3. FitsInv' /\ Tally'
  BY <1>1, ListsStay
<1>4. Loaded' /\ Answered'
  BY <1>1 DEF ListInv, Loaded, Answered
<1>5. Shapes'
  BY <1>1 DEF ListInv, Shapes
<1> QED BY <1>2, <1>3, <1>4, <1>5 DEF ListInv

LEMMA BlankShape ==
  /\ SameShape(List!Blank, List!Blank) /\ List!Blank \in BlockWords
<1>1. List!Blank \in BlockWords /\ List!Blank.hmp = 0
      /\ Len(List!Blank.data) = 0
  BY DEF List!Blank, BlockWords
<1> QED BY <1>1 DEF SameShape

LEMMA StartupKeeps ==
  ASSUME ListInv, NEW n \in 0..1, List!ccnetstartup(n) PROVE ListInv'
<1>1. /\ phase \in {"load", "idle"} /\ phase' = "idle"
      /\ cmdbuf' = <<>> \o [c \in 1..gen |-> c]
      /\ clrbuf' = <<>> \o [c \in 1..n |-> 0]
      /\ rec' = List!Blank /\ dir' = List!Blank
      /\ UNCHANGED <<calls, open, segcmd, gen, rplybuf, event, i, idx, taken>>
  BY DEF List!ccnetstartup, List!lists, List!ccnet_gen_init
<1>2. full' = TRUE
  BY DEF List!ccnetstartup
<1>3. gen \in Nat /\ n \in Nat
  BY ListFacts DEF ListInv, ListTypes
<1>4. cmdbuf' = [c \in 1..gen |-> c]
  <2>1. [c \in 1..gen |-> c] \in Seq(Nat)
    BY <1>3, IsSequence
  <2> QED BY <1>1, <2>1, ConcatEmptySeq
<1>5. clrbuf' \in Seq({0}) /\ Len(clrbuf') \in 0..1
  <2> DEFINE z == [c \in 1..n |-> 0]
  <2>1. z \in [1..n -> {0}]
    OBVIOUS
  <2> HIDE DEF z
  <2>2. z \in Seq({0}) /\ Len(z) = n
    BY <1>3, <2>1, IsSequence
  <2>3. clrbuf' = <<>> \o z
    BY <1>1 DEF z
  <2>4. clrbuf' = z
    BY <2>2, <2>3, ConcatEmptySeq
  <2> QED BY <2>2, <2>4
<1>6. ListTypes'
  <2>1. full' \in BOOLEAN
    BY <1>2
  <2> QED BY <1>1, <1>5, <2>1 DEF ListInv, ListTypes
<1>7. FitsInv' /\ Tally'
  BY <1>1, ListsStay
<1>8. Loaded' /\ Answered'
  BY <1>1, <1>4 DEF Loaded, Answered
<1>9. Shapes'
  BY <1>1, BlankShape DEF Shapes
<1> QED BY <1>6, <1>7, <1>8, <1>9 DEF ListInv

----------------------------------------------------------------------------
(* CCNET: the list is run.                                                 *)

\* Replies are values, and those of the commands 1..n are the event's.
LEMMA RepliesFacts ==
  ASSUME ListInv, NEW buf \in Seq(Nat), NEW n \in Nat, n <= Len(buf),
         NEW e \in Nat
  PROVE  /\ List!Replies(buf, n, e) \in [0..(2 * Cmdlen + 1) -> Nat \X Nat]
         /\ n <= Cmdlen =>
              \A k \in 1..n : List!Replies(buf, n, e)[2 * k] = <<e, buf[k]>>
<1> DEFINE r == List!Replies(buf, n, e)
<1>1. /\ rplybuf \in [0..(2 * Cmdlen + 1) -> Nat \X Nat] /\ Cmdlen \in Nat
      /\ Len(buf) \in Nat
  BY ListFacts DEF ListInv, ListTypes
<1>2. r = [p \in 0..(2 * Cmdlen + 1) |->
             IF p % 2 = 0 /\ p \div 2 \in 1..n THEN <<e, buf[p \div 2]>>
                                               ELSE rplybuf[p]]
  BY <1>1 DEF List!Replies
<1> HIDE DEF r
<1>3. \A k \in 1..n : buf[k] \in Nat
  <2>1. \A k \in 1..n : k \in 1..Len(buf)
    BY <1>1
  <2> QED BY <2>1, ElementOfSeq
<1>4. ASSUME NEW p \in 0..(2 * Cmdlen + 1)
      PROVE  r[p] \in Nat \X Nat
  <2>1. CASE p % 2 = 0 /\ p \div 2 \in 1..n
    <3>1. r[p] = <<e, buf[p \div 2]>> /\ buf[p \div 2] \in Nat
      BY <1>2, <1>3, <2>1
    <3> QED BY <3>1
  <2>2. CASE ~(p % 2 = 0 /\ p \div 2 \in 1..n)
    BY <1>1, <1>2, <2>2
  <2> QED BY <2>1, <2>2
<1>5. ASSUME n <= Cmdlen, NEW k \in 1..n
      PROVE  r[2 * k] = <<e, buf[k]>>
  <2>1. 2 * k \in 0..(2 * Cmdlen + 1)
    BY <1>1, <1>5
  <2>2. (2 * k) % 2 = 0 /\ (2 * k) \div 2 = k
    OBVIOUS
  <2> QED BY <1>2, <2>1, <2>2
<1> QED BY <1>2, <1>4, <1>5 DEF r

LEMMA LoadedFacts ==
  ASSUME ListInv, phase \in {"idle", "rec"}
  PROVE  /\ cmdbuf \in Seq(Nat) /\ Len(cmdbuf) = gen /\ gen \in Nat
         /\ gen <= Cmdlen /\ \A k \in 1..gen : cmdbuf[k] = k
<1>1. gen \in Nat /\ gen <= Cmdlen
  BY ListFacts DEF ListInv, ListTypes
<1>2. cmdbuf = [c \in 1..gen |-> c]
  BY DEF ListInv, Loaded
<1> QED BY <1>1, <1>2, IsSequence

LEMMA NextEventIn == ListInv => List!NextEvent \in 1..Events
<1> SUFFICES ASSUME ListInv PROVE List!NextEvent \in 1..Events
  OBVIOUS
<1>1. event \in Nat /\ Events \in Nat /\ Events > 0
  BY ListFacts DEF ListInv, ListTypes
<1> QED BY <1>1 DEF List!NextEvent

LEMMA RecsegKeeps ==
  ASSUME ListInv, NEW n \in Nat, n <= Len(cmdbuf), n <= Cmdlen,
         List!Recseg(n)
  PROVE  ListInv'
<1>1. /\ phase = "idle" /\ phase' = "rec"
      /\ rplybuf' = List!Replies(cmdbuf, n, event')
      /\ i' = 0 /\ idx' = 2 /\ taken' = 0
      /\ rec' = List!Blank /\ dir' = List!Blank
      /\ UNCHANGED <<calls, open, segcmd, gen, cmdbuf, clrbuf>>
  BY DEF List!Recseg, List!lists
<1>2. full' = (n = Len(cmdbuf))
  BY DEF List!Recseg
<1>3. event' \in 1..Events /\ event' \in Nat
  BY NextEventIn, ListFacts DEF List!Recseg
<1>4. /\ cmdbuf \in Seq(Nat) /\ Len(cmdbuf) = gen /\ gen \in Nat
      /\ \A k \in 1..gen : cmdbuf[k] = k
  BY <1>1, LoadedFacts
<1>5. /\ rplybuf' \in [0..(2 * Cmdlen + 1) -> Nat \X Nat]
      /\ \A k \in 1..n : rplybuf'[2 * k] = <<event', cmdbuf[k]>>
  <2> DEFINE r == List!Replies(cmdbuf, n, event')
  <2>1. /\ r \in [0..(2 * Cmdlen + 1) -> Nat \X Nat]
        /\ \A k \in 1..n : r[2 * k] = <<event', cmdbuf[k]>>
    BY <1>3, <1>4, RepliesFacts
  <2>2. rplybuf' = r
    BY <1>1
  <2> QED BY <2>1, <2>2
<1>6. ListTypes'
  <2>1. full' \in BOOLEAN
    BY <1>2
  <2>2. i' \in 0..Len(calls') /\ taken' \in 0..gen' /\ idx' = 2 + 2 * taken'
    <3>1. Len(calls) \in Nat
      BY DEF ListInv, ListTypes
    <3> QED BY <1>1, <1>4, <3>1
  <2> QED BY <1>1, <1>3, <1>5, <2>1, <2>2 DEF ListInv, ListTypes
<1>7. FitsInv' /\ Tally'
  BY <1>1, ListsStay
<1>8. Loaded'
  BY <1>1 DEF ListInv, Loaded
<1>9. Answered'
  BY <1>1, <1>2, <1>4, <1>5 DEF Answered
<1>10. Shapes'
  BY <1>1, BlankShape DEF Shapes
<1> QED BY <1>6, <1>7, <1>8, <1>9, <1>10 DEF ListInv

LEMMA ReturnKeeps == ASSUME ListInv, List!Return PROVE ListInv'
<1>1. /\ phase = "rec" /\ phase' = "idle"
      /\ UNCHANGED <<calls, open, segcmd, gen, cmdbuf, clrbuf, rplybuf, event,
                     full, i, idx, rec, dir, taken>>
  BY DEF List!Return, List!lists
<1>2. ListTypes'
  BY <1>1 DEF ListInv, ListTypes
<1>3. FitsInv' /\ Tally'
  BY <1>1, ListsStay
<1>4. Loaded' /\ Answered'
  BY <1>1 DEF ListInv, Loaded, Answered
<1>5. Shapes'
  BY <1>1 DEF ListInv, Shapes
<1> QED BY <1>2, <1>3, <1>4, <1>5 DEF ListInv

LEMMA ClearKeeps == ASSUME ListInv, List!ccnet_clear PROVE ListInv'
<1>1. /\ phase = "idle" /\ phase' = phase
      /\ rplybuf' = List!Replies(clrbuf, Len(clrbuf), event)
      /\ UNCHANGED <<calls, open, segcmd, gen, cmdbuf, clrbuf, event,
                     full, i, idx, rec, dir, taken>>
  BY DEF List!ccnet_clear, List!lists
<1>2. clrbuf # <<>>
  BY DEF List!ccnet_clear
<1>3. rplybuf' \in [0..(2 * Cmdlen + 1) -> Nat \X Nat]
  <2>1. event \in Nat /\ clrbuf \in Seq(Nat)
    <3>1. clrbuf \in Seq({0}) /\ {0} \subseteq Nat
      BY DEF ListInv, ListTypes
    <3>2. clrbuf \in Seq(Nat)
      BY <3>1, SeqMonotonic
    <3> QED BY <3>2, ListFacts DEF ListInv, ListTypes
  <2>2. Len(clrbuf) \in Nat /\ Len(clrbuf) <= Len(clrbuf)
    BY <2>1
  <2> QED BY <1>1, <2>1, <2>2, RepliesFacts
<1>4. ListTypes'
  BY <1>1, <1>3 DEF ListInv, ListTypes
<1>5. FitsInv' /\ Tally'
  BY <1>1, ListsStay
<1>6. Loaded' /\ Answered'
  BY <1>1 DEF ListInv, Loaded, Answered
<1>7. Shapes'
  BY <1>1 DEF ListInv, Shapes
<1> QED BY <1>4, <1>5, <1>6, <1>7 DEF ListInv

LEMMA SegdataKeeps ==
  ASSUME ListInv, NEW n \in Nat, n <= Len(cmdbuf), n <= Cmdlen,
         List!ccnet_segdata(n)
  PROVE  ListInv'
<1> DEFINE v == [j \in 1..n |-> rplybuf'[2 * j]]
           u == [j \in 1..n |-> <<event', j>>]
           open0 == List!init_segment(List!Blank, 1)
<1>1. /\ phase = "idle" /\ phase' = phase
      /\ rplybuf' = List!Replies(cmdbuf, n, event')
      /\ rec' = List!end_segment(List!Add(open0, List!Shorts(v, n)))
      /\ dir' = List!end_segment(List!Add(open0, List!Shorts(u, n)))
      /\ UNCHANGED <<calls, open, segcmd, gen, cmdbuf, clrbuf, i, idx, taken>>
  BY DEF List!ccnet_segdata, List!SegdataWords, List!lists
<1>2. full' = TRUE
  BY DEF List!ccnet_segdata
<1>3. event' \in 1..Events /\ event' \in Nat
  BY NextEventIn, ListFacts DEF List!ccnet_segdata
<1>4. /\ cmdbuf \in Seq(Nat) /\ Len(cmdbuf) = gen /\ gen \in Nat
      /\ \A k \in 1..gen : cmdbuf[k] = k
  BY <1>1, LoadedFacts
<1>5. /\ rplybuf' \in [0..(2 * Cmdlen + 1) -> Nat \X Nat]
      /\ \A k \in 1..n : rplybuf'[2 * k] = <<event', cmdbuf[k]>>
  <2> DEFINE r == List!Replies(cmdbuf, n, event')
  <2>1. /\ r \in [0..(2 * Cmdlen + 1) -> Nat \X Nat]
        /\ \A k \in 1..n : r[2 * k] = <<event', cmdbuf[k]>>
    BY <1>3, <1>4, RepliesFacts
  <2>2. rplybuf' = r
    BY <1>1
  <2> QED BY <2>1, <2>2
<1>6. v = u /\ u \in [1..n -> Nat \X Nat]
  <2>1. \A j \in 1..n : rplybuf'[2 * j] = <<event', j>>
    BY <1>4, <1>5
  <2>2. v = u
    BY <2>1
  <2>3. u \in [1..n -> Nat \X Nat]
    BY <1>3
  <2> QED BY <2>2, <2>3
<1> HIDE DEF u, v
<1>7. ListTypes'
  <2>1. full' \in BOOLEAN
    BY <1>2
  <2> QED BY <1>1, <1>3, <1>5, <2>1 DEF ListInv, ListTypes
<1>8. FitsInv' /\ Tally'
  BY <1>1, ListsStay
<1>9. Loaded' /\ Answered'
  BY <1>1 DEF ListInv, Loaded, Answered
<1>10. Shapes'
  <2> DEFINE ws == List!Shorts(u, n)
             b == List!Add(open0, ws)
  <2>1. /\ ws \in Seq(Words) /\ \A k \in 1..Len(ws) : List!IsValue(ws[k])
    BY <1>6, ShortsWords
  <2>2. SameShape(open0, open0)
    BY BlankShape, InitShape
  <2> HIDE DEF ws, open0
  <2>3. SameShape(b, b)
    BY <2>1, <2>2, AddShape
  <2>4. SameShape(List!end_segment(b), List!end_segment(b))
    BY <2>3, EndShape
  <2>5. rec' = List!end_segment(b) /\ dir' = List!end_segment(b)
    BY <1>1, <1>6 DEF ws
  <2> QED BY <2>4, <2>5 DEF Shapes
<1> QED BY <1>7, <1>8, <1>9, <1>10 DEF ListInv

\* An entry takes as many replies as its call executes commands.
LEMMA EntryKeeps == ASSUME ListInv, List!Entry PROVE ListInv'
<1> DEFINE k == i + 1
           s == segcmd[k]
           c == calls[k]
           m == List!Used(c)
           v == List!FromIdx(m)
           u == List!FromCamac(m)
<1>1. /\ phase = "rec" /\ phase' = phase /\ i < Len(segcmd)
      /\ rec' = List!Interpreted(rec, s) /\ idx' = List!IdxAfter(s)
      /\ dir' = List!Direct(dir, c) /\ taken' = taken + m /\ i' = k
      /\ UNCHANGED <<calls, open, segcmd, gen, cmdbuf, clrbuf, rplybuf, event,
                     full>>
  BY DEF List!Entry, List!lists
<1>2. /\ k \in 1..Len(calls) /\ Len(calls) \in Nat /\ i \in 0..Len(calls)
      /\ k - 1 = i
  BY <1>1 DEF ListInv, ListTypes
<1>3. s \in Entries /\ c \in CallsMade /\ Fits(c, s)
  <2>1. Fits(c, s)
    BY <1>2 DEF ListInv, FitsInv
  <2>2. /\ segcmd \in Seq(Entries) /\ calls \in Seq(CallsMade)
        /\ k \in 1..Len(segcmd)
    BY <1>2 DEF ListInv, ListTypes
  <2>3. s \in Entries /\ c \in CallsMade
    BY <1>2, <2>2, ElementOfSeq
  <2> QED BY <2>1, <2>3
<1>4. /\ m \in Nat /\ idx' = idx + 2 * m
      /\ s.cmd \in {"SHORT", "INT"} => s.val = m
  <2>1. idx \in Int
    BY ListFacts DEF ListInv, ListTypes
  <2> HIDE DEF s, c
  <2> QED BY <1>1, <1>3, <2>1
          DEF Fits, Entries, CallsMade, List!Used, List!IdxAfter
<1>5. PICK f \in [0..Len(calls) -> 0..gen] : Counts(f)
  BY DEF ListInv, Tally
<1>6. taken' = f[k] /\ taken' \in 0..gen
  BY <1>1, <1>2, <1>5 DEF Counts
<1>7. /\ taken \in Nat /\ gen \in Nat /\ gen <= Cmdlen /\ Cmdlen \in Nat
      /\ idx = 2 + 2 * taken /\ event \in Nat
      /\ rplybuf \in [0..(2 * Cmdlen + 1) -> Nat \X Nat]
  BY ListFacts DEF ListInv, ListTypes
<1>8. /\ v \in [1..m -> Nat \X Nat] /\ u \in [1..m -> Nat \X Nat]
      /\ full => v = u
  <2> HIDE DEF m
  <2>1. ASSUME NEW j \in 1..m
        PROVE  /\ 2 * (j - 1) + idx = 2 * (taken + j) /\ taken + j \in 1..gen
               /\ 2 * (taken + j) \in 0..(2 * Cmdlen + 1)
    BY <1>1, <1>4, <1>6, <1>7
  <2>2. v = [j \in 1..m |-> rplybuf[2 * (j - 1) + idx]]
    BY DEF List!FromIdx
  <2>3. u = [j \in 1..m |-> <<event, taken + j>>]
    BY DEF List!FromCamac
  <2>4. ASSUME NEW j \in 1..m
        PROVE  rplybuf[2 * (j - 1) + idx] \in Nat \X Nat
    BY <1>7, <2>1
  <2>5. ASSUME full, NEW j \in 1..m
        PROVE  rplybuf[2 * (j - 1) + idx] = <<event, taken + j>>
    <3>1. rplybuf[2 * (taken + j)] = <<event, taken + j>>
      BY <1>1, <2>1, <2>5 DEF ListInv, Answered
    <3> QED BY <2>1, <3>1
  <2>6. v \in [1..m -> Nat \X Nat]
    BY <2>2, <2>4
  <2>7. u \in [1..m -> Nat \X Nat]
    BY <1>4, <1>7, <2>3
  <2>8. ASSUME full PROVE v = u
    BY <2>2, <2>3, <2>5, <2>8
  <2> QED BY <2>6, <2>7, <2>8
<1>9. ListTypes'
  <2>1. full' \in BOOLEAN /\ open' \in BOOLEAN
    BY <1>1 DEF ListInv, ListTypes
  <2>2. i' \in 0..Len(calls')
    BY <1>1, <1>2
  <2>3. idx' = 2 + 2 * taken'
    <3> HIDE DEF m
    <3> QED BY <1>1, <1>4, <1>7
  <2> QED BY <1>1, <1>6, <2>1, <2>2, <2>3 DEF ListInv, ListTypes
<1>10. FitsInv'
  BY <1>1 DEF ListInv, FitsInv
<1>11. Tally'
  <2>1. Counts(f)'
    BY <1>1, <1>5, <1>6 DEF Counts, List!Used
  <2> QED BY <1>1, <1>5, <2>1 DEF Tally
<1>12. Loaded' /\ Answered'
  BY <1>1 DEF ListInv, Loaded, Answered
<1>13. Shapes'
  <2>1. SameShape(rec, dir) /\ (full => rec = dir)
    BY DEF ListInv, Shapes
  <2>2. SameShape(rec', dir') /\ (full => rec' = dir')
    <3>1. CASE c.op = "init"
      <4>1. /\ rec' = List!init_segment(rec, c.arg)
            /\ dir' = List!init_segment(dir, c.arg) /\ c.arg \in Nat
        BY <1>1, <1>3, <3>1
           DEF Fits, CallsMade, List!Interpreted, List!Direct
      <4> QED BY <2>1, <4>1, InitShape
    <3>2. CASE c.op = "read"
      <4>1. /\ rec' = List!Add(rec, List!Shorts(v, m))
            /\ dir' = List!Add(dir, List!Shorts(u, m))
        BY <1>1, <1>3, <3>2
           DEF Fits, List!Used, List!Interpreted, List!Direct,
               List!read_segndata
      <4> HIDE DEF u, v, m
      <4>2. /\ List!Shorts(v, m) \in Seq(Words)
            /\ Len(List!Shorts(v, m)) = m
            /\ \A x \in 1..m : List!IsValue(List!Shorts(v, m)[x])
            /\ List!Shorts(u, m) \in Seq(Words)
            /\ Len(List!Shorts(u, m)) = m
            /\ \A x \in 1..m : List!IsValue(List!Shorts(u, m)[x])
        BY <1>4, <1>8, ShortsWords
      <4>3. SameShape(rec', dir')
        BY <2>1, <4>1, <4>2, AddShape
      <4> QED BY <1>8, <2>1, <4>1, <4>3
    <3>3. CASE c.op = "read24"
      <4>1. /\ rec' = List!Add(rec, List!Ints(v, m))
            /\ dir' = List!Add(dir, List!Ints(u, m))
        BY <1>1, <1>3, <3>3
           DEF Fits, List!Used, List!Interpreted, List!Direct,
               List!read_segdata24
      <4> HIDE DEF u, v, m
      <4>2. /\ List!Ints(v, m) \in Seq(Words)
            /\ Len(List!Ints(v, m)) = 2 * m
            /\ \A x \in 1..(2 * m) : List!IsValue(List!Ints(v, m)[x])
            /\ List!Ints(u, m) \in Seq(Words)
            /\ Len(List!Ints(u, m)) = 2 * m
            /\ \A x \in 1..(2 * m) : List!IsValue(List!Ints(u, m)[x])
        BY <1>4, <1>8, IntsWords
      <4>3. SameShape(rec', dir')
        BY <2>1, <4>1, <4>2, AddShape
      <4> QED BY <1>8, <2>1, <4>1, <4>3
    <3>4. CASE c.op = "end"
      <4>1. /\ rec' = List!end_segment(rec) /\ dir' = List!end_segment(dir)
        BY <1>1, <1>3, <3>4 DEF Fits, List!Interpreted, List!Direct
      <4> QED BY <2>1, <4>1, EndShape
    <3>5. CASE c.op = "write"
      <4>1. rec' = rec /\ dir' = dir
        BY <1>1, <1>3, <3>5 DEF Fits, List!Interpreted, List!Direct
      <4> QED BY <2>1, <4>1
    <3> QED BY <1>3, <3>1, <3>2, <3>3, <3>4, <3>5 DEF CallsMade
  <2>3. full' = full
    BY <1>1
  <2> QED BY <2>2, <2>3 DEF Shapes
<1> QED BY <1>9, <1>10, <1>11, <1>12, <1>13 DEF ListInv

----------------------------------------------------------------------------
(* CCNET: every behaviour.                                                 *)

LEMMA ListNext == ASSUME ListInv, List!Next PROVE ListInv'
<1>1. ASSUME NEW n \in (0..Len(cmdbuf)) \cap (0..Cmdlen),
             List!Recseg(n) \/ List!ccnet_segdata(n)
      PROVE  ListInv'
  <2>1. n \in Nat /\ n <= Len(cmdbuf) /\ n <= Cmdlen
    <3>1. phase = "idle"
      BY <1>1 DEF List!Recseg, List!ccnet_segdata
    <3>2. Len(cmdbuf) \in Nat
      BY <3>1, LoadedFacts
    <3> QED BY <3>2, ListFacts
  <2> QED BY <1>1, <2>1, RecsegKeeps, SegdataKeeps
<1>2. ASSUME NEW n \in 0..1, List!ccnetstartup(n) PROVE ListInv'
  BY <1>2, StartupKeeps
<1> QED BY <1>1, <1>2, MadeKeeps, MainKeeps, EntryKeeps, ReturnKeeps,
           ClearKeeps
        DEF List!Next

LEMMA ListStays == ASSUME ListInv, UNCHANGED controller PROVE ListInv'
<1>1. UNCHANGED <<phase, calls, open, segcmd, gen, cmdbuf, clrbuf, rplybuf,
                  event, full, i, idx, rec, dir, taken>>
  BY DEF controller
<1>2. ListTypes'
  BY <1>1 DEF ListInv, ListTypes
<1>3. FitsInv' /\ Loaded' /\ Answered'
  BY <1>1 DEF ListInv, FitsInv, Loaded, Answered
<1>4. Tally'
  <2>1. PICK f \in [0..Len(calls) -> 0..gen] : Counts(f)
    BY DEF ListInv, Tally
  <2>2. Counts(f)'
    BY <1>1, <2>1 DEF Counts, List!Used
  <2> QED BY <1>1, <2>1, <2>2 DEF Tally
<1>5. Shapes'
  BY <1>1 DEF ListInv, Shapes
<1> QED BY <1>2, <1>3, <1>4, <1>5 DEF ListInv

LEMMA ListStep == ListInv /\ [Next]_vars => ListInv'
<1> SUFFICES ASSUME ListInv, [Next]_vars PROVE ListInv'
  OBVIOUS
<1>1. CASE NextList
  BY <1>1, ListNext DEF NextList
<1>2. NextBlocks \/ UNCHANGED vars => UNCHANGED controller
  BY DEF NextBlocks, vars
<1> QED BY <1>1, <1>2, ListStays DEF Next

\* mkccnetsegment.c keeps its three lists in step (a command, the words of its
\* reply, an entry of a segment), and ccnetevt.c executes and takes them so.
THEOREM ListInvHolds == Spec => []ListInv
<1>1. Init => ListInv
  BY ListInit DEF Init
<1> QED BY <1>1, ListStep, PTL DEF Spec

\* ccnet_recseg ends with its index behind the reply of the last command that
\* was generated, however long the list.
THEOREM AllAreTaken == Spec => []AllTaken
<1>1. ListInv => AllTaken
  <2> SUFFICES ASSUME ListInv, phase = "rec", i = Len(segcmd)
               PROVE  idx = 2 + 2 * Len(cmdbuf)
    BY DEF AllTaken, List!AllTaken
  <2>1. PICK f \in [0..Len(calls) -> 0..gen] : Counts(f)
    BY DEF ListInv, Tally
  <2>2. taken = gen
    BY <2>1 DEF ListInv, ListTypes, Counts
  <2>3. Len(cmdbuf) = gen /\ idx = 2 + 2 * taken
    BY LoadedFacts DEF ListInv, ListTypes
  <2> QED BY <2>2, <2>3
<1> QED BY <1>1, ListInvHolds, PTL

\* What ccnet_recseg and ccnet_segdata leave in a block is what direct reads by
\* the same calls leave, when no reply is missing.
THEOREM SameAsDirectly == Spec => []SameAsDirect
<1>1. ListInv => SameAsDirect
  BY DEF ListInv, Shapes, SameAsDirect, List!SameAsDirect
<1> QED BY <1>1, ListInvHolds, PTL

\* Missing replies spoil values; sizes, identifiers and places stay right.
THEOREM ShapeIsKept == Spec => []ShapeKept
<1>1. ListInv => ShapeKept
  BY DEF ListInv, Shapes, SameShape, ShapeKept, List!ShapeKept
<1> QED BY <1>1, ListInvHolds, PTL

----------------------------------------------------------------------------
(* Types.  A word of a block has 16 bits: for that, a block is too short   *)
(* for an event's size to reach the flag beside it.                        *)

WordsFit == data \in [0..(Top - 1) -> -1..Blocks!End]

LEMMA InWord ==
  /\ \A x \in Nat : x <= Blocks!End => x \in -1..Blocks!End
  /\ -1 \in -1..Blocks!End
<1>1. Blocks!End \in Nat
  BY DEF Blocks!End
<1> QED BY <1>1

LEMMA WordsStay ==
  ASSUME WordsFit, NEW ws, \A x \in DOMAIN ws : ws[x] \in -1..Blocks!End,
         Blocks!Write(ws)
  PROVE  WordsFit'
<1>1. data' = [x \in 0..(Top - 1) |->
                 IF x \in DOMAIN ws THEN ws[x] ELSE data[x]]
  BY DEF Blocks!Write, WordsFit
<1>2. data \in [0..(Top - 1) -> -1..Blocks!End]
  BY DEF WordsFit
<1> QED BY <1>1, <1>2 DEF WordsFit

LEMMA RunStays ==
  ASSUME WordsFit, NEW a, NEW n, NEW w \in -1..Blocks!End,
         Blocks!Write(Blocks!Words(a, n, w))
  PROVE  WordsFit'
<1> DEFINE ws == Blocks!Words(a, n, w)
<1>1. \A x \in DOMAIN ws : ws[x] \in -1..Blocks!End
  BY DEF Blocks!Words
<1> HIDE DEF ws
<1> QED BY <1>1, WordsStay DEF ws

LEMMA WordsNext ==
  ASSUME Top < Blocks!Flag, MaxBlocks <= Blocks!End, BlocksInv, WordsFit,
         Blocks!Next
  PROVE  WordsFit'
<1>1. /\ Top \in Nat /\ MaxBlocks \in Nat /\ MaxLen \in Nat
      /\ mp \in 0..Top /\ blkid \in 0..MaxBlocks
      /\ eventsize \in 0..Top /\ segmentsize \in 0..Top
  BY BlocksFacts, TypesOf
<1>2. /\ eventsize + Blocks!Flag \in -1..Blocks!End
      /\ eventsize + 1 \in -1..Blocks!End /\ eventsize + 4 \in -1..Blocks!End
      /\ segmentsize + 2 \in -1..Blocks!End /\ segmentsize \in -1..Blocks!End
      /\ blkid \in -1..Blocks!End /\ 0 \in -1..Blocks!End
      /\ 1 \in -1..Blocks!End /\ 32 \in -1..Blocks!End
      /\ 8192 \in -1..Blocks!End /\ Blocks!Mark \in -1..Blocks!End
      /\ Blocks!End \in -1..Blocks!End /\ Blocks!Value \in -1..Blocks!End
  <2>1. Top < 32768 /\ MaxBlocks <= 65535 /\ Blocks!End = 65535
    BY DEF Blocks!Flag, Blocks!End
  <2>2. /\ eventsize \in Nat /\ eventsize < 32768
        /\ segmentsize \in Nat /\ segmentsize < 32768
        /\ blkid \in Nat /\ blkid <= 65535
    BY <1>1, <2>1
  <2>3. eventsize + 32768 \in Nat /\ eventsize + 32768 <= 65535
    BY <2>2
  <2>4. /\ eventsize + 1 <= 65535 /\ eventsize + 4 <= 65535
        /\ segmentsize + 2 <= 65535 /\ segmentsize <= 65535
    BY <2>2
  <2>5. /\ eventsize + 1 \in Nat /\ eventsize + 4 \in Nat
        /\ segmentsize + 2 \in Nat
    BY <2>2
  <2>6. 52343 <= 65535 /\ 8192 <= 65535 /\ 32 <= 65535 /\ 1 <= 65535
        /\ 0 <= 65535 /\ 65535 <= 65535
    OBVIOUS
  <2>7. \A x \in Nat : x <= 65535 => x \in -1..Blocks!End
    <3>1. \A x \in Nat : x <= 65535 => x <= Blocks!End
      BY DEF Blocks!End
    <3> QED BY <3>1, InWord
  <2>8. Blocks!Value \in -1..Blocks!End
    BY InWord DEF Blocks!Value
  <2>9. Blocks!End \in -1..Blocks!End
    <3>1. Blocks!End \in Nat /\ Blocks!End <= Blocks!End
      BY DEF Blocks!End
    <3> QED BY <3>1, InWord
  <2> QED BY <2>2, <2>3, <2>4, <2>5, <2>6, <2>7, <2>8, <2>9
          DEF Blocks!Flag, Blocks!Mark
<1>3. ASSUME Blocks!init_mem PROVE WordsFit'
  <2>1. data' = [j \in DOMAIN data |-> 0]
    BY <1>3 DEF Blocks!init_mem
  <2>2. DOMAIN data = 0..(Top - 1)
    BY DEF WordsFit
  <2> QED BY <1>2, <2>1, <2>2 DEF WordsFit
<1>4. ASSUME Blocks!init_block PROVE WordsFit'
  <2> DEFINE vs == [j \in 0..1 |-> IF j = 0 THEN 0 ELSE blkid]
             ws == [j \in 0..3 |-> IF j = 1 THEN 32
                                   ELSE IF j = 2 THEN 8192 ELSE 0]
  <2>1. \/ Blocks!Write(Blocks!Words(0, 2, 0))
        \/ Blocks!Write(vs) \/ Blocks!Write(ws)
    <3>1. format \in {"BBRL", "BBDAQ", "IWADAQ"}
      BY TypesOf
    <3> HIDE DEF vs, ws
    <3>2. CASE format = "BBRL"
      BY <1>4, <3>2 DEF Blocks!init_block
    <3>3. CASE format = "BBDAQ"
      BY <1>4, <3>3 DEF Blocks!init_block, vs
    <3>4. CASE format = "IWADAQ"
      BY <1>4, <3>4 DEF Blocks!init_block, ws
    <3> QED BY <3>1, <3>2, <3>3, <3>4
  <2>2. \A x \in DOMAIN vs : vs[x] \in -1..Blocks!End
    BY <1>2
  <2>3. \A x \in DOMAIN ws : ws[x] \in -1..Blocks!End
    BY <1>2
  <2> HIDE DEF vs, ws
  <2> QED BY <1>2, <2>1, <2>2, <2>3, WordsStay, RunStays
<1>5. ASSUME Blocks!init_event PROVE WordsFit'
  <2>1. Blocks!Write(Blocks!Words(mp + 1, 2, 1)) \/ data' = data
    BY <1>5 DEF Blocks!init_event
  <2> QED BY <1>2, <2>1, RunStays DEF WordsFit
<1>6. ASSUME Blocks!init_segment PROVE WordsFit'
  <2>1. \/ Blocks!Write(Blocks!Words(mp + 1, 1, 1))
        \/ Blocks!Write(Blocks!Words(mp, 1, Blocks!Mark))
    BY <1>6 DEF Blocks!init_segment
  <2> QED BY <1>2, <2>1, RunStays
<1>7. ASSUME Blocks!end_segment PROVE WordsFit'
  <2>1. Blocks!Write(Blocks!Words(segmenthmp, 1, Blocks!SizeWritten))
    BY <1>7 DEF Blocks!end_segment
  <2>2. Blocks!SizeWritten \in -1..Blocks!End
    BY <1>2 DEF Blocks!SizeWritten
  <2> QED BY <2>1, <2>2, RunStays
<1>8. ASSUME Blocks!end_event PROVE WordsFit'
  <2>1. \/ Blocks!Write(Blocks!Words(eventhmp, 1, eventsize + Blocks!Flag))
        \/ data' = data
    BY <1>8 DEF Blocks!end_event
  <2> QED BY <1>2, <2>1, RunStays DEF WordsFit
<1>9. ASSUME Blocks!end_block PROVE WordsFit'
  <2> DEFINE vs == [j \in {2, mp} |->
                      IF j = 2 THEN eventsize + 1 ELSE Blocks!End]
             ws == [j \in {3, mp, mp + 1} |->
                      IF j = 3 THEN eventsize + 4 ELSE Blocks!End]
  <2>1. \/ Blocks!Write(Blocks!Words(mp, 2, Blocks!End))
        \/ Blocks!Write(vs) \/ Blocks!Write(ws)
    <3>1. format \in {"BBRL", "BBDAQ", "IWADAQ"}
      BY TypesOf
    <3> QED BY <1>9, <3>1 DEF Blocks!end_block
  <2>2. \A x \in DOMAIN vs : vs[x] \in -1..Blocks!End
    BY <1>2
  <2>3. \A x \in DOMAIN ws : ws[x] \in -1..Blocks!End
    BY <1>2
  <2> HIDE DEF vs, ws
  <2> QED BY <1>2, <2>1, <2>2, <2>3, WordsStay, RunStays
<1>10. ASSUME NEW n, NEW c, Blocks!Read(n, c) PROVE WordsFit'
  BY <1>2, <1>10, RunStays DEF Blocks!Read
<1>11. ASSUME NEW n \in Nat, NEW ws \in Seq(0..n), NEW s \in Nat, NEW c,
              s = n + 2 + Len(ws), Blocks!Segment(s, ws, n, c)
       PROVE  WordsFit'
  <2> DEFINE W == [j \in mp..(mp + 1 + Len(ws) + n) |->
                     IF j = mp THEN s ELSE IF j = mp + 1 THEN 1
                     ELSE IF j - mp - 1 \in DOMAIN ws THEN ws[j - mp - 1]
                     ELSE Blocks!Value]
  <2>1. Blocks!Write(W) /\ mp + 2 + Len(ws) + n + 2 <= Top
    BY <1>11 DEF Blocks!Segment
  <2>2. s \in -1..Blocks!End /\ \A x \in 0..n : x \in -1..Blocks!End
    <3> DEFINE l == Len(ws)
    <3>1. l \in Nat /\ mp + 2 + l + n + 2 <= Top /\ s = n + 2 + l
      BY <1>11, <2>1
    <3>2. Top <= Blocks!End /\ Blocks!End \in Nat
      BY <1>1 DEF Blocks!Flag, Blocks!End
    <3> HIDE DEF l
    <3>3. s \in Nat /\ s <= Blocks!End /\ n <= Blocks!End
      BY <1>1, <3>1, <3>2
    <3>4. \A x \in 0..n : x \in Nat /\ x <= Blocks!End
      BY <3>2, <3>3
    <3> QED BY <3>3, <3>4, InWord
  <2>3. ASSUME NEW j \in DOMAIN W PROVE W[j] \in -1..Blocks!End
    <3>1. \A x \in DOMAIN ws : ws[x] \in -1..Blocks!End
      BY <1>11, <2>2
    <3> QED BY <1>2, <2>2, <3>1
  <2> HIDE DEF W
  <2> QED BY <2>1, <2>3, WordsStay
<1>12. ASSUME NEW len \in 0..MaxLen, Blocks!OfLength(len) PROVE WordsFit'
  <2>1. len \in Nat
    BY <1>1
  <2>2. \/ \E n, c : Blocks!Read(n, c)
        \/ Blocks!Segment(len + 2, <<>>, len, len + 2)
        \/ Blocks!Segment(len + 3, <<len>>, len, len + 3)
    BY <1>12 DEF Blocks!OfLength, Blocks!read_segndata,
         Blocks!read_segsdata, Blocks!read_segbdata, Blocks!read_segqrdata,
         Blocks!read_segqsdata, Blocks!madc32_map_segdata,
         Blocks!read_segmod, Blocks!read_segsmod, Blocks!read_segbmod,
         Blocks!read_segmemmod
  <2>3. /\ <<>> \in Seq(0..len) /\ len + 2 \in Nat
        /\ len + 2 = len + 2 + Len(<<>>)
    BY <2>1, EmptySeq
  <2>4. /\ <<len>> \in Seq(0..len) /\ len + 3 \in Nat
        /\ len + 3 = len + 2 + Len(<<len>>)
    BY <2>1
  <2> QED BY <1>10, <1>11, <2>1, <2>2, <2>3, <2>4
<1>13. ASSUME Blocks!OfOneWord \/ Blocks!OfTwoWords PROVE WordsFit'
  <2>1. \E n, c : Blocks!Read(n, c)
    BY <1>13 DEF Blocks!OfOneWord, Blocks!OfTwoWords, Blocks!read_segdata,
         Blocks!rpv130_segdata, Blocks!read_segdata24, Blocks!caen_dummy,
         Blocks!v560_segdata
  <2> QED BY <1>10, <2>1
<1> QED BY <1>3, <1>4, <1>5, <1>6, <1>7, <1>8, <1>9, <1>12, <1>13
        DEF Blocks!Next

\* The variables hold values of the code's variables: the words of a block 16
\* bits, as long as the block is shorter than the 0x8000 words at which the
\* size of an event meets its flag (data[] of bbrl.c has BLKSIZE / 2, 0x2000)
\* and its number fits in the word for it.
THEOREM CamacTypesHold ==
  ASSUME Top < Blocks!Flag, MaxBlocks <= Blocks!End
  PROVE  Spec => []TypeOK
<1>1. Init => WordsFit
  <2> SUFFICES ASSUME Init PROVE WordsFit
    OBVIOUS
  <2>1. data = [j \in 0..(Top - 1) |-> 0]
    BY DEF Init, Blocks!Init
  <2>2. 0 \in -1..Blocks!End
    <3>1. 0 \in Nat /\ 0 <= Blocks!End
      BY DEF Blocks!End
    <3> QED BY <3>1, InWord
  <2> QED BY <2>1, <2>2 DEF WordsFit
<1>2. BlocksInv /\ WordsFit /\ [Next]_vars => WordsFit'
  <2> SUFFICES ASSUME BlocksInv, WordsFit, [Next]_vars PROVE WordsFit'
    OBVIOUS
  <2>1. CASE NextBlocks
    BY <2>1, WordsNext DEF NextBlocks
  <2>2. CASE UNCHANGED data
    BY <2>2 DEF WordsFit
  <2>3. NextList \/ UNCHANGED vars => UNCHANGED data
    BY DEF NextList, vars, bridge
  <2> QED BY <2>1, <2>2, <2>3 DEF Next
<1>3. BlocksInv /\ WordsFit => Blocks!TypeOK
  BY DEF BlocksInv, BlocksTypes, WordsFit, Blocks!TypeOK
<1>4. ListInv => List!TypeOK
  <2> SUFFICES ASSUME ListInv PROVE List!TypeOK
    OBVIOUS
  <2>1. open \in BOOLEAN /\ full \in BOOLEAN
    BY DEF ListInv, ListTypes
  <2>2. /\ phase \in {"write", "load", "idle", "rec"} /\ gen \in 0..Cmdlen
        /\ Len(clrbuf) \in 0..1 /\ event \in 1..Events
        /\ i \in 0..Len(segcmd)
    BY DEF ListInv, ListTypes
  <2>3. Len(cmdbuf) \in {0, gen}
    <3>1. CASE phase \in {"idle", "rec"}
      BY <3>1, LoadedFacts
    <3>2. CASE phase \notin {"idle", "rec"}
      <4>1. cmdbuf = <<>>
        BY <3>2 DEF ListInv, Loaded
      <4> QED BY <4>1
    <3> QED BY <3>1, <3>2
  <2>4. taken \in 0..Cmdlen /\ idx \in 2..(2 * Cmdlen + 2)
    <3>1. /\ taken \in 0..gen /\ idx = 2 + 2 * taken /\ gen \in 0..Cmdlen
          /\ Cmdlen \in Nat
      BY ListFacts DEF ListInv, ListTypes
    <3> QED BY <3>1
  <2>5. \A b \in {rec, dir} : b.hmp \in 0..Len(b.data) /\ b.size \in Nat
    <3>1. SameShape(rec, dir)
      BY DEF ListInv, Shapes
    <3>2. rec.hmp \in 0..Len(rec.data) /\ dir.hmp \in 0..Len(dir.data)
      BY <3>1 DEF SameShape
    <3>3. rec.size \in Nat /\ dir.size \in Nat
      BY <3>1 DEF SameShape, BlockWords
    <3> QED BY <3>2, <3>3
  <2> QED BY <2>1, <2>2, <2>3, <2>4, <2>5 DEF List!TypeOK
<1>5. BlocksInv /\ WordsFit /\ ListInv => TypeOK
  BY <1>3, <1>4 DEF TypeOK
<1> QED BY <1>1, <1>2, <1>5, BlocksInvHolds, ListInvHolds, PTL DEF Spec
=============================================================================
