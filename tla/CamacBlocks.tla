---------------------------- MODULE CamacBlocks ----------------------------
(***************************************************************************)
(* The three formats of a block the driver can be built with, and every    *)
(* call by which user code puts words in one.                              *)
(*                                                                         *)
(*   BBRL    (bbrl.c)   header of 4, events of segments, two END words; an *)
(*                      event and a segment begin with their size, which   *)
(*                      counts all their words                             *)
(*   BBDAQ   (bbdaq.c)  header of 3, segments, one END word; a mark, then  *)
(*                      the size, which counts the words that follow       *)
(*   IWADAQ  (iwadaq.c) header of 4, segments, two END words; a mark, then *)
(*                      the size, which counts all words of the segment    *)
(*                                                                         *)
(* A size is written back when its part is over, from a counter that every *)
(* reader moves by hand beside mp.                                         *)
(***************************************************************************)
EXTENDS Integers, Sequences

CONSTANTS
  MaxLen,         \* bound: len of a reader
  Nch,            \* V560_NCH
  Top,            \* bound: words of a block
  MaxBlocks       \* bound: blocks

CamacBlocksAssumption ==
  /\ MaxLen \in Nat /\ Nch \in Nat /\ MaxBlocks \in Nat
  /\ Top \in Nat /\ Top >= 4        \* room for the header of a block

VARIABLES
  format,         \* which of the three files is included
  state,          \* "closed", "idle", "done" (a block is finished), or what
                  \* is open: "block", "event", "segment"
  data, mp,       \* the words, and the next one
  blkid,
  eventhmp, eventsize, segmenthmp, segmentsize,
  events, starts  \* history: where events and segments of the block began

counters == <<eventhmp, eventsize, segmenthmp, segmentsize>>
vars == <<format, state, data, mp, blkid, counters, events, starts>>

Flag == 32768                       \* 0x8000
End == 65535                        \* 0xffff
Mark == 52343                       \* 0xcc77
Value == -1                         \* a word that was read from a module

Bbrl == format = "BBRL"

\* n words from i on
Words(i, n, word) == [j \in i..(i + n - 1) |-> word]

\* the words ws, each at its place
Write(ws) == data' = [j \in DOMAIN data |->
                        IF j \in DOMAIN ws THEN ws[j] ELSE data[j]]

----------------------------------------------------------------------------
init_mem ==
  /\ state \in {"closed", "done"}
  /\ data' = [j \in DOMAIN data |-> 0] /\ blkid' = 0
  /\ state' = "idle"
  /\ UNCHANGED <<format, mp, counters, events, starts>>

init_block ==
  /\ state \in {"idle", "done"} /\ blkid < MaxBlocks
  /\ blkid' = blkid + 1
  /\ CASE format = "BBRL" -> Write(Words(0, 2, 0)) /\ mp' = 4
       [] format = "BBDAQ" ->
            Write([j \in 0..1 |-> IF j = 0 THEN 0 ELSE blkid]) /\ mp' = 3
       [] format = "IWADAQ" ->
            Write([j \in 0..3 |-> IF j = 1 THEN 32
                                  ELSE IF j = 2 THEN 8192 ELSE 0]) /\ mp' = 4
  /\ eventsize' = IF Bbrl THEN eventsize ELSE 0
  /\ state' = "block"
  /\ events' = <<>> /\ starts' = <<>>
  /\ UNCHANGED <<format, eventhmp, segmenthmp, segmentsize>>

\* the other formats have no words for an event, and declare no init_event
init_event ==
  /\ state = "block" /\ mp + 9 <= Top
  /\ IF Bbrl
       THEN /\ eventhmp' = mp /\ eventsize' = 3
            /\ Write(Words(mp + 1, 2, 1)) /\ mp' = mp + 3
            /\ events' = Append(events, mp) /\ starts' = <<>>
       ELSE UNCHANGED <<data, mp, eventhmp, eventsize, events, starts>>
  /\ state' = "event"
  /\ UNCHANGED <<format, blkid, segmenthmp, segmentsize>>

init_segment ==
  /\ state = "event" /\ mp + 4 <= Top
  /\ IF Bbrl
       THEN segmenthmp' = mp /\ segmentsize' = 2 /\ Write(Words(mp + 1, 1, 1))
       ELSE /\ segmenthmp' = mp + 1 /\ segmentsize' = 0
            /\ Write(Words(mp, 1, Mark))
  /\ mp' = mp + 2
  /\ starts' = Append(starts, mp)
  /\ state' = "segment"
  /\ UNCHANGED <<format, blkid, eventhmp, eventsize, events>>

\* Mutant: IWADAQ's size counts the words that follow, as BBDAQ's does.
SizeAsBbdaq == segmentsize

SizeWritten == IF format = "IWADAQ" THEN segmentsize + 2 ELSE segmentsize

\* Mutant: the event does not count the words before a segment's data.
EventSizeBare == eventsize + segmentsize

EventSizeAfter ==
  IF Bbrl THEN eventsize + segmentsize ELSE eventsize + segmentsize + 2

end_segment ==
  /\ state = "segment"
  /\ Write(Words(segmenthmp, 1, SizeWritten))
  /\ eventsize' = EventSizeAfter
  /\ state' = "event"
  /\ UNCHANGED <<format, mp, blkid, eventhmp, segmenthmp, segmentsize, events,
                 starts>>

end_event ==
  /\ state = "event"
  /\ IF Bbrl THEN Write(Words(eventhmp, 1, eventsize + Flag))
             ELSE UNCHANGED data
  /\ state' = "block"
  /\ UNCHANGED <<format, mp, blkid, counters, events, starts>>

end_block ==
  /\ state = "block" /\ mp + 2 <= Top
  /\ CASE format = "BBRL" -> Write(Words(mp, 2, End)) /\ mp' = mp + 2
       [] format = "BBDAQ" ->
            /\ Write([j \in {2, mp} |-> IF j = 2 THEN eventsize + 1 ELSE End])
            /\ mp' = mp + 1
       [] format = "IWADAQ" ->
            /\ Write([j \in {3, mp, mp + 1} |->
                        IF j = 3 THEN eventsize + 4 ELSE End])
            /\ mp' = mp + 2
  /\ state' = "done"
  /\ UNCHANGED <<format, blkid, counters, events, starts>>

----------------------------------------------------------------------------
(* Readers inside a segment.                                               *)

\* n words read, of which segmentsize counts c
Read(n, c) ==
  /\ state = "segment" /\ mp + n + 2 <= Top
  /\ Write(Words(mp, n, Value))
  /\ mp' = mp + n
  /\ segmentsize' = segmentsize + c
  /\ UNCHANGED <<format, state, blkid, eventhmp, eventsize, segmenthmp, events,
                 starts>>

\* in each of the three files; read_segsdata with a Q scan or word by word
read_segdata == Read(1, 1)
read_segndata(len) == Read(len, len)
read_segsdata(len) == Read(len, len)
read_segbdata(len) == Read(len, len)

\* Mutant: a 24-bit value counts as one word.
read_segdata24_one == Bbrl /\ Read(2, 1)

\* in bbrl.c only, or in readers that need its init_segment
read_segdata24 == Bbrl /\ Read(2, 2)

\* Q stop and Q repeat: the bridge tells how many words came
read_segqrdata(len) == Bbrl /\ \E rlen \in 0..len : Read(rlen, rlen)
read_segqsdata(len) == Bbrl /\ \E rlen \in 0..len : Read(rlen, rlen)

rpv130_segdata == Bbrl /\ Read(1, 1)
caen_dummy == Bbrl /\ Read(2, 2)
v560_segdata == Bbrl /\ Read(2 * Nch, 2 * Nch)
madc32_map_segdata(cnt) == Bbrl /\ Read(2 * cnt, 2 * cnt)

----------------------------------------------------------------------------
(* Readers that write a segment of their own, in bbrl.c.                   *)

\* a segment at mp with size s, further words of its head ws, and n read
Segment(s, ws, n, c) ==
  /\ Bbrl /\ state = "event" /\ mp + 2 + Len(ws) + n + 2 <= Top
  /\ Write([j \in mp..(mp + 1 + Len(ws) + n) |->
              IF j = mp THEN s ELSE IF j = mp + 1 THEN 1
              ELSE IF j - mp - 1 \in DOMAIN ws THEN ws[j - mp - 1] ELSE Value])
  /\ mp' = mp + 2 + Len(ws) + n
  /\ eventsize' = eventsize + c
  /\ starts' = Append(starts, mp)
  /\ UNCHANGED <<format, state, blkid, eventhmp, segmentsize, events>>

read_segmod(len) == Segment(len + 2, <<>>, len, len + 2) /\ UNCHANGED segmenthmp

\* read_segsmod and read_segbmod: the size is written back
read_segsmod(len) == Segment(len + 2, <<>>, len, len + 2) /\ segmenthmp' = mp
read_segbmod(len) == read_segsmod(len)

\* a FERA memory says how many words it holds; the count is stored too
read_segmemmod(wordcnt) ==
  /\ Segment(wordcnt + 3, <<wordcnt>>, wordcnt, wordcnt + 3)
  /\ UNCHANGED segmenthmp

----------------------------------------------------------------------------
Init ==
  /\ format \in {"BBRL", "BBDAQ", "IWADAQ"}
  /\ state = "closed"
  /\ data = [j \in 0..(Top - 1) |-> 0] /\ mp = 0 /\ blkid = 0
  /\ eventhmp = 0 /\ eventsize = 0 /\ segmenthmp = 0 /\ segmentsize = 0
  /\ events = <<>> /\ starts = <<>>

OfOneWord == read_segdata \/ rpv130_segdata
OfTwoWords == read_segdata24 \/ caen_dummy \/ v560_segdata

OfLength(len) ==
  \/ read_segndata(len) \/ read_segsdata(len) \/ read_segbdata(len)
  \/ read_segqrdata(len) \/ read_segqsdata(len) \/ madc32_map_segdata(len)
  \/ read_segmod(len) \/ read_segsmod(len) \/ read_segbmod(len)
  \/ read_segmemmod(len)

Next == \/ init_mem \/ init_block \/ init_event \/ init_segment
        \/ end_segment \/ end_event \/ end_block
        \/ OfOneWord \/ OfTwoWords
        \/ \E len \in 0..MaxLen : OfLength(len)

Spec == Init /\ [][Next]_vars

----------------------------------------------------------------------------
(* Properties.                                                             *)

TypeOK ==
  /\ format \in {"BBRL", "BBDAQ", "IWADAQ"}
  /\ state \in {"closed", "idle", "done", "block", "event", "segment"}
  /\ data \in [0..(Top - 1) -> -1..End] /\ mp \in 0..Top
  /\ blkid \in 0..MaxBlocks
  /\ eventhmp \in 0..Top /\ segmenthmp \in 0..Top
  /\ eventsize \in 0..Top /\ segmentsize \in 0..Top

SegmentWords(at) == CASE format = "BBRL" -> data[at]
                      [] format = "BBDAQ" -> data[at + 1] + 2
                      [] format = "IWADAQ" -> data[at + 1]

\* from each of the places s the words w(at) lead to the next, or to mp
Leads(s, w(_)) ==
  \A k \in DOMAIN s :
    s[k] + w(s[k]) = IF k = Len(s) THEN mp ELSE s[k + 1]

\* Whatever readers filled the segments of an event, the size each of them
\* carries leads to the next one, and the last to where the event ends.
SegmentsLead == state = "event" => Leads(starts, SegmentWords)

\* The size of an event (BBRL) leads to the next event, and the length in
\* the header of a block (BBDAQ, IWADAQ) is that of the block without its
\* first words, whatever an earlier block left in memory.
LengthsLead ==
  /\ Bbrl /\ state = "block" => Leads(events, LAMBDA at : data[at] - Flag)
  /\ state = "done" =>
       /\ format = "BBDAQ" => data[2] = mp - 3 /\ data[mp - 1] = End
       /\ format = "IWADAQ" => data[3] = mp - 2 /\ data[mp - 1] = End
=============================================================================
