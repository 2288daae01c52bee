----------------------------- MODULE DmaReaders -----------------------------
(***************************************************************************)
(* The readers that let the bridge's DMA engine fetch a fixed number of    *)
(* words: v785_dmasegdata, which looks for the event in them, dmasegdata   *)
(* of bbrl.c, which stores them all, and univ_dma_segdata with the length  *)
(* from the V1X90's event FIFO.  The first two poll the engine and give up *)
(* after a time; the engine does not, and goes on taking words.  The       *)
(* readers run behind the veto: no event arrives during a readout.         *)
(***************************************************************************)
EXTENDS OutputBuffer, FiniteSetsExt

CONSTANTS
  Rsize,          \* rsize: the words that are asked for
  MaxEvents       \* events the buffer has room for

RsizeAssumption ==
  Rsize \in Nat /\ Most + 2 <= Rsize /\ MaxEvents \in Nat \ {0}

VARIABLES
  pc, rd,         \* where the driver is, and the reader it is in
  busy,           \* the veto
  engine, todo,   \* whether the engine is at work, and for how many words
  dmadata,        \* the words it has fetched
  data,           \* the halfwords of the half from its start, each by the word
                  \* it is a half of, those not written since init_segment Stale
  mp, segmentsize,
  clean           \* when the reader began, the module held one event, all of
                  \* it, and no earlier transfer was going on

dma == <<engine, todo, dmadata>>
segment == <<data, mp, segmentsize>>
vars == <<buffer, pc, rd, busy, dma, segment, clean>>

Stale == [type |-> "stale", ev |-> 0, at |-> 0]

\* Halfwords behind the segment's header, and some to spare.
Halfwords == 0..(2 * Rsize + 3)

----------------------------------------------------------------------------
(* v785_dmasegdata: which of the rsize words of d are copied (from 0).     *)

Header(d, l) == d[l + 1].type = "header"
Ending(d, l) == d[l + 1].type \in {"eob", "filler"}

\* staflag after word l
HeaderBefore(d, l) == \E h \in 0..l : Header(d, h)

\* The loop breaks at word l: an end after a header, or still no header.
Breaks(d, l) == IF HeaderBefore(d, l) THEN Ending(d, l) ELSE l > 1

Breaking(d) == {l \in 0..(Rsize - 1) : Breaks(d, l)}

stoadr(d) ==
  IF Breaking(d) = {} THEN Rsize - 1
  ELSE IF HeaderBefore(d, Min(Breaking(d))) THEN Min(Breaking(d)) ELSE 0

\* Mutant: the words before the header are copied as well.
StaadrZero(d) == 0

staadr(d) ==
  LET seen == {h \in 0..(Rsize - 1) :
                 Header(d, h) /\ \A b \in Breaking(d) : h <= b}
  IN IF seen = {} THEN 0 ELSE Max(seen)

----------------------------------------------------------------------------
(* The electronics and the engine.                                         *)

Event(n) ==
  /\ busy = 0
  /\ busy' = 1
  /\ Arrive(n, Len(queue) = MaxEvents)
  /\ UNCHANGED <<pc, rd, dma, segment, clean>>

Fetch ==
  /\ engine = "on" /\ Len(dmadata) < todo
  /\ dmadata' = Append(dmadata, NextWord)
  /\ Take
  /\ UNCHANGED <<pc, rd, busy, engine, todo, segment, clean>>

----------------------------------------------------------------------------
(* A readout; mp and segmentsize are those after init_segment.             *)

v1X90_multi_map_dma_segdata == Head(queue).len + 2

Words(r) == IF r = "fifo" THEN v1X90_multi_map_dma_segdata ELSE Rsize

\* vme_dma_vread32_start, or the bridge's own read.  With a transfer that was
\* given up still under way, the new start may abort it, or be lost and the
\* old transfer's end be taken for its own.
Start(r) ==
  /\ pc = "idle" /\ busy = 1
  /\ r = "fifo" => queue # <<>> /\ pos = 0 /\ engine = "off"
  /\ rd' = r /\ pc' = "wait"
  /\ mp' = 2 /\ segmentsize' = 2 /\ data' = [i \in Halfwords |-> Stale]
  /\ clean' = (engine = "off" /\ Len(queue) = 1 /\ pos = 0)
  /\ \/ engine' = "on" /\ todo' = Words(r) /\ dmadata' = <<>>
     \/ engine = "on" /\ UNCHANGED dma
  /\ UNCHANGED <<buffer, busy>>

\* n bytes of the words d, from word k on, to the halfwords from data + mp on
memcpy(d, k, n) ==
  [i \in Halfwords |-> IF i \in mp..(mp + n \div 2 - 1)
                         THEN d[k + (i - mp) \div 2 + 1] ELSE data[i]]

\* What the readers make of the words d the store call has found.
v785_dmasegdata(d) ==
  LET vsize == stoadr(d) - staadr(d) + 1
  IN /\ data' = memcpy(d, staadr(d), vsize * 4)
     /\ segmentsize' = segmentsize + vsize * 2
     /\ mp' = mp + vsize * 2

dmasegdata(d) ==
  LET csize == Rsize * 4
  IN /\ data' = memcpy(d, 0, csize)
     /\ segmentsize' = segmentsize + Rsize * 2
     /\ mp' = mp + Rsize * 2

\* Mutant: the segment counts the words, not their halves.
SizeInWords(d, size) ==
  /\ data' = memcpy(d, 0, size)
  /\ segmentsize' = segmentsize + size \div 4
  /\ mp' = mp + size \div 2

univ_dma_segdata(d, size) ==
  /\ data' = memcpy(d, 0, size)
  /\ segmentsize' = segmentsize + size \div 2
  /\ mp' = mp + size \div 2

Finish ==
  /\ pc = "wait" /\ engine = "on" /\ Len(dmadata) = todo
  /\ engine' = "off"
  /\ \/ rd = "v785" /\ v785_dmasegdata(dmadata)
     \/ rd = "bbrl" /\ dmasegdata(dmadata)
     \/ rd = "fifo" /\ univ_dma_segdata(dmadata, todo * 4)
  /\ pc' = "end"
  /\ UNCHANGED <<buffer, rd, busy, todo, dmadata, clean>>

\* 1000 or 10000 polls without an answer: a mark of two halfwords
Timeout ==
  /\ pc = "wait" /\ rd # "fifo" /\ Len(dmadata) < todo
  /\ data' = [data EXCEPT ![mp] = Filler, ![mp + 1] = Filler]
  /\ mp' = mp + 2
  /\ segmentsize' = segmentsize + 2
  /\ pc' = "end"
  /\ UNCHANGED <<buffer, rd, busy, dma, clean>>

\* end_segment; evt() takes the veto off
EndSegment ==
  /\ pc = "end"
  /\ pc' = "idle" /\ busy' = 0
  /\ UNCHANGED <<buffer, rd, dma, segment, clean>>

Init ==
  /\ BufferInit
  /\ pc = "idle" /\ rd = "v785" /\ busy = 0
  /\ engine = "off" /\ todo = 0 /\ dmadata = <<>>
  /\ data = [i \in Halfwords |-> Stale] /\ mp = 0 /\ segmentsize = 0
  /\ clean = FALSE

Next == \/ \E n \in 0..Most : Event(n)
        \/ \E r \in {"v785", "bbrl", "fifo"} : Start(r)
        \/ Fetch \/ Finish \/ Timeout \/ EndSegment

Spec == Init /\ [][Next]_vars

----------------------------------------------------------------------------
(* Properties.                                                             *)

\* The variables hold values the code's variables and the engine can hold.
TypeOK ==
  /\ BufferOK
  /\ pc \in {"idle", "wait", "end"} /\ rd \in {"v785", "bbrl", "fifo"}
  /\ busy \in 0..1 /\ engine \in {"on", "off"} /\ todo \in Nat
  /\ dmadata \in Seq(WordSet)
  /\ data \in [Halfwords -> WordSet \cup {Stale}]
  /\ mp \in Nat /\ segmentsize \in Nat /\ clean \in BOOLEAN

\* the words between the segment's header and mp
Stored == [k \in 1..((mp - 2) \div 2) |-> data[2 * k]]

\* v785_dmasegdata keeps words of one event only, even when a transfer given
\* up earlier has left it half an event, or answers in place of its own; and
\* when it found the module with one event, it keeps the whole event.
OneEvent ==
  pc = "end" /\ rd = "v785" =>
    /\ OfOneEvent(Stored)
    /\ clean /\ Stored # <<Filler>> => Whole(Stored)

\* Each reader computes for itself how many bytes it copies, how far mp moves
\* and by how much the segment grows.  When it is done, the segment's size is
\* mp, and the halfwords written are those from the header up to mp: none is
\* left out below mp, none written above it.
SizesRight ==
  pc = "end" =>
    /\ segmentsize = mp
    /\ \A i \in Halfwords : data[i] # Stale <=> i \in 2..(mp - 1)
===========================================================================
