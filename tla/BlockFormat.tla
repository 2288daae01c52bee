---------------------------- MODULE BlockFormat ----------------------------
(***************************************************************************)
(* The words of a block as bbrl.c writes them: a header, events with their *)
(* size, number and segments, two END words, and the scaler words at the   *)
(* end of the half.  The sizes are known only when a segment or an event   *)
(* ends, so they are written back into words left free.  No store is       *)
(* checked against the end of the half: what the handler checks is mp      *)
(* against MAXBUFF, between events.                                        *)
(***************************************************************************)
EXTENDS Integers, Sequences

CONSTANTS
  Flag,           \* 0x8000, the top bit of a word, marks the size of an event
  MaxBuff,        \* MAXBUFF
  Half,           \* BLKSIZE/2, the words of one half
  Scaler,         \* words of the scaler block, 2 * V560_NCH
  Lens,           \* for each segment, the numbers of words it may have
  MaxLen,         \* the largest of them
  Payload,        \* values of those words
  MaxBlocks       \* bound: blocks of a run

Header == 4
End == 2 * Flag - 1                 \* 0xffff
Count == 1                          \* a scaler word
Fid == 1                            \* init_event(1)
SegIds == <<1, 1, 2>>               \* of the two MADC32 and the V1190

ASSUME FormatAssumption ==
  /\ MaxBuff \in Nat /\ Half \in Nat /\ Scaler \in Nat /\ MaxLen \in Nat
  /\ Header <= MaxBuff /\ MaxBuff < Half /\ Scaler <= Half
  /\ Lens \in [1..3 -> SUBSET (0..MaxLen)]
  /\ Flag \in Nat \ {0, 1} /\ Payload \subseteq 0..End
  /\ MaxBlocks \in Nat

VARIABLES
  databuff, dn,                     \* both halves, and the one in use
  mp, chkblk,                       \* next word of the half; a block is begun
  eventid, eventhmp, eventsize, segmenthmp, segmentsize,
  seg,                              \* which segment of evt() is written
  pc, stopping,                     \* the next call; STOP has been called
  events, done                      \* history: what the block should hold,
                                    \* and how many are finished in this run

sizes == <<eventhmp, eventsize, segmenthmp, segmentsize>>
vars == <<databuff, dn, mp, chkblk, eventid, sizes, seg, pc, stopping, events,
          done>>

Buffer == 0..(2 * Half - 1)

\* Mutant: the halves overlap in a word.
BaseShort(d) == d * (Half - 1)

Base(d) == d * Half

\* a value stored in a word
Short(x) == x % (End + 1)

\* data[i] = x[i] for the i in the domain of x; a word past the buffer is not
\* part of the model
Stored(x) ==
  [j \in Buffer |-> IF j - Base(dn) \in DOMAIN x THEN x[j - Base(dn)]
                                                 ELSE databuff[j]]

\* n words of value x from word i on
Words(i, n, x) == [k \in i..(i + n - 1) |-> x]

\* Mutant: chmem without the way back.
OtherUnwrapped(d) == d + 1

Other(d) == 1 - d

----------------------------------------------------------------------------
Open ==
  /\ pc = "closed"
  /\ databuff' = [j \in Buffer |-> 0]
  /\ dn' = 0 /\ chkblk' = 0
  /\ events' = <<>> /\ done' = 0 /\ stopping' = 0
  /\ pc' = "idle"
  /\ UNCHANGED <<mp, eventid, sizes, seg>>

\* an interrupt: init_block, if no block is begun
InitBlock ==
  /\ pc = "idle"
  /\ chkblk = 1 \/ done < MaxBlocks
  /\ chkblk' = 1
  /\ IF chkblk = 1
       THEN UNCHANGED <<databuff, mp, eventid, events>>
       ELSE /\ databuff' = Stored(Words(0, 2, 0))
            /\ mp' = Header
            /\ eventid' = 0
            /\ events' = <<>>
  /\ pc' = "event"
  /\ UNCHANGED <<dn, sizes, seg, stopping, done>>

InitEvent ==
  /\ pc = "event"
  /\ eventid' = eventid + 1
  /\ eventhmp' = mp
  /\ eventsize' = 3
  /\ databuff' = Stored([i \in {mp + 1, mp + 2} |->
                           IF i = mp + 1 THEN Fid ELSE Short(eventid')])
  /\ mp' = mp + 3
  /\ events' = Append(events, <<>>)
  /\ seg' = 1
  /\ pc' = "segment"
  /\ UNCHANGED <<dn, chkblk, segmenthmp, segmentsize, stopping, done>>

\* Mutant: the size counts only the words of the reader.
OwnWordsNone == 0

OwnWords == 2                       \* of a segment: its size and its ID

InitSegment ==
  /\ pc = "segment"
  /\ segmenthmp' = mp
  /\ segmentsize' = OwnWords
  /\ databuff' = Stored(Words(mp + 1, 1, SegIds[seg]))
  /\ mp' = mp + 2
  /\ pc' = "reader"
  /\ UNCHANGED <<dn, chkblk, eventid, eventhmp, eventsize, seg, stopping,
                 events, done>>

\* madc32_segdata or v1X90_segdata: n words, mp and segmentsize with them
Reader(n, x) ==
  /\ pc = "reader"
  /\ n \in Lens[seg]
  /\ databuff' = Stored(Words(mp, n, x))
  /\ mp' = mp + n
  /\ segmentsize' = segmentsize + n
  /\ events' = [events EXCEPT ![Len(events)] =
                  Append(@, [id |-> SegIds[seg],
                             words |-> [k \in 1..n |-> x]])]
  /\ pc' = "endsegment"
  /\ UNCHANGED <<dn, chkblk, eventid, eventhmp, eventsize, segmenthmp, seg,
                 stopping, done>>

EndSegment ==
  /\ pc = "endsegment"
  /\ databuff' = Stored(Words(segmenthmp, 1, Short(segmentsize)))
  /\ eventsize' = eventsize + segmentsize
  /\ seg' = seg + 1
  /\ pc' = IF seg < Len(SegIds) THEN "segment" ELSE "endevent"
  /\ UNCHANGED <<dn, mp, chkblk, eventid, eventhmp, segmenthmp, segmentsize,
                 stopping, events, done>>

\* eventsize | 0x8000 in sixteen bits
Marked(size) == Flag + (size % Flag)

\* Mutant: the block is closed when the half, not MAXBUFF, is passed.
BlockOverHalf(m) == m > Half - Scaler

BlockOver(m) == m > MaxBuff

\* end_event() of evt(), and again in the handler
EndEvent ==
  /\ pc = "endevent"
  /\ databuff' = Stored(Words(eventhmp, 1, Marked(eventsize)))
  /\ pc' = IF BlockOver(mp) THEN "endblock" ELSE "idle"
  /\ UNCHANGED <<dn, mp, chkblk, eventid, sizes, seg, stopping, events, done>>

EndBlock ==
  /\ pc = "endblock"
  /\ databuff' = Stored(Words(mp, 2, End))
  /\ mp' = mp + 2
  /\ pc' = "sca"
  /\ UNCHANGED <<dn, chkblk, eventid, sizes, seg, stopping, events, done>>

\* sca(): mp jumps to the place of the scaler words; chkblk = 0
Sca ==
  /\ pc = "sca"
  /\ databuff' = Stored(Words(Half - Scaler, Scaler, Count))
  /\ mp' = Half
  /\ chkblk' = 0
  /\ done' = done + 1
  /\ pc' = "finished"
  /\ UNCHANGED <<dn, eventid, sizes, seg, stopping, events>>

\* The handler goes on in the other half; STOP does not.
Chmem ==
  /\ pc = "finished" /\ stopping = 0
  /\ dn' = Other(dn)
  /\ pc' = "idle"
  /\ UNCHANGED <<databuff, mp, chkblk, eventid, sizes, seg, stopping, events,
                 done>>

Close ==
  /\ pc = "finished" /\ stopping = 1
  /\ pc' = "closed"
  /\ UNCHANGED <<databuff, dn, mp, chkblk, eventid, sizes, seg, stopping,
                 events, done>>

\* STOP closes a block that is begun.
Stop ==
  /\ pc = "idle"
  /\ stopping' = 1
  /\ pc' = IF chkblk = 1 THEN "endblock" ELSE "closed"
  /\ UNCHANGED <<databuff, dn, mp, chkblk, eventid, sizes, seg, events, done>>

Init ==
  /\ databuff = [j \in Buffer |-> 0] /\ dn = 0 /\ mp = 0 /\ chkblk = 0
  /\ eventid = 0 /\ eventhmp = 0 /\ eventsize = 0
  /\ segmenthmp = 0 /\ segmentsize = 0
  /\ seg = 1 /\ pc = "closed" /\ stopping = 0
  /\ events = <<>> /\ done = 0

Next == \/ Open \/ InitBlock \/ InitEvent \/ InitSegment
        \/ \E n \in 0..MaxLen, x \in Payload : Reader(n, x)
        \/ EndSegment \/ EndEvent \/ EndBlock \/ Sca
        \/ Chmem \/ Close \/ Stop

Spec == Init /\ [][Next]_vars

----------------------------------------------------------------------------
(* Properties.                                                             *)

\* The buffer and the bookkeeping of bbrl.c keep their types.
TypeOK ==
  /\ databuff \in [Buffer -> 0..End] /\ dn \in 0..1
  /\ mp \in Nat /\ chkblk \in 0..1
  /\ eventid \in Nat /\ eventhmp \in Nat /\ eventsize \in Nat
  /\ segmenthmp \in Nat /\ segmentsize \in Nat
  /\ seg \in 1..4 /\ stopping \in 0..1 /\ done \in Nat
  /\ pc \in {"closed", "idle", "event", "segment", "reader", "endsegment",
             "endevent", "endblock", "sca", "finished"}

MaxEvent == 3 + 3 * (2 + MaxLen)

\* The largest event that may begin at MAXBUFF leaves room for the END words
\* and the scaler words.
Capacity == MaxBuff + MaxEvent + 2 + Scaler <= Half

\* mp stays in the half, and the scaler words do not fall on the END words.
Fits == mp <= Half /\ (pc = "sca" => mp <= Half - Scaler)

\* The sizes written back are the distances to the words they are written to.
SizesRight ==
  /\ pc = "endsegment" => segmentsize = mp - segmenthmp
  /\ pc = "endevent" => eventsize = mp - eventhmp

\* Filling one half leaves the other, which the client may be reading, alone.
NeighbourIntact ==
  [][pc # "closed" =>
       \A i \in 0..(Half - 1) :
          databuff'[Base(Other(dn)) + i] = databuff[Base(Other(dn)) + i]]_vars

\* A reader that goes by the size words: from one event to the next until an
\* END word, and in an event from one segment to the next.
Word(i) == IF i \in 0..(Half - 1) THEN databuff[Base(dn) + i] ELSE 0

Segments(from, to) ==
  LET Walk[i \in 0..Half] ==
        IF i >= to \/ Word(i) < 2 THEN <<>>
        ELSE <<[id |-> Word(i + 1),
                words |-> [k \in 1..(Word(i) - 2) |-> Word(i + 1 + k)]]>>
             \o (IF i + Word(i) <= Half THEN Walk[i + Word(i)] ELSE <<>>)
  IN Walk[from]

Parsed ==
  LET Walk[i \in 0..Half] ==
        IF Word(i) = End \/ Word(i) <= Flag + 2 THEN <<>>
        ELSE LET next == i + Word(i) - Flag
             IN <<Segments(i + 3, next)>>
                \o (IF next <= Half THEN Walk[next] ELSE <<>>)
  IN Walk[Header]

\* A finished block can be taken apart again by its size words alone, into
\* the events and segments that were recorded, whatever their words are.
RoundTrip == pc = "finished" => Parsed = events
===========================================================================
