---------------------------- MODULE OutputBuffer ----------------------------
(***************************************************************************)
(* The output buffer of a digitizer, as vread32 and the DMA engine see it: *)
(* a queue of events, each a header, its data and an end word; every read  *)
(* takes a word, and an empty buffer gives a filler word, whose type bits  *)
(* are those of V785_ERROR_BIT.                                            *)
(***************************************************************************)
EXTENDS Naturals, Sequences

CONSTANTS
  Ids,            \* events are numbered 1..Ids and from 1 again
  Most            \* the most words of data one event can have

BufferAssumption == Ids \in Nat \ {0} /\ Most \in Nat

VARIABLES
  queue,          \* the events in the buffer, oldest first
  pos,            \* words of the oldest that have been taken
  evid            \* number of the last event

buffer == <<queue, pos, evid>>

Events == [ev : 1..Ids, len : 0..Most]
Types == {"header", "data", "eob", "filler"}
WordSet == [type : Types, ev : 0..Ids, at : Nat]
Filler == [type |-> "filler", ev |-> 0, at |-> 0]

\* Word k of event e, the header being word 0.
WordOf(e, k) ==
  [type |-> CASE k = 0 -> "header"
              [] k \in 1..e.len -> "data"
              [] OTHER -> "eob",
   ev |-> e.ev, at |-> k]

NextWord == IF queue = <<>> THEN Filler ELSE WordOf(Head(queue), pos)

Take ==
  /\ evid' = evid
  /\ IF queue = <<>> THEN UNCHANGED <<queue, pos>>
     ELSE IF pos = Head(queue).len + 1 THEN queue' = Tail(queue) /\ pos' = 0
     ELSE pos' = pos + 1 /\ UNCHANGED queue

\* An event of n words of data; a buffer that is full or being cleared drops
\* it.
Arrive(n, dropped) ==
  /\ evid' = (evid % Ids) + 1
  /\ queue' = IF dropped THEN queue
                         ELSE Append(queue, [ev |-> evid', len |-> n])
  /\ UNCHANGED pos

Empty == queue' = <<>> /\ pos' = 0 /\ UNCHANGED evid

BufferInit == queue = <<>> /\ pos = 0 /\ evid = Ids

BufferOK ==
  /\ queue \in Seq(Events) /\ pos \in 0..(Most + 1) /\ evid \in 1..Ids
  /\ queue = <<>> => pos = 0

\* The words s are those of one event, in order and without a gap.
OfOneEvent(s) ==
  \A k \in 1..Len(s) : s[k].ev = s[1].ev /\ s[k].at = s[1].at + k - 1

\* The words s are one event, from its header to its end.
Whole(s) ==
  /\ s # <<>>
  /\ s[1].type = "header" /\ s[Len(s)].type = "eob"
  /\ OfOneEvent(s)
===========================================================================
