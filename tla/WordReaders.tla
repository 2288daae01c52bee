---------------------------- MODULE WordReaders ----------------------------
(***************************************************************************)
(* The readers that fetch an event word by word with vread32: those of     *)
(* babirldrvcaen.c for V7XX and V1X90, and of v785.c, v775.c, v792.c and   *)
(* v767.c.  They differ in how many words they take at most, in the words  *)
(* that end the loop, in what they do without a header, and in who writes  *)
(* the size of the segment.  Events go on arriving while one is read.      *)
(***************************************************************************)
EXTENDS OutputBuffer

CONSTANTS
  V7XXWords,      \* 34: a header, 32 channels and an end word
  V767Words,      \* V767_MAXEVT
  V1X90Words,     \* 10001
  MaxEvents       \* events the buffer has room for

\* The limits of the loops leave room for the longest event.  So no loop here
\* ends at its limit (babirldrvcaen.c:154-157 leaves the rest of an event in
\* the module then): that exit is left out.
WordsAssumption ==
  /\ V7XXWords \in Nat /\ V767Words \in Nat /\ V1X90Words \in Nat
  /\ Most + 2 <= V7XXWords /\ Most + 2 <= V767Words
  /\ Most + 2 <= V1X90Words
  /\ MaxEvents \in Nat \ {0}

VARIABLES
  pc, fn,         \* where the driver is, and the reader it is in
  wordcnt, mp, segmentsize, eventsize,  \* from the start of the segment
  sizeword,       \* the segment's size, as it was written
  stored,         \* the words stored
  nonempty,       \* the module held an event when the reader began
  clear           \* bit 2 of the module's bit set 2 register

sizes == <<mp, segmentsize, eventsize, sizeword>>
vars == <<buffer, pc, fn, wordcnt, sizes, stored, nonempty, clear>>

----------------------------------------------------------------------------
(* The readers.  form: who writes the size; ends: words that end the loop. *)

NotData == {"header", "eob", "filler"}

Segdata(n, e) ==  [form |-> "segdata", words |-> n, ends |-> e]
Segdata2(n, e) == [form |-> "segdata2", words |-> n, ends |-> e]
Segmod(n, e) ==   [form |-> "segmod", words |-> n, ends |-> e]

v7XX_segdata == Segdata(V7XXWords, NotData)
v7XX_segdata2 == Segdata2(V7XXWords, NotData)
v7XX_multi_map_segdata == Segdata(V7XXWords, NotData)
v785_segdata == Segdata(V7XXWords, NotData)
v785_segdata2 == Segdata2(V7XXWords, NotData)
v785_segmod == Segmod(V7XXWords, NotData)
v775_segdata == Segdata(V7XXWords, NotData)
v775_segmod == Segmod(V7XXWords, NotData)
v792_segdata == Segdata(V7XXWords, NotData)
v792_segmod == Segmod(V7XXWords, NotData)
v767_segdata == Segdata(V767Words, NotData)
v767_segmod == Segmod(V767Words, NotData)
v1X90_segdata == Segdata(V1X90Words, {"eob"})

Readers == {v7XX_segdata, v7XX_segdata2, v7XX_multi_map_segdata,
            v785_segdata, v785_segdata2, v785_segmod, v775_segdata,
            v775_segmod, v792_segdata, v792_segmod, v767_segdata,
            v767_segmod, v1X90_segdata}

----------------------------------------------------------------------------
Event(n) ==
  /\ Arrive(n, clear = 1 \/ Len(queue) = MaxEvents)
  /\ UNCHANGED <<pc, fn, wordcnt, sizes, stored, nonempty, clear>>

\* vread32 into data[mp], mp += 2, wordcnt++; segmod counts at its end
Store ==
  /\ stored' = Append(IF pc = "idle" THEN <<>> ELSE stored, NextWord)
  /\ Take

\* Mutant: a word is stored, but not counted in the segment.
CountedNot(r, size) == size

\* segmentsize after one more word
Counted(r, size) == IF r.form = "segmod" THEN size ELSE size + 2

\* segdata2 without a header stores nothing
Refused(r) == r.form = "segdata2" /\ NextWord.type # "header"

\* The first word; mp and the sizes are those after init_segment, for segmod
\* after the two reserved words.
First(r) ==
  /\ pc = "idle" /\ clear = 0
  /\ fn' = r
  /\ nonempty' = (queue # <<>>)
  /\ pc' = IF NextWord.type = "header" THEN "loop" ELSE "end"
  /\ eventsize' = 0 /\ sizeword' = 0
  /\ IF Refused(r)
       THEN /\ Take /\ stored' = <<>>
            /\ wordcnt' = 0 /\ mp' = 2 /\ segmentsize' = 2
       ELSE /\ Store
            /\ wordcnt' = 1 /\ mp' = 4 /\ segmentsize' = Counted(r, 2)
  /\ UNCHANGED clear

\* Mutant: one word too few.
LastShort(r, n, w) == w.type \in r.ends \/ n + 1 >= r.words

\* The loop ends with the word w, the n-th.
Last(r, n, w) == w.type \in r.ends \/ n >= r.words

Loop ==
  /\ pc = "loop"
  /\ Store
  /\ wordcnt' = wordcnt + 1
  /\ mp' = mp + 2 /\ segmentsize' = Counted(fn, segmentsize)
  /\ pc' = IF Last(fn, wordcnt', NextWord) THEN "end" ELSE "loop"
  /\ UNCHANGED <<fn, eventsize, sizeword, nonempty, clear>>

\* segmod goes back to write its two words; the others leave that to
\* end_segment.
EndSegment ==
  /\ pc = "end"
  /\ pc' = "idle"
  /\ sizeword' = IF fn.form = "segmod" THEN wordcnt * 2 + 2 ELSE segmentsize
  /\ eventsize' = sizeword'
  /\ mp' = IF fn.form = "segmod" THEN 2 + wordcnt * 2 ELSE mp
  /\ UNCHANGED <<buffer, fn, wordcnt, segmentsize, stored, nonempty, clear>>

\* v7XX_clear, v785_clear: bit 2 is set, then cleared
SetClear ==
  /\ pc = "idle" /\ clear = 0
  /\ clear' = 1
  /\ Empty
  /\ UNCHANGED <<pc, fn, wordcnt, sizes, stored, nonempty>>

Unclear ==
  /\ clear = 1
  /\ clear' = 0
  /\ UNCHANGED <<buffer, pc, fn, wordcnt, sizes, stored, nonempty>>

Init ==
  /\ BufferInit
  /\ pc = "idle" /\ fn = v7XX_segdata /\ wordcnt = 0
  /\ mp = 0 /\ segmentsize = 0 /\ eventsize = 0 /\ sizeword = 0
  /\ stored = <<>> /\ nonempty = FALSE /\ clear = 0

Next == \/ \E n \in 0..Most : Event(n)
        \/ \E r \in Readers : First(r)
        \/ Loop \/ EndSegment \/ SetClear \/ Unclear

Spec == Init /\ [][Next]_vars

----------------------------------------------------------------------------
(* Properties.                                                             *)

\* The variables hold values the code's variables can hold.
TypeOK ==
  /\ BufferOK
  /\ pc \in {"idle", "loop", "end"} /\ fn \in Readers
  /\ wordcnt \in Nat /\ mp \in Nat /\ segmentsize \in Nat
  /\ eventsize \in Nat /\ sizeword \in Nat
  /\ stored \in Seq(WordSet) /\ nonempty \in BOOLEAN /\ clear \in 0..1

\* Whatever arrives while a reader is at work, it leaves the buffer at the
\* start of an event: none is left half read for the next trigger.  This is of
\* events shorter than the limit of the loop (WordsAssumption).
InStep == pc \in {"idle", "end"} => pos = 0

\* A reader stores the oldest event of the module, all of it and nothing
\* else; without an event, one filler word or nothing.  Again no event is
\* longer than the loop (WordsAssumption).
OneEvent ==
  pc = "end" => IF nonempty THEN Whole(stored)
                            ELSE stored \in {<<>>, <<Filler>>}

\* The size that is written for the segment, what is added to the event's
\* size, and the words mp has moved are the same, and are the words stored.
SizesRight ==
  pc = "idle" => sizeword = mp /\ eventsize = mp
                 /\ (mp > 0 => mp = 2 * Len(stored) + 2)
===========================================================================
