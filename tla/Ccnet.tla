------------------------------- MODULE Ccnet -------------------------------
(***************************************************************************)
(* CCNET.  mkccnetsegment turns the calls of ccnetsegment.c (init_segment, *)
(* read_segdata, ...) into two lists: the commands that the controller is  *)
(* to execute, and the entries by which ccnet_recseg takes the replies     *)
(* apart.  The same calls exist in bbrl.c, where they read CAMAC directly; *)
(* that is the reference: both must leave the same words in the block.     *)
(*                                                                         *)
(* A CAMAC command of the list is its number, and what it reads in event e *)
(* is <<e, number>>, of which data[] takes the low or the high word.  The  *)
(* controller may answer a list with fewer replies than commands; nobody   *)
(* looks whether it has.                                                   *)
(***************************************************************************)
EXTENDS Integers, Sequences

CONSTANTS
  Cmdlen,         \* CMDLEN: room for so many commands
  MaxCalls,       \* bound: calls in ccnetsegment.c
  MaxLen,         \* bound: len of a read
  Events          \* events are numbered 1..Events and from 1 again

CcnetAssumption ==
  Cmdlen \in Nat /\ MaxCalls \in Nat /\ MaxLen \in Nat /\ Events \in Nat \ {0}

VARIABLES
  phase,          \* "write", "load", "idle", or "rec": inside ccnet_recseg
  calls, open,    \* the calls of ccnetsegment.c; a segment is open
  segcmd, gen,    \* what was generated: the entries, the number of commands
  cmdbuf, clrbuf, \* the commands loaded in the two lists: their numbers
  rplybuf,        \* the replies: a value at each even index from 2
  event, full,    \* the event; no reply its reader relies on is missing
  i, idx,         \* of ccnet_recseg
  rec,            \* the block that it writes
  dir, taken      \* the block direct reads write, and commands they used

lists == <<calls, open, segcmd, gen>>
vars == <<phase, lists, cmdbuf, clrbuf, rplybuf, event, full, i, idx, rec,
          dir, taken>>

----------------------------------------------------------------------------
(* The words of a block, from where the list is interpreted.               *)

Blank == [data |-> <<>>, hmp |-> 0, size |-> 0]

Plain(n) == <<"number", n, 0>>
Low(v) == <<"low", v[1], v[2]>>
High(v) == <<"high", v[1], v[2]>>
IsValue(word) == word[1] # "number"

\* data[mp++], counted in the segment
Add(b, ws) ==
  [data |-> b.data \o ws, hmp |-> b.hmp, size |-> b.size + Len(ws)]

init_segment(b, id) ==
  [data |-> b.data \o <<Plain(0), Plain(id)>>, hmp |-> Len(b.data) + 1,
   size |-> 2]

end_segment(b) == [b EXCEPT !.data[b.hmp] = Plain(b.size)]

\* the words of n values, short (16 bit) or not (24 bit)
Shorts(v, n) == [j \in 1..n |-> Low(v[j])]
Ints(v, n) ==
  [j \in 1..(2 * n) |-> IF j % 2 = 1 THEN Low(v[(j + 1) \div 2])
                                     ELSE High(v[j \div 2])]

----------------------------------------------------------------------------
(* mkccnetsegment: each call writes an entry and its commands.             *)

\* Bound: the commands fit in the list.  Neither mkccnetsegment nor ccnetevt.c
\* compares their number with CMDLEN; lists that overflow are left out.
Compile(call, cmd, val, n) ==
  /\ phase = "write" /\ gen + n <= Cmdlen
  /\ calls' = Append(calls, call)
  /\ segcmd' = Append(segcmd, [cmd |-> cmd, val |-> val])
  /\ gen' = gen + n
  /\ UNCHANGED <<phase, cmdbuf, clrbuf, rplybuf, event, full, i, idx, rec, dir,
                 taken>>

\* a call beside init_segment and end_segment may follow
More == Len(calls) + 1 < MaxCalls /\ UNCHANGED open

Call(op, arg) == [op |-> op, arg |-> arg]

mk_init_segment(id) ==
  /\ ~open /\ Len(calls) + 1 < MaxCalls
  /\ open' = TRUE /\ Compile(Call("init", id), "INIT", id, 0)

mk_read_segndata(len) ==
  open /\ More /\ Compile(Call("read", len), "SHORT", len, len)

mk_read_segndata24(len) ==
  open /\ More /\ Compile(Call("read24", len), "INT", len, len)

mk_end_segment == open /\ open' = FALSE /\ Compile(Call("end", 0), "END", 0, 0)

\* read_segdata and read_segdata24: one value
mk_read_segdata == mk_read_segndata(1)
mk_read_segdata24 == mk_read_segndata24(1)

\* control_mod and write_data: a command whose reply is skipped
mk_control_mod == More /\ Compile(Call("write", 0), "SKP", 1, 1)

\* the generated file is compiled and loaded
mk_main ==
  /\ phase = "write" /\ ~open
  /\ phase' = "load"
  /\ UNCHANGED <<lists, cmdbuf, clrbuf, rplybuf, event, full, i, idx, rec,
                 dir, taken>>

----------------------------------------------------------------------------
(* ccnetevt.c                                                              *)

\* Mutant: the number of commands is not set back.
gen_init_kept(buf) == buf

\* ccnet_gen_init(CMDLEN): no command in the list
ccnet_gen_init(buf) == <<>>

\* ccnetstartup(), once for every open: the commands numbered 1..gen, and
\* a list of n clear commands
ccnetstartup(n) ==
  /\ phase \in {"load", "idle"}
  /\ phase' = "idle"
  /\ cmdbuf' = ccnet_gen_init(cmdbuf) \o [c \in 1..gen |-> c]
  /\ clrbuf' = ccnet_gen_init(clrbuf) \o [c \in 1..n |-> 0]
  /\ rec' = Blank /\ dir' = Blank /\ full' = TRUE
  /\ UNCHANGED <<lists, rplybuf, event, i, idx, taken>>

\* the first n commands of a list are answered
Replies(buf, n, e) ==
  [p \in DOMAIN rplybuf |->
     IF p % 2 = 0 /\ p \div 2 \in 1..n THEN <<e, buf[p \div 2]>>
                                       ELSE rplybuf[p]]

NextEvent == (event % Events) + 1

\* ccnet_dma() and the start of ccnet_recseg
Recseg(n) ==
  /\ phase = "idle"
  /\ event' = NextEvent
  /\ rplybuf' = Replies(cmdbuf, n, event')
  /\ full' = (n = Len(cmdbuf))
  /\ i' = 0 /\ idx' = 2 /\ taken' = 0
  /\ rec' = Blank /\ dir' = Blank
  /\ phase' = "rec"
  /\ UNCHANGED <<lists, cmdbuf, clrbuf>>

\* n replies from idx
FromIdx(n) == [j \in 1..n |-> rplybuf[2 * (j - 1) + idx]]

Interpreted(b, s) ==
  CASE s.cmd = "INIT" -> init_segment(b, s.val)
    [] s.cmd = "SHORT" -> Add(b, Shorts(FromIdx(s.val), s.val))
    [] s.cmd = "INT" -> Add(b, Ints(FromIdx(s.val), s.val))
    [] s.cmd = "END" -> end_segment(b)
    [] s.cmd = "SKP" -> b

\* Mutants: a skipped reply is not passed over; a 24-bit value is taken for
\* two replies.
IdxUnskipped(s) == IF s.cmd \in {"SHORT", "INT"} THEN idx + s.val * 2 ELSE idx
IdxPerWord(s) == CASE s.cmd = "INT" -> idx + s.val * 4
                   [] s.cmd \in {"SHORT", "SKP"} -> idx + s.val * 2
                   [] OTHER -> idx

\* idx after the entry s
IdxAfter(s) ==
  IF s.cmd \in {"SHORT", "INT", "SKP"} THEN idx + s.val * 2 ELSE idx

----------------------------------------------------------------------------
(* bbrl.c: the same calls, read directly.                                  *)

FromCamac(n) == [j \in 1..n |-> <<event, taken + j>>]

read_segndata(b, len) == Add(b, Shorts(FromCamac(len), len))

\* read24 writes two words; in a loop, since bbrl.c has no read_segndata24
read_segdata24(b, len) == Add(b, Ints(FromCamac(len), len))

Direct(b, c) == CASE c.op = "init" -> init_segment(b, c.arg)
                  [] c.op = "read" -> read_segndata(b, c.arg)
                  [] c.op = "read24" -> read_segdata24(b, c.arg)
                  [] c.op = "end" -> end_segment(b)
                  [] c.op = "write" -> b

\* commands that are executed by the call
Used(c) == CASE c.op \in {"read", "read24"} -> c.arg
             [] c.op = "write" -> 1
             [] OTHER -> 0

----------------------------------------------------------------------------
\* an entry of the list, beside the call it was written for
Entry ==
  /\ phase = "rec" /\ i < Len(segcmd)
  /\ rec' = Interpreted(rec, segcmd[i + 1])
  /\ idx' = IdxAfter(segcmd[i + 1])
  /\ dir' = Direct(dir, calls[i + 1])
  /\ taken' = taken + Used(calls[i + 1])
  /\ i' = i + 1
  /\ UNCHANGED <<phase, lists, cmdbuf, clrbuf, rplybuf, event, full>>

Return ==
  /\ phase = "rec" /\ i = Len(segcmd)
  /\ phase' = "idle"
  /\ UNCHANGED <<lists, cmdbuf, clrbuf, rplybuf, event, full, i, idx, rec,
                 dir, taken>>

\* Mutant: all commands are taken to have been answered.
SegdataAll(n) == Len(cmdbuf)

\* words ccnet_segdata, with its PIO and DMA variants, takes of n replies
SegdataWords(n) == n

\* ccnet_segdata: the replies there are, as they come, in one segment
ccnet_segdata(n) ==
  /\ phase = "idle"
  /\ event' = NextEvent
  /\ rplybuf' = Replies(cmdbuf, n, event')
  /\ full' = TRUE
  /\ LET m == SegdataWords(n)
     IN rec' = end_segment(Add(init_segment(Blank, 1),
                 Shorts([j \in 1..m |-> rplybuf'[2 * j]], m)))
  /\ dir' = end_segment(Add(init_segment(Blank, 1),
              Shorts([j \in 1..n |-> <<event', j>>], n)))
  /\ UNCHANGED <<phase, lists, cmdbuf, clrbuf, i, idx, taken>>

\* ccnet_clear: the replies go into the same buffer
ccnet_clear ==
  /\ phase = "idle" /\ clrbuf # <<>>
  /\ rplybuf' = Replies(clrbuf, Len(clrbuf), event)
  /\ UNCHANGED <<phase, lists, cmdbuf, clrbuf, event, full, i, idx, rec, dir,
                 taken>>

Init ==
  /\ phase = "write" /\ calls = <<>> /\ open = FALSE
  /\ segcmd = <<>> /\ gen = 0 /\ cmdbuf = <<>> /\ clrbuf = <<>>
  /\ rplybuf = [p \in 0..(2 * Cmdlen + 1) |-> <<0, 0>>]
  /\ event = Events /\ full = TRUE /\ i = 0 /\ idx = 2
  /\ rec = Blank /\ dir = Blank /\ taken = 0

\* ids of a list differ
Next == \/ mk_init_segment(Len(calls) + 1)
        \/ mk_read_segdata \/ mk_read_segdata24
        \/ \E len \in 0..MaxLen : mk_read_segndata(len)
        \/ \E len \in 0..MaxLen : mk_read_segndata24(len)
        \/ mk_end_segment \/ mk_control_mod \/ mk_main
        \/ \E n \in 0..1 : ccnetstartup(n)
        \/ \E n \in (0..Len(cmdbuf)) \cap (0..Cmdlen) :
             Recseg(n) \/ ccnet_segdata(n)
        \/ Entry \/ Return \/ ccnet_clear

Spec == Init /\ [][Next]_vars

----------------------------------------------------------------------------
(* Properties.                                                             *)

TypeOK ==
  /\ phase \in {"write", "load", "idle", "rec"} /\ open \in BOOLEAN
  /\ gen \in 0..Cmdlen /\ Len(cmdbuf) \in {0, gen} /\ Len(clrbuf) \in 0..1
  /\ event \in 1..Events /\ full \in BOOLEAN /\ i \in 0..Len(segcmd)
  /\ taken \in 0..Cmdlen /\ idx \in 2..(2 * Cmdlen + 2)
  /\ \A b \in {rec, dir} : b.hmp \in 0..Len(b.data) /\ b.size \in Nat

\* With all commands answered, ccnet_recseg leaves the words that direct
\* reads by the same calls would have left, for every list of calls, however
\* often the lists were loaded, and whatever an earlier event left behind;
\* ccnet_segdata does so for the replies there are.
SameAsDirect == phase = "idle" /\ full => rec = dir

\* Even with replies missing, the sizes, identifiers and places of a block
\* are right: a short answer can spoil values, never the structure.
ShapeKept ==
  /\ Len(rec.data) = Len(dir.data)
  /\ \A k \in 1..Len(rec.data) :
       \/ IsValue(rec.data[k]) /\ IsValue(dir.data[k])
       \/ rec.data[k] = dir.data[k]

\* ccnet_recseg ends with its index behind the last reply of the list: the
\* two lists that were generated fit each other.
AllTaken ==
  phase = "rec" /\ i = Len(segcmd) => idx = 2 + 2 * Len(cmdbuf)
===========================================================================
