--------------------------- MODULE MemoryReaders ---------------------------
(***************************************************************************)
(* The readers that compute the addresses they read: sis3300_segdata_pre,  *)
(* which follows the ring of samples up to the trigger, and                *)
(* madc32_dmasegdata, which cuts a long transfer into windows; and mmp,    *)
(* which maps whole pages around the DMA buffer.                           *)
(***************************************************************************)
EXTENDS Integers, Sequences

CONSTANTS
  Ring,           \* 0x20000: samples of a SIS3300 bank
  Limit,          \* 3500: the most samples that are read
  Requests,       \* max: what the caller asks for
  Window,         \* DMA_WINDOWSIZE
  Depths,         \* depth: words the caller asks for
  Page,           \* PAGE_SIZE
  Areas           \* <<paddr, size>> of DMA buffers

MemoryAssumption ==
  /\ Ring \in Nat \ {0} /\ Limit \in 0..(Ring - 1)
  /\ Requests \subseteq Nat /\ Depths \subseteq Nat
  /\ Window \in Nat \ {0} /\ Page \in Nat \ {0}
  /\ Areas \subseteq Nat \X (Nat \ {0})

VARIABLES
  pc,             \* the reader at work, or "idle"
  trigger,        \* where the last sample before the trigger is
  max, adptr, wordcnt, flagged,
  samples,        \* the addresses read, counted in samples of the bank
  depth,          \* madc32: words asked for
  written,        \* words of buff its transfers have filled,
  missing,        \* and those of transfers given up
  map             \* dmapaddr, dmapsize and doff of the last mmp, and its area

sis == <<trigger, max, adptr, flagged, samples>>
madc == <<depth, written, missing>>
vars == <<pc, wordcnt, sis, madc, map>>

----------------------------------------------------------------------------
(* sis3300_segdata_pre                                                     *)

Capped(m) == IF m > Limit THEN Limit ELSE m

\* Mutant: no wrap below the start of the bank.
BackUnwrapped(p, m) == p - m

\* adptr = (adptr & 0x1ffff) - max, wrapped below 0
Back(p, m) == IF p - m < 0 THEN Ring + (p - m) ELSE p - m

\* Mutant: no wrap at the top.
ForwardUnwrapped(p) == p + 1

\* adptr += 1, wrapped at the top
Forward(p) == IF p + 1 >= Ring THEN p + 1 - Ring ELSE p + 1

SisBegin(m, p) ==
  /\ pc = "idle"
  /\ trigger' = p
  /\ max' = Capped(m) /\ adptr' = Back(p, Capped(m))
  /\ wordcnt' = 0 /\ flagged' = FALSE /\ samples' = <<>>
  /\ pc' = "sis"
  /\ UNCHANGED <<madc, map>>

\* one sample; one with a bit set by ORBIT or USRBIT is the last
SisLoop(bit) ==
  /\ pc = "sis" /\ wordcnt < max /\ ~flagged
  /\ adptr' = Forward(adptr)
  /\ samples' = Append(samples, adptr')
  /\ wordcnt' = wordcnt + 1
  /\ flagged' = bit
  /\ UNCHANGED <<pc, trigger, max, madc, map>>

SisEnd ==
  /\ pc = "sis" /\ (wordcnt = max \/ flagged)
  /\ pc' = "idle"
  /\ UNCHANGED <<wordcnt, sis, madc, map>>

----------------------------------------------------------------------------
(* madc32_dmasegdata                                                       *)

MadcBegin(d) ==
  /\ pc = "idle"
  /\ depth' = d /\ written' = {} /\ missing' = {} /\ wordcnt' = 0
  /\ pc' = "madc"
  /\ UNCHANGED <<sis, map>>

\* Mutant: every transfer has the size of a window.
ChunkFull == Window

\* words of one transfer: csize / 4
Chunk == IF depth < Window THEN depth ELSE Window

\* one transfer to buff + wordcnt, done or given up after 1000000 polls; the
\* count goes on by a window either way
MadcLoop(done) ==
  /\ pc = "madc" /\ wordcnt < depth
  /\ LET words == wordcnt..(wordcnt + Chunk - 1) IN
       IF done THEN written' = written \cup words /\ UNCHANGED missing
               ELSE missing' = missing \cup words /\ UNCHANGED written
  /\ wordcnt' = wordcnt + Window
  /\ UNCHANGED <<pc, sis, depth, map>>

MadcEnd ==
  /\ pc = "madc" /\ wordcnt >= depth
  /\ pc' = "idle"
  /\ UNCHANGED <<wordcnt, sis, madc, map>>

----------------------------------------------------------------------------
(* mmp                                                                     *)

\* Mutant: the bytes before the area do not count.
MappedFromArea(s, doff) == s + (IF s % Page = 0 THEN 0 ELSE Page - (s % Page))

\* dmapsize: size and what lies before it, filled up to whole pages
Mapped(s, doff) ==
  LET n == s + doff IN n + (IF n % Page = 0 THEN 0 ELSE Page - (n % Page))

Mmp(a) ==
  /\ pc = "idle"
  /\ LET doff == a[1] % Page IN
       map' = [paddr |-> a[1] - doff, size |-> Mapped(a[2], doff),
               ptr |-> a[1] - doff + doff, area |-> a]
  /\ UNCHANGED <<pc, wordcnt, sis, madc>>

----------------------------------------------------------------------------
Init ==
  /\ pc = "idle" /\ wordcnt = 0
  /\ trigger = 0 /\ max = 0 /\ adptr = 0 /\ flagged = FALSE /\ samples = <<>>
  /\ depth = 0 /\ written = {} /\ missing = {}
  /\ map = [paddr |-> 0, size |-> Page, ptr |-> 0, area |-> <<0, 1>>]

Next == \/ \E m \in Requests, p \in 0..(Ring - 1) : SisBegin(m, p)
        \/ \E bit \in BOOLEAN : SisLoop(bit)
        \/ SisEnd
        \/ \E d \in Depths : MadcBegin(d)
        \/ \E done \in BOOLEAN : MadcLoop(done)
        \/ MadcEnd
        \/ \E a \in Areas : Mmp(a)

Spec == Init /\ [][Next]_vars

----------------------------------------------------------------------------
(* Properties.                                                             *)

\* The variables hold values the code's variables can hold.
TypeOK ==
  /\ pc \in {"idle", "sis", "madc"} /\ wordcnt \in Nat
  /\ trigger \in 0..(Ring - 1) /\ max \in 0..Limit
  /\ adptr \in 0..(Ring - 1) /\ flagged \in BOOLEAN
  /\ samples \in Seq(0..(Ring - 1)) /\ depth \in Depths \cup {0}
  /\ written \in SUBSET Nat /\ missing \in SUBSET Nat

\* The k-th of n samples that end at the trigger.
Before(k, n) == (trigger - n + k) % Ring

\* sis3300_segdata_pre reads, oldest first, the samples just before the
\* trigger, up to and with the last one unless a flagged one ends it: none
\* outside the bank and none twice, wherever the ring wraps.
LatestSamples ==
  /\ \A k \in 1..Len(samples) : samples[k] = Before(k, max)
  /\ pc # "sis" /\ ~flagged => Len(samples) = max

\* What the transfers of n words reach: n words when they are fewer than a
\* window or make whole windows, otherwise up to the end of the last window.
Reached(n) ==
  IF n < Window \/ n % Window = 0 THEN n ELSE n - (n % Window) + Window

\* When madc32_dmasegdata returns, each word asked for has been transferred,
\* once, or belongs to a window that was given up, and no word of buff behind
\* those asked for has been touched: except that with more than a window, and
\* not whole windows, the last transfer runs past them to the window's end.
WindowsCover ==
  pc # "madc" => /\ 0..(depth - 1) \subseteq written \cup missing
                 /\ written \cup missing = 0..(Reached(depth) - 1)
                 /\ written \cap missing = {}

\* The pages mmp maps hold the buffer, and no page more than that takes.
PagesCover ==
  LET first == map.area[1]
      last == map.area[1] + map.area[2] - 1
  IN /\ map.paddr % Page = 0 /\ map.size % Page = 0
     /\ map.paddr <= first /\ first < map.paddr + Page
     /\ last < map.paddr + map.size /\ map.paddr + map.size <= last + Page
===========================================================================
