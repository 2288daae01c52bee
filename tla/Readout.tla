------------------------------ MODULE Readout ------------------------------
(***************************************************************************)
(* One trigger, three digitizers.  evt() reads one event from each of two  *)
(* MADC32 and from the V1190 and records the three as one event.  The      *)
(* MADC32 hold one event each and startup() resets them; the V1190 queues  *)
(* events, and neither startup() nor stop() touches its queue.  What keeps *)
(* the three in step is the veto of the LUPO module (busy).                *)
(*                                                                         *)
(* Triggers come at any time the veto is down, and the digitizers finish   *)
(* in any order.  Two things put a run out of step that nothing in the     *)
(* code prevents, and the history variable disturbed marks the runs they   *)
(* happen in: a trigger while startup() is at work, which opens the veto   *)
(* before the MADC32 are started and once more at its end, and a module    *)
(* that is read before its conversion is over, since the interrupt tells   *)
(* of the first MADC32 only.                                               *)
(***************************************************************************)
EXTENDS Naturals, Sequences

CONSTANTS
  Scripted,       \* TRUE: init_v1190.sh is run before every open
  Ids,            \* triggers are numbered 1..Ids and from 1 again
  MaxQueue        \* bound: no trigger while the V1190 holds so many events

ASSUME ReadoutAssumption ==
  Scripted \in BOOLEAN /\ Ids \in Nat \ {0, 1} /\ MaxQueue \in Nat \ {0}

Madc == {1, 2}
TDC == 3
Digitizers == Madc \cup {TDC}
None == 0

VARIABLES
  busy,           \* the veto of the LUPO module
  trig,           \* number of the last trigger
  conv,           \* the event each digitizer is converting, or None
  acq,            \* whether each MADC32 has been started
  adc,            \* the event each MADC32 holds, or None
  queue,          \* the events the V1190 holds
  script,         \* init_v1190.sh has been run since the last open
  disturbed,      \* history: since then, a trigger before the run had
                  \* begun, or a module read too early
  pc,             \* where the driver is
  mpflag,         \* the veto is left to clear()
  masked,         \* both halves of the buffer are full: interrupt masked
  rec,            \* the three parts of the event being recorded, or None
  last            \* the last event recorded in this run, or None

digitizers == <<trig, conv, acq, adc, queue>>
driver == <<mpflag, masked, rec, last>>
vars == <<busy, digitizers, script, disturbed, pc, driver>>

Startup == {"halt", "start1", "start2", "pulse"}
Evt == {"madc1", "madc2", "v1190", "veto", "leave"}

\* Mutant: the number does not wrap.
SuccUnwrapped(n) == n + 1

Succ(n) == (n % Ids) + 1

----------------------------------------------------------------------------
(* The electronics.                                                        *)

Accepts(d) == conv[d] = None /\ (d \in Madc => acq[d] = 1 /\ adc[d] = None)

\* The V1190 has been cleared, and the run has not begun.
Opening == pc \in Startup \/ (pc = "off" /\ script = 1)

\* The veto is down: every digitizer that can takes the event.  Bounds: the
\* V1190 has queued its last event, and fewer than MaxQueue.
Trigger ==
  /\ busy = 0
  /\ conv[TDC] = None /\ Len(queue) < MaxQueue
  /\ disturbed' = IF Opening THEN 1 ELSE disturbed
  /\ busy' = 1
  /\ trig' = Succ(trig)
  /\ conv' = [d \in Digitizers |-> IF Accepts(d) THEN trig' ELSE conv[d]]
  /\ UNCHANGED <<acq, adc, queue, script, pc, driver>>

ConvertMadc(m) ==
  /\ conv[m] # None
  /\ adc' = [adc EXCEPT ![m] = conv[m]]
  /\ conv' = [conv EXCEPT ![m] = None]
  /\ UNCHANGED <<busy, trig, acq, queue, script, disturbed, pc, driver>>

ConvertTdc ==
  /\ conv[TDC] # None
  /\ queue' = Append(queue, conv[TDC])
  /\ conv' = [conv EXCEPT ![TDC] = None]
  /\ UNCHANGED <<busy, trig, acq, adc, script, disturbed, pc, driver>>

----------------------------------------------------------------------------
(* init_v1190.sh, run by hand while the device is closed; it ends with a   *)
(* clear of the module's data.                                             *)

RunScript ==
  /\ pc = "off" /\ script = 0
  /\ script' = 1
  /\ disturbed' = 0
  /\ queue' = <<>>
  /\ conv' = [conv EXCEPT ![TDC] = None]
  /\ UNCHANGED <<busy, trig, acq, adc, pc, driver>>

----------------------------------------------------------------------------
(* nbbqdrv_open with startup().                                            *)

\* chkbuff = 0 and the first BUSYCL
Open ==
  /\ pc = "off"
  /\ Scripted => script = 1
  /\ script' = 0
  /\ masked' = 0
  /\ busy' = 0
  /\ pc' = "halt"
  /\ UNCHANGED <<digitizers, disturbed, mpflag, rec, last>>

\* stop_acq of both
Halt ==
  /\ pc = "halt"
  /\ acq' = [m \in Madc |-> 0]
  /\ pc' = "start1"
  /\ UNCHANGED <<busy, trig, conv, adc, queue, script, disturbed, driver>>

\* Mutant: readout_reset leaves the event in the module.
NotEmptied(m) == adc

\* the MADC32s after readout_reset of m
Emptied(m) == [adc EXCEPT ![m] = None]

\* fifo_reset, start_acq, readout_reset
Start(m) ==
  /\ acq' = [acq EXCEPT ![m] = 1]
  /\ adc' = Emptied(m)
  /\ conv' = [conv EXCEPT ![m] = None]
  /\ UNCHANGED <<busy, trig, queue, script, disturbed, driver>>

Start1 == pc = "start1" /\ Start(1) /\ pc' = "start2"
Start2 == pc = "start2" /\ Start(2) /\ pc' = "pulse"

\* the last BUSYCL; vme_enable_interrupt
Pulse ==
  /\ pc = "pulse"
  /\ busy' = 0
  /\ last' = trig
  /\ pc' = "run"
  /\ UNCHANGED <<digitizers, script, disturbed, mpflag, masked, rec>>

----------------------------------------------------------------------------
(* The interrupt of the first MADC32, and evt().                           *)

Interrupt ==
  /\ pc = "run" /\ masked = 0
  /\ adc[1] # None
  /\ pc' = "madc1"
  /\ UNCHANGED <<busy, digitizers, script, disturbed, driver>>

\* the mark after d was read, perhaps while it still converts
TooEarly(d) == IF conv[d] # None THEN 1 ELSE disturbed

\* madc32_segdata and readout_reset
ReadMadc(m) ==
  /\ rec' = [rec EXCEPT ![m] = adc[m]]
  /\ disturbed' = TooEarly(m)
  /\ adc' = Emptied(m)
  /\ UNCHANGED <<busy, trig, conv, acq, queue, script, mpflag, masked, last>>

ReadMadc1 == pc = "madc1" /\ ReadMadc(1) /\ pc' = "madc2"
ReadMadc2 == pc = "madc2" /\ ReadMadc(2) /\ pc' = "v1190"

\* Mutant: the words of the event are not taken out of the module.
NotShortened == queue

\* the V1190 after one event, from its header to its trailer, was read
Shortened == IF queue = <<>> THEN queue ELSE Tail(queue)

\* v1X90_segdata: an empty queue gives one filler word
ReadTdc ==
  /\ pc = "v1190"
  /\ rec' = [rec EXCEPT ![TDC] = IF queue = <<>> THEN None ELSE Head(queue)]
  /\ queue' = Shortened
  /\ disturbed' = TooEarly(TDC)
  /\ pc' = "veto"
  /\ UNCHANGED <<busy, trig, conv, acq, adc, script, mpflag, masked, last>>

\* Busy Clear, unless the block is full
Veto(full) ==
  /\ pc = "veto"
  /\ mpflag' = IF full THEN 1 ELSE 0
  /\ busy' = IF full THEN busy ELSE 0
  /\ last' = rec[1]
  /\ pc' = "leave"
  /\ UNCHANGED <<digitizers, script, disturbed, masked, rec>>

\* clear(): the veto after it
Cleared == IF mpflag = 1 THEN 0 ELSE busy

Return == pc' = "run" /\ rec' = [d \in Digitizers |-> None]

\* The handler returns; only a full block can be the second one that waits.
LeaveRunning ==
  /\ pc = "leave"
  /\ busy' = Cleared
  /\ Return
  /\ UNCHANGED <<digitizers, script, disturbed, mpflag, masked, last>>

LeaveMasked ==
  /\ pc = "leave" /\ mpflag = 1
  /\ masked' = 1
  /\ Return
  /\ UNCHANGED <<busy, digitizers, script, disturbed, mpflag, last>>

\* nbbqdrv_read with both halves full; STOP too may have filled the second
Read ==
  /\ masked = 1 \/ pc = "stopped"
  /\ pc \in {"run", "stopped"}
  /\ masked' = 0
  /\ busy' = Cleared
  /\ UNCHANGED <<digitizers, script, disturbed, pc, mpflag, rec, last>>

----------------------------------------------------------------------------
(* NBBQ_STOP masks the interrupt, then stop(); and the release.            *)

Stop ==
  /\ pc = "run"
  /\ pc' = "stopping"
  /\ UNCHANGED <<busy, digitizers, script, disturbed, driver>>

StopModules ==
  /\ pc = "stopping"
  /\ acq' = [m \in Madc |-> 0]
  /\ pc' = "stopped"
  /\ UNCHANGED <<busy, trig, conv, adc, queue, script, disturbed, driver>>

Release ==
  /\ pc = "stopped"
  /\ pc' = "off" /\ last' = None
  /\ UNCHANGED <<busy, digitizers, script, disturbed, mpflag, masked, rec>>

----------------------------------------------------------------------------
Init ==
  /\ busy \in 0..1 /\ trig = Ids
  /\ conv = [d \in Digitizers |-> None]
  /\ acq = [m \in Madc |-> 0] /\ adc = [m \in Madc |-> None]
  /\ queue = <<>> /\ script = 0 /\ disturbed = 0
  /\ pc = "off" /\ mpflag = 0 /\ masked = 0
  /\ rec = [d \in Digitizers |-> None] /\ last = None

Drive == \/ Trigger \/ ConvertTdc \/ \E m \in Madc : ConvertMadc(m)
         \/ Open \/ Halt \/ Start1 \/ Start2 \/ Pulse
         \/ Interrupt \/ ReadMadc1 \/ ReadMadc2 \/ ReadTdc
         \/ \E full \in BOOLEAN : Veto(full)
         \/ LeaveRunning \/ LeaveMasked \/ Read
         \/ Stop \/ StopModules \/ Release

Next == RunScript \/ Drive

Spec == Init /\ [][Next]_vars

----------------------------------------------------------------------------
(* Properties.                                                             *)

\* The variables hold values the registers and flags of the code can hold.
TypeOK ==
  /\ busy \in 0..1 /\ trig \in 1..Ids
  /\ conv \in [Digitizers -> 0..Ids]
  /\ acq \in [Madc -> 0..1] /\ adc \in [Madc -> 0..Ids]
  /\ queue \in Seq(1..Ids) /\ script \in 0..1 /\ disturbed \in 0..1
  /\ pc \in {"off", "run", "stopping", "stopped"} \cup Startup \cup Evt
  /\ mpflag \in 0..1 /\ masked \in 0..1
  /\ rec \in [Digitizers -> 0..Ids] /\ last \in 0..Ids

\* The three parts that evt() records as one event belong to one trigger, the
\* one that follows the trigger of the event recorded before: no digitizer is
\* an event ahead or behind, and no accepted trigger goes unread, unless the
\* run is disturbed; and the script puts right what an earlier run left.
Aligned ==
  pc = "veto" /\ disturbed = 0 => \A d \in Digitizers : rec[d] = Succ(last)

\* v1X90_segdata calls more than one event in the V1190 an error: no event of
\* an earlier trigger is still there when one is read in such a run.
NoMultiEvent == pc = "v1190" /\ disturbed = 0 => Len(queue) <= 1
===========================================================================
