------------------------------ MODULE Nbbqdrv ------------------------------
(***************************************************************************)
(* The character device of the nbbq driver, built with DBUFF and VMEINT:   *)
(* the interrupt handler fills one half of a double buffer with events,    *)
(* the client polls, reads finished halves and stops the run, and the two  *)
(* share chkbuff, chkblk, startflag, stopflag, the interrupt mask of the   *)
(* VME bridge and the busy latch (the trigger veto) with no lock.          *)
(* One action per step of a call between two accesses that the other side  *)
(* can tell apart; C flags are the integers 0 and 1.                       *)
(***************************************************************************)
EXTENDS Integers, Sequences

CONSTANTS
  SMP,            \* TRUE: the handler and the client run on two processors
  Shared,         \* TRUE: another device shares the interrupt line
  MaxBuff,        \* MAXBUFF: a block longer than this many words is closed
  Half,           \* BLKSIZE/2, the words of one half of the buffer
  EventSizes,     \* words of an event, headers included
  WindowWords,    \* timing: words recorded while a read updates chkbuff
  Ids             \* events are numbered 1..Ids and from 1 again

Header == 4       \* words of a block header

ASSUME FlagAssumption == SMP \in BOOLEAN /\ Shared \in BOOLEAN
ASSUME SizeAssumption ==
  /\ MaxBuff \in Nat /\ Half \in Nat /\ Header <= MaxBuff /\ MaxBuff < Half
  /\ EventSizes \subseteq Nat \ {0}
  /\ WindowWords \in Nat
  /\ Ids \in Nat \ {0}

VARIABLES
  \* nbbqdrv.c and bbrl.c
  startflag, stopflag, chkblk, chkbuff, drn, dn, mp, eventid, mpflag, buf,
  \* hardware: bridge mask, busy latch, digitizer running, event waiting (its
  \* size, 0 for none), number of the last event digitized
  inten, busy, acq, evq, evid,
  \* the handler: program counter and the register that holds chkbuff
  pcH, regH,
  \* the client and the call it is in: program counter, register, whether the
  \* last poll reported POLLIN, the answer of the last STOP, wake-up received
  pcU, regU, ready, flag, woken,
  \* history: the finished blocks not yet read, and the words recorded since
  \* the read in progress loaded chkbuff
  fifo, win

flags  == <<startflag, stopflag>>
block  == <<dn, mp, eventid, mpflag, buf>>
hw     == <<inten, busy, acq, evq, evid>>
client == <<pcU, regU, ready, flag>>
vars == <<flags, chkblk, chkbuff, drn, block, hw, pcH, regH, client, woken,
          fifo, win>>

Opening == {"start", "modules", "go", "enable"}
Closing == {"closing", "closed"}
Window  == {"full", "clear", "reload", "store"}   \* chkbuff is in a register
Opened  == pcU \notin Opening \cup Closing

End == -1         \* the 0xffff words that end a block
Zeroed == 0       \* a word of memory no event was written to
Words == -1..Ids

\* One processor: the client runs only when the handler does not.
ClientMayRun == SMP \/ pcH = "idle"

----------------------------------------------------------------------------
(* bbrl.c, evt.c, clear.c: the words of the buffer are kept per event.     *)

\* data[..] = x at the place of event k of the half
Put(half, k, x) ==
  [i \in 1..(IF k > Len(half) THEN k ELSE Len(half)) |->
     IF i = k THEN x ELSE IF i <= Len(half) THEN half[i] ELSE Zeroed]

\* Mutant: mp is advanced before the write, the place of an event is skipped.
WriteAfterGap(x) == buf' = [buf EXCEPT ![dn] = Put(buf[dn], eventid + 2, x)]

Write(x) == buf' = [buf EXCEPT ![dn] = Put(buf[dn], eventid + 1, x)]

\* Mutant: no wrap to the first half.
OtherUnwrapped(h) == h + 1

Other(h) == 1 - h                   \* chmem and drn++ modulo 2

BlockOver(m) == m > MaxBuff         \* end_event() > MAXBUFF
\* Mutant: the veto is tied to the size of the half, not to MAXBUFF.
BusyKeptToHalf(m) == m >= Half

BusyKept(m) == m >= MaxBuff         \* evt() leaves the veto on

\* Mutant: clear() forgets the BUSYCL pulse.
ClearedNot == busy

\* clear(): the busy latch after it
Cleared == IF mpflag = 1 THEN 0 ELSE busy

----------------------------------------------------------------------------
(* Hardware.                                                               *)

\* A trigger the latch does not veto; a digitizer that is stopped, or still
\* holds an event, drops it.
Trigger(s) ==
  /\ busy = 0
  /\ busy' = 1
  /\ IF acq = 1 /\ evq = 0
       THEN evq' = s /\ evid' = (evid % Ids) + 1
       ELSE UNCHANGED <<evq, evid>>
  /\ UNCHANGED <<flags, chkblk, chkbuff, drn, block, inten, acq, pcH, regH,
                 client, woken, fifo, win>>

----------------------------------------------------------------------------
(* nbbqdrv_interrupt.                                                      *)

Requested == inten = 1 /\ evq > 0

Entered == /\ pcH = "idle"
           /\ Requested \/ Shared
           /\ pcU \in Window => \A s \in EventSizes : win + s <= WindowWords

\* Mutant: no wake-up.
LeaveAsleep == pcH' = "idle" /\ woken' = woken

\* wake_up_interruptible and return
Leave == pcH' = "idle" /\ woken' = 1

HRefuse ==
  /\ Entered
  /\ startflag = 0
  /\ inten' = 0
  /\ Leave
  /\ UNCHANGED <<flags, chkblk, chkbuff, drn, block, busy, acq, evq, evid,
                 regH, client, fifo, win>>

HBegin ==
  /\ Entered
  /\ startflag = 1
  /\ chkblk' = 1
  /\ mp' = IF chkblk = 0 THEN Header ELSE mp
  /\ eventid' = IF chkblk = 0 THEN 0 ELSE eventid
  /\ pcH' = "check"
  /\ UNCHANGED <<flags, chkbuff, drn, dn, mpflag, buf, hw, regH, client,
                 woken, fifo, win>>

\* Not our interrupt: IRQ_NONE, no wake-up.  Whether a masked request shows
\* in the bridge is left open.
HNotOurs ==
  /\ pcH = "check"
  /\ ~Requested
  /\ pcH' = "idle"
  /\ UNCHANGED <<flags, chkblk, chkbuff, drn, block, hw, regH, client, woken,
                 fifo, win>>

HMask ==
  /\ pcH = "check"
  /\ evq > 0
  /\ inten' = 0
  /\ pcH' = "evt"
  /\ UNCHANGED <<flags, chkblk, chkbuff, drn, block, busy, acq, evq, evid,
                 regH, client, woken, fifo, win>>

HEvt ==
  /\ pcH = "evt"
  /\ Write(evid)
  /\ eventid' = eventid + 1
  /\ mp' = mp + evq
  /\ evq' = 0
  /\ IF BusyKept(mp') THEN mpflag' = 1 /\ busy' = busy
                      ELSE mpflag' = 0 /\ busy' = 0
  /\ win' = IF pcU \in Window THEN win + evq ELSE win
  /\ pcH' = "end"
  /\ UNCHANGED <<flags, chkblk, chkbuff, drn, dn, inten, acq, evid, regH,
                 client, woken, fifo>>

\* The block goes on.
HGoOn ==
  /\ pcH = "end"
  /\ ~BlockOver(mp)
  /\ inten' = 1
  /\ busy' = Cleared
  /\ Leave
  /\ UNCHANGED <<flags, chkblk, chkbuff, drn, block, acq, evq, evid, regH,
                 client, fifo, win>>

\* end_block, sca, chkblk = 0; the load of chkbuff++
HEndBlock ==
  /\ pcH = "end"
  /\ BlockOver(mp)
  /\ Write(End)
  /\ mp' = Half
  /\ chkblk' = 0
  /\ regH' = chkbuff
  /\ pcH' = "publish"
  /\ UNCHANGED <<flags, chkbuff, drn, dn, eventid, mpflag, hw, client, woken,
                 fifo, win>>

\* the store of chkbuff++
HPublish ==
  /\ pcH = "publish"
  /\ chkbuff' = regH + 1
  /\ fifo' = Append(fifo, buf[dn])
  /\ pcH' = "chmem"
  /\ UNCHANGED <<flags, chkblk, drn, block, hw, regH, client, woken, win>>

HChmem ==
  /\ pcH = "chmem"
  /\ dn' = Other(dn)
  /\ pcH' = "unmask"
  /\ UNCHANGED <<flags, chkblk, chkbuff, drn, mp, eventid, mpflag, buf, hw,
                 regH, client, woken, fifo, win>>

\* Mutants: masked one block too late, or already by the first.
KeepMaskedAtThree(c) == c = 3
KeepMaskedAtOne(c) == c >= 1

\* Both halves are full: the mask and the veto stay until a read.
KeepMasked(c) == c = 2

HUnmask ==
  /\ pcH = "unmask"
  /\ IF KeepMasked(regH + 1) THEN UNCHANGED <<inten, busy>>
                             ELSE inten' = 1 /\ busy' = Cleared
  /\ regH' = 0
  /\ Leave
  /\ UNCHANGED <<flags, chkblk, chkbuff, drn, block, acq, evq, evid, client,
                 fifo, win>>

----------------------------------------------------------------------------
(* nbbqdrv_open, with startup().                                           *)

UOpen ==
  /\ ClientMayRun
  /\ pcU = "closed"
  /\ chkblk' = 0 /\ chkbuff' = 0 /\ stopflag' = 0 /\ drn' = 0
  /\ dn' = 0 /\ buf' = [h \in 0..1 |-> <<>>]
  /\ fifo' = <<>> /\ ready' = 0 /\ flag' = 0
  /\ pcU' = "start"
  /\ UNCHANGED <<startflag, mp, eventid, mpflag, hw, pcH, regH, regU, woken,
                 win>>

\* startflag = 1 and the BUSYCL pulse at the top of startup()
UStart ==
  /\ ClientMayRun
  /\ pcU = "start"
  /\ startflag' = 1
  /\ busy' = 0
  /\ pcU' = "modules"
  /\ UNCHANGED <<stopflag, chkblk, chkbuff, drn, block, inten, acq, evq, evid,
                 pcH, regH, regU, ready, flag, woken, fifo, win>>

\* stop_acq, the settings, fifo_reset, start_acq and readout_reset
UModules ==
  /\ ClientMayRun
  /\ pcU = "modules"
  /\ acq' = 1 /\ evq' = 0 /\ evid' = 0
  /\ pcU' = "go"
  /\ UNCHANGED <<flags, chkblk, chkbuff, drn, block, inten, busy, pcH, regH,
                 regU, ready, flag, woken, fifo, win>>

\* the last BUSYCL pulse
UGo ==
  /\ ClientMayRun
  /\ pcU = "go"
  /\ busy' = 0
  /\ pcU' = "enable"
  /\ UNCHANGED <<flags, chkblk, chkbuff, drn, block, inten, acq, evq, evid,
                 pcH, regH, regU, ready, flag, woken, fifo, win>>

UEnable ==
  /\ ClientMayRun
  /\ pcU = "enable"
  /\ inten' = 1
  /\ pcU' = "idle"
  /\ UNCHANGED <<flags, chkblk, chkbuff, drn, block, busy, acq, evq, evid,
                 pcH, regH, regU, ready, flag, woken, fifo, win>>

----------------------------------------------------------------------------
(* nbbqdrv_poll: poll_wait registers first, then chkbuff is looked at; the *)
(* kernel repeats the look after a wake-up and gives up on a timeout.      *)

UPoll ==
  /\ ClientMayRun
  /\ pcU = "idle" /\ ready = 0
  /\ woken' = 0
  /\ pcU' = "poll"
  /\ UNCHANGED <<flags, chkblk, chkbuff, drn, block, hw, pcH, regH, regU,
                 ready, flag, fifo, win>>

UPollLook ==
  /\ ClientMayRun
  /\ pcU = "poll"
  /\ IF chkbuff > 0 THEN ready' = 1 /\ pcU' = "idle"
                    ELSE ready' = 0 /\ pcU' = "sleep"
  /\ UNCHANGED <<flags, chkblk, chkbuff, drn, block, hw, pcH, regH, regU,
                 flag, woken, fifo, win>>

UWake ==
  /\ ClientMayRun
  /\ pcU = "sleep" /\ woken = 1
  /\ woken' = 0
  /\ pcU' = "poll"
  /\ UNCHANGED <<flags, chkblk, chkbuff, drn, block, hw, pcH, regH, regU,
                 ready, flag, fifo, win>>

UTimeout ==
  /\ ClientMayRun
  /\ pcU = "sleep"
  /\ pcU' = "idle"
  /\ UNCHANGED <<flags, chkblk, chkbuff, drn, block, hw, pcH, regH, regU,
                 ready, flag, woken, fifo, win>>

----------------------------------------------------------------------------
(* nbbqdrv_read.  The client reads after a poll that reported POLLIN.      *)

URead ==
  /\ ClientMayRun
  /\ pcU = "idle" /\ ready = 1
  /\ ready' = 0
  /\ pcU' = "copy"
  /\ UNCHANGED <<flags, chkblk, chkbuff, drn, block, hw, pcH, regH, regU,
                 flag, woken, fifo, win>>

\* copy_to_user has ended; drn++
UCopied ==
  /\ ClientMayRun
  /\ pcU = "copy"
  /\ drn' = Other(drn)
  /\ fifo' = IF fifo = <<>> THEN fifo ELSE Tail(fifo)
  /\ pcU' = "load"
  /\ UNCHANGED <<flags, chkblk, chkbuff, block, hw, pcH, regH, regU, ready,
                 flag, woken, win>>

\* if(chkbuff == 2)
ULoad ==
  /\ ClientMayRun
  /\ pcU = "load"
  /\ regU' = chkbuff
  /\ win' = 0
  /\ pcU' = IF chkbuff = 2 THEN "full" ELSE "store"
  /\ UNCHANGED <<flags, chkblk, chkbuff, drn, block, hw, pcH, regH, ready,
                 flag, woken, fifo>>

\* Mutant: a read after STOP unmasks.
ReenabledAlways == 1

\* the mask after if(stopflag == 0) vme_enable_interrupt()
Reenabled == IF stopflag = 0 THEN 1 ELSE inten

UFull ==
  /\ ClientMayRun
  /\ pcU = "full"
  /\ inten' = Reenabled
  /\ pcU' = "clear"
  /\ UNCHANGED <<flags, chkblk, chkbuff, drn, block, busy, acq, evq, evid,
                 pcH, regH, regU, ready, flag, woken, fifo, win>>

UClear ==
  /\ ClientMayRun
  /\ pcU = "clear"
  /\ busy' = Cleared
  /\ pcU' = "reload"
  /\ UNCHANGED <<flags, chkblk, chkbuff, drn, block, inten, acq, evq, evid,
                 pcH, regH, regU, ready, flag, woken, fifo, win>>

\* the load of chkbuff-- after the calls
UReload ==
  /\ ClientMayRun
  /\ pcU = "reload"
  /\ regU' = chkbuff
  /\ pcU' = "store"
  /\ UNCHANGED <<flags, chkblk, chkbuff, drn, block, hw, pcH, regH, ready,
                 flag, woken, fifo, win>>

\* Mutant: a read is not counted.
DecrementedNot(c) == c

\* the value chkbuff-- and the test below 0 store
Decremented(c) == IF c > 0 THEN c - 1 ELSE 0

UStore ==
  /\ ClientMayRun
  /\ pcU = "store"
  /\ chkbuff' = Decremented(regU)
  /\ regU' = 0 /\ win' = 0
  /\ pcU' = "idle"
  /\ UNCHANGED <<flags, chkblk, drn, block, hw, pcH, regH, ready, flag, woken,
                 fifo>>

----------------------------------------------------------------------------
(* nbbqdrv_ioctl, NBBQ_STOP (NBBQ_EI does nothing with DBUFF).             *)

UStop ==
  /\ ClientMayRun
  /\ pcU = "idle"
  /\ inten' = 0
  /\ pcU' = "flags"
  /\ UNCHANGED <<flags, chkblk, chkbuff, drn, block, busy, acq, evq, evid,
                 pcH, regH, regU, ready, flag, woken, fifo, win>>

UFlags ==
  /\ ClientMayRun
  /\ pcU = "flags"
  /\ startflag' = 0 /\ stopflag' = 1
  /\ flag' = 0
  /\ pcU' = IF chkblk = 1 THEN "end" ELSE "stop"
  /\ UNCHANGED <<chkblk, chkbuff, drn, block, hw, pcH, regH, regU, ready,
                 woken, fifo, win>>

\* end_block, sca; the load of chkbuff++
UEndBlock ==
  /\ ClientMayRun
  /\ pcU = "end"
  /\ Write(End)
  /\ mp' = Half
  /\ regU' = chkbuff
  /\ pcU' = "publish"
  /\ UNCHANGED <<flags, chkblk, chkbuff, drn, dn, eventid, mpflag, hw, pcH,
                 regH, ready, flag, woken, fifo, win>>

\* the store of chkbuff++, the answer, chkblk = 0; the half is not switched
UPublish ==
  /\ ClientMayRun
  /\ pcU = "publish"
  /\ chkbuff' = regU + 1 /\ flag' = regU + 1
  /\ chkblk' = 0
  /\ fifo' = Append(fifo, buf[dn])
  /\ regU' = 0
  /\ pcU' = "stop"
  /\ UNCHANGED <<flags, drn, block, hw, pcH, regH, ready, woken, win>>

\* stop()
UStopModules ==
  /\ ClientMayRun
  /\ pcU = "stop"
  /\ acq' = 0
  /\ pcU' = "idle"
  /\ UNCHANGED <<flags, chkblk, chkbuff, drn, block, inten, busy, evq, evid,
                 pcH, regH, regU, ready, flag, woken, fifo, win>>

----------------------------------------------------------------------------
(* nbbqdrv_release.                                                        *)

URelease ==
  /\ ClientMayRun
  /\ pcU = "idle"
  /\ chkbuff' = 0
  /\ fifo' = <<>>
  /\ pcU' = "closing"
  /\ UNCHANGED <<flags, chkblk, drn, block, hw, pcH, regH, regU, ready, flag,
                 woken, win>>

UClosed ==
  /\ ClientMayRun
  /\ pcU = "closing"
  /\ inten' = 0
  /\ pcU' = "closed"
  /\ UNCHANGED <<flags, chkblk, chkbuff, drn, block, busy, acq, evq, evid,
                 pcH, regH, regU, ready, flag, woken, fifo, win>>

----------------------------------------------------------------------------
Init ==
  /\ startflag = 0 /\ stopflag = 0 /\ chkblk = 0 /\ chkbuff = 0
  /\ drn = 0 /\ dn = 0 /\ mp = 0 /\ eventid = 0 /\ mpflag = 0
  /\ buf = [h \in 0..1 |-> <<>>]
  /\ inten = 0 /\ busy \in 0..1 /\ acq = 0 /\ evq = 0 /\ evid = 0
  /\ pcH = "idle" /\ regH = 0
  /\ pcU = "closed" /\ regU = 0 /\ ready = 0 /\ flag = 0 /\ woken = 0
  /\ fifo = <<>> /\ win = 0

HEntry == HRefuse \/ HBegin
HInside == \/ HNotOurs \/ HMask \/ HEvt \/ HGoOn \/ HEndBlock
           \/ HPublish \/ HChmem \/ HUnmask
UInside == \/ UStart \/ UModules \/ UGo \/ UEnable
           \/ UPollLook \/ UWake
           \/ UCopied \/ ULoad \/ UFull \/ UClear \/ UReload \/ UStore
           \/ UFlags \/ UEndBlock \/ UPublish \/ UStopModules
           \/ UClosed
UCall == UOpen \/ UPoll \/ UTimeout \/ URead \/ UStop \/ URelease

Next == \/ \E s \in EventSizes : Trigger(s)
        \/ HEntry \/ HInside \/ UInside \/ UCall

Spec == Init /\ [][Next]_vars

\* A request that is not masked is served, a handler and a call that have
\* begun go on, and the client polls and reads again and again.  Triggers,
\* timeouts, STOP, open and release may never come.
FairSpec ==
  /\ Spec
  /\ WF_vars(Requested /\ HEntry) /\ WF_vars(HInside) /\ WF_vars(UInside)
  /\ SF_vars(UPoll) /\ SF_vars(URead)

----------------------------------------------------------------------------
(* Properties.                                                             *)

TypeOK ==
  /\ startflag \in 0..1 /\ stopflag \in 0..1 /\ chkblk \in 0..1
  /\ chkbuff \in Nat /\ drn \in 0..1 /\ dn \in 0..1
  /\ mp \in Nat /\ eventid \in Nat /\ mpflag \in 0..1
  /\ buf \in [0..1 -> Seq(Words)]
  /\ inten \in 0..1 /\ busy \in 0..1 /\ acq \in 0..1
  /\ evq \in EventSizes \cup {0} /\ evid \in 0..Ids
  /\ pcH \in {"idle", "check", "evt", "end", "publish", "chmem", "unmask"}
  /\ regH \in Nat
  /\ pcU \in Opening \cup Closing \cup Window \cup
             {"idle", "poll", "sleep", "copy", "load",
              "flags", "end", "publish", "stop"}
  /\ regU \in Nat /\ ready \in 0..1 /\ flag \in Nat /\ woken \in 0..1
  /\ fifo \in Seq(Seq(Words)) /\ win \in Nat

\* No finished block is touched before it has been copied to the client, also
\* not while the copy runs, and the reader looks at the halves in the order
\* in which they were finished.
UnreadIntact ==
  Opened => \A i \in 1..Len(fifo) : buf[(drn + i - 1) % 2] = fifo[i]

\* Between calls chkbuff never promises a block that is not there.
CountNeverAhead ==
  pcH = "idle" /\ pcU \in {"idle", "poll", "sleep"} => chkbuff <= Len(fifo)

\* Between calls chkbuff is the number of finished blocks.
CountAccurate ==
  pcH = "idle" /\ pcU \in {"idle", "poll", "sleep"} => chkbuff = Len(fifo)

\* A poll that sleeps with no wake-up on its way has nothing to report.
NoMissedWakeup ==
  pcH = "idle" /\ pcU = "sleep" /\ woken = 0 => chkbuff = 0

Running == Opened /\ startflag = 1 /\ stopflag = 0

\* While a run goes on, a veto that is on has an owner that will take it off:
\* an event still to be read out, or a handler that left it, with the
\* interrupt masked, because a finished block waits.
VetoOwned ==
  Running /\ pcH = "idle" /\ pcU # "clear" /\ busy = 1 =>
    \/ evq > 0
    \/ inten = 0 /\ mpflag = 1 /\ fifo # <<>>

\* The interrupt is masked between calls exactly while both halves are full.
MaskedIffFull ==
  Running /\ pcH = "idle" /\ pcU \in {"idle", "poll", "sleep"} =>
    (inten = 0 <=> Len(fifo) = 2)

\* A nonzero answer of STOP is the number of blocks the client can still read.
StopAnswer ==
  pcU = "stop" /\ flag > 0 =>
    flag <= 2 /\ flag = Len(fifo) /\ flag = chkbuff

\* Once STOP has been answered nothing is recorded until the next open: the
\* interrupt stays masked and the finished blocks only go to the client.
StopIsFinal ==
  [][Opened /\ stopflag = 1 /\ pcU \notin {"flags", "end", "publish"} =>
       /\ inten' = 0
       /\ fifo' \in {fifo, <<>>} \/ fifo' = Tail(fifo)
       /\ dn' = dn]_vars

\* The events of a half, up to the END marker.
Events(half) ==
  IF \E n \in DOMAIN half : half[n] = End
    THEN SubSeq(half, 1, (CHOOSE n \in DOMAIN half :
            /\ half[n] = End
            /\ \A k \in 1..(n - 1) : half[k] # End) - 1)
    ELSE half

Channel == INSTANCE BlockChannel WITH
  mode <- IF ~Opened THEN "off"
          ELSE IF startflag = 1 \/ pcU \in {"end", "publish"} THEN "on"
          ELSE "stopped",
  queue <- IF Opened
           THEN [i \in DOMAIN fifo |-> Events(buf[(drn + i - 1) % 2])]
           ELSE <<>>,
  cur <- IF Opened /\ (chkblk = 1 \/ pcH = "publish")
           THEN SubSeq(buf[dn], 1, eventid) ELSE <<>>,
  next <- IF ~Opened THEN 1
          ELSE IF evq > 0 THEN evid ELSE (evid % Ids) + 1

\* The driver is a channel of blocks that loses, repeats and moves no event.
IsChannel == Channel!Spec

\* A finished block is eventually read.
IsLiveChannel == Channel!FairSpec

\* The veto does not stay on for the rest of a run.
VetoReleased == (Running /\ busy = 1) ~> (busy = 0 \/ ~Running)

\* The comment of nbbqdrv_interrupt: when the driver is not opened, the
\* handler returns at once.
RefusedWhenClosed == pcU = "closed" => pcH = "idle"
===========================================================================
