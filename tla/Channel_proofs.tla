--------------------------- MODULE Channel_proofs ---------------------------
(***************************************************************************)
(* What the client sees.  The driver implements BlockChannel: every step   *)
(* of the handler, of a call or of the electronics is a step of the        *)
(* channel or leaves it alone.  And where no event can be recorded in the  *)
(* few instructions by which a read updates chkbuff, the count is exact    *)
(* and the mask follows it.                                                *)
(***************************************************************************)
EXTENDS NbbqdrvUP_proofs

\* The first n words of the half are events.
Filled(half, n) == n <= Len(half) /\ \A k \in 1..n : half[k] # End

\* END words follow them; behind these the half may hold an older block.
Finished(half, n) ==
  Filled(half, n) /\ n + 1 <= Len(half) /\ half[n + 1] = End

\* The half in use holds what the block has so far, and a block that has
\* been begun has an event as soon as the client can look.
FilledInv ==
  Opened =>
    /\ chkblk = 1 \/ pcH = "publish" => Filled(buf[dn], eventid)
    /\ pcH = "publish" \/ pcU = "publish" => Finished(buf[dn], eventid)
    /\ (chkblk = 1 /\ pcH \in {"idle", "end"}) \/ pcH = "publish" =>
         eventid >= 1

\* A run begins with event 1 and startflag set, and only STOP resets that.
BeginInv ==
  /\ pcU \in {"go", "enable"} => IF evq > 0 THEN evid = 1 ELSE evid = 0
  /\ pcU \in {"modules", "go", "enable"} => startflag = 1
  /\ Opened => (startflag = 1 <=> stopflag = 0)

\* An interval too short for an event: nothing happens in the window.
ShortWindow == \A s \in EventSizes : WindowWords < s

QuietInv ==
  /\ pcU \in Window => pcH = "idle" /\ regU = chkbuff
  /\ Opened /\ pcU \notin PostCopy => chkbuff = Len(fifo)

----------------------------------------------------------------------------
(* A window without events.                                                *)

\* No handler is entered in the window.
LEMMA NoEntry ==
  ASSUME ShortWindow, TypeOK, pcU \in Window PROVE ~HEntry
<1> SUFFICES ASSUME HEntry PROVE FALSE
  OBVIOUS
<1>1. Requested /\ Entered
  BY QuietAssumption DEF HEntry, HRefuse, HBegin, Entered
<1>2. /\ evq \in EventSizes /\ evq \in Nat
      /\ win \in Nat /\ WindowWords \in Nat
  BY <1>1, SizeAssumption DEF Requested, TypeOK
<1>3. WindowWords < evq
  BY <1>2 DEF ShortWindow
<1>4. ~(win + evq <= WindowWords)
  BY <1>2, <1>3
<1> QED
  BY <1>1, <1>2, <1>4 DEF Entered

LEMMA QuietStep ==
  ASSUME ShortWindow
  PROVE  TypeOK /\ IInv /\ QuietInv /\ [Next]_vars => QuietInv'
<1> SUFFICES ASSUME TypeOK, IInv, QuietInv, [Next]_vars PROVE QuietInv'
  OBVIOUS
<1> USE DEF QuietInv, Window, PostCopy, Opened, Opening, Closing
<1>1. CASE HEntry
  <2>1. UNCHANGED <<pcU, regU, chkbuff, fifo>>
    BY <1>1 DEF HEntry, HRefuse, HBegin, client
  <2> QED
    BY <1>1, <2>1, NoEntry
<1>2. CASE HInside
  <2>1. pcH # "idle" /\ UNCHANGED pcU
    BY <1>2 DEF HInside, HNotOurs, HMask, HEvt, HGoOn, HEndBlock, HPublish,
                HChmem, HUnmask, client
  <2>2. CASE HPublish
    <3>1. chkbuff' = chkbuff + 1 /\ Len(fifo') = Len(fifo) + 1
      BY <2>2 DEF HPublish, IInv, HandlerInv, TypeOK
    <3> QED
      BY <2>1, <3>1
  <2>3. CASE ~HPublish
    <3>1. UNCHANGED <<chkbuff, fifo>>
      BY <1>2, <2>3 DEF HInside, HNotOurs, HMask, HEvt, HGoOn, HEndBlock,
                        HChmem, HUnmask
    <3> QED
      BY <2>1, <3>1
  <2> QED
    BY <2>2, <2>3
<1>3. ASSUME NEW s \in EventSizes, Trigger(s) PROVE QuietInv'
  BY <1>3 DEF Trigger, client
<1>4. CASE UStart \/ UModules \/ UGo \/ UPollLook \/ UWake
  BY <1>4 DEF UStart, UModules, UGo, UPollLook, UWake
<1>5. CASE UEnable
  BY <1>5 DEF UEnable, IInv, ClosedInv
<1>6. CASE UCopied \/ UFlags \/ UEndBlock
  BY <1>6 DEF UCopied, UFlags, UEndBlock
<1>7. CASE UStore
  <2>1. chkbuff = Len(fifo) + 1 /\ regU = chkbuff
    BY <1>7 DEF UStore, IInv, CountInv
  <2> QED
    BY <1>7, <2>1 DEF UStore, Decremented, TypeOK
<1>8. CASE UPublish
  <2>1. chkbuff' = chkbuff + 1 /\ Len(fifo') = Len(fifo) + 1
    BY <1>8 DEF UPublish, IInv, StopInv, TypeOK
  <2> QED
    BY <1>8, <2>1 DEF UPublish
<1>9. CASE UStopModules \/ UClosed
  BY <1>9 DEF UStopModules, UClosed
<1>10. CASE ULoad \/ UFull \/ UClear \/ UReload
  BY <1>10, QuietAssumption DEF ULoad, UFull, UClear, UReload, ClientMayRun
<1>11. CASE UCall
  BY <1>11 DEF UCall, UOpen, UPoll, UTimeout, URead, UStop, URelease
<1>12. CASE UNCHANGED vars
  BY <1>12 DEF vars, client
<1> QED
  BY <1>1, <1>2, <1>3, <1>4, <1>5, <1>6, <1>7, <1>8, <1>9, <1>10, <1>11,
     <1>12 DEF Next, UInside

LEMMA QuietInvariance ==
  ASSUME ShortWindow PROVE Spec => [](TypeOK /\ IInv /\ QuietInv)
<1>1. Init => QuietInv
  BY DEF Init, QuietInv, Window, Opened, Closing
<1>2. TypeOK /\ IInv /\ QuietInv /\ [Next]_vars => QuietInv'
  BY QuietStep
<1> QED
  BY <1>1, <1>2, Invariance, PTL DEF Spec

\* If no event is short enough to be recorded in the window of a read, no
\* increment of chkbuff is lost: between calls it is the number of finished
\* blocks, so that poll reports each of them.
THEOREM CountIsExact == ASSUME ShortWindow PROVE Spec => []CountAccurate
<1>1. QuietInv => CountAccurate
  BY DEF QuietInv, CountAccurate, Opened, Opening, Closing, PostCopy, Window
<1> QED
  BY <1>1, QuietInvariance, PTL

\* Then, too, the interrupt is masked between calls exactly while both halves
\* are full: a run stands still only for a client that has blocks to read.
THEOREM MaskFollowsCount == ASSUME ShortWindow PROVE Spec => []MaskedIffFull
<1>1. TypeOK /\ IInv /\ QuietInv => MaskedIffFull
  <2> SUFFICES ASSUME TypeOK, IInv, QuietInv, Running, pcH = "idle",
                      pcU \in {"idle", "poll", "sleep"}
               PROVE  inten = 0 <=> Len(fifo) = 2
    BY DEF MaskedIffFull
  <2>1. chkbuff = Len(fifo) /\ Opened
    BY DEF QuietInv, Opened, Opening, Closing, PostCopy, Window
  <2>2. ASSUME Len(fifo) = 2 PROVE inten = 0
    BY <2>1, <2>2 DEF IInv, CountInv, Window
  <2>3. ASSUME inten = 0 PROVE Len(fifo) = 2
    BY <2>1, <2>3 DEF IInv, MaskInv, Stalled, PostCopy, Window
  <2> QED
    BY <2>2, <2>3 DEF TypeOK
<1> QED
  BY <1>1, QuietInvariance, PTL

----------------------------------------------------------------------------
(* The words of a half.                                                    *)

LEMMA PutWords ==
  ASSUME NEW half \in Seq(Words), NEW n \in Nat, n <= Len(half),
         NEW x \in Words
  PROVE  /\ Put(half, n + 1, x) \in Seq(Words)
         /\ n + 1 <= Len(Put(half, n + 1, x))
         /\ Put(half, n + 1, x)[n + 1] = x
         /\ \A k \in 1..n : Put(half, n + 1, x)[k] = half[k]
<1> DEFINE m == IF n + 1 > Len(half) THEN n + 1 ELSE Len(half)
           put == Put(half, n + 1, x)
<1>1. put \in Seq(Words)
  <2>1. 0 \in Words
    BY SizeAssumption DEF Words
  <2> QED
    BY <2>1, PutType
<1>2. Len(put) = m /\ m \in Nat /\ n + 1 <= m
  BY DEF Put
<1>3. put[n + 1] = x
  BY <1>2 DEF Put
<1>4. \A k \in 1..n : put[k] = half[k]
  BY <1>2 DEF Put
<1> QED
  BY <1>1, <1>2, <1>3, <1>4

\* What an event that is recorded, and END words, do to a half.
LEMMA PutEvent ==
  ASSUME NEW half \in Seq(Words), NEW n \in Nat, Filled(half, n),
         NEW x \in Words, x # End
  PROVE  /\ Filled(Put(half, n + 1, x), n + 1)
         /\ SubSeq(Put(half, n + 1, x), 1, n + 1)
              = Append(SubSeq(half, 1, n), x)
<1> DEFINE put == Put(half, n + 1, x)
<1>1. /\ put \in Seq(Words) /\ n + 1 <= Len(put)
      /\ put[n + 1] = x /\ \A k \in 1..n : put[k] = half[k]
  BY PutWords DEF Filled
<1>2. Filled(put, n + 1)
  BY <1>1 DEF Filled
<1>3. SubSeq(put, 1, n + 1) = Append(SubSeq(half, 1, n), x)
  <2>1. n <= Len(half)
    BY DEF Filled
  <2> QED
    BY <1>1, <2>1
<1> QED
  BY <1>2, <1>3

LEMMA PutEnd ==
  ASSUME NEW half \in Seq(Words), NEW n \in Nat, Filled(half, n)
  PROVE  /\ Finished(Put(half, n + 1, End), n)
         /\ SubSeq(Put(half, n + 1, End), 1, n) = SubSeq(half, 1, n)
<1> DEFINE put == Put(half, n + 1, End)
<1>1. /\ put \in Seq(Words) /\ n + 1 <= Len(put)
      /\ put[n + 1] = End /\ \A k \in 1..n : put[k] = half[k]
  BY PutWords, SizeAssumption DEF Filled, Words, End
<1>2. n <= Len(half) /\ Len(put) \in Nat /\ n <= Len(put)
  BY <1>1 DEF Filled
<1>3. Finished(put, n)
  BY <1>1, <1>2 DEF Finished, Filled
<1>4. SubSeq(put, 1, n) = SubSeq(half, 1, n)
  BY <1>1, <1>2
<1> QED
  BY <1>3, <1>4

\* The END words that count are the first, not those of an older block.
LEMMA EventsOfFinished ==
  ASSUME NEW half \in Seq(Words), NEW n \in Nat, Finished(half, n)
  PROVE  Events(half) = SubSeq(half, 1, n)
<1> DEFINE At(m) == half[m] = End /\ \A k \in 1..(m - 1) : half[k] # End
           first == CHOOSE m \in DOMAIN half : At(m)
<1>1. n + 1 \in DOMAIN half /\ At(n + 1)
  BY DEF Finished, Filled
<1>2. ASSUME NEW m \in DOMAIN half, At(m) PROVE m = n + 1
  BY <1>2, <1>1
<1>3. first = n + 1
  BY <1>1, <1>2
<1>4. \E m \in DOMAIN half : half[m] = End
  BY <1>1
<1>5. Events(half) = SubSeq(half, 1, first - 1)
  BY <1>4 DEF Events
<1> HIDE DEF first
<1> QED
  BY <1>3, <1>5

----------------------------------------------------------------------------
(* The half in use and the begin of a run.                                 *)

\* A step that leaves the half in use, and who looks at it, alone.
LEMMA FilledUnchanged ==
  ASSUME FilledInv, UNCHANGED <<buf, dn, eventid>>, Opened' => Opened,
         chkblk' = 1 => chkblk = 1,
         pcH' = "publish" => pcH = "publish",
         pcU' = "publish" => pcU = "publish",
         pcH' \in {"idle", "end"} => pcH \in {"idle", "end"} \/ chkblk' = 0
  PROVE  FilledInv'
BY DEF FilledInv

\* Before a block is begun, or once it is finished, nothing is claimed of the
\* half that is next.
LEMMA NothingFilled ==
  ASSUME chkblk' = 0, pcH' # "publish", pcU' # "publish" PROVE FilledInv'
BY DEF FilledInv

LEMMA FilledStep == TypeOK /\ IInv /\ FilledInv /\ [Next]_vars => FilledInv'
<1> SUFFICES ASSUME TypeOK, IInv, FilledInv, [Next]_vars PROVE FilledInv'
  OBVIOUS
<1>1. buf[dn] \in Seq(Words) /\ eventid \in Nat /\ dn \in DOMAIN buf
  BY DEF TypeOK
<1>2. stopflag = 1 => pcH = "idle"
  BY DEF IInv, StopInv
<1>3. ASSUME NEW s \in EventSizes, Trigger(s) PROVE FilledInv'
  BY <1>3, FilledUnchanged DEF Trigger, block, client, Opened
<1>4. CASE HRefuse
  BY <1>4, FilledUnchanged DEF HRefuse, Entered, Leave, block, client, Opened
<1>5. CASE HBegin
  BY <1>1, <1>5 DEF HBegin, Entered, FilledInv, Filled, client, Opened, IInv,
                    StopInv, TypeOK
<1>6. CASE HNotOurs
  BY <1>6 DEF HNotOurs, Requested, IInv, HandlerInv, VetoInv
<1>7. CASE HMask
  BY <1>7, FilledUnchanged DEF HMask, block, client, Opened
<1>8. CASE HEvt
  <2>1. CASE Opened
    <3>1. Filled(buf[dn], eventid) /\ evid \in Words /\ evid # End
      <4>1. chkblk = 1
        BY <1>8 DEF HEvt, IInv, HandlerInv
      <4>2. evid \in 0..Ids
        BY DEF TypeOK
      <4> QED
        BY <2>1, <4>1, <4>2, SizeAssumption DEF FilledInv, Words, End
    <3>2. buf'[dn] = Put(buf[dn], eventid + 1, evid)
      BY <1>1, <1>8 DEF HEvt, Write
    <3>3. Filled(buf'[dn], eventid + 1)
      BY <1>1, <3>1, <3>2, PutEvent
    <3>4. pcU # "publish"
      BY <1>2, <1>8 DEF HEvt, IInv, StopInv
    <3>5. UNCHANGED dn /\ eventid' = eventid + 1 /\ pcH' = "end"
      BY <1>8 DEF HEvt
    <3> QED
      BY <1>1, <1>8, <3>3, <3>4, <3>5 DEF HEvt, FilledInv, client
  <2>2. CASE ~Opened
    BY <1>8, <2>2 DEF HEvt, FilledInv, Opened, client
  <2> QED
    BY <2>1, <2>2
<1>9. CASE HGoOn
  BY <1>9, FilledUnchanged DEF HGoOn, Leave, block, client, Opened
<1>10. CASE HEndBlock
  <2>1. CASE Opened
    <3>1. Filled(buf[dn], eventid) /\ eventid >= 1
      BY <1>10, <2>1 DEF HEndBlock, IInv, HandlerInv, FilledInv
    <3>2. buf'[dn] = Put(buf[dn], eventid + 1, End)
      BY <1>1, <1>10 DEF HEndBlock, Write
    <3>3. Finished(buf'[dn], eventid)
      BY <1>1, <3>1, <3>2, PutEnd
    <3> QED
      BY <1>10, <3>1, <3>3 DEF HEndBlock, FilledInv, Finished, client
  <2>2. CASE ~Opened
    BY <1>10, <2>2 DEF HEndBlock, FilledInv, Opened, client
  <2> QED
    BY <2>1, <2>2
<1>11. CASE HPublish \/ HChmem \/ HUnmask
  <2>1. chkblk = 0 /\ stopflag = 0 /\ pcU # "publish"
    BY <1>2, <1>11 DEF HPublish, HChmem, HUnmask, IInv, HandlerInv, StopInv,
                       TypeOK
  <2> QED
    BY <1>11, <2>1, NothingFilled DEF HPublish, HChmem, HUnmask, Leave, client
<1>12. CASE UOpen \/ UStart \/ UModules \/ UGo \/ URelease \/ UClosed
  BY <1>12 DEF UOpen, UStart, UModules, UGo, URelease, UClosed, FilledInv,
               Opened, Opening, Closing
<1>13. CASE UEnable
  BY <1>13, NothingFilled DEF UEnable, IInv, ClosedInv, Opening
<1>14. CASE UPoll \/ UPollLook \/ UWake \/ UTimeout \/ URead
  BY <1>14, FilledUnchanged
     DEF UPoll, UPollLook, UWake, UTimeout, URead, block, Opened, Opening,
         Closing
<1>15. CASE UCopied \/ ULoad \/ UFull \/ UClear \/ UReload \/ UStore
  BY <1>15, FilledUnchanged
     DEF UCopied, ULoad, UFull, UClear, UReload, UStore, block, Opened,
         Opening, Closing
<1>16. CASE UStop \/ UFlags
  BY <1>16, FilledUnchanged DEF UStop, UFlags, block, Opened, Opening, Closing
<1>17. CASE UEndBlock
  <2>1. Opened /\ chkblk = 1 /\ pcH = "idle"
    BY <1>17, QuietAssumption DEF UEndBlock, ClientMayRun, IInv, StopInv,
                                  Opened, Opening, Closing
  <2>2. Filled(buf[dn], eventid) /\ eventid >= 1
    BY <2>1 DEF FilledInv
  <2>3. buf'[dn] = Put(buf[dn], eventid + 1, End)
    BY <1>1, <1>17 DEF UEndBlock, Write
  <2>4. Finished(buf'[dn], eventid)
    BY <1>1, <2>2, <2>3, PutEnd
  <2> QED
    BY <1>17, <2>1, <2>2, <2>4 DEF UEndBlock, FilledInv, Finished
<1>18. CASE UPublish \/ UStopModules
  <2>1. pcH = "idle" /\ UNCHANGED pcH /\ pcU' # "publish" /\ chkblk' = 0
    BY <1>18, QuietAssumption DEF UPublish, UStopModules, ClientMayRun, IInv,
                                  StopInv, TypeOK
  <2> QED
    BY <2>1, NothingFilled
<1>19. CASE UNCHANGED vars
  BY <1>19, FilledUnchanged DEF vars, block, client, Opened
<1> QED
  BY <1>3, <1>4, <1>5, <1>6, <1>7, <1>8, <1>9, <1>10, <1>11, <1>12, <1>13,
     <1>14, <1>15, <1>16, <1>17, <1>18, <1>19
     DEF Next, HEntry, HInside, UInside, UCall

LEMMA BeginStep == TypeOK /\ IInv /\ BeginInv /\ [Next]_vars => BeginInv'
<1> SUFFICES ASSUME TypeOK, IInv, BeginInv, [Next]_vars PROVE BeginInv'
  OBVIOUS
<1> USE DEF BeginInv, Opened, Opening, Closing
<1>1. ASSUME NEW s \in EventSizes, Trigger(s) PROVE BeginInv'
  <2>1. UNCHANGED <<pcU, startflag, stopflag>>
    BY <1>1 DEF Trigger, client, flags
  <2>2. CASE pcU \in {"go", "enable"}
    <3>1. acq = 1 /\ s > 0 /\ s \in Nat
      BY <2>2, SizeAssumption DEF IInv, VetoInv
    <3>2. (0 % Ids) + 1 = 1
      BY SizeAssumption
    <3> QED
      BY <1>1, <2>1, <2>2, <3>1, <3>2 DEF Trigger, TypeOK
  <2> QED
    BY <2>1, <2>2
<1>2. CASE HEntry \/ HInside
  <2>1. pcU \notin Opening
    BY <1>2, QuietAssumption
       DEF HEntry, HInside, HRefuse, HBegin, Entered, Requested, HNotOurs,
           HMask, HEvt, HGoOn, HEndBlock, HPublish, HChmem, HUnmask, IInv,
           ClosedInv
  <2>2. UNCHANGED <<pcU, startflag, stopflag>>
    BY <1>2 DEF HEntry, HInside, HRefuse, HBegin, HNotOurs, HMask, HEvt,
                HGoOn, HEndBlock, HPublish, HChmem, HUnmask, client, flags
  <2> QED
    BY <2>1, <2>2
<1>3. CASE UStart
  BY <1>3 DEF UStart
<1>4. CASE UModules
  BY <1>4 DEF UModules, flags
<1>5. CASE UGo
  BY <1>5 DEF UGo, flags
<1>6. CASE UEnable
  BY <1>6 DEF UEnable, flags, IInv, ClosedInv
<1>7. CASE UFlags
  BY <1>7 DEF UFlags
<1>8. CASE UPollLook \/ UWake \/ UCopied \/ ULoad \/ UFull \/ UClear
  BY <1>8 DEF UPollLook, UWake, UCopied, ULoad, UFull, UClear, flags
<1>9. CASE UReload \/ UStore \/ UEndBlock \/ UPublish \/ UStopModules
  BY <1>9 DEF UReload, UStore, UEndBlock, UPublish, UStopModules, flags
<1>10. CASE UClosed \/ UCall
  BY <1>10 DEF UClosed, UCall, UOpen, UPoll, UTimeout, URead, UStop, URelease,
               flags
<1>11. CASE UNCHANGED vars
  BY <1>11 DEF vars, hw, client, flags
<1> QED
  BY <1>1, <1>2, <1>3, <1>4, <1>5, <1>6, <1>7, <1>8, <1>9, <1>10, <1>11
     DEF Next, UInside

ChannelInv == TypeOK /\ IInv /\ FilledInv /\ BeginInv

LEMMA ChannelInvariance == Spec => []ChannelInv
<1>1. Init => FilledInv /\ BeginInv
  BY DEF Init, FilledInv, BeginInv, Opened, Opening, Closing
<1>2. TypeOK /\ IInv /\ FilledInv /\ BeginInv /\ [Next]_vars
        => FilledInv' /\ BeginInv'
  BY FilledStep, BeginStep
<1> QED
  BY <1>1, <1>2, Invariance, PTL DEF Spec, ChannelInv

----------------------------------------------------------------------------
(* The channel's variables, as they are read off the driver's.             *)

ModeNow == IF ~Opened THEN "off"
           ELSE IF startflag = 1 \/ pcU \in {"end", "publish"} THEN "on"
           ELSE "stopped"
QueueNow == IF Opened
            THEN [i \in DOMAIN fifo |-> Events(buf[(drn + i - 1) % 2])]
            ELSE <<>>
CurNow == IF Opened /\ (chkblk = 1 \/ pcH = "publish")
            THEN SubSeq(buf[dn], 1, eventid) ELSE <<>>
NextNow == IF ~Opened THEN 1
           ELSE IF evq > 0 THEN evid ELSE (evid % Ids) + 1
channelNow == <<ModeNow, QueueNow, CurNow, NextNow>>

\* The actions of the channel, in these terms.
LEMMA ChannelTerms ==
  /\ Channel!Init <=> /\ ModeNow = "off" /\ QueueNow = <<>>
                      /\ CurNow = <<>> /\ NextNow = 1
  /\ Channel!Start <=> /\ ModeNow = "off" /\ ModeNow' = "on"
                       /\ QueueNow' = <<>> /\ CurNow' = <<>>
                       /\ NextNow' = 1
  /\ Channel!Record <=> /\ ModeNow = "on" /\ Len(QueueNow) < 2
                        /\ CurNow' = Append(CurNow, NextNow)
                        /\ NextNow' = (NextNow % Ids) + 1
                        /\ UNCHANGED <<ModeNow, QueueNow>>
  /\ Channel!Publish <=> /\ ModeNow = "on" /\ CurNow # <<>>
                         /\ Len(QueueNow) < 2
                         /\ QueueNow' = Append(QueueNow, CurNow)
                         /\ CurNow' = <<>>
                         /\ UNCHANGED <<ModeNow, NextNow>>
  /\ Channel!Deliver <=> /\ QueueNow # <<>> /\ QueueNow' = Tail(QueueNow)
                         /\ UNCHANGED <<ModeNow, CurNow, NextNow>>
  /\ Channel!Stop <=> /\ ModeNow = "on" /\ ModeNow' = "stopped"
                      /\ (CurNow = <<>> \/ Len(QueueNow) < 2)
                      /\ QueueNow' = IF CurNow = <<>> THEN QueueNow
                                     ELSE Append(QueueNow, CurNow)
                      /\ CurNow' = <<>> /\ NextNow' = NextNow
  /\ Channel!Abandon <=> /\ ModeNow # "off" /\ ModeNow' = "off"
                         /\ QueueNow' = <<>> /\ CurNow' = <<>>
                         /\ NextNow' = 1
  /\ Channel!vars = channelNow
<1> USE DEF ModeNow, QueueNow, CurNow, NextNow
<1>1. Channel!Init <=> /\ ModeNow = "off" /\ QueueNow = <<>>
                       /\ CurNow = <<>> /\ NextNow = 1
  BY DEF Channel!Init
<1>2. Channel!Start <=> /\ ModeNow = "off" /\ ModeNow' = "on"
                        /\ QueueNow' = <<>> /\ CurNow' = <<>>
                        /\ NextNow' = 1
  BY DEF Channel!Start
<1>3. Channel!Record <=> /\ ModeNow = "on" /\ Len(QueueNow) < 2
                         /\ CurNow' = Append(CurNow, NextNow)
                         /\ NextNow' = (NextNow % Ids) + 1
                         /\ UNCHANGED <<ModeNow, QueueNow>>
  BY DEF Channel!Record, Channel!Slots, Channel!Succ
<1>4. Channel!Publish <=> /\ ModeNow = "on" /\ CurNow # <<>>
                          /\ Len(QueueNow) < 2
                          /\ QueueNow' = Append(QueueNow, CurNow)
                          /\ CurNow' = <<>>
                          /\ UNCHANGED <<ModeNow, NextNow>>
  BY DEF Channel!Publish, Channel!Slots
<1>5. Channel!Deliver <=> /\ QueueNow # <<>> /\ QueueNow' = Tail(QueueNow)
                          /\ UNCHANGED <<ModeNow, CurNow, NextNow>>
  BY DEF Channel!Deliver
<1>6. Channel!Stop <=> /\ ModeNow = "on" /\ ModeNow' = "stopped"
                       /\ (CurNow = <<>> \/ Len(QueueNow) < 2)
                       /\ QueueNow' = IF CurNow = <<>> THEN QueueNow
                                      ELSE Append(QueueNow, CurNow)
                       /\ CurNow' = <<>> /\ NextNow' = NextNow
  BY DEF Channel!Stop, Channel!Slots
<1>7. Channel!Abandon <=> /\ ModeNow # "off" /\ ModeNow' = "off"
                          /\ QueueNow' = <<>> /\ CurNow' = <<>>
                          /\ NextNow' = 1
  BY DEF Channel!Abandon
<1>8. Channel!vars = channelNow
  BY DEF Channel!vars, channelNow
<1> HIDE DEF ModeNow, QueueNow, CurNow, NextNow
<1> QED
  BY <1>1, <1>2, <1>3, <1>4, <1>5, <1>6, <1>7, <1>8

\* The finished blocks are those of fifo, wherever they lie.
Blocks(f) == [i \in DOMAIN f |-> Events(f[i])]

LEMMA QueueIsFifo ==
  TypeOK /\ IInv /\ Opened =>
    QueueNow = Blocks(fifo) /\ Len(QueueNow) = Len(fifo)
<1> SUFFICES ASSUME TypeOK, IInv, Opened
             PROVE  QueueNow = Blocks(fifo) /\ Len(QueueNow) = Len(fifo)
  OBVIOUS
<1>1. \A i \in DOMAIN fifo : buf[(drn + i - 1) % 2] = fifo[i]
  <2>1. DOMAIN fifo = 1..Len(fifo)
    BY DEF TypeOK
  <2>2. UnreadIntact
    BY IntactNow
  <2> QED
    BY <2>1, <2>2 DEF UnreadIntact
<1>2. QueueNow = Blocks(fifo)
  BY <1>1 DEF QueueNow, Blocks
<1>3. Len(Blocks(fifo)) = Len(fifo)
  BY DEF Blocks, TypeOK
<1> QED
  BY <1>2, <1>3

LEMMA BlocksAppend ==
  ASSUME NEW S, NEW f \in Seq(S), NEW half \in S
  PROVE  Blocks(Append(f, half)) = Append(Blocks(f), Events(half))
BY DEF Blocks

LEMMA BlocksTail ==
  ASSUME NEW S, NEW f \in Seq(S), f # <<>>
  PROVE  Blocks(f) # <<>> /\ Blocks(Tail(f)) = Tail(Blocks(f))
BY DEF Blocks


----------------------------------------------------------------------------
(* The refinement, step by step.                                           *)

\* A step that records, publishes and reads nothing is not seen.
LEMMA NotSeen ==
  ASSUME TypeOK, IInv, TypeOK', IInv', Opened, Opened', UNCHANGED fifo,
         ModeNow' = ModeNow, CurNow' = CurNow, NextNow' = NextNow
  PROVE  UNCHANGED channelNow
<1>1. QueueNow = Blocks(fifo)
  BY QueueIsFifo
<1>2. QueueNow' = Blocks(fifo')
  <2>1. (TypeOK /\ IInv /\ Opened => QueueNow = Blocks(fifo))'
    BY QueueIsFifo, PTL
  <2> QED
    BY <2>1 DEF Blocks
<1> QED
  BY <1>1, <1>2 DEF channelNow

\* Nothing of a closed device is seen.
LEMMA ClosedNotSeen ==
  ASSUME ~Opened, ~Opened' PROVE UNCHANGED channelNow
BY DEF channelNow, ModeNow, QueueNow, CurNow, NextNow

LEMMA TriggerSeen ==
  ASSUME ChannelInv, ChannelInv', NEW s \in EventSizes, Trigger(s)
  PROVE  UNCHANGED channelNow
<1>1. UNCHANGED <<pcU, startflag, fifo, chkblk, pcH, buf, dn, eventid>>
  BY DEF Trigger, flags, block, client
<1>2. CASE Opened
  <2>1. ModeNow' = ModeNow /\ CurNow' = CurNow /\ Opened'
    BY <1>1, <1>2 DEF ModeNow, CurNow, Opened
  <2>2. NextNow' = NextNow
    BY <1>1, <1>2, SizeAssumption
       DEF Trigger, NextNow, Opened, ChannelInv, TypeOK
  <2> QED
    BY <1>1, <1>2, <2>1, <2>2, NotSeen DEF ChannelInv
<1>3. CASE ~Opened
  BY <1>1, <1>3, ClosedNotSeen DEF Opened
<1> QED
  BY <1>2, <1>3

LEMMA HandlerSeen ==
  ASSUME ChannelInv, ChannelInv', HEntry \/ HInside
  PROVE  Channel!Record \/ Channel!Publish \/ UNCHANGED channelNow
<1>1. UNCHANGED <<pcU, startflag, stopflag, evid, drn>>
  BY DEF HEntry, HInside, HRefuse, HBegin, HNotOurs, HMask, HEvt, HGoOn,
         HEndBlock, HPublish, HChmem, HUnmask, flags, block, hw, client
<1>2. CASE ~Opened
  BY <1>1, <1>2, ClosedNotSeen DEF Opened
<1> SUFFICES ASSUME Opened PROVE Channel!Record \/ Channel!Publish
                                 \/ UNCHANGED channelNow
  BY <1>2
<1>3. Opened' /\ ModeNow' = ModeNow
  BY <1>1 DEF ModeNow, Opened
<1>4. buf[dn] \in Seq(Words) /\ eventid \in Nat /\ dn \in DOMAIN buf
  BY DEF ChannelInv, TypeOK
<1>5. QueueNow = Blocks(fifo) /\ Len(QueueNow) = Len(fifo)
  BY QueueIsFifo DEF ChannelInv
<1>6. (TypeOK /\ IInv /\ Opened => QueueNow = Blocks(fifo))'
  BY QueueIsFifo, PTL
<1>7. ASSUME UNCHANGED <<buf, dn, eventid, evq, fifo>>,
             (chkblk = 1 \/ pcH = "publish") <=>
               (chkblk = 1 \/ pcH = "publish")'
      PROVE  UNCHANGED channelNow
  BY <1>1, <1>3, <1>7, NotSeen DEF CurNow, NextNow, ChannelInv
<1>8. CASE HRefuse
  BY <1>7, <1>8 DEF HRefuse, Entered, Leave, block
<1>9. CASE HBegin
  <2>1. CurNow' = CurNow /\ NextNow' = NextNow
    BY <1>3, <1>4, <1>9 DEF HBegin, Entered, CurNow, NextNow, hw, ChannelInv,
                            TypeOK
  <2> QED
    BY <1>3, <1>9, <2>1, NotSeen DEF HBegin, ChannelInv
<1>10. CASE HNotOurs \/ HMask \/ HGoOn
  BY <1>7, <1>10 DEF HNotOurs, HMask, HGoOn, Leave, block, hw
<1>11. CASE HEvt
  <2>1. chkblk = 1 /\ pcH = "evt" /\ evq > 0 /\ stopflag = 0
    BY <1>11 DEF HEvt, ChannelInv, IInv, HandlerInv, StopInv, TypeOK
  <2>2. ModeNow = "on" /\ Len(QueueNow) < 2
    <3>1. startflag = 1
      BY <2>1 DEF ChannelInv, BeginInv
    <3>2. Len(fifo) \in Nat /\ Len(fifo) <= 1
      BY <2>1 DEF ChannelInv, IInv, HalvesInv, TypeOK
    <3> QED
      BY <1>5, <3>1, <3>2 DEF ModeNow
  <2>3. CurNow' = Append(CurNow, NextNow)
    <3>1. evid \in Words /\ evid # End
      <4>1. evid \in 0..Ids
        BY DEF ChannelInv, TypeOK
      <4> QED
        BY <4>1, SizeAssumption DEF Words, End
    <3>2. Filled(buf[dn], eventid)
      BY <2>1 DEF ChannelInv, FilledInv
    <3>3. buf'[dn] = Put(buf[dn], eventid + 1, evid)
      BY <1>4, <1>11 DEF HEvt, Write
    <3>4. SubSeq(buf'[dn], 1, eventid + 1)
            = Append(SubSeq(buf[dn], 1, eventid), evid)
      BY <1>4, <3>1, <3>2, <3>3, PutEvent
    <3> QED
      BY <1>3, <1>11, <2>1, <3>4 DEF HEvt, CurNow, NextNow
  <2>4. NextNow' = (NextNow % Ids) + 1
    BY <1>1, <1>3, <1>11, <2>1 DEF HEvt, NextNow
  <2>5. QueueNow' = QueueNow
    BY <1>3, <1>5, <1>6, <1>11 DEF HEvt, Blocks, ChannelInv
  <2> QED
    BY <1>3, <2>2, <2>3, <2>4, <2>5, ChannelTerms
<1>12. CASE HEndBlock
  <2>1. CurNow' = CurNow
    <3>1. Filled(buf[dn], eventid) /\ chkblk = 1
      BY <1>12 DEF HEndBlock, ChannelInv, FilledInv, IInv, HandlerInv
    <3>2. buf'[dn] = Put(buf[dn], eventid + 1, End)
      BY <1>4, <1>12 DEF HEndBlock, Write
    <3>3. SubSeq(buf'[dn], 1, eventid) = SubSeq(buf[dn], 1, eventid)
      BY <1>4, <3>1, <3>2, PutEnd
    <3> QED
      BY <1>3, <1>12, <3>1, <3>3 DEF HEndBlock, CurNow
  <2>2. NextNow' = NextNow
    BY <1>3, <1>12 DEF HEndBlock, NextNow, hw
  <2> QED
    BY <1>3, <1>12, <2>1, <2>2, NotSeen DEF HEndBlock, ChannelInv
<1>13. CASE HPublish
  <2>1. /\ Finished(buf[dn], eventid) /\ eventid >= 1
        /\ pcH = "publish" /\ chkblk = 0 /\ stopflag = 0
    BY <1>13 DEF HPublish, ChannelInv, FilledInv, IInv, HandlerInv, StopInv,
                 TypeOK
  <2>2. ModeNow = "on"
    BY <2>1 DEF ModeNow, ChannelInv, BeginInv
  <2>3. Len(QueueNow) < 2
    <3>1. Len(fifo) \in Nat /\ Len(fifo) <= 1
      BY <2>1 DEF ChannelInv, IInv, HalvesInv, TypeOK
    <3> QED
      BY <1>5, <3>1
  <2>4. CurNow = Events(buf[dn]) /\ CurNow # <<>>
    <3>1. CurNow = SubSeq(buf[dn], 1, eventid)
      BY <2>1 DEF CurNow
    <3>2. SubSeq(buf[dn], 1, eventid) # <<>>
      BY <1>4, <2>1 DEF Finished, Filled
    <3> QED
      BY <1>4, <2>1, <3>1, <3>2, EventsOfFinished
  <2>5. QueueNow' = Append(QueueNow, CurNow)
    <3>1. fifo' = Append(fifo, buf[dn]) /\ fifo \in Seq(Seq(Words))
      BY <1>13 DEF HPublish, ChannelInv, TypeOK
    <3>2. Blocks(fifo') = Append(Blocks(fifo), Events(buf[dn]))
      BY <1>4, <3>1, BlocksAppend
    <3>3. QueueNow' = Blocks(fifo')
      BY <1>3, <1>6 DEF Blocks, ChannelInv
    <3> QED
      BY <1>5, <2>4, <3>2, <3>3
  <2>6. CurNow' = <<>> /\ NextNow' = NextNow
    BY <1>3, <1>13, <2>1 DEF HPublish, CurNow, NextNow, hw
  <2> QED
    BY <1>3, <2>2, <2>3, <2>4, <2>5, <2>6, ChannelTerms
<1>14. CASE HChmem \/ HUnmask
  <2>1. chkblk = 0 /\ UNCHANGED <<chkblk, evq, fifo>> /\ pcH # "publish"
        /\ pcH' # "publish"
    BY <1>14 DEF HChmem, HUnmask, Leave, hw, ChannelInv, IInv, HandlerInv
  <2>2. CurNow' = CurNow /\ NextNow' = NextNow
    BY <1>1, <1>3, <2>1 DEF CurNow, NextNow
  <2> QED
    BY <1>3, <2>1, <2>2, NotSeen DEF ChannelInv
<1> QED
  BY <1>8, <1>9, <1>10, <1>11, <1>12, <1>13, <1>14 DEF HEntry, HInside

LEMMA ClientSeen ==
  ASSUME ChannelInv, ChannelInv', UInside \/ UCall
  PROVE  Channel!Next \/ UNCHANGED channelNow
<1> USE DEF Opening, Closing
<1>1. pcH = "idle" /\ UNCHANGED pcH
  BY QuietAssumption
     DEF UInside, UCall, ClientMayRun, UStart, UModules, UGo, UEnable,
         UPollLook, UWake, UCopied, ULoad, UFull, UClear, UReload, UStore,
         UFlags, UEndBlock, UPublish, UStopModules, UClosed, UOpen, UPoll,
         UTimeout, URead, UStop, URelease
<1>2. buf[dn] \in Seq(Words) /\ eventid \in Nat /\ dn \in DOMAIN buf
  BY DEF ChannelInv, TypeOK
<1>3. Opened => QueueNow = Blocks(fifo) /\ Len(QueueNow) = Len(fifo)
  BY QueueIsFifo DEF ChannelInv
<1>4. Opened' => QueueNow' = Blocks(fifo)'
  <2>1. (TypeOK /\ IInv /\ Opened => QueueNow = Blocks(fifo))'
    BY QueueIsFifo, PTL
  <2> QED
    BY <2>1 DEF ChannelInv
<1>5. CASE UOpen \/ UStart \/ UModules \/ UGo \/ UClosed
  BY <1>5, ClosedNotSeen DEF UOpen, UStart, UModules, UGo, UClosed, Opened
<1>6. CASE UEnable
  <2>1. ModeNow = "off" /\ Opened'
    BY <1>6 DEF UEnable, ModeNow, Opened
  <2>2. chkblk = 0 /\ fifo = <<>> /\ startflag = 1
    BY <1>6 DEF UEnable, ChannelInv, IInv, ClosedInv, BeginInv
  <2>3. ModeNow' = "on" /\ CurNow' = <<>> /\ QueueNow' = <<>>
    BY <1>1, <1>6, <2>1, <2>2 DEF UEnable, ModeNow, CurNow, QueueNow, flags
  <2>4. NextNow' = 1
    <3>1. IF evq > 0 THEN evid = 1 ELSE evid = 0
      BY <1>6 DEF UEnable, ChannelInv, BeginInv
    <3>2. (0 % Ids) + 1 = 1
      BY SizeAssumption
    <3> QED
      BY <1>6, <2>1, <3>1, <3>2 DEF UEnable, NextNow
  <2> QED
    BY <2>1, <2>3, <2>4, ChannelTerms DEF Channel!Next
<1>7. CASE URelease
  <2>1. Opened /\ ~Opened' /\ ModeNow # "off"
    BY <1>7 DEF URelease, Opened, ModeNow
  <2>2. ModeNow' = "off" /\ QueueNow' = <<>> /\ CurNow' = <<>> /\ NextNow' = 1
    BY <2>1 DEF ModeNow, QueueNow, CurNow, NextNow
  <2> QED
    BY <2>1, <2>2, ChannelTerms DEF Channel!Next
<1>8. CASE UPoll \/ UPollLook \/ UWake \/ UTimeout \/ URead \/ ULoad \/ UFull
           \/ UClear \/ UReload \/ UStore \/ UStop \/ UStopModules
  <2>1. /\ Opened /\ Opened'
        /\ pcU \notin {"end", "publish"} /\ pcU' \notin {"end", "publish"}
        /\ UNCHANGED <<startflag, fifo, chkblk, buf, dn, eventid, evq, evid>>
    BY <1>8 DEF UPoll, UPollLook, UWake, UTimeout, URead, ULoad, UFull, UClear,
                UReload, UStore, UStop, UStopModules, Opened, flags, block, hw
  <2>2. ModeNow' = ModeNow /\ CurNow' = CurNow /\ NextNow' = NextNow
    BY <1>1, <2>1 DEF ModeNow, CurNow, NextNow
  <2> QED
    BY <2>1, <2>2, NotSeen DEF ChannelInv
<1>9. CASE UCopied
  <2>1. Opened /\ Opened' /\ fifo # <<>> /\ fifo' = Tail(fifo)
    <3>1. Opened /\ Opened' /\ chkbuff >= 1
      BY <1>9 DEF UCopied, Opened, ChannelInv, IInv, CountInv
    <3>2. chkbuff = Len(fifo)
      BY <1>9, <3>1 DEF UCopied, ChannelInv, IInv, CountInv, PostCopy, Window,
                        Stalled, TypeOK
    <3> QED
      BY <1>9, <3>1, <3>2 DEF UCopied, ChannelInv, TypeOK
  <2>2. ModeNow' = ModeNow /\ CurNow' = CurNow /\ NextNow' = NextNow
    BY <1>1, <1>9, <2>1 DEF UCopied, ModeNow, CurNow, NextNow, flags, block, hw
  <2>3. QueueNow # <<>> /\ QueueNow' = Tail(QueueNow)
    <3>1. Blocks(fifo) # <<>> /\ Blocks(Tail(fifo)) = Tail(Blocks(fifo))
      BY <2>1, BlocksTail DEF ChannelInv, TypeOK
    <3>2. QueueNow' = Blocks(fifo')
      BY <1>4, <2>1 DEF Blocks
    <3> QED
      BY <1>3, <2>1, <3>1, <3>2
  <2> QED
    BY <2>2, <2>3, ChannelTerms DEF Channel!Next
<1>10. CASE UFlags
  <2>1. /\ Opened /\ Opened' /\ startflag' = 0
        /\ pcU' = IF chkblk = 1 THEN "end" ELSE "stop"
        /\ pcU \notin {"end", "publish", "stop"}
        /\ UNCHANGED <<fifo, chkblk, buf, dn, eventid, evq, evid>>
    BY <1>10 DEF UFlags, Opened, block, hw
  <2>2. CurNow' = CurNow /\ NextNow' = NextNow
    BY <1>1, <2>1 DEF CurNow, NextNow
  <2>3. QueueNow' = QueueNow
    BY <1>3, <1>4, <2>1 DEF Blocks
  <2>4. startflag = 1 \/ chkblk = 0
    BY <1>10, <2>1 DEF UFlags, ChannelInv, BeginInv, IInv, StopInv, TypeOK
  <2>5. CASE chkblk = 1
    BY <2>1, <2>2, <2>4, <2>5, NotSeen DEF ModeNow, ChannelInv
  <2>6. CASE chkblk # 1
    <3>1. CurNow = <<>> /\ ModeNow' = "stopped"
      BY <1>1, <2>1, <2>6 DEF CurNow, ModeNow
    <3>2. CASE startflag = 1
      <4>1. ModeNow = "on"
        BY <2>1, <3>2 DEF ModeNow
      <4> QED
        BY <2>2, <2>3, <3>1, <4>1, ChannelTerms DEF Channel!Next
    <3>3. CASE startflag # 1
      BY <2>1, <2>2, <3>1, <3>3, NotSeen DEF ModeNow, ChannelInv
    <3> QED
      BY <3>2, <3>3
  <2> QED
    BY <2>5, <2>6
<1>11. CASE UEndBlock
  <2>1. Opened /\ Opened' /\ ModeNow' = ModeNow /\ chkblk = 1
    BY <1>11 DEF UEndBlock, Opened, ModeNow, ChannelInv, IInv, StopInv
  <2>2. CurNow' = CurNow
    <3>1. Filled(buf[dn], eventid)
      BY <2>1 DEF ChannelInv, FilledInv
    <3>2. buf'[dn] = Put(buf[dn], eventid + 1, End)
      BY <1>2, <1>11 DEF UEndBlock, Write
    <3>3. SubSeq(buf'[dn], 1, eventid) = SubSeq(buf[dn], 1, eventid)
      BY <1>2, <3>1, <3>2, PutEnd
    <3> QED
      BY <1>11, <2>1, <3>3 DEF UEndBlock, CurNow
  <2>3. NextNow' = NextNow
    BY <1>11, <2>1 DEF UEndBlock, NextNow, hw
  <2> QED
    BY <1>11, <2>1, <2>2, <2>3, NotSeen DEF UEndBlock, ChannelInv
<1>12. CASE UPublish
  <2>1. /\ Opened /\ Opened' /\ stopflag = 1 /\ chkblk = 1
        /\ ModeNow = "on" /\ ModeNow' = "stopped"
    BY <1>12 DEF UPublish, Opened, ModeNow, flags, ChannelInv, BeginInv, IInv,
                 StopInv
  <2>2. Finished(buf[dn], eventid) /\ eventid >= 1
    BY <1>1, <1>12, <2>1 DEF UPublish, ChannelInv, FilledInv
  <2>3. Len(QueueNow) < 2
    <3>1. Len(fifo) \in Nat /\ Len(fifo) <= 1
      BY <2>1 DEF ChannelInv, IInv, HalvesInv, TypeOK
    <3> QED
      BY <1>3, <2>1, <3>1
  <2>4. CurNow = Events(buf[dn]) /\ CurNow # <<>>
    <3>1. CurNow = SubSeq(buf[dn], 1, eventid)
      BY <2>1 DEF CurNow
    <3>2. SubSeq(buf[dn], 1, eventid) # <<>>
      BY <1>2, <2>2 DEF Finished, Filled
    <3> QED
      BY <1>2, <2>2, <3>1, <3>2, EventsOfFinished
  <2>5. QueueNow' = Append(QueueNow, CurNow)
    <3>1. fifo' = Append(fifo, buf[dn]) /\ fifo \in Seq(Seq(Words))
      BY <1>12 DEF UPublish, ChannelInv, TypeOK
    <3>2. Blocks(fifo') = Append(Blocks(fifo), Events(buf[dn]))
      BY <1>2, <3>1, BlocksAppend
    <3>3. QueueNow' = Blocks(fifo')
      BY <1>4, <2>1 DEF Blocks
    <3> QED
      BY <1>3, <2>1, <2>4, <3>2, <3>3
  <2>6. CurNow' = <<>> /\ NextNow' = NextNow
    BY <1>1, <1>12, <2>1 DEF UPublish, CurNow, NextNow, hw
  <2> QED
    BY <2>1, <2>3, <2>4, <2>5, <2>6, ChannelTerms DEF Channel!Next
<1> QED
  BY <1>5, <1>6, <1>7, <1>8, <1>9, <1>10, <1>11, <1>12 DEF UInside, UCall

LEMMA ChannelStep ==
  ChannelInv /\ ChannelInv' /\ [Next]_vars => [Channel!Next]_(Channel!vars)
<1> SUFFICES ASSUME ChannelInv, ChannelInv', [Next]_vars
             PROVE  Channel!Next \/ UNCHANGED channelNow
  BY DEF Channel!vars, channelNow, ModeNow, QueueNow, CurNow, NextNow
<1>1. ASSUME NEW s \in EventSizes, Trigger(s) PROVE UNCHANGED channelNow
  BY <1>1, TriggerSeen
<1>2. CASE HEntry \/ HInside
  BY <1>2, HandlerSeen DEF Channel!Next
<1>3. CASE UInside \/ UCall
  BY <1>3, ClientSeen
<1>4. CASE UNCHANGED vars
  BY <1>4 DEF vars, flags, block, hw, client, channelNow, ModeNow, QueueNow,
              CurNow, NextNow, Opened
<1> QED
  BY <1>1, <1>2, <1>3, <1>4 DEF Next

\* The driver, with its double buffer, its mask and its racing updates of
\* chkbuff, is a channel that hands the events it was given to the client in
\* blocks: none lost, repeated or moved, at most two blocks waiting, read in
\* the order in which they were finished.
THEOREM DriverIsChannel == Spec => IsChannel
<1>1. Init => Channel!Init
  <2>1. Init => ~Opened
    BY DEF Init, Opened, Closing
  <2> QED
    BY <2>1, ChannelTerms DEF ModeNow, QueueNow, CurNow, NextNow
<1> QED
  BY <1>1, ChannelStep, ChannelInvariance, PTL
     DEF Spec, IsChannel, Channel!Spec
=============================================================================
