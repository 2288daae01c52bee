-------------------------- MODULE NbbqdrvUP_proofs --------------------------
(***************************************************************************)
(* The invariant of NbbqdrvUP is inductive, and the safety properties of   *)
(* the driver follow from it.  ControlInv is the part of it that speaks of *)
(* flags, counters and program counters; the contents of the halves        *)
(* (IntactInv) and the veto (MaskInv, VetoInv) rest on it.                 *)
(***************************************************************************)
EXTENDS NbbqdrvUP, Nbbqdrv_proofs, SequenceTheorems

ControlInv == /\ ClosedInv /\ HandlerInv /\ StopInv
              /\ HalvesInv /\ CountInv /\ WindowInv

\* Reading the oldest half, and switching to the next one, keep step.
LEMMA InStepRead ==
  ASSUME NEW d \in 0..1, NEW r \in 0..1, NEW n \in 1..2, InStep(d, r, n)
  PROVE  InStep(d, Other(r), n - 1)
BY DEF InStep, Other

LEMMA InStepSwitch ==
  ASSUME NEW d \in 0..1, NEW r \in 0..1, NEW n \in 1..2, InStep(d, r, n - 1)
  PROVE  InStep(Other(d), r, n)
BY DEF InStep, Other

\* When a read finds chkbuff changed behind its back, one block was finished
\* meanwhile and none was waiting before.
LEMMA LostIncrement ==
  ASSUME NEW r \in {1, 2}, NEW c \in Nat, NEW n \in Nat,
         r = 2 => c = 2, c = n + 1, c <= 2, r # c
  PROVE  r = 1 /\ c = 2 /\ n = 1
OBVIOUS

\* Two counted with the block just read leave one.
LEMMA OneOfTwo ==
  ASSUME NEW n \in Nat, NEW c \in Nat, c = n + 1, c = 2
  PROVE  n = 1
OBVIOUS

\* Flags, counters and program counters keep their relations.
LEMMA ControlStep == TypeOK /\ ControlInv /\ [Next]_vars => ControlInv'
<1> SUFFICES ASSUME TypeOK, ControlInv, [Next]_vars PROVE ControlInv'
  OBVIOUS
<1> USE QuietAssumption, SizeAssumption DEF
      TypeOK, ControlInv, ClosedInv, HandlerInv, StopInv, HalvesInv, CountInv,
      WindowInv, PostCopy, InStopCall, Stalled, Opened, Opening,
      Closing, Window, Header, ClientMayRun, flags, block, hw, client
<1>1. ASSUME NEW s \in EventSizes, Trigger(s) PROVE ControlInv'
  BY <1>1 DEF Trigger
<1>2. CASE HRefuse
  BY <1>2 DEF HRefuse, Entered, Requested, Leave
<1>3. CASE HBegin
  BY <1>3 DEF HBegin, Entered, Requested, Header
<1>4. CASE HNotOurs
  BY <1>4 DEF HNotOurs, Requested
<1>5. CASE HMask
  BY <1>5 DEF HMask
<1>6. CASE HEvt
  BY <1>6 DEF HEvt, BusyKept, Write
<1>7. CASE HGoOn
  BY <1>7 DEF HGoOn, Leave
<1>8. CASE HEndBlock
  BY <1>8 DEF HEndBlock, BlockOver, Write
<1>9. CASE HPublish
  <2>1. Len(fifo') = Len(fifo) + 1 /\ Len(fifo) \in Nat
    BY <1>9 DEF HPublish
  <2>2. Opened => Len(fifo) <= 1 /\ InStep(dn, drn, Len(fifo))
    BY <1>9 DEF HPublish
  <2>3. HalvesInv'
    BY <1>9, <2>1, <2>2 DEF HPublish
  <2>4. CountInv' /\ WindowInv'
    BY <1>9, <2>1, <2>2 DEF HPublish
  <2>5. ClosedInv' /\ HandlerInv' /\ StopInv'
    BY <1>9 DEF HPublish
  <2> QED
    BY <2>3, <2>4, <2>5
<1>10. CASE HChmem
  <2>1. stopflag = 0 /\ chkblk = 0 /\ inten = 0
    BY <1>10 DEF HChmem
  <2>2. Len(fifo) \in Nat /\ (Opened => Len(fifo) >= 1 /\ Len(fifo) <= 2)
    BY <1>10, <2>1 DEF HChmem
  <2>3. Opened => InStep(dn, drn, Len(fifo) - 1)
    BY <1>10, <2>1 DEF HChmem
  <2>4. HalvesInv'
    <3>1. Opened => InStep(Other(dn), drn, Len(fifo))
      BY <2>2, <2>3, InStepSwitch
    <3> QED
      BY <1>10, <2>1, <2>2, <3>1 DEF HChmem
  <2>5. CountInv' /\ WindowInv'
    BY <1>10 DEF HChmem
  <2>6. ClosedInv' /\ HandlerInv' /\ StopInv'
    BY <1>10 DEF HChmem
  <2> QED
    BY <2>4, <2>5, <2>6
<1>11. CASE HUnmask
  BY <1>11 DEF HUnmask, Leave, KeepMasked
<1>12. CASE UOpen
  BY <1>12 DEF UOpen, InStep
<1>13. CASE UStart
  BY <1>13 DEF UStart
<1>14. CASE UModules
  BY <1>14 DEF UModules
<1>15. CASE UGo
  BY <1>15 DEF UGo
<1>16. CASE UEnable
  BY <1>16 DEF UEnable, InStep
<1>17. CASE UPoll
  BY <1>17 DEF UPoll
<1>18. CASE UPollLook
  BY <1>18 DEF UPollLook
<1>19. CASE UWake
  BY <1>19 DEF UWake
<1>20. CASE UTimeout
  BY <1>20 DEF UTimeout
<1>21. CASE URead
  BY <1>21 DEF URead
<1>22. CASE UCopied
  <2>1. pcH = "idle"
    BY <1>22 DEF UCopied
  <2>2. Opened /\ chkbuff >= 1 /\ chkbuff = Len(fifo) /\ fifo # <<>>
    BY <1>22 DEF UCopied
  <2>3. Len(fifo') = Len(fifo) - 1 /\ Len(fifo) \in Nat
    BY <1>22, <2>2 DEF UCopied
  <2>4. HalvesInv'
    <3>1. /\ Len(fifo) >= 1 /\ Len(fifo) <= 2
          /\ (stopflag = 0 => InStep(dn, drn, Len(fifo)))
      BY <1>22, <2>1, <2>2, <2>3 DEF UCopied
    <3>2. stopflag = 0 => InStep(dn, Other(drn), Len(fifo) - 1)
      BY <2>3, <3>1, InStepRead
    <3> QED
      BY <1>22, <2>1, <2>3, <3>1, <3>2 DEF UCopied
  <2>5. CountInv' /\ WindowInv'
    BY <1>22, <2>1, <2>2, <2>3 DEF UCopied
  <2>6. ClosedInv' /\ HandlerInv' /\ StopInv'
    BY <1>22, <2>1 DEF UCopied
  <2> QED
    BY <2>4, <2>5, <2>6
<1>23. CASE ULoad
  BY <1>23 DEF ULoad
<1>24. CASE UFull
  BY <1>24 DEF UFull, Reenabled
<1>25. CASE UClear
  BY <1>25 DEF UClear
<1>26. CASE UReload
  BY <1>26 DEF UReload
<1>27. CASE UStore
  <2>1. pcH = "idle" /\ Len(fifo) \in Nat
    BY <1>27 DEF UStore
  <2>2. CASE regU = chkbuff
    <3>1. chkbuff' = Len(fifo)
      BY <1>27, <2>1, <2>2 DEF UStore, Decremented
    <3> QED
      BY <1>27, <2>1, <2>2, <3>1 DEF UStore, Decremented
  <2>3. CASE regU # chkbuff
    <3>1. regU \in {1, 2} /\ (regU = 2 => chkbuff = 2)
      BY <1>27 DEF UStore
    <3>2. chkbuff = Len(fifo) + 1 /\ chkbuff <= 2
      BY <1>27 DEF UStore
    <3>3. regU = 1 /\ chkbuff = 2 /\ Len(fifo) = 1
      BY <2>1, <2>3, <3>1, <3>2, LostIncrement
    <3>4. Stalled'
      BY <1>27, <2>1, <3>3 DEF UStore, Decremented
    <3> QED
      BY <1>27, <2>1, <3>3, <3>4 DEF UStore
  <2> QED
    BY <2>2, <2>3
<1>28. CASE UStop
  BY <1>28 DEF UStop
<1>29. CASE UFlags
  <2>1. pcH = "idle" /\ inten = 0
    BY <1>29 DEF UFlags
  <2>2. HalvesInv'
    BY <1>29, <2>1 DEF UFlags
  <2>3. CountInv' /\ WindowInv'
    BY <1>29, <2>1 DEF UFlags
  <2>4. ClosedInv' /\ HandlerInv' /\ StopInv'
    BY <1>29, <2>1 DEF UFlags
  <2> QED
    BY <2>2, <2>3, <2>4
<1>30. CASE UEndBlock
  BY <1>30 DEF UEndBlock, Write
<1>31. CASE UPublish
  <2>1. Len(fifo') = Len(fifo) + 1 /\ Len(fifo) \in Nat
    BY <1>31 DEF UPublish
  <2> QED
    BY <1>31, <2>1 DEF UPublish
<1>32. CASE UStopModules
  BY <1>32 DEF UStopModules
<1>33. CASE URelease
  BY <1>33 DEF URelease
<1>34. CASE UClosed
  BY <1>34 DEF UClosed
<1>35. CASE UNCHANGED vars
  BY <1>35 DEF vars
<1> QED
  BY <1>1, <1>2, <1>3, <1>4, <1>5, <1>6, <1>7, <1>8, <1>9, <1>10, <1>11,
     <1>12, <1>13, <1>14, <1>15, <1>16, <1>17, <1>18, <1>19, <1>20, <1>21,
     <1>22, <1>23, <1>24, <1>25, <1>26, <1>27, <1>28, <1>29, <1>30, <1>31,
     <1>32, <1>33, <1>34, <1>35
     DEF Next, HEntry, HInside, UInside, UCall

\* Writing into the half being filled leaves the unread ones alone.
LEMMA WriteIntact ==
  ASSUME TypeOK, IntactInv, NEW x, Write(x), UNCHANGED <<drn, fifo>>,
         Opened => Len(fifo) <= 1 /\ InStep(dn, drn, Len(fifo)),
         Opened' => Opened
  PROVE  IntactInv'
<1> SUFFICES ASSUME Opened PROVE IntactInv'
  BY DEF IntactInv
<1>1. Len(fifo) = 1 => dn = Other(drn)
  BY DEF InStep
<1>2. Len(fifo) = 1 => buf'[drn] = buf[drn]
  BY <1>1 DEF TypeOK, Write, Other
<1>3. Len(fifo) \in Nat
  BY DEF TypeOK
<1>4. Len(fifo) >= 1 => buf'[drn] = fifo[1]
  BY <1>2, <1>3 DEF IntactInv
<1> QED
  BY <1>3, <1>4 DEF IntactInv

\* What a second element joins.
LEMMA SecondOfTwo ==
  ASSUME NEW S, NEW q \in Seq(S), NEW e \in S, Len(q) = 1
  PROVE  /\ Len(Append(q, e)) = 2
         /\ Append(q, e)[1] = q[1] /\ Append(q, e)[2] = e
BY AppendProperties

\* A half that is finished joins the unread ones.
LEMMA PublishIntact ==
  ASSUME TypeOK, IntactInv, Opened, UNCHANGED <<drn, buf>>,
         fifo' = Append(fifo, buf[dn]),
         Len(fifo) <= 1, InStep(dn, drn, Len(fifo))
  PROVE  IntactInv'
<1>1. CASE Len(fifo) = 0
  <2>1. dn = drn /\ fifo' = <<buf[dn]>>
    BY <1>1 DEF TypeOK, InStep
  <2> QED
    BY <2>1 DEF IntactInv
<1>2. CASE Len(fifo) = 1
  <2>1. dn = Other(drn) /\ buf[drn] = fifo[1]
    BY <1>2 DEF InStep, IntactInv
  <2>2. Len(fifo') = 2 /\ fifo'[1] = fifo[1] /\ fifo'[2] = buf[dn]
    <3>1. fifo \in Seq(Seq(Words)) /\ buf[dn] \in Seq(Words)
      BY DEF TypeOK
    <3> QED
      BY <1>2, <3>1, SecondOfTwo
  <2> QED
    BY <2>1, <2>2 DEF IntactInv
<1>3. Len(fifo) \in Nat
  BY DEF TypeOK
<1> QED
  BY <1>1, <1>2, <1>3

\* No step touches a half that waits or is being copied.
LEMMA IntactStep ==
  TypeOK /\ ControlInv /\ IntactInv /\ [Next]_vars => IntactInv'
<1> SUFFICES ASSUME TypeOK, ControlInv, IntactInv, [Next]_vars
             PROVE  IntactInv'
  OBVIOUS
<1>1. ASSUME UNCHANGED <<buf, drn, fifo>>, Opened' => Opened
      PROVE  IntactInv'
  BY <1>1 DEF IntactInv
<1>2. CASE HEvt
  <2>1. Opened => Len(fifo) <= 1 /\ InStep(dn, drn, Len(fifo))
    BY <1>2 DEF HEvt, ControlInv, HandlerInv, StopInv, HalvesInv, TypeOK
  <2> QED
    BY <1>2, <2>1, WriteIntact DEF HEvt, Opened, client
<1>3. CASE HEndBlock
  <2>1. Opened => Len(fifo) <= 1 /\ InStep(dn, drn, Len(fifo))
    BY <1>3 DEF HEndBlock, ControlInv, HandlerInv, StopInv, HalvesInv, TypeOK
  <2> QED
    BY <1>3, <2>1, WriteIntact DEF HEndBlock, Opened, client
<1>4. CASE HPublish
  <2>1. CASE Opened
    <3>1. Len(fifo) <= 1 /\ InStep(dn, drn, Len(fifo))
      BY <1>4, <2>1 DEF HPublish, ControlInv, HandlerInv, StopInv, HalvesInv,
                        TypeOK
    <3> QED
      BY <1>4, <2>1, <3>1, PublishIntact DEF HPublish, block
  <2>2. CASE ~Opened
    BY <1>4, <2>2 DEF HPublish, IntactInv, Opened, client
  <2> QED
    BY <2>1, <2>2
<1>5. CASE UEnable
  <2>1. fifo' = <<>>
    BY <1>5 DEF UEnable, ControlInv, ClosedInv, Opening
  <2> QED
    BY <2>1 DEF IntactInv
<1>6. CASE UCopied
  <2>1. Opened /\ fifo # <<>> /\ Len(fifo) <= 2
    <3>1. Opened /\ chkbuff >= 1
      BY <1>6 DEF UCopied, ControlInv, CountInv, Opened, Opening, Closing
    <3>2. chkbuff = Len(fifo)
      BY <1>6, <3>1 DEF UCopied, ControlInv, CountInv, PostCopy, Window,
                        Stalled, TypeOK
    <3> QED
      BY <3>1, <3>2 DEF ControlInv, HalvesInv, TypeOK
  <2>2. /\ Len(fifo') = Len(fifo) - 1
        /\ Len(fifo) = 2 => fifo'[1] = fifo[2]
    BY <1>6, <2>1 DEF UCopied, TypeOK
  <2> QED
    BY <1>6, <2>1, <2>2 DEF UCopied, IntactInv, block, TypeOK
<1>7. CASE UEndBlock
  <2>1. Opened => Len(fifo) <= 1 /\ InStep(dn, drn, Len(fifo))
    BY <1>7 DEF UEndBlock, ClientMayRun, ControlInv, StopInv, HalvesInv,
                TypeOK
  <2> QED
    BY <1>7, <2>1, WriteIntact
       DEF UEndBlock, Opened, Opening, Closing
<1>8. CASE UPublish
  <2>1. Opened
    BY <1>8 DEF UPublish, Opened, Opening, Closing
  <2>2. Len(fifo) <= 1 /\ InStep(dn, drn, Len(fifo))
    BY <1>8, <2>1 DEF UPublish, ControlInv, StopInv, HalvesInv, TypeOK
  <2> QED
    BY <1>8, <2>1, <2>2, PublishIntact DEF UPublish, block
<1>9. CASE UOpen \/ URelease
  BY <1>9 DEF UOpen, URelease, IntactInv, Opened, Opening, Closing
<1>10. CASE HRefuse
  BY <1>1, <1>10 DEF HRefuse, block, client, Opened
<1>11. CASE HBegin
  BY <1>1, <1>11 DEF HBegin, block, client, Opened
<1>12. CASE HNotOurs
  BY <1>1, <1>12 DEF HNotOurs, block, client, Opened
<1>13. CASE HMask
  BY <1>1, <1>13 DEF HMask, block, client, Opened
<1>14. CASE HGoOn
  BY <1>1, <1>14 DEF HGoOn, block, client, Opened
<1>15. CASE HChmem
  BY <1>1, <1>15 DEF HChmem, block, client, Opened
<1>16. CASE HUnmask
  BY <1>1, <1>16 DEF HUnmask, block, client, Opened
<1>17. CASE UStart
  BY <1>1, <1>17 DEF UStart, block, Opened, Opening, Closing
<1>18. CASE UModules
  BY <1>1, <1>18 DEF UModules, block, Opened, Opening, Closing
<1>19. CASE UGo
  BY <1>1, <1>19 DEF UGo, block, Opened, Opening, Closing
<1>20. CASE UPoll
  BY <1>1, <1>20 DEF UPoll, block, Opened, Opening, Closing
<1>21. CASE UPollLook
  BY <1>1, <1>21 DEF UPollLook, block, Opened, Opening, Closing
<1>22. CASE UWake
  BY <1>1, <1>22 DEF UWake, block, Opened, Opening, Closing
<1>23. CASE UTimeout
  BY <1>1, <1>23 DEF UTimeout, block, Opened, Opening, Closing
<1>24. CASE URead
  BY <1>1, <1>24 DEF URead, block, Opened, Opening, Closing
<1>25. CASE ULoad
  BY <1>1, <1>25 DEF ULoad, block, Opened, Opening, Closing
<1>26. CASE UFull
  BY <1>1, <1>26 DEF UFull, block, Opened, Opening, Closing
<1>27. CASE UClear
  BY <1>1, <1>27 DEF UClear, block, Opened, Opening, Closing
<1>28. CASE UReload
  BY <1>1, <1>28 DEF UReload, block, Opened, Opening, Closing
<1>29. CASE UStore
  BY <1>1, <1>29 DEF UStore, block, Opened, Opening, Closing
<1>30. CASE UStop
  BY <1>1, <1>30 DEF UStop, block, Opened, Opening, Closing
<1>31. CASE UFlags
  BY <1>1, <1>31 DEF UFlags, block, Opened, Opening, Closing
<1>32. CASE UStopModules
  BY <1>1, <1>32 DEF UStopModules, block, Opened, Opening, Closing
<1>33. CASE UClosed
  BY <1>1, <1>33 DEF UClosed, block, Opened, Opening, Closing
<1>34. ASSUME NEW s \in EventSizes, Trigger(s) PROVE IntactInv'
  BY <1>1, <1>34 DEF Trigger, block, client, Opened
<1>35. CASE UNCHANGED vars
  BY <1>1, <1>35 DEF vars, block, client, Opened
<1> QED
  BY <1>2, <1>3, <1>4, <1>5, <1>6, <1>7, <1>8, <1>9, <1>10, <1>11, <1>12,
     <1>13, <1>14, <1>15, <1>16, <1>17, <1>18, <1>19, <1>20, <1>21, <1>22,
     <1>23, <1>24, <1>25, <1>26, <1>27, <1>28, <1>29, <1>30, <1>31, <1>32,
     <1>33, <1>34, <1>35
     DEF Next, HEntry, HInside, UInside, UCall

\* A masked interrupt has a reason.
LEMMA MaskStep ==
  TypeOK /\ ControlInv /\ MaskInv /\ VetoInv /\ [Next]_vars => MaskInv'
<1> SUFFICES ASSUME TypeOK, ControlInv, MaskInv, VetoInv, [Next]_vars
             PROVE  MaskInv'
  OBVIOUS
<1> USE QuietAssumption, SizeAssumption DEF
      TypeOK, ControlInv, ClosedInv, HandlerInv, StopInv, CountInv, WindowInv,
      PostCopy, InStopCall, Stalled, Opened, Running, Opening, Closing,
      Window, ClientMayRun, flags, block, hw, client, MaskInv, VetoInv
<1>1. ASSUME NEW s \in EventSizes, Trigger(s) PROVE MaskInv'
  BY <1>1 DEF Trigger
<1>2. CASE HRefuse
  BY <1>2 DEF HRefuse, Entered, Requested, Leave
<1>3. CASE HBegin
  BY <1>3 DEF HBegin, Entered, Requested
<1>4. CASE HNotOurs
  BY <1>4 DEF HNotOurs, Requested
<1>5. CASE HMask
  BY <1>5 DEF HMask
<1>6. CASE HEvt
  BY <1>6 DEF HEvt
<1>7. CASE HGoOn
  BY <1>7 DEF HGoOn, Leave
<1>8. CASE HEndBlock
  BY <1>8 DEF HEndBlock
<1>9. CASE HPublish
  BY <1>9 DEF HPublish
<1>10. CASE HChmem
  BY <1>10 DEF HChmem
<1>11. CASE HUnmask
  BY <1>11 DEF HUnmask, Leave, KeepMasked
<1>12. CASE UOpen
  BY <1>12 DEF UOpen
<1>13. CASE UStart
  BY <1>13 DEF UStart
<1>14. CASE UModules
  BY <1>14 DEF UModules
<1>15. CASE UGo
  BY <1>15 DEF UGo
<1>16. CASE UEnable
  BY <1>16 DEF UEnable
<1>17. CASE UPoll
  BY <1>17 DEF UPoll
<1>18. CASE UPollLook
  BY <1>18 DEF UPollLook
<1>19. CASE UWake
  BY <1>19 DEF UWake
<1>20. CASE UTimeout
  BY <1>20 DEF UTimeout
<1>21. CASE URead
  BY <1>21 DEF URead
<1>22. CASE UCopied
  <2>1. Opened /\ chkbuff >= 1 /\ chkbuff = Len(fifo) /\ fifo # <<>>
    BY <1>22 DEF UCopied
  <2>2. Len(fifo') = Len(fifo) - 1 /\ Len(fifo) \in Nat
    BY <1>22, <2>1 DEF UCopied
  <2> QED
    BY <1>22, <2>1, <2>2 DEF UCopied
<1>23. CASE ULoad
  BY <1>23 DEF ULoad
<1>24. CASE UFull
  BY <1>24 DEF UFull, Reenabled
<1>25. CASE UClear
  BY <1>25 DEF UClear
<1>26. CASE UReload
  BY <1>26 DEF UReload
<1>27. CASE UStore
  <2> SUFFICES ASSUME Running', inten = 0 PROVE MaskInv'
    BY <1>27 DEF UStore
  <2>1. Running /\ pcH = "idle" /\ Len(fifo) \in Nat
    BY <1>27 DEF UStore
  <2>2. chkbuff = Len(fifo) + 1
    BY <1>27, <2>1 DEF UStore
  <2>3. regU = 1 /\ chkbuff = 2
    BY <1>27, <2>1, <2>2 DEF UStore
  <2>4. Stalled'
    <3>1. chkblk = 0
      BY <2>1, <2>3
    <3>2. chkbuff' = 0
      BY <1>27, <2>3 DEF UStore, Decremented
    <3>3. Len(fifo) = 1
      BY <2>1, <2>2, <2>3, OneOfTwo
    <3> QED
      BY <1>27, <2>1, <3>1, <3>2, <3>3 DEF UStore
  <2> QED
    BY <2>4
<1>28. CASE UStop
  BY <1>28 DEF UStop
<1>29. CASE UFlags
  BY <1>29 DEF UFlags
<1>30. CASE UEndBlock
  BY <1>30 DEF UEndBlock
<1>31. CASE UPublish
  BY <1>31 DEF UPublish
<1>32. CASE UStopModules
  BY <1>32 DEF UStopModules
<1>33. CASE URelease
  BY <1>33 DEF URelease
<1>34. CASE UClosed
  BY <1>34 DEF UClosed
<1>35. CASE UNCHANGED vars
  BY <1>35 DEF vars
<1> QED
  BY <1>1, <1>2, <1>3, <1>4, <1>5, <1>6, <1>7, <1>8, <1>9, <1>10, <1>11,
     <1>12, <1>13, <1>14, <1>15, <1>16, <1>17, <1>18, <1>19, <1>20, <1>21,
     <1>22, <1>23, <1>24, <1>25, <1>26, <1>27, <1>28, <1>29, <1>30, <1>31,
     <1>32, <1>33, <1>34, <1>35
     DEF Next, HEntry, HInside, UInside, UCall

\* No veto is left on without an owner.
LEMMA VetoStep ==
  TypeOK /\ ControlInv /\ MaskInv /\ VetoInv /\ [Next]_vars => VetoInv'
<1> SUFFICES ASSUME TypeOK, ControlInv, MaskInv, VetoInv, [Next]_vars
             PROVE  VetoInv'
  OBVIOUS
<1> USE QuietAssumption, SizeAssumption DEF
      TypeOK, ControlInv, ClosedInv, HandlerInv, StopInv, CountInv, WindowInv,
      PostCopy, InStopCall, Stalled, Opened, Running, Opening, Closing,
      Window, ClientMayRun, flags, block, hw, client, MaskInv, VetoInv,
      BlockOver
<1>1. ASSUME NEW s \in EventSizes, Trigger(s) PROVE VetoInv'
  BY <1>1 DEF Trigger
<1>2. CASE HRefuse
  BY <1>2 DEF HRefuse, Entered, Requested, Leave
<1>3. CASE HBegin
  BY <1>3 DEF HBegin, Entered, Requested
<1>4. CASE HNotOurs
  BY <1>4 DEF HNotOurs, Requested
<1>5. CASE HMask
  BY <1>5 DEF HMask
<1>6. CASE HEvt
  BY <1>6 DEF HEvt, BusyKept
<1>7. CASE HGoOn
  BY <1>7 DEF HGoOn, Leave, Cleared
<1>8. CASE HEndBlock
  BY <1>8 DEF HEndBlock
<1>9. CASE HPublish
  BY <1>9 DEF HPublish
<1>10. CASE HChmem
  BY <1>10 DEF HChmem
<1>11. CASE HUnmask
  BY <1>11 DEF HUnmask, Leave, KeepMasked, Cleared
<1>12. CASE UOpen
  BY <1>12 DEF UOpen
<1>13. CASE UStart
  BY <1>13 DEF UStart
<1>14. CASE UModules
  BY <1>14 DEF UModules
<1>15. CASE UGo
  BY <1>15 DEF UGo
<1>16. CASE UEnable
  BY <1>16 DEF UEnable
<1>17. CASE UPoll
  BY <1>17 DEF UPoll
<1>18. CASE UPollLook
  BY <1>18 DEF UPollLook
<1>19. CASE UWake
  BY <1>19 DEF UWake
<1>20. CASE UTimeout
  BY <1>20 DEF UTimeout
<1>21. CASE URead
  BY <1>21 DEF URead
<1>22. CASE UCopied
  <2>1. Opened /\ chkbuff >= 1 /\ chkbuff = Len(fifo) /\ fifo # <<>>
    BY <1>22 DEF UCopied
  <2>2. Len(fifo') = Len(fifo) - 1 /\ Len(fifo) \in Nat
    BY <1>22, <2>1 DEF UCopied
  <2> QED
    BY <1>22, <2>1, <2>2 DEF UCopied
<1>23. CASE ULoad
  BY <1>23 DEF ULoad
<1>24. CASE UFull
  BY <1>24 DEF UFull, Reenabled
<1>25. CASE UClear
  BY <1>25 DEF UClear, Cleared
<1>26. CASE UReload
  BY <1>26 DEF UReload
<1>27. CASE UStore
  BY <1>27 DEF UStore, Decremented
<1>28. CASE UStop
  BY <1>28 DEF UStop
<1>29. CASE UFlags
  BY <1>29 DEF UFlags
<1>30. CASE UEndBlock
  BY <1>30 DEF UEndBlock
<1>31. CASE UPublish
  BY <1>31 DEF UPublish
<1>32. CASE UStopModules
  BY <1>32 DEF UStopModules
<1>33. CASE URelease
  BY <1>33 DEF URelease
<1>34. CASE UClosed
  BY <1>34 DEF UClosed
<1>35. CASE UNCHANGED vars
  BY <1>35 DEF vars
<1> QED
  BY <1>1, <1>2, <1>3, <1>4, <1>5, <1>6, <1>7, <1>8, <1>9, <1>10, <1>11,
     <1>12, <1>13, <1>14, <1>15, <1>16, <1>17, <1>18, <1>19, <1>20, <1>21,
     <1>22, <1>23, <1>24, <1>25, <1>26, <1>27, <1>28, <1>29, <1>30, <1>31,
     <1>32, <1>33, <1>34, <1>35
     DEF Next, HEntry, HInside, UInside, UCall

\* The invariant holds in every reachable state.
LEMMA Invariance == Spec => [](TypeOK /\ IInv)
<1>1. Init => IInv
  BY DEF Init, IInv, ClosedInv, HandlerInv, StopInv, HalvesInv, IntactInv,
         CountInv, WindowInv, MaskInv, VetoInv, Running, Opened, Opening,
         Closing, Window
<1>2. TypeOK /\ IInv /\ [Next]_vars => IInv'
  BY ControlStep, IntactStep, MaskStep, VetoStep DEF IInv, ControlInv
<1> QED
  BY <1>1, <1>2, TypeCorrect, PTL DEF Spec

\* The invariant tells where the unread blocks are.
LEMMA IntactNow == TypeOK /\ IInv => UnreadIntact
<1> SUFFICES ASSUME TypeOK, IInv, Opened, NEW i \in 1..Len(fifo)
             PROVE  buf[(drn + i - 1) % 2] = fifo[i]
  BY DEF UnreadIntact
<1>1. (drn = 0 \/ drn = 1) /\ (i = 1 \/ i = 2)
  <2>1. Len(fifo) <= 2 /\ Len(fifo) \in Nat
    BY DEF IInv, HalvesInv, TypeOK
  <2>2. drn = 0 \/ drn = 1
    BY DEF TypeOK
  <2> QED
    BY <2>1, <2>2
<1>2. CASE i = 1
  <2>1. (drn + i - 1) % 2 = drn
    BY <1>2, <1>1
  <2>2. buf[drn] = fifo[1]
    BY <1>2 DEF IInv, IntactInv, TypeOK
  <2> QED
    BY <1>2, <2>1, <2>2
<1>3. CASE i = 2
  <2>1. (drn + i - 1) % 2 = Other(drn)
    BY <1>3, <1>1 DEF Other
  <2>2. buf[Other(drn)] = fifo[2]
    BY <1>3 DEF IInv, IntactInv, TypeOK
  <2> QED
    BY <1>3, <2>1, <2>2
<1> QED
  BY <1>1, <1>2, <1>3

\* No finished block is touched before it has been read: the handler, which
\* shares the two halves with the reader under no lock, never writes into the
\* one that is being copied or that waits.
THEOREM UnreadStaysIntact == Spec => []UnreadIntact
BY IntactNow, Invariance, PTL

\* IInv, the reason for what follows, holds in every reachable state: what the
\* flags, counters, halves, mask and veto have to do with each other whenever
\* the handler or a call is between two of its steps.
THEOREM InvariantHolds == Spec => []IInv
BY Invariance, PTL

\* chkbuff may lag behind the finished blocks, by the increment that a read
\* has overwritten, but never promises a block that is not there.
THEOREM CountStaysBehind == Spec => []CountNeverAhead
<1>1. TypeOK /\ IInv => CountNeverAhead
  BY DEF TypeOK, IInv, CountInv, Stalled, PostCopy, Opened, Opening, Closing,
         Window, CountNeverAhead
<1> QED
  BY <1>1, Invariance, PTL

\* The answer of STOP, when it is not zero, counts the blocks left to read.
THEOREM StopAnswersRight == Spec => []StopAnswer
<1>1. TypeOK /\ IInv => StopAnswer
  BY DEF TypeOK, IInv, StopInv, CountInv, Opened, Opening, Closing, StopAnswer
<1> QED
  BY <1>1, Invariance, PTL

\* After the answer of STOP the interrupt stays masked and no half is
\* recorded, published or switched until the device is opened again.
THEOREM StopEndsRecording == Spec => StopIsFinal
<1> DEFINE Stopped == /\ Opened /\ stopflag = 1
                      /\ pcU \notin {"flags", "end", "publish"}
           Still == /\ inten' = 0
                    /\ fifo' \in {fifo, <<>>} \/ fifo' = Tail(fifo)
                    /\ dn' = dn
<1>1. TypeOK /\ IInv /\ [Next]_vars => (Stopped => Still)
  <2> SUFFICES ASSUME TypeOK, IInv, [Next]_vars, Stopped PROVE Still
    OBVIOUS
  <2>1. inten = 0 /\ pcH = "idle"
    BY DEF IInv, StopInv
  <2>2. ~HEntry /\ ~HInside
    BY <2>1, QuietAssumption
       DEF HEntry, HRefuse, HBegin, Entered, Requested, HInside, HNotOurs,
           HMask, HEvt, HGoOn, HEndBlock, HPublish, HChmem, HUnmask
  <2>3. ASSUME NEW s \in EventSizes, Trigger(s) PROVE Still
    BY <2>1, <2>3 DEF Trigger, block
  <2>4. CASE UCall
    BY <2>1, <2>4
       DEF UCall, UOpen, UPoll, UTimeout, URead, UStop, URelease, block, hw
  <2>5. CASE UInside
    <3>1. CASE UStart \/ UModules \/ UGo \/ UEnable \/ UClosed
      BY <3>1 DEF UStart, UModules, UGo, UEnable, UClosed, Opened, Opening,
                  Closing
    <3>2. CASE UPollLook \/ UWake \/ UReload \/ UStore \/ ULoad
      BY <2>1, <3>2 DEF UPollLook, UWake, UReload, UStore, ULoad, block, hw
    <3>3. CASE UCopied \/ UFull \/ UClear \/ UStopModules
      BY <2>1, <3>3 DEF UCopied, UFull, Reenabled, UClear, UStopModules,
                        block, hw
    <3>4. CASE UFlags \/ UEndBlock \/ UPublish
      BY <3>4 DEF UFlags, UEndBlock, UPublish
    <3> QED
      BY <2>5, <3>1, <3>2, <3>3, <3>4 DEF UInside
  <2>6. CASE UNCHANGED vars
    BY <2>1, <2>6 DEF vars, block, hw
  <2> QED
    BY <2>2, <2>3, <2>4, <2>5, <2>6 DEF Next
<1>2. TypeOK /\ IInv /\ [Next]_vars => [Stopped => Still]_vars
  BY <1>1
<1> QED
  BY <1>2, Invariance, PTL DEF Spec, StopIsFinal

\* While a run goes on, a veto that is on has an owner that will take it off.
THEOREM VetoStaysOwned == Spec => []VetoOwned
<1>1. TypeOK /\ IInv => VetoOwned
  BY SizeAssumption DEF TypeOK, IInv, VetoInv, VetoOwned
<1> QED
  BY <1>1, Invariance, PTL
=============================================================================
