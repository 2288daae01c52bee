--------------------------- MODULE Nbbqdrv_proofs ---------------------------
(***************************************************************************)
(* What holds on any number of processors, with or without a device that   *)
(* shares the interrupt line, and for every size of block and event.       *)
(***************************************************************************)
EXTENDS Nbbqdrv, TLAPS

\* Putting a word into a half yields a half.
LEMMA PutType ==
  ASSUME NEW S, 0 \in S, NEW half \in Seq(S), NEW k \in Nat \ {0}, NEW x \in S
  PROVE  Put(half, k, x) \in Seq(S)
<1> DEFINE n == IF k > Len(half) THEN k ELSE Len(half)
           v(i) == IF i = k THEN x ELSE IF i <= Len(half) THEN half[i] ELSE 0
<1>1. n \in Nat
  OBVIOUS
<1>2. \A i \in 1..n : v(i) \in S
  OBVIOUS
<1>3. [i \in 1..n |-> v(i)] \in Seq(S)
  BY <1>1, <1>2
<1> QED
  BY <1>3 DEF Put, Zeroed

\* So does writing at the next place of the half being filled.
LEMMA WriteType ==
  ASSUME TypeOK, NEW x \in Words, Write(x)
  PROVE  buf' \in [0..1 -> Seq(Words)]
<1>1. 0 \in Words
  BY SizeAssumption DEF Words
<1>2. buf[dn] \in Seq(Words) /\ eventid + 1 \in Nat \ {0}
  BY DEF TypeOK
<1>3. Put(buf[dn], eventid + 1, x) \in Seq(Words)
  BY <1>1, <1>2, PutType
<1> QED
  BY <1>3 DEF TypeOK, Write

\* Numbering events modulo Ids stays in range.
LEMMA SuccType == ASSUME NEW n \in 0..Ids PROVE (n % Ids) + 1 \in 0..Ids
  BY SizeAssumption

\* TypeOK is kept by every step.
LEMMA TypeStep == TypeOK /\ [Next]_vars => TypeOK'
<1> SUFFICES ASSUME TypeOK, [Next]_vars PROVE TypeOK'
  OBVIOUS
<1>1. ASSUME NEW s \in EventSizes, Trigger(s) PROVE TypeOK'
  BY <1>1, SuccType DEF TypeOK, Trigger, flags, block, client
<1>2. CASE HRefuse
  BY <1>2 DEF TypeOK, HRefuse, Leave, flags, block, client
<1>3. CASE HBegin
  BY <1>3 DEF TypeOK, HBegin, Header, flags, hw, client
<1>4. CASE HNotOurs
  BY <1>4 DEF TypeOK, HNotOurs, flags, block, hw, client
<1>5. CASE HMask
  BY <1>5 DEF TypeOK, HMask, flags, block, client
<1>6. CASE HEvt
  <2>1. buf' \in [0..1 -> Seq(Words)]
    <3>1. evid \in Words
      BY DEF TypeOK, Words
    <3> QED
      BY <1>6, <3>1, WriteType DEF HEvt
  <2>2. evq \in Nat /\ mp' \in Nat /\ win' \in Nat
    BY <1>6, SizeAssumption DEF TypeOK, HEvt
  <2> QED
    BY <1>6, <2>1, <2>2 DEF TypeOK, HEvt, flags, client
<1>7. CASE HGoOn
  BY <1>7 DEF TypeOK, HGoOn, Leave, Cleared, flags, block, client
<1>8. CASE HEndBlock
  <2>1. buf' \in [0..1 -> Seq(Words)]
    <3>1. End \in Words
      BY SizeAssumption DEF End, Words
    <3> QED
      BY <1>8, <3>1, WriteType DEF HEndBlock
  <2> QED
    BY <1>8, <2>1, SizeAssumption DEF TypeOK, HEndBlock, flags, hw, client
<1>9. CASE HPublish
  BY <1>9 DEF TypeOK, HPublish, flags, block, hw, client
<1>10. CASE HChmem
  BY <1>10 DEF TypeOK, HChmem, Other, flags, hw, client
<1>11. CASE HUnmask
  BY <1>11 DEF TypeOK, HUnmask, Leave, Cleared, flags, block, client
<1>12. CASE UOpen
  <2>1. buf' \in [0..1 -> Seq(Words)]
    BY <1>12 DEF UOpen
  <2> QED
    BY <1>12, <2>1 DEF TypeOK, UOpen, Opening, hw
<1>13. CASE UStart
  BY <1>13 DEF TypeOK, UStart, Opening, flags, block, hw,
               client
<1>14. CASE UModules
  BY <1>14, SizeAssumption DEF TypeOK, UModules, Opening, flags, block, hw,
               client
<1>15. CASE UGo
  BY <1>15 DEF TypeOK, UGo, Opening, flags, block, hw,
               client
<1>16. CASE UEnable
  BY <1>16 DEF TypeOK, UEnable, flags, block, hw,
               client
<1>17. CASE UPoll
  BY <1>17 DEF TypeOK, UPoll, flags, block, hw,
               client
<1>18. CASE UPollLook
  BY <1>18 DEF TypeOK, UPollLook, flags, block, hw,
               client
<1>19. CASE UWake
  BY <1>19 DEF TypeOK, UWake, flags, block, hw,
               client
<1>20. CASE UTimeout
  BY <1>20 DEF TypeOK, UTimeout, flags, block, hw,
               client
<1>21. CASE URead
  BY <1>21 DEF TypeOK, URead, flags, block, hw,
               client
<1>22. CASE UCopied
  BY <1>22 DEF TypeOK, UCopied, Other, flags, block, hw,
               client
<1>23. CASE ULoad
  BY <1>23 DEF TypeOK, ULoad, Window, flags, block, hw,
               client
<1>24. CASE UFull
  BY <1>24 DEF TypeOK, UFull, Reenabled, Window, flags, block, hw,
               client
<1>25. CASE UClear
  BY <1>25 DEF TypeOK, UClear, Cleared, Window, flags, block, hw,
               client
<1>26. CASE UReload
  BY <1>26 DEF TypeOK, UReload, Window, flags, block, hw,
               client
<1>27. CASE UStore
  BY <1>27 DEF TypeOK, UStore, Decremented, flags, block, hw,
               client
<1>28. CASE UStop
  BY <1>28 DEF TypeOK, UStop, flags, block, hw,
               client
<1>29. CASE UFlags
  BY <1>29 DEF TypeOK, UFlags, flags, block, hw,
               client
<1>30. CASE UEndBlock
  <2>1. buf' \in [0..1 -> Seq(Words)]
    <3>1. End \in Words
      BY SizeAssumption DEF End, Words
    <3> QED
      BY <1>30, <3>1, WriteType DEF UEndBlock
  <2> QED
    BY <1>30, <2>1, SizeAssumption DEF TypeOK, UEndBlock, flags, hw, client
<1>31. CASE UPublish
  BY <1>31 DEF TypeOK, UPublish, flags, block, hw,
               client
<1>32. CASE UStopModules
  BY <1>32 DEF TypeOK, UStopModules, flags, block, hw,
               client
<1>33. CASE URelease
  BY <1>33 DEF TypeOK, URelease, Closing, flags, block, hw,
               client
<1>34. CASE UClosed
  BY <1>34 DEF TypeOK, UClosed, Closing, flags, block, hw,
               client
<1>35. CASE UNCHANGED vars
  BY <1>35 DEF TypeOK, vars, flags, block, hw, client
<1> QED
  BY <1>1, <1>2, <1>3, <1>4, <1>5, <1>6, <1>7, <1>8, <1>9, <1>10,
     <1>11, <1>12, <1>13, <1>14, <1>15, <1>16, <1>17, <1>18, <1>19,
     <1>20, <1>21, <1>22, <1>23, <1>24, <1>25, <1>26, <1>27, <1>28,
     <1>29, <1>30, <1>31, <1>32, <1>33, <1>34, <1>35
     DEF Next, HEntry, HInside, UInside, UCall

\* Every variable of the driver keeps to its type, on one processor and on
\* two.
THEOREM TypeCorrect == Spec => []TypeOK
<1>1. Init => TypeOK
  BY SizeAssumption DEF Init, TypeOK, Closing
<1> QED
  BY <1>1, TypeStep, PTL DEF Spec
\* A sleeping poll that was not woken and would find something to report is
\* about to be woken: the handler has stored chkbuff and not returned.
WakeInv ==
  pcU = "sleep" /\ woken = 0 /\ chkbuff > 0 => pcH \in {"chmem", "unmask"}

\* No step lets such a poll sleep on.
LEMMA WakeStep == TypeOK /\ WakeInv /\ [Next]_vars => WakeInv'
<1> SUFFICES ASSUME TypeOK, WakeInv, [Next]_vars PROVE WakeInv'
  OBVIOUS
<1> USE DEF WakeInv
<1>1. ASSUME NEW s \in EventSizes, Trigger(s) PROVE WakeInv'
  BY <1>1 DEF Trigger, client
<1>2. CASE HRefuse
  BY <1>2 DEF HRefuse, Leave, Entered, client
<1>3. CASE HBegin
  BY <1>3 DEF HBegin, Entered, client
<1>4. CASE HNotOurs
  BY <1>4 DEF HNotOurs, client
<1>5. CASE HMask
  BY <1>5 DEF HMask, client
<1>6. CASE HEvt
  BY <1>6 DEF HEvt, client
<1>7. CASE HGoOn
  BY <1>7 DEF HGoOn, Leave, client
<1>8. CASE HEndBlock
  BY <1>8 DEF HEndBlock, client
<1>9. CASE HPublish
  BY <1>9 DEF HPublish, client
<1>10. CASE HChmem
  BY <1>10 DEF HChmem, client
<1>11. CASE HUnmask
  BY <1>11 DEF HUnmask, Leave, client
<1>12. CASE UPollLook
  BY <1>12 DEF UPollLook, TypeOK
<1>13. CASE UPoll \/ UWake \/ UTimeout \/ URead \/ UStop \/ URelease \/ UOpen
  BY <1>13 DEF UPoll, UWake, UTimeout, URead, UStop, URelease, UOpen
<1>14. CASE UStart \/ UModules \/ UGo \/ UEnable \/ UClosed
  BY <1>14 DEF UStart, UModules, UGo, UEnable, UClosed
<1>15. CASE UCopied \/ ULoad \/ UFull \/ UClear \/ UReload \/ UStore
  BY <1>15 DEF UCopied, ULoad, UFull, UClear, UReload, UStore
<1>16. CASE UFlags \/ UEndBlock \/ UPublish \/ UStopModules
  BY <1>16 DEF UFlags, UEndBlock, UPublish, UStopModules
<1>17. CASE UNCHANGED vars
  BY <1>17 DEF vars, client
<1> QED
  BY <1>1, <1>2, <1>3, <1>4, <1>5, <1>6, <1>7, <1>8, <1>9,
     <1>10, <1>11, <1>12, <1>13, <1>14, <1>15, <1>16, <1>17
     DEF Next, HEntry, HInside, UInside, UCall

\* No wake-up is missed: with the handler returned, a poll sleeps unwoken only
\* while chkbuff has nothing to report, on two processors as on one.
THEOREM NeverMissesWakeup == Spec => []NoMissedWakeup
<1>1. Init => WakeInv
  BY DEF Init, WakeInv
<1>2. TypeOK /\ WakeInv => NoMissedWakeup
  BY DEF TypeOK, WakeInv, NoMissedWakeup
<1> QED
  BY <1>1, <1>2, TypeCorrect, WakeStep, PTL DEF Spec
=============================================================================
