---------------------------- MODULE Crate_proofs ----------------------------
(***************************************************************************)
(* For any number of triggers and any queue: after init_v1190.sh, the      *)
(* three parts of an event are those of one trigger, and the V1190 has the *)
(* settings of the script, for every choice of settings that is followed.  *)
(***************************************************************************)
EXTENDS Crate, TLAPS, SequenceTheorems

LEMMA Triggers == Ids \in Nat /\ Ids > 1 /\ MaxQueue \in Nat
BY ReadoutAssumption

LEMMA SuccIn == \A n \in 1..Ids : Succ(n) \in 1..Ids
<1> SUFFICES ASSUME NEW n \in 1..Ids PROVE Succ(n) \in 1..Ids
  OBVIOUS
<1>1. Ids \in Nat /\ Ids > 0 /\ n \in Nat
  BY Triggers
<1>2. n % Ids \in 0..(Ids - 1)
  BY <1>1
<1> QED BY <1>1, <1>2 DEF Succ

----------------------------------------------------------------------------
(* The invariant of the readout.                                           *)

\* No digitizer holds or converts an event.
Empty == /\ \A d \in Digitizers : conv[d] = None
         /\ \A m \in Madc : adc[m] = None
         /\ queue = <<>>

\* The V1190 was emptied by the script, each MADC32 by its readout_reset.
Emptying ==
  /\ Opening => queue = <<>> /\ conv[TDC] = None
  /\ pc \in {"start2", "pulse"} => acq[1] = 1 /\ adc[1] = None /\ conv[1] = None
  /\ pc = "pulse" => acq[2] = 1 /\ adc[2] = None /\ conv[2] = None

StartInv ==
  /\ pc # "off" => script = 0
  /\ pc \in Startup => masked = 0
  /\ disturbed = 0 => Emptying

\* A digitizer converts the last trigger, or holds it.
Pending(m) == \/ conv[m] = trig /\ adc[m] = None
              \/ conv[m] = None /\ adc[m] = trig

PendingTdc == \/ conv[TDC] = trig /\ queue = <<>>
              \/ conv[TDC] = None /\ queue = <<trig>>

\* One accepted trigger, which every digitizer converts or holds.
Converting ==
  /\ busy = 1 /\ trig = Succ(last) /\ masked = 0
  /\ pc = "leave" => mpflag = 0
  /\ \A m \in Madc : Pending(m)
  /\ PendingTdc

\* None; the veto is down, or it is left to clear().
Waiting ==
  /\ Empty /\ last = trig
  /\ pc = "leave" => busy = mpflag /\ masked = 0
  /\ masked = 1 => busy = 1

\* evt(): the parts that were read are those of the last trigger, and the
\* parts that were not are in the modules or on their way there.
Reading ==
  /\ busy = 1 /\ trig = Succ(last) /\ masked = 0
  /\ conv[1] = None /\ adc[1] = IF pc = "madc1" THEN trig ELSE None
  /\ IF pc \in {"madc1", "madc2"} THEN Pending(2)
                                  ELSE conv[2] = None /\ adc[2] = None
  /\ IF pc = "veto" THEN conv[TDC] = None /\ queue = <<>> ELSE PendingTdc
  /\ pc # "madc1" => rec[1] = trig
  /\ pc \in {"v1190", "veto"} => rec[2] = trig
  /\ pc = "veto" => rec[3] = trig

Running ==
  /\ pc \in {"run"} \cup Evt => acq[1] = 1 /\ acq[2] = 1
  /\ pc \in {"run", "leave"} => Waiting \/ Converting
  /\ pc \in Evt \ {"leave"} => Reading

RunInv == disturbed = 0 => Running

ReadoutInv == TypeOK /\ StartInv /\ RunInv

----------------------------------------------------------------------------
(* Types of the readout.                                                   *)

LEMMA TypesInit == Init => TypeOK
<1> SUFFICES ASSUME Init PROVE TypeOK
  OBVIOUS
<1>1. Ids \in 1..Ids /\ Ids \in 0..Ids /\ 0 \in 0..Ids
  BY Triggers
<1>2. <<>> \in Seq(1..Ids)
  OBVIOUS
<1> QED BY <1>1, <1>2 DEF Init, TypeOK, None

LEMMA TypesDrive == TypeOK /\ Drive => TypeOK'
<1> SUFFICES ASSUME TypeOK, Drive PROVE TypeOK'
  OBVIOUS
<1>1. /\ busy \in 0..1 /\ trig \in 1..Ids
      /\ conv \in [Digitizers -> 0..Ids]
      /\ acq \in [Madc -> 0..1] /\ adc \in [Madc -> 0..Ids]
      /\ queue \in Seq(1..Ids) /\ script \in 0..1 /\ disturbed \in 0..1
      /\ pc \in {"off", "run", "stopping", "stopped"} \cup Startup \cup Evt
      /\ mpflag \in 0..1 /\ masked \in 0..1
      /\ rec \in [Digitizers -> 0..Ids] /\ last \in 0..Ids
  BY DEF TypeOK
<1>2. None \in 0..Ids /\ \A n \in 1..Ids : n \in 0..Ids /\ n # None
  BY Triggers DEF None
<1>3. ASSUME Trigger PROVE TypeOK'
  <2>1. trig' \in 1..Ids /\ trig' \in 0..Ids
    BY <1>1, <1>2, <1>3, SuccIn DEF Trigger
  <2>2. conv' \in [Digitizers -> 0..Ids]
    BY <1>1, <1>3, <2>1 DEF Trigger
  <2>3. disturbed' \in 0..1
    BY <1>1, <1>3 DEF Trigger
  <2> QED BY <1>1, <1>3, <2>1, <2>2, <2>3 DEF Trigger, TypeOK, driver
<1>4. ASSUME ConvertTdc PROVE TypeOK'
  <2>1. conv[TDC] \in 1..Ids
    BY <1>1, <1>4, Triggers DEF ConvertTdc, Digitizers, None
  <2>2. queue' \in Seq(1..Ids)
    BY <1>1, <1>4, <2>1, AppendProperties DEF ConvertTdc
  <2>3. conv' \in [Digitizers -> 0..Ids]
    BY <1>1, <1>2, <1>4 DEF ConvertTdc
  <2> QED BY <1>1, <1>4, <2>2, <2>3 DEF ConvertTdc, TypeOK, driver
<1>5. ASSUME NEW m \in Madc, ConvertMadc(m) PROVE TypeOK'
  <2>1. conv[m] \in 0..Ids
    BY <1>1 DEF Digitizers
  <2>2. adc' \in [Madc -> 0..Ids] /\ conv' \in [Digitizers -> 0..Ids]
    BY <1>1, <1>2, <1>5, <2>1 DEF ConvertMadc
  <2> QED BY <1>1, <1>5, <2>2 DEF ConvertMadc, TypeOK, driver
<1>6. ASSUME Open \/ Halt \/ Pulse \/ Stop \/ StopModules \/ Release
      PROVE  TypeOK'
  <2>1. trig \in 0..Ids
    BY <1>1, <1>2
  <2>2. [m \in Madc |-> 0] \in [Madc -> 0..1] /\ None \in 0..Ids
    BY <1>2
  <2> QED BY <1>1, <1>6, <2>1, <2>2
          DEF Open, Halt, Pulse, Stop, StopModules, Release, TypeOK, driver,
              digitizers, Startup, Evt
<1>7. ASSUME Start1 \/ Start2 PROVE TypeOK'
  <2>1. PICK m \in Madc : Start(m)
    BY <1>7 DEF Start1, Start2, Madc
  <2>2. /\ adc' \in [Madc -> 0..Ids] /\ conv' \in [Digitizers -> 0..Ids]
        /\ acq' \in [Madc -> 0..1]
    <3>1. adc' = [adc EXCEPT ![m] = None]
      BY <2>1 DEF Start, Emptied
    <3>2. conv' = [conv EXCEPT ![m] = None]
      BY <2>1 DEF Start
    <3>3. acq' = [acq EXCEPT ![m] = 1] /\ 1 \in 0..1
      BY <2>1 DEF Start
    <3> QED BY <1>1, <1>2, <3>1, <3>2, <3>3
  <2>3. pc' \in Startup
    BY <1>7 DEF Start1, Start2, Startup
  <2> QED BY <1>1, <2>1, <2>2, <2>3 DEF Start, TypeOK, driver
<1>8. ASSUME Interrupt \/ ReadMadc1 \/ ReadMadc2 PROVE TypeOK'
  <2>1. CASE Interrupt
    BY <1>1, <2>1 DEF Interrupt, TypeOK, digitizers, driver, Evt
  <2>2. CASE ReadMadc1 \/ ReadMadc2
    <3>1. PICK m \in Madc : ReadMadc(m)
      BY <2>2 DEF ReadMadc1, ReadMadc2, Madc
    <3>2. adc[m] \in 0..Ids
      BY <1>1
    <3>3. /\ adc' \in [Madc -> 0..Ids] /\ rec' \in [Digitizers -> 0..Ids]
      BY <1>1, <1>2, <3>1, <3>2 DEF ReadMadc, Emptied
    <3>4. pc' \in Evt
      BY <2>2 DEF ReadMadc1, ReadMadc2, Evt
    <3>5. disturbed' \in 0..1
      BY <1>1, <3>1 DEF ReadMadc, TooEarly
    <3> QED BY <1>1, <3>1, <3>3, <3>4, <3>5 DEF ReadMadc, TypeOK
  <2> QED BY <1>8, <2>1, <2>2
<1>9. ASSUME ReadTdc PROVE TypeOK'
  <2>1. queue' \in Seq(1..Ids)
    <3>1. CASE queue = <<>>
      BY <1>1, <1>9, <3>1 DEF ReadTdc, Shortened
    <3>2. CASE queue # <<>>
      BY <1>1, <1>9, <3>2, HeadTailProperties DEF ReadTdc, Shortened
    <3> QED BY <3>1, <3>2
  <2>2. rec' \in [Digitizers -> 0..Ids]
    <3>1. (IF queue = <<>> THEN None ELSE Head(queue)) \in 0..Ids
      <4>1. CASE queue = <<>>
        BY <1>2, <4>1
      <4>2. CASE queue # <<>>
        <5>1. Head(queue) \in 1..Ids
          BY <1>1, <4>2, HeadTailProperties
        <5> QED BY <1>2, <4>2, <5>1
      <4> QED BY <4>1, <4>2
    <3> QED BY <1>1, <1>9, <3>1 DEF ReadTdc
  <2>3. disturbed' \in 0..1
    BY <1>1, <1>9 DEF ReadTdc, TooEarly
  <2> QED BY <1>1, <1>9, <2>1, <2>2, <2>3 DEF ReadTdc, TypeOK, Evt
<1>10. ASSUME NEW full \in BOOLEAN, Veto(full) PROVE TypeOK'
  <2>1. rec[1] \in 0..Ids
    BY <1>1 DEF Digitizers, Madc
  <2>2. mpflag' \in 0..1 /\ busy' \in 0..1 /\ last' \in 0..Ids
        /\ pc' \in Evt
    BY <1>1, <1>10, <2>1 DEF Veto, Evt
  <2> QED BY <1>1, <1>10, <2>2 DEF Veto, TypeOK, digitizers
<1>11. ASSUME LeaveRunning \/ LeaveMasked \/ Read PROVE TypeOK'
  <2>1. Cleared \in 0..1
    BY <1>1 DEF Cleared
  <2>2. [d \in Digitizers |-> None] \in [Digitizers -> 0..Ids]
    BY <1>2
  <2> QED BY <1>1, <1>11, <2>1, <2>2
          DEF LeaveRunning, LeaveMasked, Read, Return, TypeOK, digitizers,
              driver
<1> QED BY <1>3, <1>4, <1>5, <1>6, <1>7, <1>8, <1>9, <1>10, <1>11 DEF Drive

\* The two scripts: only the V1190 is touched.
LEMMA TypesScript ==
  ASSUME TypeOK, script' \in {script, 1}, disturbed' \in {disturbed, 0},
         \/ queue' = <<>> /\ conv' = [conv EXCEPT ![TDC] = None]
         \/ UNCHANGED <<queue, conv>>,
         UNCHANGED <<busy, trig, acq, adc, pc, mpflag, masked, rec, last>>
  PROVE  TypeOK'
<1>1. queue' \in Seq(1..Ids)
  <2>1. queue \in Seq(1..Ids) /\ <<>> \in Seq(1..Ids)
    BY DEF TypeOK
  <2>2. queue' = <<>> \/ queue' = queue
    OBVIOUS
  <2> QED BY <2>1, <2>2
<1>2. conv' \in [Digitizers -> 0..Ids]
  BY Triggers DEF TypeOK, None
<1>3. script' \in 0..1 /\ disturbed' \in 0..1
  BY DEF TypeOK
<1> QED BY <1>1, <1>2, <1>3 DEF TypeOK

----------------------------------------------------------------------------
(* The three parts stay together.                                          *)

LEMMA Names ==
  /\ Madc = {1, 2} /\ TDC = 3 /\ Digitizers = {1, 2, 3} /\ None = 0
  /\ Startup = {"halt", "start1", "start2", "pulse"}
  /\ Evt = {"madc1", "madc2", "v1190", "veto", "leave"}
BY DEF Madc, TDC, Digitizers, None, Startup, Evt

LEMMA TypesNow ==
  TypeOK => /\ busy \in 0..1 /\ trig \in 1..Ids /\ trig # 0
            /\ conv \in [{1, 2, 3} -> 0..Ids]
            /\ acq \in [{1, 2} -> 0..1] /\ adc \in [{1, 2} -> 0..Ids]
            /\ queue \in Seq(1..Ids) /\ script \in 0..1
            /\ disturbed \in 0..1
            /\ mpflag \in 0..1 /\ masked \in 0..1
            /\ rec \in [{1, 2, 3} -> 0..Ids] /\ last \in 0..Ids
            /\ Ids \in Nat
BY Triggers, Names DEF TypeOK

LEMMA InvInit == Init => StartInv /\ RunInv
BY Names DEF Init, StartInv, Emptying, Opening, RunInv, Running

\* While the device is closed the script may empty the V1190.
LEMMA ClosedKeeps ==
  ASSUME pc' = "off", script' = 1 => queue' = <<>> /\ conv'[TDC] = None
  PROVE  StartInv' /\ RunInv'
BY Names DEF StartInv, Emptying, Opening, RunInv, Running

\* In a run, only what Running says matters.
LEMMA InRun ==
  ASSUME pc' \in {"run"} \cup Evt, script' = 0,
         disturbed' = 0 => Running'
  PROVE  StartInv' /\ RunInv'
BY Names DEF StartInv, Emptying, Opening, RunInv

LEMMA OneIn ==
  ASSUME NEW t
  PROVE  <<t>> # <<>> /\ Len(<<t>>) = 1 /\ Head(<<t>>) = t
         /\ Tail(<<t>>) = <<>>
OBVIOUS

LEMMA AcceptsAll ==
  ASSUME TypeOK, Waiting, acq[1] = 1, acq[2] = 1
  PROVE  \A d \in Digitizers : Accepts(d)
BY Names DEF Waiting, Empty, Accepts

LEMMA TriggerKeeps ==
  ASSUME TypeOK, StartInv, RunInv, Trigger PROVE StartInv' /\ RunInv'
<1>1. /\ busy = 0 /\ busy' = 1 /\ trig' = Succ(trig)
      /\ disturbed' = IF Opening THEN 1 ELSE disturbed
      /\ conv' = [d \in Digitizers |-> IF Accepts(d) THEN trig' ELSE conv[d]]
      /\ UNCHANGED <<acq, adc, queue, script, pc, mpflag, masked, rec, last>>
  BY DEF Trigger, driver
<1>2. CASE pc \in {"run"} \cup Evt
  <2> SUFFICES ASSUME disturbed' = 0 PROVE Running'
    BY <1>1, <1>2, InRun, Names DEF StartInv
  <2>1. disturbed = 0 /\ Running
    BY <1>1 DEF RunInv
  <2>2. pc \in {"run", "leave"} /\ Waiting
    BY <1>1, <1>2, <2>1, Names DEF Running, Reading, Converting
  <2>3. /\ masked = 0 /\ (pc = "leave" => mpflag = 0) /\ last = trig
        /\ \A m \in Madc : adc[m] = None
        /\ queue = <<>>
    BY <1>1, <2>2, TypesNow DEF Waiting, Empty
  <2>4. acq[1] = 1 /\ acq[2] = 1
    BY <1>2, <2>1 DEF Running
  <2>5. \A d \in Digitizers : conv'[d] = trig'
    BY <1>1, <2>2, <2>4, AcceptsAll
  <2>6. \A m \in Madc : conv'[m] = trig' /\ adc'[m] = None
    BY <1>1, <2>3, <2>5, Names
  <2>7. conv'[TDC] = trig' /\ queue' = <<>>
    BY <1>1, <2>3, <2>5, Names
  <2>8. Converting'
    BY <1>1, <2>3, <2>6, <2>7 DEF Converting, Pending, PendingTdc, Succ
  <2> QED BY <1>1, <2>2, <2>4, <2>8, Names DEF Running
<1>3. CASE pc \notin {"run"} \cup Evt
  <2>1. disturbed' = 0 => ~Opening /\ ~Opening'
    BY <1>1 DEF Opening
  <2> QED BY <1>1, <1>3, <2>1, Names
          DEF StartInv, Emptying, Opening, RunInv, Running
<1> QED BY <1>2, <1>3

LEMMA TdcKeeps ==
  ASSUME TypeOK, StartInv, RunInv, ConvertTdc PROVE StartInv' /\ RunInv'
<1>1. /\ conv[TDC] # None /\ queue' = Append(queue, conv[TDC])
      /\ conv' = [conv EXCEPT ![TDC] = None]
      /\ UNCHANGED <<busy, trig, acq, adc, script, disturbed, pc, mpflag,
                     masked, rec, last>>
  BY DEF ConvertTdc, driver
<1>2. /\ conv'[1] = conv[1] /\ conv'[2] = conv[2] /\ conv'[3] = None
      /\ DOMAIN conv = {1, 2, 3}
  BY <1>1, TypesNow, Names
<1>3. StartInv'
  BY <1>1, <1>2, Names DEF StartInv, Emptying, Opening
<1> SUFFICES ASSUME disturbed' = 0 PROVE Running'
  BY <1>3 DEF RunInv
<1>4. Running
  BY <1>1 DEF RunInv
<1>5. ASSUME PendingTdc PROVE PendingTdc'
  <2>1. conv[TDC] = trig /\ queue = <<>>
    BY <1>1, <1>5 DEF PendingTdc
  <2>2. queue' = <<trig>>
    BY <1>1, <2>1
  <2> QED BY <1>1, <1>2, <2>2, Names DEF PendingTdc
<1>6. ASSUME NEW m \in Madc, Pending(m) PROVE Pending(m)'
  BY <1>1, <1>2, <1>6, Names DEF Pending
<1>7. ASSUME pc \in {"run", "leave"} PROVE Converting'
  <2>1. Converting
    BY <1>1, <1>4, <1>7, Names DEF Running, Waiting, Empty
  <2> QED BY <1>1, <1>5, <1>6, <2>1 DEF Converting, Succ
<1>8. ASSUME pc \in Evt \ {"leave"} PROVE Reading'
  <2>1. Reading
    BY <1>4, <1>8 DEF Running
  <2>2. pc # "veto"
    BY <1>1, <2>1 DEF Reading
  <2>3. PendingTdc'
    BY <1>5, <2>1, <2>2 DEF Reading
  <2>4. Pending(2) => Pending(2)'
    BY <1>6, Names
  <2> QED BY <1>1, <1>2, <2>1, <2>2, <2>3, <2>4 DEF Reading, Succ
<1> QED BY <1>1, <1>4, <1>7, <1>8, Names DEF Running

LEMMA MadcKeeps ==
  ASSUME TypeOK, StartInv, RunInv, NEW m \in Madc, ConvertMadc(m)
  PROVE  StartInv' /\ RunInv'
<1>1. /\ conv[m] # None
      /\ adc' = [adc EXCEPT ![m] = conv[m]]
      /\ conv' = [conv EXCEPT ![m] = None]
      /\ UNCHANGED <<busy, trig, acq, queue, script, disturbed, pc, mpflag,
                     masked, rec, last>>
  BY DEF ConvertMadc, driver
<1>2. /\ conv'[m] = None /\ adc'[m] = conv[m]
      /\ \A d \in Digitizers : d # m => conv'[d] = conv[d]
      /\ \A n \in Madc : n # m => adc'[n] = adc[n]
  BY <1>1, TypesNow, Names
<1>3. StartInv'
  BY <1>1, <1>2, Names DEF StartInv, Emptying, Opening
<1> SUFFICES ASSUME disturbed' = 0 PROVE Running'
  BY <1>3 DEF RunInv
<1>4. Running
  BY <1>1 DEF RunInv
<1>5. conv'[TDC] = conv[TDC]
  BY <1>2, Names
<1>6. PendingTdc => PendingTdc'
  BY <1>1, <1>5 DEF PendingTdc
<1>7. ASSUME NEW n \in Madc, Pending(n) PROVE Pending(n)'
  <2>1. CASE n = m
    BY <1>1, <1>2, <1>7, <2>1 DEF Pending
  <2>2. CASE n # m
    BY <1>1, <1>2, <1>7, <2>2, Names DEF Pending
  <2> QED BY <2>1, <2>2
<1>8. ASSUME pc \in {"run", "leave"} PROVE Converting'
  <2>1. Converting
    BY <1>1, <1>4, <1>8, Names DEF Running, Waiting, Empty
  <2> QED BY <1>1, <1>6, <1>7, <2>1 DEF Converting, Succ
<1>9. ASSUME pc \in Evt \ {"leave"} PROVE Reading'
  <2>1. Reading
    BY <1>4, <1>9 DEF Running
  <2>2. m = 2 /\ pc \in {"madc1", "madc2"}
    BY <1>1, <2>1, Names DEF Reading
  <2>3. Pending(2)'
    BY <1>7, <2>1, <2>2, Names DEF Reading
  <2>4. PendingTdc'
    BY <1>6, <2>1, <2>2 DEF Reading
  <2>5. conv'[1] = conv[1] /\ adc'[1] = adc[1]
    BY <1>2, <2>2, Names
  <2> QED BY <1>1, <2>1, <2>2, <2>3, <2>4, <2>5 DEF Reading, Succ
<1> QED BY <1>1, <1>4, <1>8, <1>9, Names DEF Running

LEMMA OpeningKeeps ==
  ASSUME TypeOK, StartInv, RunInv, Scripted = TRUE,
         Open \/ Halt \/ Start1 \/ Start2
  PROVE  StartInv' /\ RunInv'
<1>1. CASE Open
  BY <1>1, Names
     DEF Open, StartInv, Emptying, Opening, RunInv, Running, digitizers
<1>2. CASE Halt
  BY <1>2, Names
     DEF Halt, StartInv, Emptying, Opening, RunInv, Running, driver
<1>3. CASE Start1
  <2>1. /\ pc = "start1" /\ pc' = "start2" /\ masked' = masked
        /\ queue' = queue /\ script' = script /\ disturbed' = disturbed
        /\ acq' = [acq EXCEPT ![1] = 1] /\ adc' = [adc EXCEPT ![1] = None]
        /\ conv' = [conv EXCEPT ![1] = None]
    BY <1>3 DEF Start1, Start, Emptied, driver
  <2>2. /\ acq'[1] = 1 /\ adc'[1] = None /\ conv'[1] = None
        /\ conv'[3] = conv[3]
    BY <2>1, TypesNow, Names
  <2> QED BY <2>1, <2>2, Names
          DEF StartInv, Emptying, Opening, RunInv, Running
<1>4. CASE Start2
  <2>1. /\ pc = "start2" /\ pc' = "pulse" /\ masked' = masked
        /\ queue' = queue /\ script' = script /\ disturbed' = disturbed
        /\ acq' = [acq EXCEPT ![2] = 1] /\ adc' = [adc EXCEPT ![2] = None]
        /\ conv' = [conv EXCEPT ![2] = None]
    BY <1>4 DEF Start2, Start, Emptied, driver
  <2>2. /\ acq'[2] = 1 /\ adc'[2] = None /\ conv'[2] = None
        /\ acq'[1] = acq[1] /\ adc'[1] = adc[1] /\ conv'[1] = conv[1]
        /\ conv'[3] = conv[3]
    BY <2>1, TypesNow, Names
  <2> QED BY <2>1, <2>2, Names
          DEF StartInv, Emptying, Opening, RunInv, Running
<1> QED BY <1>1, <1>2, <1>3, <1>4

\* The last Busy Clear of startup(): no digitizer holds an event.
LEMMA PulseKeeps ==
  ASSUME TypeOK, StartInv, RunInv, Pulse PROVE StartInv' /\ RunInv'
<1>1. /\ pc = "pulse" /\ pc' = "run" /\ busy' = 0 /\ last' = trig
      /\ UNCHANGED <<trig, conv, acq, adc, queue, script, disturbed, mpflag,
                     masked, rec>>
  BY DEF Pulse, digitizers
<1>2. masked = 0 /\ script = 0
  BY <1>1, Names DEF StartInv
<1> SUFFICES ASSUME disturbed' = 0 PROVE Running'
  BY <1>1, <1>2, InRun
<1>3. acq[1] = 1 /\ acq[2] = 1 /\ Empty
  BY <1>1, Names DEF StartInv, Emptying, Opening, Empty
<1>4. Waiting'
  BY <1>1, <1>2, <1>3 DEF Waiting, Empty
<1> QED BY <1>1, <1>3, <1>4, Names DEF Running

\* The MADC32 that interrupts holds the last trigger.
LEMMA InterruptKeeps ==
  ASSUME TypeOK, StartInv, RunInv, Interrupt PROVE StartInv' /\ RunInv'
<1>1. /\ pc = "run" /\ adc[1] # None /\ pc' = "madc1"
      /\ UNCHANGED <<busy, trig, conv, acq, adc, queue, script, disturbed,
                     mpflag, masked, rec, last>>
  BY DEF Interrupt, digitizers, driver
<1> SUFFICES ASSUME disturbed' = 0 PROVE Running'
  BY <1>1, InRun, Names DEF StartInv
<1>2. Running
  BY <1>1 DEF RunInv
<1>3. Converting
  BY <1>1, <1>2, Names DEF Running, Waiting, Empty
<1>4. Pending(1) /\ Pending(2)
  BY <1>3, Names DEF Converting
<1>5. conv[1] = None /\ adc[1] = trig
  BY <1>1, <1>4 DEF Pending
<1>6. Reading'
  BY <1>1, <1>3, <1>4, <1>5
     DEF Reading, Converting, Pending, PendingTdc, Succ
<1> QED BY <1>1, <1>2, <1>6, Names DEF Running

LEMMA ReadKeeps ==
  ASSUME TypeOK, StartInv, RunInv, ReadMadc1 \/ ReadMadc2
  PROVE  StartInv' /\ RunInv'
<1>1. CASE ReadMadc1
  <2>1. /\ pc = "madc1" /\ pc' = "madc2"
        /\ rec' = [rec EXCEPT ![1] = adc[1]]
        /\ adc' = [adc EXCEPT ![1] = None]
        /\ disturbed' = TooEarly(1)
        /\ UNCHANGED <<busy, trig, conv, acq, queue, script, mpflag, masked,
                       last>>
    BY <1>1 DEF ReadMadc1, ReadMadc, Emptied
  <2> SUFFICES ASSUME disturbed' = 0 PROVE Running'
    BY <2>1, InRun, Names DEF StartInv
  <2>2. Running
    BY <2>1 DEF RunInv, TooEarly
  <2>3. Reading
    BY <2>1, <2>2, Names DEF Running
  <2>4. adc'[1] = None /\ adc'[2] = adc[2] /\ rec'[1] = adc[1]
    BY <2>1, TypesNow, Names
  <2>5. Reading'
    BY <2>1, <2>3, <2>4 DEF Reading, Pending, PendingTdc, Succ
  <2> QED BY <2>1, <2>2, <2>5, Names DEF Running
<1>2. CASE ReadMadc2
  <2>1. /\ pc = "madc2" /\ pc' = "v1190"
        /\ rec' = [rec EXCEPT ![2] = adc[2]]
        /\ adc' = [adc EXCEPT ![2] = None]
        /\ disturbed' = TooEarly(2)
        /\ UNCHANGED <<busy, trig, conv, acq, queue, script, mpflag, masked,
                       last>>
    BY <1>2 DEF ReadMadc2, ReadMadc, Emptied
  <2> SUFFICES ASSUME disturbed' = 0 PROVE Running'
    BY <2>1, InRun, Names DEF StartInv
  <2>2. Running /\ conv[2] = None
    BY <2>1 DEF RunInv, TooEarly
  <2>3. Reading
    BY <2>1, <2>2, Names DEF Running
  <2>4. adc[2] = trig
    BY <2>1, <2>2, <2>3, TypesNow, Names DEF Reading, Pending
  <2>5. adc'[2] = None /\ adc'[1] = adc[1] /\ rec'[2] = adc[2]
        /\ rec'[1] = rec[1]
    BY <2>1, TypesNow, Names
  <2>6. Reading'
    BY <2>1, <2>2, <2>3, <2>4, <2>5 DEF Reading, PendingTdc, Succ
  <2> QED BY <2>1, <2>2, <2>6, Names DEF Running
<1> QED BY <1>1, <1>2

LEMMA ReadTdcKeeps ==
  ASSUME TypeOK, StartInv, RunInv, ReadTdc PROVE StartInv' /\ RunInv'
<1>1. /\ pc = "v1190" /\ pc' = "veto"
      /\ rec' = [rec EXCEPT ![3] = IF queue = <<>> THEN None ELSE Head(queue)]
      /\ queue' = IF queue = <<>> THEN queue ELSE Tail(queue)
      /\ disturbed' = TooEarly(3)
      /\ UNCHANGED <<busy, trig, conv, acq, adc, script, mpflag, masked, last>>
  BY Names DEF ReadTdc, Shortened
<1> SUFFICES ASSUME disturbed' = 0 PROVE Running'
  BY <1>1, InRun, Names DEF StartInv
<1>2. Running /\ conv[3] = None
  BY <1>1 DEF RunInv, TooEarly
<1>3. Reading
  BY <1>1, <1>2, Names DEF Running
<1>4. queue = <<trig>>
  BY <1>1, <1>2, <1>3, TypesNow, Names DEF Reading, PendingTdc
<1>5. queue # <<>> /\ Head(queue) = trig /\ Tail(queue) = <<>>
  BY <1>4, OneIn
<1>6. queue' = <<>>
  BY <1>1, <1>5
<1>7. rec'[3] = trig /\ rec'[1] = rec[1] /\ rec'[2] = rec[2]
  BY <1>1, <1>5, TypesNow
<1>8. Reading'
  BY <1>1, <1>2, <1>3, <1>6, <1>7, Names DEF Reading, Succ
<1> QED BY <1>1, <1>2, <1>8, Names DEF Running

\* evt() is through: all that is left of the trigger is the veto.
LEMMA VetoKeeps ==
  ASSUME TypeOK, StartInv, RunInv, NEW full \in BOOLEAN, Veto(full)
  PROVE  StartInv' /\ RunInv'
<1>1. /\ pc = "veto" /\ pc' = "leave" /\ last' = rec[1]
      /\ mpflag' = IF full THEN 1 ELSE 0
      /\ busy' = IF full THEN busy ELSE 0
      /\ UNCHANGED <<trig, conv, acq, adc, queue, script, disturbed, masked,
                     rec>>
  BY DEF Veto, digitizers
<1> SUFFICES ASSUME disturbed' = 0 PROVE Running'
  BY <1>1, InRun, Names DEF StartInv
<1>2. Running
  BY <1>1 DEF RunInv
<1>3. Reading
  BY <1>1, <1>2, Names DEF Running
<1>4. busy' = mpflag' /\ last' = trig' /\ masked' = 0
  BY <1>1, <1>3 DEF Reading
<1>5. Empty'
  BY <1>1, <1>3, Names DEF Reading, Empty
<1>6. Waiting'
  BY <1>4, <1>5 DEF Waiting
<1> QED BY <1>1, <1>2, <1>6, Names DEF Running

LEMMA LeaveKeeps ==
  ASSUME TypeOK, StartInv, RunInv, LeaveRunning \/ LeaveMasked
  PROVE  StartInv' /\ RunInv'
<1>1. /\ pc = "leave" /\ pc' = "run"
      /\ UNCHANGED <<trig, conv, acq, adc, queue, script, disturbed, mpflag,
                     last>>
  BY DEF LeaveRunning, LeaveMasked, Return, digitizers
<1> SUFFICES ASSUME disturbed' = 0 PROVE Running'
  BY <1>1, InRun, Names DEF StartInv
<1>2. Running
  BY <1>1 DEF RunInv
<1>3. Waiting \/ Converting
  BY <1>1, <1>2, Names DEF Running
<1>4. busy \in 0..1 /\ mpflag \in 0..1 /\ masked = 0
  BY <1>1, <1>3, TypesNow DEF Waiting, Converting
<1>5. ASSUME Waiting PROVE Waiting'
  <2>1. last' = trig' /\ Empty'
    BY <1>1, <1>5 DEF Waiting, Empty
  <2>2. masked' = 1 => busy' = 1
    BY <1>1, <1>4, <1>5 DEF Waiting, LeaveRunning, LeaveMasked
  <2> QED BY <1>1, <2>1, <2>2 DEF Waiting
<1>6. ASSUME Converting PROVE Converting'
  <2>1. mpflag = 0 /\ busy = 1
    BY <1>1, <1>6 DEF Converting
  <2>2. busy' = 1 /\ masked' = 0
    BY <1>4, <2>1 DEF LeaveRunning, LeaveMasked, Cleared
  <2> QED BY <1>1, <1>6, <2>2 DEF Converting, Pending, PendingTdc, Succ
<1> QED BY <1>1, <1>2, <1>3, <1>5, <1>6, Names DEF Running

\* clear() may end the veto: only when no digitizer holds an event.
LEMMA ReadCallKeeps ==
  ASSUME TypeOK, StartInv, RunInv, Read PROVE StartInv' /\ RunInv'
<1>1. /\ pc \in {"run", "stopped"} /\ (masked = 1 \/ pc = "stopped")
      /\ masked' = 0
      /\ UNCHANGED <<trig, conv, acq, adc, queue, script, disturbed, pc,
                     mpflag, rec, last>>
  BY DEF Read, digitizers
<1>2. CASE pc = "stopped"
  BY <1>1, <1>2, Names DEF StartInv, Emptying, Opening, RunInv, Running
<1>3. CASE pc = "run"
  <2> SUFFICES ASSUME disturbed' = 0 PROVE Running'
    BY <1>1, <1>3, InRun, Names DEF StartInv
  <2>1. Running
    BY <1>1 DEF RunInv
  <2>2. Waiting
    BY <1>1, <1>3, <2>1, Names DEF Running, Converting
  <2>3. Waiting'
    BY <1>1, <1>3, <2>2 DEF Waiting, Empty
  <2> QED BY <1>1, <1>3, <2>1, <2>3, Names DEF Running
<1> QED BY <1>1, <1>2, <1>3

LEMMA StopKeeps ==
  ASSUME TypeOK, StartInv, RunInv, Stop \/ StopModules
  PROVE  StartInv' /\ RunInv'
BY Names DEF Stop, StopModules, StartInv, Emptying, Opening, RunInv, Running,
             digitizers

\* A release is followed by the script before the device is opened again.
LEMMA ReleaseKeeps ==
  ASSUME TypeOK, StartInv, RunInv, Release
  PROVE  StartInv' /\ RunInv'
BY Names DEF Release, StartInv, Emptying, Opening, RunInv, Running, digitizers

LEMMA DriveKeeps ==
  ASSUME TypeOK, StartInv, RunInv, Scripted = TRUE, Drive
  PROVE  StartInv' /\ RunInv'
BY TriggerKeeps, TdcKeeps, MadcKeeps, OpeningKeeps, PulseKeeps,
   InterruptKeeps, ReadKeeps, ReadTdcKeeps, VetoKeeps, LeaveKeeps,
   ReadCallKeeps, StopKeeps, ReleaseKeeps DEF Drive

LEMMA SameKeeps ==
  ASSUME TypeOK, StartInv, RunInv, UNCHANGED vars
  PROVE  TypeOK' /\ StartInv' /\ RunInv'
<1>1. UNCHANGED <<busy, trig, conv, acq, adc, queue, script, disturbed, pc,
                  mpflag, masked, rec, last>>
  BY DEF vars, digitizers, driver
<1>2. TypeOK'
  BY <1>1 DEF TypeOK
<1>3. StartInv'
  BY <1>1 DEF StartInv, Emptying, Opening
<1>4. Running => Running'
  BY <1>1 DEF Running, Waiting, Converting, Reading, Pending, PendingTdc,
              Empty, Succ
<1> QED BY <1>1, <1>2, <1>3, <1>4 DEF RunInv

LEMMA RunScriptKeeps ==
  ASSUME TypeOK, RunScript PROVE TypeOK' /\ StartInv' /\ RunInv'
<1>1. /\ pc = "off" /\ pc' = pc /\ script' = 1 /\ queue' = <<>>
      /\ disturbed' = 0 /\ conv' = [conv EXCEPT ![TDC] = None]
      /\ UNCHANGED <<busy, trig, acq, adc, mpflag, masked, rec, last>>
  BY DEF RunScript, driver
<1>2. conv'[TDC] = None
  BY <1>1, TypesNow, Names
<1>3. TypeOK'
  BY <1>1, TypesScript
<1> QED BY <1>1, <1>2, <1>3, ClosedKeeps

LEMMA ScriptKeeps ==
  ASSUME TypeOK, StartInv, RunInv,
         StartScript \/ ScriptStep \/ ScriptEnds \/ OtherScript
  PROVE  TypeOK' /\ StartInv' /\ RunInv'
<1>1. RunScript \/ UNCHANGED vars
  BY DEF StartScript, ScriptStep, ScriptEnds, OtherScript
<1> QED BY <1>1, SameKeeps, RunScriptKeeps

\* From the script to the release of a run that is not disturbed: in each
\* state of the handler the trigger under way is converted, held or read by
\* all three digitizers, or by none.
THEOREM ReadoutInvHolds ==
  ASSUME Scripted = TRUE PROVE CrateSpec => []ReadoutInv
<1>1. CrateInit => ReadoutInv
  BY TypesInit, InvInit DEF CrateInit, ReadoutInv
<1>2. ReadoutInv /\ [CrateNext]_crateVars => ReadoutInv'
  <2> SUFFICES ASSUME ReadoutInv, [CrateNext]_crateVars PROVE ReadoutInv'
    OBVIOUS
  <2>1. TypeOK /\ StartInv /\ RunInv
    BY DEF ReadoutInv
  <2>2. CASE CrateDrive
    BY <2>1, <2>2, TypesDrive, DriveKeeps DEF CrateDrive, ReadoutInv
  <2>3. CASE StartScript \/ ScriptStep \/ ScriptEnds \/ OtherScript
    BY <2>1, <2>3, ScriptKeeps DEF ReadoutInv
  <2>4. CASE UNCHANGED crateVars
    BY <2>1, <2>4, SameKeeps DEF crateVars, ReadoutInv
  <2> QED BY <2>2, <2>3, <2>4 DEF CrateNext
<1> QED BY <1>1, <1>2, PTL DEF CrateSpec

\* Aligned: evt() records the words of three modules one after the other;
\* after the script, and unless the run is disturbed, they are those of one
\* trigger, the one behind the trigger of the last event, for every number of
\* triggers.
THEOREM EventsAligned ==
  ASSUME Scripted = TRUE PROVE CrateSpec => []Aligned
<1>1. ReadoutInv => Aligned
  <2> SUFFICES ASSUME ReadoutInv, pc = "veto", disturbed = 0
               PROVE  \A d \in Digitizers : rec[d] = Succ(last)
    BY DEF Aligned
  <2>1. Reading
    BY Names DEF ReadoutInv, RunInv, Running
  <2> QED BY <2>1, Names DEF Reading
<1> QED BY <1>1, ReadoutInvHolds, PTL

\* NoMultiEvent: v1X90_segdata finds no more than the event of the trigger in
\* the V1190, for every depth of its queue, unless the run is disturbed.
THEOREM OneEventQueued ==
  ASSUME Scripted = TRUE PROVE CrateSpec => []NoMultiEvent
<1>1. ReadoutInv => NoMultiEvent
  <2> SUFFICES ASSUME ReadoutInv, pc = "v1190", disturbed = 0
               PROVE  Len(queue) <= 1
    BY DEF NoMultiEvent
  <2>1. queue = <<>> \/ queue = <<trig>>
    BY Names DEF ReadoutInv, RunInv, Running, Reading, PendingTdc
  <2>2. CASE queue = <<>>
    BY <2>2
  <2>3. CASE queue = <<trig>>
    BY <2>3, OneIn
  <2> QED BY <2>1, <2>2, <2>3
<1> QED BY <1>1, ReadoutInvHolds, PTL

----------------------------------------------------------------------------
(* What the scripts write: an operand stands right behind its opcode.      *)

Kinds == {"opcode", "operand"}
Word == [of : Setup!Settings, is : Kinds]

\* The word that ends its setting.
Completes(x) == x.is = "operand" \/ x.of \notin Setup!WithOperand

Behind(w) ==
  \A l \in 1..Len(w) :
    w[l].is = "operand" =>
      l > 1 /\ w[l - 1].is = "opcode" /\ w[l - 1].of = w[l].of
            /\ w[l].of \in Setup!WithOperand

Followed(w) ==
  \A l \in 1..Len(w) :
    w[l].is = "opcode" /\ w[l].of \in Setup!WithOperand =>
      l < Len(w) /\ w[l + 1].is = "operand" /\ w[l + 1].of = w[l].of

Proper(w) == w \in Seq(Word) /\ Behind(w) /\ Followed(w)

Sets(w, s) == \E l \in 1..Len(w) : w[l].of = s /\ Completes(w[l])

LEMMA CatWords ==
  ASSUME NEW a \in Seq(Word), NEW b \in Seq(Word)
  PROVE  /\ a \o b \in Seq(Word) /\ Len(a \o b) = Len(a) + Len(b)
         /\ Len(a) \in Nat /\ Len(b) \in Nat
         /\ \A l \in 1..Len(a) : (a \o b)[l] = a[l]
         /\ \A l \in 1..Len(b) : (a \o b)[Len(a) + l] = b[l]
<1>1. Len(a) \in Nat /\ Len(b) \in Nat
  BY LenProperties
<1>2. /\ a \o b \in Seq(Word) /\ Len(a \o b) = Len(a) + Len(b)
      /\ \A i \in 1..Len(a) + Len(b) :
           (a \o b)[i] = IF i <= Len(a) THEN a[i] ELSE b[i - Len(a)]
  BY ConcatProperties
<1>3. ASSUME NEW l \in 1..Len(a) PROVE (a \o b)[l] = a[l]
  BY <1>1, <1>2
<1>4. ASSUME NEW l \in 1..Len(b) PROVE (a \o b)[Len(a) + l] = b[l]
  <2>1. Len(a) + l \in 1..Len(a) + Len(b) /\ ~(Len(a) + l <= Len(a))
        /\ (Len(a) + l) - Len(a) = l
    BY <1>1
  <2> QED BY <1>2, <2>1
<1> QED BY <1>1, <1>2, <1>3, <1>4

LEMMA ProperCat ==
  ASSUME NEW a, NEW b, Proper(a), Proper(b) PROVE Proper(a \o b)
<1>1. a \in Seq(Word) /\ b \in Seq(Word)
  BY DEF Proper
<1> DEFINE c == a \o b
<1>2. /\ c \in Seq(Word) /\ Len(c) = Len(a) + Len(b)
      /\ Len(a) \in Nat /\ Len(b) \in Nat
      /\ \A l \in 1..Len(a) : c[l] = a[l]
      /\ \A l \in 1..Len(b) : c[Len(a) + l] = b[l]
  BY <1>1, CatWords
<1> HIDE DEF c
<1>3. \A l \in 1..Len(c) : \/ l \in 1..Len(a)
                           \/ \E k \in 1..Len(b) : l = Len(a) + k
  <2> SUFFICES ASSUME NEW l \in 1..Len(c), l \notin 1..Len(a)
               PROVE  \E k \in 1..Len(b) : l = Len(a) + k
    OBVIOUS
  <2>1. l - Len(a) \in 1..Len(b) /\ l = Len(a) + (l - Len(a))
    BY <1>2
  <2> QED BY <2>1
<1>4. Behind(c)
  <2> SUFFICES ASSUME NEW l \in 1..Len(c), c[l].is = "operand"
               PROVE  l > 1 /\ c[l - 1].is = "opcode"
                      /\ c[l - 1].of = c[l].of
                      /\ c[l].of \in Setup!WithOperand
    BY DEF Behind
  <2>1. CASE l \in 1..Len(a)
    <3>1. /\ l > 1 /\ a[l - 1].is = "opcode" /\ a[l - 1].of = a[l].of
          /\ a[l].of \in Setup!WithOperand
      BY <1>2, <2>1 DEF Proper, Behind
    <3>2. l - 1 \in 1..Len(a)
      BY <1>2, <2>1, <3>1
    <3> QED BY <1>2, <2>1, <3>1, <3>2
  <2>2. ASSUME NEW k \in 1..Len(b), l = Len(a) + k
        PROVE  l > 1 /\ c[l - 1].is = "opcode" /\ c[l - 1].of = c[l].of
               /\ c[l].of \in Setup!WithOperand
    <3>1. /\ k > 1 /\ b[k - 1].is = "opcode" /\ b[k - 1].of = b[k].of
          /\ b[k].of \in Setup!WithOperand
      BY <1>2, <2>2 DEF Proper, Behind
    <3>2. k - 1 \in 1..Len(b) /\ l - 1 = Len(a) + (k - 1) /\ l > 1
      BY <1>2, <2>2, <3>1
    <3>3. c[l] = b[k] /\ c[l - 1] = b[k - 1]
      BY <1>2, <2>2, <3>2
    <3> QED BY <3>1, <3>2, <3>3
  <2> QED BY <1>3, <2>1, <2>2
<1>5. Followed(c)
  <2> SUFFICES ASSUME NEW l \in 1..Len(c), c[l].is = "opcode",
                      c[l].of \in Setup!WithOperand
               PROVE  l < Len(c) /\ c[l + 1].is = "operand"
                      /\ c[l + 1].of = c[l].of
    BY DEF Followed
  <2>1. CASE l \in 1..Len(a)
    <3>1. l < Len(a) /\ a[l + 1].is = "operand" /\ a[l + 1].of = a[l].of
      BY <1>2, <2>1 DEF Proper, Followed
    <3>2. l + 1 \in 1..Len(a) /\ l < Len(c)
      BY <1>2, <2>1, <3>1
    <3> QED BY <1>2, <2>1, <3>1, <3>2
  <2>2. ASSUME NEW k \in 1..Len(b), l = Len(a) + k
        PROVE  l < Len(c) /\ c[l + 1].is = "operand" /\ c[l + 1].of = c[l].of
    <3>1. k < Len(b) /\ b[k + 1].is = "operand" /\ b[k + 1].of = b[k].of
      BY <1>2, <2>2 DEF Proper, Followed
    <3>2. k + 1 \in 1..Len(b) /\ l + 1 = Len(a) + (k + 1) /\ l < Len(c)
      BY <1>2, <2>2, <3>1
    <3>3. c[l] = b[k] /\ c[l + 1] = b[k + 1]
      BY <1>2, <2>2, <3>2
    <3> QED BY <3>1, <3>2, <3>3
  <2> QED BY <1>3, <2>1, <2>2
<1> QED BY <1>2, <1>4, <1>5 DEF Proper, c

LEMMA SetsCat ==
  ASSUME NEW a, NEW b, Proper(a), Proper(b), NEW s, Sets(a, s) \/ Sets(b, s)
  PROVE  Sets(a \o b, s)
<1>1. a \in Seq(Word) /\ b \in Seq(Word)
  BY DEF Proper
<1>2. CASE Sets(a, s)
  <2>1. PICK l \in 1..Len(a) : a[l].of = s /\ Completes(a[l])
    BY <1>2 DEF Sets
  <2>2. l \in 1..Len(a \o b) /\ (a \o b)[l] = a[l]
    BY <1>1, CatWords
  <2> QED BY <2>1, <2>2 DEF Sets
<1>3. CASE Sets(b, s)
  <2>1. PICK l \in 1..Len(b) : b[l].of = s /\ Completes(b[l])
    BY <1>3 DEF Sets
  <2>2. Len(a) + l \in 1..Len(a \o b) /\ (a \o b)[Len(a) + l] = b[l]
    BY <1>1, CatWords
  <2> QED BY <2>1, <2>2 DEF Sets
<1> QED BY <1>2, <1>3

LEMMA OpcodeProper ==
  ASSUME NEW s, s \notin Setup!WithOperand
  PROVE  /\ Proper(Setup!Opcode(s))
         /\ s \in Setup!Settings => Sets(Setup!Opcode(s), s)
<1>1. CASE s \notin Setup!Settings
  <2>1. Setup!Opcode(s) = <<>>
    BY <1>1 DEF Setup!Opcode
  <2>2. Proper(<<>>)
    BY DEF Proper, Behind, Followed
  <2> QED BY <1>1, <2>1, <2>2
<1>2. CASE s \in Setup!Settings
  <2> DEFINE o == [of |-> s, is |-> "opcode"]
             w == <<o>>
  <2>1. Setup!Opcode(s) = w
    BY <1>2 DEF Setup!Opcode
  <2>2. o \in Word /\ o.of = s /\ o.is = "opcode"
    BY <1>2 DEF Word, Kinds
  <2> HIDE DEF o
  <2>3. w \in Seq(Word) /\ Len(w) = 1 /\ w[1] = o
    BY <2>2
  <2> HIDE DEF w
  <2>4. \A l \in 1..Len(w) : l = 1
    BY <2>3
  <2>5. Proper(w)
    BY <2>2, <2>3, <2>4 DEF Proper, Behind, Followed
  <2>6. Sets(w, s)
    BY <2>2, <2>3 DEF Sets, Completes
  <2> QED BY <2>1, <2>5, <2>6
<1> QED BY <1>1, <1>2

LEMMA ValueProper ==
  ASSUME NEW s \in Setup!WithOperand
  PROVE  /\ Proper(Setup!WithValue(s))
         /\ s \in Setup!Settings => Sets(Setup!WithValue(s), s)
<1>1. CASE s \notin Setup!Settings
  <2>1. Setup!WithValue(s) = <<>>
    BY <1>1 DEF Setup!WithValue
  <2>2. Proper(<<>>)
    BY DEF Proper, Behind, Followed
  <2> QED BY <1>1, <2>1, <2>2
<1>2. CASE s \in Setup!Settings
  <2> DEFINE o == [of |-> s, is |-> "opcode"]
             v == [of |-> s, is |-> "operand"]
             w == <<o, v>>
  <2>1. Setup!WithValue(s) = w
    BY <1>2 DEF Setup!WithValue
  <2>2. /\ o \in Word /\ o.of = s /\ o.is = "opcode"
        /\ v \in Word /\ v.of = s /\ v.is = "operand"
    BY <1>2 DEF Word, Kinds
  <2> HIDE DEF o, v
  <2>3. w \in Seq(Word) /\ Len(w) = 2 /\ w[1] = o /\ w[2] = v
    BY <2>2
  <2> HIDE DEF w
  <2>4. \A l \in 1..Len(w) : l = 1 \/ l = 2
    BY <2>3
  <2>5. Behind(w)
    BY <2>2, <2>3, <2>4 DEF Behind
  <2>6. Followed(w)
    BY <2>2, <2>3, <2>4 DEF Followed
  <2>7. Sets(w, s)
    BY <2>2, <2>3 DEF Sets, Completes
  <2> QED BY <2>1, <2>3, <2>5, <2>6, <2>7 DEF Proper
<1> QED BY <1>1, <1>2

LEMMA SettingNames ==
  /\ Setup!WithOperand =
       {"WIN_WID", "WIN_OFS", "SW_MRG", "REJ_MRG", "DETECT", "LSB"}
  /\ "TRG_MATCH" \notin Setup!WithOperand
  /\ "SUB_TRG" \notin Setup!WithOperand
  /\ "ALL_CH" \notin Setup!WithOperand
  /\ "HEAD_TRAIL" \notin Setup!WithOperand
  /\ "TRG_MATCH" \in Setup!Settings
  /\ \A s \in Setup!Settings :
       s \in Setup!WithOperand \cup
               {"TRG_MATCH", "SUB_TRG", "ALL_CH", "HEAD_TRAIL"}
BY CrateAssumption DEF Setup!WithOperand, Setup!Settings,
                       Setup!SetupAssumption

CommonSettings == {"WIN_WID", "WIN_OFS", "SW_MRG", "REJ_MRG", "SUB_TRG",
                   "DETECT", "ALL_CH", "LSB", "HEAD_TRAIL"}

LEMMA CommonProper ==
  /\ Proper(Setup!Common)
  /\ \A s \in Setup!Settings \cap CommonSettings : Sets(Setup!Common, s)
<1> DEFINE w1 == Setup!WithValue("WIN_WID") \o Setup!WithValue("WIN_OFS")
           w2 == w1 \o Setup!WithValue("SW_MRG")
           w3 == w2 \o Setup!WithValue("REJ_MRG")
           w4 == w3 \o Setup!Opcode("SUB_TRG")
           w5 == w4 \o Setup!WithValue("DETECT")
           w6 == w5 \o Setup!Opcode("ALL_CH")
           w7 == w6 \o Setup!WithValue("LSB")
           w8 == w7 \o Setup!Opcode("HEAD_TRAIL")
<1>0. Setup!Common = w8
  BY DEF Setup!Common
<1>a. \A s \in Setup!WithOperand :
        /\ Proper(Setup!WithValue(s))
        /\ s \in Setup!Settings => Sets(Setup!WithValue(s), s)
  BY ValueProper
<1>b. \A s \in {"SUB_TRG", "ALL_CH", "HEAD_TRAIL"} :
        /\ Proper(Setup!Opcode(s))
        /\ s \in Setup!Settings => Sets(Setup!Opcode(s), s)
  BY OpcodeProper, SettingNames
<1>c. \A a, b : Proper(a) /\ Proper(b) =>
        /\ Proper(a \o b)
        /\ \A s : Sets(a, s) \/ Sets(b, s) => Sets(a \o b, s)
  BY ProperCat, SetsCat
<1>d. {"WIN_WID", "WIN_OFS", "SW_MRG", "REJ_MRG", "DETECT", "LSB"}
        \subseteq Setup!WithOperand
  BY SettingNames
<1> DEFINE Good(w, S) == /\ Proper(w)
                         /\ \A s \in Setup!Settings \cap S : Sets(w, s)
<1>1. Good(w1, {"WIN_WID", "WIN_OFS"})
  BY <1>a, <1>c, <1>d
<1> HIDE DEF w1
<1>2. Good(w2, {"WIN_WID", "WIN_OFS", "SW_MRG"})
  BY <1>a, <1>c, <1>d, <1>1
<1> HIDE DEF w2
<1>3. Good(w3, {"WIN_WID", "WIN_OFS", "SW_MRG", "REJ_MRG"})
  BY <1>a, <1>c, <1>d, <1>2
<1> HIDE DEF w3
<1>4. Good(w4, {"WIN_WID", "WIN_OFS", "SW_MRG", "REJ_MRG", "SUB_TRG"})
  BY <1>b, <1>c, <1>3
<1> HIDE DEF w4
<1>5. Good(w5, {"WIN_WID", "WIN_OFS", "SW_MRG", "REJ_MRG", "SUB_TRG",
                "DETECT"})
  BY <1>a, <1>c, <1>d, <1>4
<1> HIDE DEF w5
<1>6. Good(w6, {"WIN_WID", "WIN_OFS", "SW_MRG", "REJ_MRG", "SUB_TRG",
                "DETECT", "ALL_CH"})
  BY <1>b, <1>c, <1>5
<1> HIDE DEF w6
<1>7. Good(w7, {"WIN_WID", "WIN_OFS", "SW_MRG", "REJ_MRG", "SUB_TRG",
                "DETECT", "ALL_CH", "LSB"})
  BY <1>a, <1>c, <1>d, <1>6
<1> HIDE DEF w7
<1>8. Good(w8, CommonSettings)
  BY <1>b, <1>c, <1>7 DEF CommonSettings
<1> HIDE DEF w8
<1> QED BY <1>0, <1>8

\* The trigger mode comes first, and init_v1190.sh writes it twice.
LEMMA WritesProper ==
  ASSUME file \in {"v1190", "v1290"}
  PROVE  /\ Proper(Setup!Writes) /\ Len(Setup!Writes) \in Nat
         /\ \A s \in Setup!Settings : Sets(Setup!Writes, s)
         /\ Len(Setup!Writes) >= 1
         /\ Setup!Writes[1] = [of |-> "TRG_MATCH", is |-> "opcode"]
         /\ file = "v1190" =>
              /\ Len(Setup!Writes) >= 2
              /\ Setup!Writes[2] = [of |-> "TRG_MATCH", is |-> "opcode"]
<1> DEFINE t == Setup!Opcode("TRG_MATCH")
           o == [of |-> "TRG_MATCH", is |-> "opcode"]
           c == Setup!Common
<1>1. Proper(t) /\ Sets(t, "TRG_MATCH")
  BY OpcodeProper, SettingNames
<1>2. t = <<o>>
  BY SettingNames DEF Setup!Opcode
<1>3. Len(t) = 1 /\ t[1] = o
  BY <1>2
<1> HIDE DEF o, t
<1>4. Proper(c) /\ \A s \in Setup!Settings \cap CommonSettings : Sets(c, s)
  BY CommonProper
<1> HIDE DEF c
<1>5. \A s \in Setup!Settings : s \in CommonSettings \/ s = "TRG_MATCH"
  BY SettingNames DEF CommonSettings
<1>6. CASE file = "v1290"
  <2>1. Setup!Writes = (<<>> \o t) \o c
    BY <1>6 DEF Setup!Writes, Setup!Repeated, t, c
  <2>2. <<>> \o t = t
    BY <1>1, ConcatEmptySeq DEF Proper
  <2>3. Proper(t \o c) /\ \A s \in Setup!Settings : Sets(t \o c, s)
    BY <1>1, <1>4, <1>5, ProperCat, SetsCat
  <2>4. Len(t \o c) \in Nat /\ Len(t \o c) >= 1 /\ (t \o c)[1] = o
    BY <1>1, <1>3, <1>4, CatWords DEF Proper
  <2> QED BY <1>6, <2>1, <2>2, <2>3, <2>4 DEF o
<1>7. CASE file = "v1190"
  <2> DEFINE tt == t \o t
  <2>1. Setup!Writes = tt \o c
    BY <1>7 DEF Setup!Writes, Setup!Repeated, t, c
  <2>2. Proper(tt) /\ Sets(tt, "TRG_MATCH")
    BY <1>1, ProperCat, SetsCat
  <2>3. Len(tt) = 2 /\ tt[1] = o /\ tt[1 + 1] = o
    <3>1. t \in Seq(Word) /\ 1 \in 1..Len(t)
      BY <1>1, <1>3 DEF Proper
    <3>2. Len(tt) = 1 + 1 /\ tt[1] = t[1] /\ tt[Len(t) + 1] = t[1]
      BY <1>3, <3>1, CatWords
    <3> QED BY <1>3, <3>2
  <2> HIDE DEF tt
  <2>4. Proper(tt \o c) /\ \A s \in Setup!Settings : Sets(tt \o c, s)
    BY <1>4, <1>5, <2>2, ProperCat, SetsCat
  <2>5. /\ Len(tt \o c) \in Nat /\ Len(tt \o c) >= 2
        /\ (tt \o c)[1] = o /\ (tt \o c)[2] = o
    <3>1. tt \in Seq(Word) /\ c \in Seq(Word)
      BY <1>4, <2>2 DEF Proper
    <3>2. /\ Len(tt \o c) = 2 + Len(c) /\ Len(c) \in Nat
          /\ \A l \in 1..2 : (tt \o c)[l] = tt[l]
      <4>1. /\ Len(tt \o c) = Len(tt) + Len(c) /\ Len(c) \in Nat
            /\ \A l \in 1..Len(tt) : (tt \o c)[l] = tt[l]
        BY <3>1, CatWords
      <4>2. Len(tt) = 2
        BY <2>3
      <4> QED BY ONLY <4>1, <4>2
    <3>3. 1 \in 1..2 /\ 2 \in 1..2
      OBVIOUS
    <3> QED BY <2>3, <3>2, <3>3
  <2> QED BY <1>7, <2>1, <2>4, <2>5 DEF o
<1> QED BY <1>6, <1>7

----------------------------------------------------------------------------
(* The set-up: the controller and the script stay in step.                 *)

ScriptTypes ==
  /\ file \in {"v1190", "v1290"} /\ line \in 0..(Len(Setup!Writes) + 1)
  /\ seen \in BOOLEAN /\ blind \in BOOLEAN /\ done \in BOOLEAN
  /\ awaited \in BOOLEAN /\ lost \in BOOLEAN
  /\ tries \in 0..MaxTries
  /\ micro \in {"ready", "busy"}
  /\ want \in (Setup!WithOperand \cap Setup!Settings) \cup {Setup!None}
  /\ set \in [Setup!Settings -> {"unset", "set", "wrong"}]

\* The operand that word l of w is, if it is one.
OperandAt(w, l) ==
  IF l <= Len(w) /\ w[l].is = "operand" THEN w[l].of ELSE Setup!None

\* A setting whose word may have been taken for an operand, before word l: the
\* second write of the trigger mode makes up for the first, if it is not lost.
Doubtful(s, l) == s = "TRG_MATCH" /\ awaited /\ (lost \/ l = 2)

\* Before word l of w the controller waits for what w brings, and what was
\* brought is set.
InStep(w, l) ==
  /\ l = 1 => want = Setup!None \/ awaited
  /\ l > 1 => want = OperandAt(w, l)
  /\ \A k \in 1..Len(w) :
       k < l /\ Completes(w[k]) =>
         set[w[k].of] = "set" \/ Doubtful(w[k].of, l)

ScriptInv ==
  /\ seen /\ ~blind => micro = "ready"
  /\ line > 0 => ~done /\ (file = "v1290" => ~awaited)
  /\ line > 0 /\ ~blind => InStep(Setup!Writes, line)
  /\ done /\ line = 0 /\ ~blind => Setup!AllSet

SetupInv == ScriptTypes /\ ScriptInv

\* The words written depend on the script alone.
LEMMA SameWrites == file' = file => Setup!Writes' = Setup!Writes
BY DEF Setup!Writes, Setup!Repeated

LEMMA NoOperand == Setup!None \notin Setup!WithOperand
BY DEF Setup!None, Setup!WithOperand

LEMMA SetupInitTypes == Setup!SetupInit => SetupInv
<1> SUFFICES ASSUME Setup!SetupInit PROVE SetupInv
  OBVIOUS
<1>1. /\ file \in {"v1190", "v1290"} /\ line = 0 /\ seen = FALSE /\ tries = 0
      /\ blind = FALSE /\ done = FALSE /\ micro = "busy"
      /\ awaited = FALSE /\ lost = FALSE /\ want = Setup!None
      /\ set = [s \in Setup!Settings |-> "unset"]
  BY DEF Setup!SetupInit
<1>2. Len(Setup!Writes) \in Nat /\ MaxTries \in Nat
  BY <1>1, WritesProper, CrateAssumption DEF Setup!SetupAssumption
<1>3. ScriptTypes
  <2>1. line \in 0..(Len(Setup!Writes) + 1) /\ tries \in 0..MaxTries
    BY <1>1, <1>2
  <2>2. set \in [Setup!Settings -> {"unset", "set", "wrong"}]
    BY <1>1
  <2> QED BY <1>1, <2>1, <2>2 DEF ScriptTypes
<1>4. ScriptInv
  BY <1>1 DEF ScriptInv
<1> QED BY <1>3, <1>4 DEF SetupInv

\* A script that begins: an operand may be awaited only before its first word.
LEMMA StartSteps ==
  ASSUME SetupInv, Setup!Start PROVE SetupInv'
<1>1. /\ file' = file /\ line' = 1 /\ seen' = FALSE /\ tries' = 0
      /\ blind' = FALSE /\ done' = FALSE
      /\ \/ /\ file = "v1290" /\ micro' = "busy" /\ want' = Setup!None
            /\ set' = [s \in Setup!Settings |-> "unset"]
         \/ /\ file = "v1190" /\ UNCHANGED <<micro, want, set>>
         \/ /\ file = "v1190" /\ micro' = "busy" /\ UNCHANGED set
            /\ want' \in (Setup!WithOperand \cap Setup!Settings)
                           \cup {Setup!None}
      /\ awaited' = (want' # Setup!None) /\ lost' = FALSE
  BY DEF Setup!Start, Setup!micro_vars
<1>2. ScriptTypes
  BY DEF SetupInv
<1>3. Setup!Writes' = Setup!Writes
  BY <1>1, SameWrites
<1>4. Len(Setup!Writes') \in Nat /\ MaxTries \in Nat
  BY <1>2, <1>3, WritesProper, CrateAssumption
     DEF Setup!SetupAssumption, ScriptTypes
<1>5. awaited' \in BOOLEAN /\ (want' = Setup!None \/ awaited')
  BY <1>1
<1>6. set' \in [Setup!Settings -> {"unset", "set", "wrong"}]
  BY <1>1, <1>2 DEF ScriptTypes
<1>7. /\ micro' \in {"ready", "busy"}
      /\ want' \in (Setup!WithOperand \cap Setup!Settings) \cup {Setup!None}
  BY <1>1, <1>2 DEF ScriptTypes
<1>8. line' \in 0..(Len(Setup!Writes') + 1) /\ tries' \in 0..MaxTries
  BY <1>1, <1>4
<1>9. ScriptTypes'
  BY <1>1, <1>2, <1>5, <1>6, <1>7, <1>8 DEF ScriptTypes
<1>10. InStep(Setup!Writes, line)'
  BY <1>1, <1>4, <1>5 DEF InStep
<1>11. file' = "v1290" => ~awaited'
  BY <1>1
<1>12. ScriptInv'
  BY <1>1, <1>10, <1>11 DEF ScriptInv
<1> QED BY <1>9, <1>12 DEF SetupInv

\* The poll of the handshake register, in its four ends, and the controller.
LEMMA PollSteps ==
  ASSUME SetupInv,
         \/ Setup!ChkReady \/ Setup!ChkBusy \/ Setup!ChkTimeout
         \/ Setup!ChkBlind \/ Setup!MicroReady
  PROVE  SetupInv'
<1>1. ScriptTypes /\ ScriptInv
  BY DEF SetupInv
<1>2. file' = file
  BY DEF Setup!ChkReady, Setup!ChkBusy, Setup!ChkTimeout, Setup!ChkBlind,
         Setup!MicroReady, Setup!script_vars, Setup!history
<1>3. Setup!Writes' = Setup!Writes
  BY <1>2, SameWrites
<1> DEFINE W == Setup!Writes
<1>4. MaxTries \in Nat /\ Len(W) \in Nat
  BY <1>1, WritesProper, CrateAssumption
     DEF Setup!SetupAssumption, ScriptTypes
<1>5. W' = W
  BY <1>3
<1> HIDE DEF W
<1>6. ASSUME Setup!ChkReady PROVE SetupInv'
  <2>1. /\ micro = "ready" /\ seen' = TRUE /\ tries' = 0
        /\ UNCHANGED <<file, line, blind, done, awaited, lost, micro, want,
                       set>>
    BY <1>6 DEF Setup!ChkReady, Setup!micro_vars, Setup!history
  <2>2. ScriptTypes'
    BY <1>1, <1>4, <2>1, <1>3 DEF ScriptTypes
  <2>3. InStep(Setup!Writes, line)' <=> InStep(Setup!Writes, line)
    BY <1>3, <2>1 DEF InStep, Doubtful, OperandAt
  <2>4. Setup!AllSet' <=> Setup!AllSet
    BY <2>1 DEF Setup!AllSet
  <2>5. ScriptInv'
    BY <1>1, <2>1, <2>3, <2>4 DEF ScriptInv
  <2> QED BY <2>2, <2>5 DEF SetupInv
<1>7. ASSUME Setup!ChkBusy PROVE SetupInv'
  <2>1. /\ tries < MaxTries /\ tries' = tries + 1
        /\ UNCHANGED <<file, line, seen, blind, done, awaited, lost, micro,
                       want, set>>
    BY <1>7 DEF Setup!ChkBusy, Setup!micro_vars, Setup!history
  <2>2. ScriptTypes'
    BY <1>1, <1>4, <2>1, <1>3 DEF ScriptTypes
  <2>3. InStep(Setup!Writes, line)' <=> InStep(Setup!Writes, line)
    BY <1>3, <2>1 DEF InStep, Doubtful, OperandAt
  <2>4. Setup!AllSet' <=> Setup!AllSet
    BY <2>1 DEF Setup!AllSet
  <2>5. ScriptInv'
    BY <1>1, <2>1, <2>3, <2>4 DEF ScriptInv
  <2> QED BY <2>2, <2>5 DEF SetupInv
<1>8. ASSUME Setup!ChkTimeout PROVE SetupInv'
  <2>1. /\ line > 0 /\ line' = 0 /\ tries' = 0
        /\ UNCHANGED <<file, seen, blind, done, awaited, lost, micro, want,
                       set>>
    BY <1>8 DEF Setup!ChkTimeout, Setup!Polling, Setup!micro_vars, Setup!history
  <2>2. 0 \in 0..(Len(Setup!Writes') + 1) /\ 0 \in 0..MaxTries
    BY <1>4, <1>3 DEF W
  <2>3. ScriptTypes'
    BY <1>1, <2>1, <2>2 DEF ScriptTypes
  <2>4. ScriptInv'
    BY <1>1, <2>1 DEF ScriptInv
  <2> QED BY <2>3, <2>4 DEF SetupInv
<1>9. ASSUME Setup!ChkBlind PROVE SetupInv'
  <2>1. /\ line > 0 /\ seen' = TRUE /\ tries' = 0 /\ blind' = TRUE
        /\ set' = [s \in Setup!Settings |-> "wrong"] /\ want' = Setup!None
        /\ UNCHANGED <<file, line, done, awaited, lost, micro>>
    BY <1>9 DEF Setup!ChkBlind, Setup!Polling, Setup!history
  <2>2. /\ set' \in [Setup!Settings -> {"unset", "set", "wrong"}]
        /\ tries' \in 0..MaxTries
    BY <2>1, <1>4
  <2>3. ScriptTypes'
    BY <1>1, <1>3, <2>1, <2>2 DEF ScriptTypes
  <2>4. ScriptInv'
    BY <1>1, <2>1 DEF ScriptInv
  <2> QED BY <2>3, <2>4 DEF SetupInv
<1>10. ASSUME Setup!MicroReady PROVE SetupInv'
  <2>1. /\ micro' = "ready"
        /\ UNCHANGED <<file, line, seen, tries, blind, done, awaited, lost,
                       want, set>>
    BY <1>10 DEF Setup!MicroReady, Setup!script_vars, Setup!history
  <2>2. ScriptTypes'
    BY <1>1, <2>1, <1>3 DEF ScriptTypes
  <2>3. InStep(Setup!Writes, line)' <=> InStep(Setup!Writes, line)
    BY <1>3, <2>1 DEF InStep, Doubtful, OperandAt
  <2>4. Setup!AllSet' <=> Setup!AllSet
    BY <2>1 DEF Setup!AllSet
  <2>5. ScriptInv'
    BY <1>1, <2>1, <2>3, <2>4 DEF ScriptInv
  <2> QED BY <2>2, <2>5 DEF SetupInv
<1> QED BY <1>6, <1>7, <1>8, <1>9, <1>10

\* The last line of a script: every word was written, so every setting is.
LEMMA ClearSteps ==
  ASSUME SetupInv, Setup!SoftClear PROVE SetupInv'
<1>1. ScriptTypes /\ ScriptInv
  BY DEF SetupInv
<1>2. /\ line = Len(Setup!Writes) + 1 /\ seen /\ line' = 0 /\ seen' = FALSE
      /\ done' = TRUE
      /\ UNCHANGED <<file, tries, blind, awaited, lost, micro, want, set>>
  BY DEF Setup!SoftClear, Setup!micro_vars, Setup!history
<1>3. Len(Setup!Writes) \in Nat /\ Setup!Writes' = Setup!Writes
  BY <1>1, <1>2, WritesProper, SameWrites DEF ScriptTypes
<1>4. ScriptTypes'
  <2>1. 0 \in 0..(Len(Setup!Writes') + 1)
    BY <1>3
  <2> QED BY <1>1, <1>2, <2>1 DEF ScriptTypes
<1>5. ASSUME ~blind PROVE Setup!AllSet
  <2>1. InStep(Setup!Writes, line)
    BY <1>1, <1>2, <1>3, <1>5 DEF ScriptInv
  <2> SUFFICES ASSUME NEW s \in Setup!Settings
               PROVE  set[s] = "set" \/ (s = "TRG_MATCH" /\ awaited /\ lost)
    BY DEF Setup!AllSet
  <2>2. PICK k \in 1..Len(Setup!Writes) :
          Setup!Writes[k].of = s /\ Completes(Setup!Writes[k])
    BY <1>1, WritesProper DEF Sets, ScriptTypes
  <2>3. k < line
    BY <1>2, <1>3
  <2>4. set[s] = "set" \/ Doubtful(s, line)
    BY <2>1, <2>2, <2>3 DEF InStep
  <2>5. line = 2 => ~awaited
    <3>1. line = 2 => file # "v1190"
      BY <1>1, <1>2, <1>3, WritesProper DEF ScriptTypes
    <3> QED BY <1>1, <3>1 DEF ScriptTypes, ScriptInv
  <2> QED BY <2>4, <2>5 DEF Doubtful
<1>6. Setup!AllSet' <=> Setup!AllSet
  BY <1>2 DEF Setup!AllSet
<1>7. ScriptInv'
  BY <1>2, <1>5, <1>6 DEF ScriptInv
<1> QED BY <1>4, <1>7 DEF SetupInv

\* A word that the controller takes is the one it waits for, unless the
\* script began when an operand was missing; the second write of the trigger
\* mode then does what the first could not.
LEMMA TakeSteps ==
  ASSUME NEW w, Proper(w), ScriptTypes, NEW l \in 1..Len(w), InStep(w, l),
         l = 1 => w[1] = [of |-> "TRG_MATCH", is |-> "opcode"],
         awaited /\ l = 2 => w[2] = [of |-> "TRG_MATCH", is |-> "opcode"],
         Setup!Take(w[l]), awaited' = awaited, lost' = lost
  PROVE  /\ InStep(w, l + 1)'
         /\ want' \in (Setup!WithOperand \cap Setup!Settings)
                        \cup {Setup!None}
         /\ set' \in [Setup!Settings -> {"unset", "set", "wrong"}]
<1> DEFINE x == w[l]
           D(s) == s = "TRG_MATCH" /\ awaited /\ (lost \/ l = 1)
<1>1. /\ x \in Word /\ x.of \in Setup!Settings /\ x.is \in Kinds
      /\ \A k \in 1..Len(w) : w[k] \in Word /\ w[k].of \in Setup!Settings
      /\ Len(w) \in Nat
  <2>1. w \in Seq(Word)
    BY DEF Proper
  <2>2. \A k \in 1..Len(w) : w[k] \in Word
    BY <2>1, ElementOfSeq
  <2> QED BY <2>1, <2>2, LenProperties DEF Word
<1>2. /\ want \in (Setup!WithOperand \cap Setup!Settings) \cup {Setup!None}
      /\ set \in [Setup!Settings -> {"unset", "set", "wrong"}]
  BY DEF ScriptTypes
<1>3. /\ l = 1 => want = Setup!None \/ awaited
      /\ l > 1 => want = OperandAt(w, l)
      /\ \A k \in 1..Len(w) :
           k < l /\ Completes(w[k]) =>
             set[w[k].of] = "set" \/ Doubtful(w[k].of, l)
  BY DEF InStep
<1>4. IF want # Setup!None
        THEN /\ set' = [set EXCEPT ![want] =
                          IF x.is = "operand" /\ x.of = want THEN "set"
                                                             ELSE "wrong"]
             /\ want' = Setup!None
      ELSE IF x.is = "operand"
        THEN set' = [s \in Setup!Settings |-> "wrong"] /\ UNCHANGED want
      ELSE IF x.of \in Setup!WithOperand
        THEN want' = x.of /\ UNCHANGED set
      ELSE set' = [set EXCEPT ![x.of] = "set"] /\ UNCHANGED want
  BY DEF Setup!Take
<1>5. l = 1 => x.is = "opcode" /\ x.of = "TRG_MATCH"
  OBVIOUS
<1>6. x.is = "operand" =>
        l > 1 /\ x.of \in Setup!WithOperand /\ want = x.of
  BY <1>3 DEF Proper, Behind, OperandAt
<1>7. x.is = "opcode" /\ x.of \in Setup!WithOperand =>
        OperandAt(w, l + 1) = x.of
  BY <1>1 DEF Proper, Followed, OperandAt
<1>8. ~(x.is = "opcode" /\ x.of \in Setup!WithOperand) =>
        OperandAt(w, l + 1) = Setup!None
  <2> SUFFICES ASSUME ~(x.is = "opcode" /\ x.of \in Setup!WithOperand),
                      l + 1 <= Len(w), w[l + 1].is = "operand"
               PROVE  FALSE
    BY DEF OperandAt
  <2>1. l + 1 \in 1..Len(w) /\ (l + 1) - 1 = l
    BY <1>1
  <2>2. w[l].is = "opcode" /\ w[l].of = w[l + 1].of
        /\ w[l + 1].of \in Setup!WithOperand
    BY <2>1 DEF Proper, Behind
  <2> QED BY <2>2
<1>9. "TRG_MATCH" \notin Setup!WithOperand
      /\ Setup!None \notin Setup!WithOperand
  BY SettingNames, NoOperand
<1>10. \A s : Doubtful(s, l + 1)' <=> D(s)
  BY <1>1 DEF Doubtful
<1>a. ASSUME NEW s, Doubtful(s, l), l # 1
      PROVE  D(s) \/ (s = x.of /\ x.is = "opcode")
  BY <1>a DEF Doubtful
<1>b. awaited /\ l = 2 => x.of = "TRG_MATCH" /\ x.is = "opcode"
  OBVIOUS
<1> HIDE DEF x, D
<1>11. SUFFICES
         /\ want' \in (Setup!WithOperand \cap Setup!Settings)
                        \cup {Setup!None}
         /\ set' \in [Setup!Settings -> {"unset", "set", "wrong"}]
         /\ want' = OperandAt(w, l + 1)
         /\ l # 1 => \A s \in Setup!Settings :
              (set[s] = "set" \/ Doubtful(s, l)) => set'[s] = "set" \/ D(s)
         /\ Completes(x) => set'[x.of] = "set" \/ D(x.of)
  <2> SUFFICES ASSUME
         want' = OperandAt(w, l + 1),
         l # 1 => \A s \in Setup!Settings :
              (set[s] = "set" \/ Doubtful(s, l)) => set'[s] = "set" \/ D(s),
         Completes(x) => set'[x.of] = "set" \/ D(x.of)
       PROVE InStep(w, l + 1)'
    OBVIOUS
  <2>1. l + 1 # 1 /\ l + 1 > 1 /\ l \in Nat
    BY <1>1
  <2>2. ASSUME NEW k \in 1..Len(w), k < l + 1, Completes(w[k])
        PROVE  set'[w[k].of] = "set" \/ Doubtful(w[k].of, l + 1)'
    <3>1. CASE k = l
      BY <1>10, <2>2, <3>1 DEF x
    <3>2. CASE k # l
      <4>1. k < l /\ l # 1
        BY <2>1, <2>2, <3>2, <1>1
      <4> QED BY <1>1, <1>3, <1>10, <2>2, <4>1
    <3> QED BY <3>1, <3>2
  <2> QED BY <2>1, <2>2 DEF InStep, OperandAt
<1>12. CASE want # Setup!None /\ l = 1
  <2>1. awaited /\ x.is = "opcode" /\ x.of = "TRG_MATCH"
    BY <1>3, <1>5, <1>12
  <2>2. want' = Setup!None /\ set' = [set EXCEPT ![want] = "wrong"]
    BY <1>4, <1>12, <2>1
  <2>3. D(x.of)
    BY <1>12, <2>1 DEF D
  <2>4. want' = OperandAt(w, l + 1)
    BY <1>8, <1>9, <2>1, <2>2
  <2>5. set' \in [Setup!Settings -> {"unset", "set", "wrong"}]
    BY <1>2, <2>2
  <2> QED BY <1>2, <1>12, <2>2, <2>3, <2>4, <2>5
<1>13. CASE want # Setup!None /\ l # 1
  <2>1. x.is = "operand" /\ x.of = want
    BY <1>1, <1>3, <1>13 DEF OperandAt, x
  <2>2. want' = Setup!None /\ set' = [set EXCEPT ![want] = "set"]
    BY <1>4, <1>13, <2>1
  <2>3. want' = OperandAt(w, l + 1)
    BY <1>8, <2>1, <2>2
  <2>4. set' \in [Setup!Settings -> {"unset", "set", "wrong"}]
    BY <1>2, <2>2
  <2>5. ASSUME NEW s \in Setup!Settings, set[s] = "set" \/ Doubtful(s, l)
        PROVE  set'[s] = "set" \/ D(s)
    BY <1>2, <1>a, <1>13, <2>1, <2>2, <2>5
  <2>6. set'[x.of] = "set"
    BY <1>1, <1>2, <2>1, <2>2
  <2> QED BY <2>2, <2>3, <2>4, <2>5, <2>6
<1>14. CASE want = Setup!None
  <2>1. x.is # "operand"
    BY <1>6, <1>9, <1>14
  <2>2. x.is = "opcode"
    BY <1>1, <2>1 DEF Kinds
  <2>3. CASE x.of \in Setup!WithOperand
    <3>1. want' = x.of /\ set' = set
      BY <1>4, <1>14, <2>1, <2>3
    <3>2. ~Completes(x)
      BY <2>2, <2>3 DEF Completes
    <3>3. l # 1 => \A s : Doubtful(s, l) => D(s)
      BY <1>9, <1>a, <1>b, <2>3 DEF Doubtful, D
    <3> QED BY <1>1, <1>2, <1>7, <2>2, <2>3, <3>1, <3>2, <3>3
  <2>4. CASE x.of \notin Setup!WithOperand
    <3>1. want' = Setup!None /\ set' = [set EXCEPT ![x.of] = "set"]
      BY <1>4, <1>14, <2>1, <2>4
    <3>2. want' = OperandAt(w, l + 1)
      BY <1>8, <2>4, <3>1
    <3>3. set' \in [Setup!Settings -> {"unset", "set", "wrong"}]
      BY <1>2, <3>1
    <3>4. ASSUME NEW s \in Setup!Settings, l # 1,
                 set[s] = "set" \/ Doubtful(s, l)
          PROVE  set'[s] = "set" \/ D(s)
      BY <1>2, <1>a, <3>1, <3>4
    <3>5. set'[x.of] = "set"
      BY <1>1, <1>2, <3>1
    <3> QED BY <1>1, <1>2, <3>1, <3>2, <3>3, <3>4, <3>5
  <2> QED BY <2>3, <2>4
<1> QED BY <1>12, <1>13, <1>14

\* The second write of the trigger mode is not checked: it may be lost, but
\* it repeats the first.
LEMMA LostSteps ==
  ASSUME NEW w, Proper(w), InStep(w, 2), Len(w) >= 2,
         \A k \in {1, 2} : w[k] = [of |-> "TRG_MATCH", is |-> "opcode"],
         UNCHANGED <<want, set, awaited>>, lost' = TRUE
  PROVE  InStep(w, 3)'
<1>1. /\ \A k \in {1, 2} : w[k].of = "TRG_MATCH" /\ w[k].is = "opcode"
      /\ "TRG_MATCH" \notin Setup!WithOperand /\ Len(w) \in Nat
  BY SettingNames, LenProperties DEF Proper
<1>2. want = Setup!None
  BY <1>1 DEF InStep, OperandAt
<1>3. OperandAt(w, 3) = Setup!None
  <2> SUFFICES ASSUME 3 <= Len(w), w[3].is = "operand" PROVE FALSE
    BY DEF OperandAt
  <2>1. 3 \in 1..Len(w)
    BY <1>1
  <2>2. w[3 - 1].of = w[3].of /\ w[3].of \in Setup!WithOperand
    BY <2>1 DEF Proper, Behind
  <2> QED BY <1>1, <2>2
<1>4. set["TRG_MATCH"] = "set" \/ awaited
  <2>1. 1 \in 1..Len(w) /\ 1 < 2
    BY <1>1
  <2>2. Completes(w[1])
    BY <1>1 DEF Completes
  <2> QED BY <1>1, <2>1, <2>2 DEF InStep, Doubtful
<1>5. ASSUME NEW k \in 1..Len(w), k < 3, Completes(w[k])
      PROVE  set'[w[k].of] = "set" \/ Doubtful(w[k].of, 3)'
  <2>1. k \in {1, 2}
    BY <1>1, <1>5
  <2> QED BY <1>1, <1>4, <2>1 DEF Doubtful
<1> QED BY <1>2, <1>3, <1>5 DEF InStep, OperandAt

LEMMA WriteSteps ==
  ASSUME SetupInv, Setup!WriteMicro PROVE SetupInv'
<1>1. ScriptTypes /\ ScriptInv
  BY DEF SetupInv
<1>2. /\ line \in DOMAIN Setup!Writes /\ (seen \/ Setup!Unchecked(line))
      /\ line' = line + 1 /\ seen' = FALSE
      /\ IF micro = "ready" /\ ~blind
           THEN Setup!Take(Setup!Writes[line])
           ELSE UNCHANGED <<micro, want, set>>
      /\ lost' = (lost \/ micro = "busy")
      /\ UNCHANGED <<file, tries, blind, done, awaited>>
  BY DEF Setup!WriteMicro, Setup!micro_vars
<1>w. PICK w : w = Setup!Writes
  OBVIOUS
<1>l. PICK l : l = line
  OBVIOUS
<1>3. /\ Proper(w) /\ Len(w) \in Nat /\ Len(w) >= 1
      /\ w[1] = [of |-> "TRG_MATCH", is |-> "opcode"]
      /\ file = "v1190" =>
           Len(w) >= 2 /\ w[2] = [of |-> "TRG_MATCH", is |-> "opcode"]
  BY <1>1, <1>w, WritesProper DEF ScriptTypes
<1>4. Setup!Writes' = w
  BY <1>2, <1>w, SameWrites
<1>5. l \in 1..Len(w) /\ l > 0
  BY <1>2, <1>3, <1>l, <1>w, LenProperties DEF Proper
<1>6. /\ micro' \in {"ready", "busy"}
      /\ line' \in 0..(Len(w) + 1)
  BY <1>1, <1>2, <1>3, <1>5, <1>l DEF ScriptTypes, Setup!Take
<1>r. Len(Setup!Repeated) \in Nat /\ (file = "v1290" => Setup!Repeated = <<>>)
      /\ (file = "v1190" => Len(Setup!Repeated) = 1)
  BY SettingNames DEF Setup!Repeated, Setup!Opcode
<1>f. file \in {"v1190", "v1290"} /\ lost' \in BOOLEAN
  BY <1>1, <1>2 DEF ScriptTypes
<1>7. CASE blind
  <2>1. UNCHANGED <<micro, want, set>>
    BY <1>2, <1>7
  <2>2. ScriptTypes'
    BY <1>1, <1>2, <1>4, <1>6, <1>f, <2>1 DEF ScriptTypes
  <2>3. ScriptInv'
    BY <1>1, <1>2, <1>5, <1>7, <1>l DEF ScriptInv
  <2> QED BY <2>2, <2>3 DEF SetupInv
<1>8. CASE ~blind
  <2>1. InStep(w, l) /\ ~done /\ (file = "v1290" => ~awaited)
    BY <1>1, <1>5, <1>8, <1>l, <1>w DEF ScriptInv
  <2>2. SUFFICES
          /\ want' \in (Setup!WithOperand \cap Setup!Settings)
                         \cup {Setup!None}
          /\ set' \in [Setup!Settings -> {"unset", "set", "wrong"}]
          /\ InStep(w, l + 1)'
    <3> SUFFICES ASSUME
          want' \in (Setup!WithOperand \cap Setup!Settings)
                      \cup {Setup!None},
          set' \in [Setup!Settings -> {"unset", "set", "wrong"}],
          InStep(w, l + 1)'
        PROVE SetupInv'
      OBVIOUS
    <3>1. ScriptTypes'
      BY <1>1, <1>2, <1>4, <1>6, <1>f DEF ScriptTypes
    <3>2. InStep(Setup!Writes, line)'
      BY <1>2, <1>4, <1>l DEF InStep, OperandAt, Doubtful
    <3>3. ScriptInv'
      BY <1>2, <1>5, <1>l, <2>1, <3>2 DEF ScriptInv
    <3> QED BY <3>1, <3>3 DEF SetupInv
  <2>3. CASE micro = "ready"
    <3>1. Setup!Take(w[l]) /\ awaited' = awaited
      BY <1>2, <1>8, <1>l, <1>w, <2>3
    <3>2. lost' = lost
      BY <1>1, <1>2, <2>3 DEF ScriptTypes
    <3>3. awaited /\ l = 2 => w[2] = [of |-> "TRG_MATCH", is |-> "opcode"]
      BY <1>3, <1>f, <2>1
    <3> QED BY <1>1, <1>3, <1>5, <2>1, <3>1, <3>2, <3>3, TakeSteps
  <2>4. CASE micro # "ready"
    <3>1. Setup!Unchecked(line)
      BY <1>1, <1>2, <1>8, <2>4 DEF ScriptInv
    <3>2. file = "v1190" /\ l = 2
      <4>1. Setup!Repeated # <<>> /\ l = Len(Setup!Repeated) + 1
        BY <1>l, <3>1 DEF Setup!Unchecked
      <4>2. file = "v1190" /\ Len(Setup!Repeated) = 1
        BY <1>f, <1>r, <4>1
      <4> QED BY <4>1, <4>2
    <3>3. UNCHANGED <<want, set, awaited>> /\ lost' = TRUE
      BY <1>1, <1>2, <2>4 DEF ScriptTypes
    <3>4. InStep(w, 3)'
      BY <1>3, <2>1, <3>2, <3>3, LostSteps
    <3> QED BY <1>1, <3>2, <3>3, <3>4 DEF ScriptTypes
  <2> QED BY <2>3, <2>4
<1> QED BY <1>7, <1>8

LEMMA SetupSame ==
  ASSUME SetupInv, UNCHANGED setup PROVE SetupInv'
<1>1. UNCHANGED <<file, line, seen, tries, blind, done, micro, want, set,
                  awaited, lost>>
  BY DEF setup
<1>2. Setup!Writes' = Setup!Writes
  BY <1>1, SameWrites
<1>3. ScriptTypes'
  BY <1>1, <1>2 DEF SetupInv, ScriptTypes
<1>4. InStep(Setup!Writes, line)' <=> InStep(Setup!Writes, line)
  BY <1>1, <1>2 DEF InStep, Doubtful, OperandAt
<1>5. Setup!AllSet' <=> Setup!AllSet
  BY <1>1 DEF Setup!AllSet
<1>6. ScriptInv'
  BY <1>1, <1>4, <1>5 DEF SetupInv, ScriptInv
<1> QED BY <1>3, <1>6 DEF SetupInv

LEMMA SetupKeeps ==
  ASSUME SetupInv, CrateNext PROVE SetupInv'
BY StartSteps, PollSteps, WriteSteps, ClearSteps, SetupSame
   DEF CrateNext, StartScript, ScriptStep, ScriptEnds, OtherScript,
       CrateDrive, Setup!Script

\* The device is opened behind a script that ran to its end, if it is the
\* V1190's that is followed.
OpenInv ==
  file = "v1190" /\ (script = 1 \/ (pc # "off" /\ Scripted)) =>
    line = 0 /\ done

LEMMA OpenKeeps ==
  ASSUME SetupInv, OpenInv, CrateNext PROVE OpenInv'
<1>0. file' = file
  BY DEF CrateNext, StartScript, ScriptStep, ScriptEnds, OtherScript,
         CrateDrive, setup, Setup!Start, Setup!SoftClear, Setup!Script,
         Setup!ChkReady, Setup!ChkBusy, Setup!ChkTimeout, Setup!ChkBlind,
         Setup!WriteMicro, Setup!MicroReady, Setup!script_vars
<1> SUFFICES ASSUME file = "v1190" PROVE OpenInv'
  BY <1>0 DEF OpenInv
<1>1. CASE StartScript
  <2>1. script' = 0 /\ pc' = "off"
    BY <1>1 DEF StartScript, vars
  <2> QED BY <2>1 DEF OpenInv
<1>2. CASE ScriptEnds
  BY <1>2 DEF ScriptEnds, RunScript, Setup!SoftClear, OpenInv
<1>3. CASE ScriptStep
  <2>1. pc = "off" /\ Setup!Script /\ pc' = pc /\ script' = script
    BY <1>3 DEF ScriptStep, vars
  <2>2. ASSUME line = 0 PROVE line' = line /\ done' = done
    <3>1. line \notin DOMAIN Setup!Writes
      <4>1. Setup!Writes \in Seq(Word)
        BY WritesProper DEF Proper, SetupInv, ScriptTypes
      <4> QED BY <2>2, <4>1, LenProperties
    <3> QED BY <2>1, <2>2, <3>1
            DEF Setup!Script, Setup!ChkReady, Setup!ChkBusy,
                Setup!ChkTimeout, Setup!ChkBlind, Setup!Polling,
                Setup!WriteMicro, Setup!MicroReady, Setup!script_vars
  <2> QED BY <2>1, <2>2 DEF OpenInv
<1>4. CASE CrateDrive
  <2>1. Drive /\ line' = line /\ done' = done
    BY <1>4 DEF CrateDrive, setup
  <2>2. \/ Open
        \/ script' = script /\ (pc = "off" => pc' = "off")
    BY <2>1, Names
       DEF Drive, Trigger, ConvertTdc, ConvertMadc, Halt, Start1, Start2,
           Start, Pulse, Interrupt, ReadMadc1, ReadMadc2, ReadMadc, ReadTdc,
           Veto, LeaveRunning, LeaveMasked, Return, Read, Stop, StopModules,
           Release
  <2>3. CASE Open
    BY <2>1, <2>3 DEF Open, OpenInv
  <2>4. CASE script' = script /\ (pc = "off" => pc' = "off")
    BY <2>1, <2>4 DEF OpenInv
  <2> QED BY <2>2, <2>3, <2>4
<1>5. CASE OtherScript
  BY <1>5 DEF OtherScript
<1> QED BY <1>1, <1>2, <1>3, <1>4, <1>5 DEF CrateNext

CrateInv == TypeOK /\ SetupInv /\ OpenInv

\* The script and the controller of its module stay in step, word by word,
\* and the device is opened behind a script that ran to its end.
THEOREM CrateInvHolds == CrateSpec => []CrateInv
<1>1. CrateInit => CrateInv
  <2> SUFFICES ASSUME CrateInit PROVE CrateInv
    OBVIOUS
  <2>1. TypeOK /\ SetupInv
    BY TypesInit, SetupInitTypes DEF CrateInit
  <2>2. OpenInv
    BY DEF CrateInit, Init, OpenInv
  <2> QED BY <2>1, <2>2 DEF CrateInv
<1>2. CrateInv /\ [CrateNext]_crateVars => CrateInv'
  <2> SUFFICES ASSUME CrateInv, [CrateNext]_crateVars PROVE CrateInv'
    OBVIOUS
  <2>1. TypeOK /\ SetupInv /\ OpenInv
    BY DEF CrateInv
  <2>2. CASE UNCHANGED crateVars
    <3>1. UNCHANGED vars /\ UNCHANGED setup
          /\ UNCHANGED <<file, line, done>>
      BY <2>2 DEF crateVars, setup
    <3>2. TypeOK'
      BY <2>1, <3>1 DEF vars, digitizers, driver, TypeOK
    <3>3. OpenInv'
      BY <2>1, <3>1 DEF vars, OpenInv
    <3> QED BY <2>1, <3>1, <3>2, <3>3, SetupSame DEF CrateInv
  <2>3. CASE CrateNext
    <3>1. TypeOK'
      <4>1. CASE CrateDrive
        BY <2>1, <4>1, TypesDrive DEF CrateDrive
      <4>2. CASE RunScript
        BY <2>1, <4>2, RunScriptKeeps
      <4>3. CASE UNCHANGED vars
        BY <2>1, <4>3 DEF vars, digitizers, driver, TypeOK
      <4> QED BY <2>3, <4>1, <4>2, <4>3
              DEF CrateNext, StartScript, ScriptStep, ScriptEnds, OtherScript
    <3>2. SetupInv'
      BY <2>1, <2>3, SetupKeeps
    <3>3. OpenInv'
      BY <2>1, <2>3, OpenKeeps
    <3> QED BY <3>1, <3>2, <3>3 DEF CrateInv
  <2> QED BY <2>2, <2>3
<1> QED BY <1>1, <1>2, PTL DEF CrateSpec

\* CrateTypeOK: with or without the script, for every bound of the polls.
THEOREM CrateTypesHold == CrateSpec => []CrateTypeOK
<1>1. CrateInv => CrateTypeOK
  <2> SUFFICES ASSUME CrateInv PROVE CrateTypeOK
    OBVIOUS
  <2>1. TypeOK /\ ScriptTypes
    BY DEF CrateInv, SetupInv
  <2>2. {seen, blind, done, awaited, lost} \subseteq BOOLEAN
    BY <2>1 DEF ScriptTypes
  <2>3. Setup!SetupTypeOK
    BY <2>1, <2>2 DEF ScriptTypes, Setup!SetupTypeOK
  <2> QED BY <2>1, <2>3 DEF CrateTypeOK
<1> QED BY <1>1, CrateInvHolds, PTL

\* Configured: however often a script gave up and was run again, and however
\* slow the controller was, a script that ends has left every setting in its
\* module, for every choice of settings that is followed; only the trigger
\* mode may be missing, and only if both writes of it were lost, the first to
\* an operand an aborted script left out, the second to a busy controller.
THEOREM OpenIsConfigured == CrateSpec => []Configured
<1>1. CrateInv => Configured
  <2> SUFFICES ASSUME CrateInv PROVE Configured
    OBVIOUS
  <2>1. file = "v1190" /\ pc # "off" /\ Scripted => done
    BY DEF CrateInv, OpenInv
  <2>2. line > 0 => ~done
    BY DEF CrateInv, SetupInv, ScriptInv
  <2>3. line = 0 \/ line > 0
    <3>1. line \in 0..(Len(Setup!Writes) + 1) /\ Len(Setup!Writes) \in Nat
      BY WritesProper DEF CrateInv, SetupInv, ScriptTypes
    <3> QED BY <3>1
  <2>4. done /\ ~blind => Setup!AllSet
    BY <2>2, <2>3 DEF CrateInv, SetupInv, ScriptInv
  <2> QED BY <2>1, <2>4 DEF Configured
<1> QED BY <1>1, CrateInvHolds, PTL
=============================================================================
