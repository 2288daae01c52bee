------------------------------- MODULE Crate -------------------------------
(***************************************************************************)
(* The readout with the set-up of its V1190 word by word: while the device *)
(* is closed init_v1190.sh talks to the controller of the module, and its  *)
(* last line is the one step RunScript of Readout.                         *)
(*                                                                         *)
(* A behaviour follows one script.  init_v1290.sh has the address of       *)
(* another module, 0x52000000, and not V1190_ADR: it neither clears nor    *)
(* sets up the V1190 that evt() reads, whose own script is then one step.  *)
(***************************************************************************)
EXTENDS Readout

CONSTANTS MaxTries, LeftOut

VARIABLES
  file, line, seen, tries, blind, done, micro, want, set, awaited, lost

Setup == INSTANCE V1190Setup

ASSUME CrateAssumption == Setup!SetupAssumption

setup == <<file, line, seen, tries, blind, done, micro, want, set, awaited,
           lost>>
crateVars == <<vars, setup>>

CrateInit == Init /\ Setup!SetupInit

\* Bound: init_v1190.sh runs to its end once for every open.
StartScript ==
  /\ pc = "off" /\ (file = "v1190" => script = 0)
  /\ Setup!Start
  /\ UNCHANGED vars

ScriptStep == pc = "off" /\ Setup!Script /\ UNCHANGED vars

\* the last lines of the script that is followed
ScriptEnds ==
  /\ Setup!SoftClear
  /\ \/ file = "v1190" /\ RunScript
     \/ file = "v1290" /\ pc = "off" /\ UNCHANGED vars

\* init_v1190.sh, when the other is followed
OtherScript == file = "v1290" /\ RunScript /\ UNCHANGED setup

\* the device is opened when no script is running
CrateDrive ==
  /\ Drive /\ UNCHANGED setup
  /\ pc = "off" /\ pc' # "off" => line = 0

CrateNext ==
  StartScript \/ ScriptStep \/ ScriptEnds \/ OtherScript \/ CrateDrive

CrateSpec == CrateInit /\ [][CrateNext]_crateVars

----------------------------------------------------------------------------
(* Properties.                                                             *)

\* The variables hold values the registers, flags and scripts can hold.
CrateTypeOK == TypeOK /\ Setup!SetupTypeOK

\* A script that ran to its end has left every setting in its module, however
\* slow the controller was and however often the script gave up before
\* (AllSet names the one case in which the trigger mode is missing), unless a
\* status read failed, which chk_status takes for ready; and the V1190 of a
\* device that is open is behind such a script.
Configured ==
  /\ done /\ ~blind => Setup!AllSet
  /\ file = "v1190" /\ pc # "off" /\ Scripted => done
===========================================================================
