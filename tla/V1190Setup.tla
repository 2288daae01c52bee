---------------------------- MODULE V1190Setup ----------------------------
(***************************************************************************)
(* init_v1190.sh or init_v1290.sh, run by hand before the driver is        *)
(* opened, each with the module at its own address.  A setting is an       *)
(* opcode, some with an operand, written to the micro register of the      *)
(* module; each write needs the controller to be ready, which the scripts  *)
(* learn by polling the handshake register.  A script that polls too long  *)
(* exits and leaves the module as it is.                                   *)
(*                                                                         *)
(* The controller is external: a word written while it is busy is lost, a  *)
(* word written while it waits for an operand is taken for the operand.    *)
(***************************************************************************)
EXTENDS Integers, Sequences

CONSTANTS
  MaxTries,       \* 2000: polls before a script gives up
  LeftOut         \* bound: settings not followed, for they repeat others

SetupAssumption ==
  MaxTries \in Nat /\ LeftOut \subseteq STRING /\ "TRG_MATCH" \notin LeftOut

VARIABLES
  file,           \* which script, and the module it sets up
  line, seen,     \* the next write, 0: not running; it may be done
  tries,          \* cnt of chk_status
  blind,          \* chk_status passed on a read that failed
  done,           \* the script ran to its end
  micro, want,    \* the controller: "ready" or "busy"; awaited operand
  set,            \* settings: "unset", "set", or "wrong"
  awaited,        \* history: an operand was awaited when the script began
  lost            \* history: it has written a word to a busy controller

history == <<awaited, lost>>
script_vars == <<file, line, seen, tries, blind, done, history>>
micro_vars == <<micro, want, set>>

None == "none"
WithOperand == {"WIN_WID", "WIN_OFS", "SW_MRG", "REJ_MRG", "DETECT", "LSB"}
Settings ==
  (WithOperand \cup {"TRG_MATCH", "SUB_TRG", "ALL_CH", "HEAD_TRAIL"}) \ LeftOut

\* the words of a setting that is followed
Opcode(s) == IF s \in Settings THEN <<[of |-> s, is |-> "opcode"]>> ELSE <<>>
WithValue(s) ==
  IF s \in Settings
    THEN <<[of |-> s, is |-> "opcode"], [of |-> s, is |-> "operand"]>>
    ELSE <<>>

\* what both scripts write behind the trigger mode
Common ==
  WithValue("WIN_WID") \o WithValue("WIN_OFS") \o WithValue("SW_MRG")
  \o WithValue("REJ_MRG") \o Opcode("SUB_TRG") \o WithValue("DETECT")
  \o Opcode("ALL_CH") \o WithValue("LSB") \o Opcode("HEAD_TRAIL")

\* Mutant: the trigger mode is written once.
RepeatedNot == <<>>

\* init_v1190.sh writes the trigger mode twice, the second time unchecked
Repeated == IF file = "v1190" THEN Opcode("TRG_MATCH") ELSE <<>>

Writes == Repeated \o Opcode("TRG_MATCH") \o Common

\* Mutant: an operand is written right behind its opcode.
UncheckedOperand(l) == l \in DOMAIN Writes /\ Writes[l].is = "operand"

Unchecked(l) == Repeated # <<>> /\ l = Len(Repeated) + 1

----------------------------------------------------------------------------
\* init_v1290.sh resets the module first.  Behind a script whose words were
\* not followed the controller may be at work and await any operand.
Start ==
  /\ line = 0
  /\ line' = 1
  /\ seen' = FALSE /\ tries' = 0 /\ blind' = FALSE /\ done' = FALSE
  /\ \/ /\ file = "v1290"
        /\ micro' = "busy" /\ want' = None
        /\ set' = [s \in Settings |-> "unset"]
     \/ /\ file = "v1190" /\ ~blind
        /\ UNCHANGED micro_vars
     \/ /\ file = "v1190" /\ blind
        /\ micro' = "busy" /\ want' \in (WithOperand \cap Settings) \cup {None}
        /\ UNCHANGED set
  /\ awaited' = (want' # None) /\ lost' = FALSE
  /\ UNCHANGED file

Polling == line > 0 /\ ~seen /\ ~Unchecked(line)

\* chk_status; a poll too many ends the script, whatever it reads
ChkReady ==
  /\ Polling /\ micro = "ready" /\ tries < MaxTries
  /\ seen' = TRUE /\ tries' = 0
  /\ UNCHANGED <<file, line, blind, done, history, micro_vars>>

ChkBusy ==
  /\ Polling /\ micro = "busy" /\ tries < MaxTries
  /\ tries' = tries + 1
  /\ UNCHANGED <<file, line, seen, blind, done, history, micro_vars>>

\* exit 1
ChkTimeout ==
  /\ Polling /\ tries = MaxTries
  /\ line' = 0 /\ tries' = 0
  /\ UNCHANGED <<file, seen, blind, done, history, micro_vars>>

\* cmdvme fails and prints nothing: the test of $res fails, the loop ends.
\* From here on the module's settings are in doubt and are not followed.
ChkBlind ==
  /\ Polling /\ tries < MaxTries
  /\ seen' = TRUE /\ tries' = 0 /\ blind' = TRUE
  /\ set' = [s \in Settings |-> "wrong"] /\ want' = None
  /\ UNCHANGED <<file, line, done, history, micro>>

\* the controller takes the word w
Take(w) ==
  /\ micro' = "busy"
  /\ IF want # None
       THEN /\ set' = [set EXCEPT ![want] =
                         IF w.is = "operand" /\ w.of = want THEN "set"
                                                            ELSE "wrong"]
            /\ want' = None
     ELSE IF w.is = "operand"       \* a number taken for an opcode
       THEN set' = [s \in Settings |-> "wrong"] /\ UNCHANGED want
     ELSE IF w.of \in WithOperand
       THEN want' = w.of /\ UNCHANGED set
     ELSE set' = [set EXCEPT ![w.of] = "set"] /\ UNCHANGED want

WriteMicro ==
  /\ line \in DOMAIN Writes
  /\ seen \/ Unchecked(line)
  /\ line' = line + 1 /\ seen' = FALSE
  /\ IF micro = "ready" /\ ~blind THEN Take(Writes[line])
                                 ELSE UNCHANGED micro_vars
  /\ lost' = (lost \/ micro = "busy")
  /\ UNCHANGED <<file, tries, blind, done, awaited>>

\* the last lines: the data of the module are cleared
SoftClear ==
  /\ line = Len(Writes) + 1 /\ seen
  /\ line' = 0 /\ seen' = FALSE /\ done' = TRUE
  /\ UNCHANGED <<file, tries, blind, history, micro_vars>>

\* the controller has dealt with the last word
MicroReady ==
  /\ micro = "busy"
  /\ micro' = "ready"
  /\ UNCHANGED <<script_vars, want, set>>

SetupInit ==
  /\ file \in {"v1190", "v1290"}
  /\ line = 0 /\ seen = FALSE /\ tries = 0 /\ blind = FALSE /\ done = FALSE
  /\ micro = "busy" /\ want = None /\ set = [s \in Settings |-> "unset"]
  /\ awaited = FALSE /\ lost = FALSE

Script == \/ ChkReady \/ ChkBusy \/ ChkTimeout \/ ChkBlind
          \/ WriteMicro \/ MicroReady

----------------------------------------------------------------------------
SetupTypeOK ==
  /\ file \in {"v1190", "v1290"} /\ line \in 0..(Len(Writes) + 1)
  /\ {seen, blind, done, awaited, lost} \subseteq BOOLEAN
  /\ tries \in 0..MaxTries
  /\ micro \in {"ready", "busy"} /\ want \in WithOperand \cup {None}
  /\ set \in [Settings -> {"unset", "set", "wrong"}]

\* Every setting as the script has it, but for one case: the trigger mode
\* may be missing when the first write of it was taken for an operand that an
\* aborted script left out, and the second came while the controller was
\* still at work on the first.
AllSet ==
  \A s \in Settings :
    set[s] = "set" \/ (s = "TRG_MATCH" /\ awaited /\ lost)
===========================================================================
