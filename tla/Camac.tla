------------------------------- MODULE Camac -------------------------------
(***************************************************************************)
(* CAMAC, in the two ways the driver can be built for it: user code reads  *)
(* modules through the bridge, call by call, into a block of one of the    *)
(* three formats; or the CC/NET controller runs a list of commands that    *)
(* was compiled from the same calls.  A behaviour is of one build.         *)
(***************************************************************************)
EXTENDS Integers, Sequences

CONSTANTS MaxLen, Nch, Top, MaxBlocks, Cmdlen, MaxCalls, Events

VARIABLES
  build,
  format, state, data, mp, blkid, eventhmp, eventsize, segmenthmp,
  segmentsize, events, starts,                          \* CamacBlocks
  phase, calls, open, segcmd, gen, cmdbuf, clrbuf, rplybuf, event, full, i,
  idx, rec, dir, taken                                  \* Ccnet

bridge == <<format, state, data, mp, blkid, eventhmp, eventsize, segmenthmp,
            segmentsize, events, starts>>
controller == <<phase, calls, open, segcmd, gen, cmdbuf, clrbuf, rplybuf,
                event, full, i, idx, rec, dir, taken>>
vars == <<build, bridge, controller>>

Blocks == INSTANCE CamacBlocks
List == INSTANCE Ccnet

ASSUME CamacAssumption ==
  Blocks!CamacBlocksAssumption /\ List!CcnetAssumption

Init == build \in {"bridge", "CCNET"} /\ Blocks!Init /\ List!Init

NextBlocks == build = "bridge" /\ Blocks!Next /\ UNCHANGED <<build, controller>>

NextList == build = "CCNET" /\ List!Next /\ UNCHANGED <<build, bridge>>

Next == NextBlocks \/ NextList

Spec == Init /\ [][Next]_vars

----------------------------------------------------------------------------
(* Properties: those of the components.                                    *)

\* The variables hold values the code's variables can hold.
TypeOK == Blocks!TypeOK /\ List!TypeOK

\* The size of every segment leads to the next one.
SegmentsLead == Blocks!SegmentsLead

\* The sizes of events and blocks lead to where these end.
LengthsLead == Blocks!LengthsLead

\* The words CCNET's list gives are those of direct reads by the same calls.
SameAsDirect == List!SameAsDirect

\* Replies that are missing spoil values, never the structure of a block.
ShapeKept == List!ShapeKept

\* The list of commands and the list of entries fit each other.
AllTaken == List!AllTaken
===========================================================================
