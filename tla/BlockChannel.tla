--------------------------- MODULE BlockChannel ---------------------------
(***************************************************************************)
(* What the driver promises to the acquisition client: the events that the *)
(* hardware handed over are cut into blocks, no event is lost, repeated or *)
(* moved, at most two finished blocks wait to be read, and they are read   *)
(* in the order in which they were finished.  Nothing of the driver's      *)
(* buffers, flags or interrupt masking is visible here.                    *)
(***************************************************************************)
EXTENDS Naturals, Sequences

CONSTANT Ids          \* events are numbered 1..Ids, then from 1 again

VARIABLES
  mode,               \* "off", "on" (recording), "stopped" (reading only)
  queue,              \* the finished blocks not yet read, oldest first
  cur,                \* the events of the block being filled
  next                \* the number of the next event to be recorded

vars == <<mode, queue, cur, next>>

Slots == 2            \* the halves of the double buffer

Succ(n) == (n % Ids) + 1

Init == /\ mode = "off"
        /\ queue = <<>>
        /\ cur = <<>>
        /\ next = 1

Start == /\ mode = "off"
         /\ mode' = "on"
         /\ queue' = <<>>
         /\ cur' = <<>>
         /\ next' = 1

Record == /\ mode = "on"
          /\ Len(queue) < Slots
          /\ cur' = Append(cur, next)
          /\ next' = Succ(next)
          /\ UNCHANGED <<mode, queue>>

Publish == /\ mode = "on"
           /\ cur # <<>>
           /\ Len(queue) < Slots
           /\ queue' = Append(queue, cur)
           /\ cur' = <<>>
           /\ UNCHANGED <<mode, next>>

Deliver == /\ queue # <<>>
           /\ queue' = Tail(queue)
           /\ UNCHANGED <<mode, cur, next>>

\* A block that has been begun is finished by the stop, however short it is.
Stop == /\ mode = "on"
        /\ mode' = "stopped"
        /\ cur = <<>> \/ Len(queue) < Slots
        /\ queue' = IF cur = <<>> THEN queue ELSE Append(queue, cur)
        /\ cur' = <<>>
        /\ next' = next

Abandon == /\ mode # "off"
           /\ mode' = "off"
           /\ queue' = <<>>
           /\ cur' = <<>>
           /\ next' = 1

Next == Start \/ Record \/ Publish \/ Deliver \/ Stop \/ Abandon

Spec == Init /\ [][Next]_vars

\* A finished block is eventually read, unless the device is closed first.
FairSpec == Spec /\ WF_vars(Deliver)
===========================================================================
