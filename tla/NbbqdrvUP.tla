----------------------------- MODULE NbbqdrvUP -----------------------------
(***************************************************************************)
(* The driver where its design holds: one processor, an interrupt line of  *)
(* its own, and a read that updates chkbuff before a whole block can be    *)
(* recorded.  IInv says why no unread block is then ever overwritten.      *)
(***************************************************************************)
EXTENDS Nbbqdrv

ASSUME QuietAssumption ==
  SMP = FALSE /\ Shared = FALSE /\ Header + WindowWords <= MaxBuff

\* A block has been copied out and chkbuff does not tell so yet.
PostCopy == {"load"} \cup Window
InStopCall == {"flags", "end", "publish", "stop"}

\* Half d follows n finished halves of which r is the oldest.
InStep(d, r, n) == IF n = 1 THEN d = Other(r) ELSE d = r

\* The decrement of a read has overwritten the increment of the handler:
\* a finished block waits, chkbuff denies it, and nothing will move again.
Stalled == /\ chkbuff = 0 /\ Len(fifo) = 1
           /\ inten = 0 /\ chkblk = 0 /\ pcH = "idle"

ClosedInv ==
  /\ pcU \in Opening \cup {"closed"} => inten = 0 /\ pcH = "idle"
  /\ pcU \in Opening =>
       /\ chkblk = 0 /\ chkbuff = 0 /\ stopflag = 0 /\ ready = 0
       /\ fifo = <<>> /\ drn = 0 /\ dn = 0

HandlerInv ==
  /\ pcH \in {"check", "evt", "end"} => chkblk = 1
  /\ pcH \in {"publish", "chmem", "unmask"} => chkblk = 0
  /\ pcH \in {"evt", "end", "publish", "chmem", "unmask"} => inten = 0
  /\ pcH \in {"check", "evt"} => evq > 0
  /\ pcH = "publish" => regH = chkbuff
  /\ pcH \in {"chmem", "unmask"} => chkbuff = regH + 1

StopInv ==
  /\ stopflag = 1 => inten = 0 /\ pcH = "idle"
  /\ pcU = "flags" => inten = 0 /\ pcH = "idle"
  /\ pcU \in {"end", "publish", "stop"} => stopflag = 1
  /\ pcU \in {"end", "publish"} => chkblk = 1
  /\ stopflag = 1 /\ chkblk = 1 => pcU \in {"end", "publish"}
  /\ pcU = "publish" => regU = chkbuff
  /\ pcU = "stop" => flag = 0 \/ (flag = chkbuff /\ flag = Len(fifo))

\* Recording goes on only into a half that holds no unread block.
HalvesInv ==
  Opened =>
    /\ Len(fifo) <= 2
    /\ inten = 1 \/ chkblk = 1 \/ pcH = "publish" => Len(fifo) <= 1
    /\ stopflag = 0 \/ pcU \in {"end", "publish"} =>
         IF pcH = "chmem" THEN Len(fifo) >= 1 /\ InStep(dn, drn, Len(fifo) - 1)
                          ELSE InStep(dn, drn, Len(fifo))

IntactInv ==
  Opened => /\ Len(fifo) >= 1 => buf[drn] = fifo[1]
            /\ Len(fifo) >= 2 => buf[Other(drn)] = fifo[2]

CountInv ==
  Opened =>
    /\ chkbuff <= 2
    /\ pcU \notin PostCopy => chkbuff = Len(fifo) \/ Stalled
    /\ pcU \in PostCopy => chkbuff = Len(fifo) + 1
    /\ chkbuff = 2 /\ ~(pcU \in Window /\ regU = 2) =>
         inten = 0 /\ chkblk = 0 /\ pcH \in {"idle", "chmem", "unmask"}
    /\ ready = 1 => chkbuff >= 1 /\ pcU \in {"idle"} \cup InStopCall
    /\ pcU = "copy" => chkbuff >= 1

\* The half freed by a read is filled while the read still runs, but not to
\* its end.
WindowInv ==
  /\ pcU \in {"full", "clear", "reload"} => regU = 2
  /\ pcU = "store" => regU \in {1, 2}
  /\ pcU \in Window /\ regU = 2 =>
       /\ chkbuff = 2
       /\ pcH \in {"idle", "check", "evt", "end"}
       /\ chkblk = 1 => mp <= Header + win
       /\ win <= WindowWords
       /\ pcH \in {"check", "evt"} => win + evq <= WindowWords

\* With the handler away, a masked interrupt is owed to a full buffer, to a
\* STOP that has begun, or to a lost increment.
MaskInv ==
  Running /\ pcH = "idle" /\ inten = 0 =>
    \/ pcU = "flags"
    \/ Stalled
    \/ pcU \notin PostCopy /\ Len(fifo) = 2
    \/ pcU \in {"load", "full"} /\ chkbuff = 2
    \/ pcU = "store" /\ regU = 1 /\ chkbuff = 2

VetoInv ==
  /\ pcH = "check" => inten = 1
  /\ pcH = "end" /\ BlockOver(mp) => mpflag = 1
  /\ pcH \in {"publish", "chmem", "unmask"} => mpflag = 1
  /\ pcU \in {"go", "enable"} \/ Running => acq = 1
  /\ pcU = "enable" /\ busy = 1 => evq > 0
  /\ Running /\ busy = 1 /\ evq = 0 =>
       /\ mpflag = 1
       /\ pcH = "idle" /\ pcU # "clear" => inten = 0 /\ fifo # <<>>

IInv == /\ ClosedInv /\ HandlerInv /\ StopInv
        /\ HalvesInv /\ IntactInv /\ CountInv /\ WindowInv
        /\ MaskInv /\ VetoInv
===========================================================================
