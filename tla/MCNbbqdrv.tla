----------------------------- MODULE MCNbbqdrv -----------------------------
EXTENDS Nbbqdrv

\* Two events fill a block of the model.
MCEventSizes == {3}

\* Bound on what the driver itself does not bound once a shared line or a
\* second processor has brought chkbuff past 2.
MCBound == Len(fifo) <= 2 /\ chkbuff <= 3
===========================================================================
