--------------------------- MODULE MCBlockFormat ---------------------------
EXTENDS BlockFormat

\* An empty segment and one with the two words of a transfer.
MCLens == [s \in 1..3 |-> {0, 2}]

\* A word of data may look like an END word or like the size of an event.
MCPayload == {65535, 32777}

\* A MADC32 with all 32 channels, header and trailer, and the most that
\* v1X90_segdata reads before it calls it too many data: 10001 transfers.
MCLimitLens == <<{68}, {68}, {20002}>>
===========================================================================
