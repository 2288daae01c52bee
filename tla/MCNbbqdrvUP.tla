---------------------------- MODULE MCNbbqdrvUP ----------------------------
EXTENDS NbbqdrvUP

\* After one event a block of the model has 7 or 8 words, below and at
\* MAXBUFF; after two it is over it.
MCEventSizes == {3, 4}
===========================================================================
