----------------------------- MODULE MCReadout -----------------------------
EXTENDS Crate

\* Followed: a setting of each kind, and two with operands.
MCLeftOut == {"WIN_OFS", "SW_MRG", "REJ_MRG", "ALL_CH", "LSB", "HEAD_TRAIL"}
===========================================================================
