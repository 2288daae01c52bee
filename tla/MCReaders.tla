----------------------------- MODULE MCReaders -----------------------------
EXTENDS Readers

\* Buffers that begin and end at, before and after the edge of a page.
MCAreas == {<<p, s>> : p \in 8..11, s \in {1, 2, 4, 5, 7}}

\* max: less than the limit, the limit, more; and nothing.
MCRequests == {0, 1, 4, 5}

\* depth: below a window, whole windows, and neither.
MCDepths == {0, 2, 3, 4, 6, 7}
===========================================================================
