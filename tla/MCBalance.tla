------------------------------ MODULE MCBalance ------------------------------
EXTENDS Balance

\* An 8-bit balance; the diffs are the corner cases of the type: its least
\* and greatest values, and a unit withdrawal and deposit.
MCWidth == 8
MCDiffs == {-128, -1, 1, 127}
=============================================================================
