----------------------------- MODULE MCLoopTurn -----------------------------
\* LoopTurn for TLC: the runs' configurations give the constants their values.
EXTENDS LoopTurn
=============================================================================
