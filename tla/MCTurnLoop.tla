----------------------------- MODULE MCTurnLoop -----------------------------
EXTENDS TurnLoop
CONSTANTS r1, r2, x1
=============================================================================
