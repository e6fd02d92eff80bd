----------------------------- MODULE MCBoardPage -----------------------------
EXTENDS BoardPage, TLC

Symmetry == Permutations(Columns) \cup Permutations(Cards)
=============================================================================
