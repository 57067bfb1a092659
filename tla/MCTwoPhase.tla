----------------------------- MODULE MCTwoPhase -----------------------------
EXTENDS TwoPhase, TLC

ValueSymmetry == Permutations(Values)
=============================================================================
