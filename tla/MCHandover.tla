----------------------------- MODULE MCHandover -----------------------------
EXTENDS Handover, TLC
TapSymmetry == Permutations(Taps) \cup Permutations(Accounts) \cup Permutations(Screens) \cup Permutations(Confirmers)
=============================================================================
