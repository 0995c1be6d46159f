------------------------------ MODULE MCGuides ------------------------------
EXTENDS Guides

MCBudgets ==
    { [commands |-> 2, taps |-> 6, contents |-> 2, overlaps |-> 0, failures |-> 0, tutorials |-> 1],
      [commands |-> 1, taps |-> 4, contents |-> 1, overlaps |-> 1, failures |-> 1, tutorials |-> 1] }
=============================================================================
