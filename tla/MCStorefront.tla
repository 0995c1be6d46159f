---------------------------- MODULE MCStorefront ----------------------------
EXTENDS Storefront, TLC

\* A plan on sale, one the migrations added without a price, and the trial.
MCFirstPlans ==
    [p \in Plans |-> CASE p = "month" -> [price |-> 201, active |-> TRUE]
                       [] p = "unlimited" -> [price |-> 0, active |-> FALSE]
                       [] p = "trial" -> [price |-> 0, active |-> TRUE]]

\* A code for the whole price of one plan, for two uses; another name is free.
MCFirstCodes ==
    [c \in Codes |-> IF c = "SPRING"
                     THEN [percent |-> 10000, limit |-> 2, used |-> 0, scope |-> {"month"},
                           active |-> TRUE, public |-> TRUE]
                     ELSE None]

MCBudgets == { [taps |-> 3, switch |-> 2, codes |-> 1, plans |-> 1, serve |-> 1],
               [taps |-> 1, switch |-> 0, codes |-> 9, plans |-> 0, serve |-> 1],
               [taps |-> 2, switch |-> 0, codes |-> 7, plans |-> 0, serve |-> 1],
               [taps |-> 3, switch |-> 0, codes |-> 1, plans |-> 0, serve |-> 4],
               [taps |-> 3, switch |-> 0, codes |-> 0, plans |-> 4, serve |-> 0] }

Symmetry == Permutations(Orders) \cup Permutations(Confirmers)
=============================================================================
