--------------------------- MODULE OrderLifecycle ---------------------------
(***************************************************************************)
(* What the payment pipeline promises about an order, without callbacks,   *)
(* sweeps, locks, invoices or crashes: money is taken for an order that is *)
(* not closed as failed; only then is the order served, once; only then is *)
(* it closed as paid; and only then are its credentials sent - for a       *)
(* purchase, once.                                                         *)
(***************************************************************************)
EXTENDS Naturals

CONSTANTS Orders, Renewals

VARIABLES
    state,      \* "none", "open", "paid" or "failed"
    money,      \* the orders whose full amount is at Plisio
    served,     \* the orders for which what was bought exists
    delivered   \* how often the credentials were sent

vars == <<state, money, served, delivered>>

Init ==
    /\ state     = [o \in Orders |-> "none"]
    /\ money     = {}
    /\ served    = {}
    /\ delivered = [o \in Orders |-> 0]

Open(o) ==
    /\ state[o] = "none"
    /\ state' = [state EXCEPT ![o] = "open"]
    /\ UNCHANGED <<money, served, delivered>>

Pay(o) ==
    /\ state[o] = "open" /\ o \notin money
    /\ money' = money \cup {o}
    /\ UNCHANGED <<state, served, delivered>>

Serve(o) ==
    /\ state[o] = "open" /\ o \in money /\ o \notin served
    /\ served' = served \cup {o}
    /\ UNCHANGED <<state, money, delivered>>

Close(o) ==
    /\ state[o] = "open" /\ o \in served
    /\ state' = [state EXCEPT ![o] = "paid"]
    /\ UNCHANGED <<money, served, delivered>>

Fail(o) ==
    /\ state[o] = "open" /\ o \notin money
    /\ state' = [state EXCEPT ![o] = "failed"]
    /\ UNCHANGED <<money, served, delivered>>

Deliver(o) ==
    /\ state[o] = "paid"
    /\ o \in Renewals \/ delivered[o] = 0
    /\ delivered' = [delivered EXCEPT ![o] = @ + 1]
    /\ UNCHANGED <<state, money, served>>

Next == \E o \in Orders : Open(o) \/ Pay(o) \/ Serve(o) \/ Close(o) \/ Fail(o) \/ Deliver(o)

Spec == Init /\ [][Next]_vars
=============================================================================
