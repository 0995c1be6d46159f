------------------------------ MODULE Custody ------------------------------
(***************************************************************************)
(* What a change of ownership promises, seen from outside: an account only *)
(* moves by consent.  Its owner makes an offer to one other user, at most  *)
(* one offer stands at a time, and the account moves when that offer is    *)
(* accepted within its 24 hours by the user it names.                      *)
(***************************************************************************)
CONSTANTS Users, Offers

VARIABLES
    owner,    \* whoever sees the account in My Services
    offer,    \* "none", "open", "accepted" or "closed" for each offer
    from, to, \* who made each offer, and to whom
    late      \* the offers older than 24 hours

vars == <<owner, offer, from, to, late>>

Open == {t \in Offers : offer[t] = "open"}

Init ==
    /\ owner \in Users
    /\ offer = [t \in Offers |-> "none"]
    /\ late = {}

\* The owner offers the account; an older offer no longer stands.
Make(t, recipient) ==
    /\ offer[t] = "none" /\ recipient # owner
    /\ offer' = [x \in Offers |-> IF x = t THEN "open"
                                  ELSE IF x \in Open THEN "closed" ELSE offer[x]]
    /\ from' = [from EXCEPT ![t] = owner]
    /\ to'   = [to   EXCEPT ![t] = recipient]
    /\ UNCHANGED <<owner, late>>

Accept(t) ==
    /\ t \in Open \ late /\ from[t] = owner
    /\ owner' = to[t]
    /\ offer' = [offer EXCEPT ![t] = "accepted"]
    /\ UNCHANGED <<from, to, late>>

\* Declined, cancelled, expired, or impossible to deliver.
Close(t) ==
    /\ t \in Open
    /\ offer' = [offer EXCEPT ![t] = "closed"]
    /\ UNCHANGED <<owner, from, to, late>>

Expire(t) ==
    /\ offer[t] # "none"
    /\ late' = late \cup {t}
    /\ UNCHANGED <<owner, offer, from, to>>

Next ==
    \E t \in Offers :
        \/ \E recipient \in Users : Make(t, recipient)
        \/ Accept(t) \/ Close(t) \/ Expire(t)

Spec == Init /\ [][Next]_vars
=============================================================================
