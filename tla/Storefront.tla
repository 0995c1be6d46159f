---------------------------- MODULE Storefront -----------------------------
(***************************************************************************)
(* Buying and renewing: from the list of plans to an invoice, while admins *)
(* pause sales and change plans and codes, and accounts change hands       *)
(* (app/bot/handlers/buy.py and renew.py, app/bot/sales_gate.py,           *)
(* quote_amount and create_crypto_payment).  What follows the invoice is   *)
(* Payments; here an open order may be activated at any time, and what     *)
(* matters of it is how the use of its code is counted.                    *)
(*                                                                         *)
(* One customer, and one account that is the customer's at first.  A tap   *)
(* is a handler of its own; it may be interrupted between any two of its   *)
(* statements.                                                             *)
(***************************************************************************)
EXTENDS Discounts

CONSTANTS
    Taps,       \* taps in progress at once
    Orders,     \* payments rows that may be inserted
    Confirmers, \* processes that may activate an order: callbacks and sweeps
    Budgets     \* bounds: how many confirmations, activations and changes of
                \* each kind a behaviour has

VARIABLES
    sales,      \* the sales switch
    mine,       \* the account is the customer's
    listed,     \* plans the customer has seen in a list
    buttons,    \* plans whose summary, with its confirm button, is in the chat
    tap, order,
    serving,    \* the activation each process is at
    provisioned,\* purchases whose account has its row
    uses,       \* history: how many uses of a code were counted
    seen,       \* history: what was true at some moment since a tap began
    budget

shopVars == <<sales, mine, listed, buttons, tap, order>>
activationVars == <<serving, provisioned, uses>>
vars == <<discountVars, shopVars, activationVars, seen, budget>>

OrderTypes == [status : {"pending", "paid"}, plan : Plans, purpose : {"purchase", "renew"},
               original : Nat, amount : Nat, code : Codes \cup {None}]

ASSUME ShopAssumption ==
    /\ IsFiniteSet(Taps) /\ IsFiniteSet(Orders)
    /\ None \notin OrderTypes

NoTap == [pc |-> "idle", purpose |-> "purchase", plan |-> None,
          price |-> 0, code |-> None, amount |-> 0, order |-> None]

NoService == [pc |-> "idle", order |-> None, code |-> None, read |-> 0]

Init ==
    /\ DiscountsInit
    /\ sales = TRUE /\ mine = TRUE
    /\ listed = {} /\ buttons = {}
    /\ tap = [h \in Taps |-> NoTap]
    /\ order = [o \in Orders |-> None]
    /\ serving = [s \in Confirmers |-> NoService]
    /\ provisioned = {}
    /\ uses = [c \in Codes |-> IF c \in Existing THEN discount[c].used ELSE 0]
    /\ seen = [h \in Taps |-> None]
    /\ budget \in Budgets

-----------------------------------------------------------------------------
(* The customer *)

RowsLeft ==
    Cardinality({o \in Orders : order[o] = None})
      > Cardinality({h \in Taps : tap[h].pc # "idle" /\ tap[h].order = None})

\* A mutant: the list shows plans that are not on sale.
BrowseAll ==
    /\ ~(Plans \ Trials \subseteq listed)
    /\ listed' = Plans \ Trials
    /\ UNCHANGED <<discountVars, sales, mine, buttons, tap, order>>

\* The lists of categories and plans, for a purchase or for the account.
Browse ==
    /\ ~(Listed \subseteq listed)
    /\ listed' = listed \cup Listed
    /\ UNCHANGED <<discountVars, sales, mine, buttons, tap, order>>

\* A tap on a plan in a list, or for the account: behind the same gate and
\* checks as a confirmation, but it only shows the price and a button.
Summary(p) ==
    /\ p \in listed \ buttons
    /\ sales /\ Sellable(p)
    /\ buttons' = buttons \cup {p}
    /\ UNCHANGED <<discountVars, sales, mine, listed, tap, order>>

\* The confirm button stays in the chat.  Bound: a confirmation starts only if
\* there is a row left for it.
Confirm(h, purpose, p) ==
    /\ tap[h].pc = "idle"
    /\ p \in buttons
    /\ RowsLeft
    /\ tap' = [tap EXCEPT ![h] = [NoTap EXCEPT !.pc = "gate", !.purpose = purpose, !.plan = p]]
    /\ UNCHANGED <<discountVars, sales, mine, listed, buttons, order>>

Ends(h) ==
    /\ tap' = [tap EXCEPT ![h] = NoTap]
    /\ UNCHANGED <<discountVars, sales, mine, listed, buttons, order>>

\* A mutant: only the screen before the confirmation asks whether sales are paused.
PassGateAnyway(h) ==
    /\ tap[h].pc = "gate"
    /\ tap' = [tap EXCEPT ![h].pc = IF tap[h].purpose = "renew" THEN "owner" ELSE "plan"]
    /\ UNCHANGED <<discountVars, sales, mine, listed, buttons, order>>

\* block_if_sales_paused, in a session of its own.
PassGate(h) ==
    /\ tap[h].pc = "gate" /\ sales
    /\ tap' = [tap EXCEPT ![h].pc = IF tap[h].purpose = "renew" THEN "owner" ELSE "plan"]
    /\ UNCHANGED <<discountVars, sales, mine, listed, buttons, order>>

Paused(h) == tap[h].pc = "gate" /\ ~sales /\ Ends(h)

\* get_owned_vpn_user
FindAccount(h) ==
    /\ tap[h].pc = "owner" /\ mine
    /\ tap' = [tap EXCEPT ![h].pc = "plan"]
    /\ UNCHANGED <<discountVars, sales, mine, listed, buttons, order>>

NotOwned(h) == tap[h].pc = "owner" /\ ~mine /\ Ends(h)

\* get_plan; the row's price is the session's from here on.
LoadPlan(h) ==
    /\ tap[h].pc = "plan"
    /\ tap' = [tap EXCEPT ![h] = IF Sellable(@.plan)
                                 THEN [@ EXCEPT !.pc = "quote", !.price = plan[tap[h].plan].price]
                                 ELSE NoTap]
    /\ UNCHANGED <<discountVars, sales, mine, listed, buttons, order>>

Quote(price, c) == IF c = None THEN price ELSE DiscountPrice(price, discount[c].percent)

\* quote_amount
QuoteAmount(h) ==
    /\ tap[h].pc = "quote"
    /\ \E c \in BestAutoDiscount(tap[h].plan) :
         tap' = [tap EXCEPT ![h].pc = "insert", ![h].code = c,
                            ![h].amount = Quote(tap[h].price, c)]
    /\ UNCHANGED <<discountVars, sales, mine, listed, buttons, order>>

\* The order is committed before Plisio is asked for an invoice.
InsertOrder(h, o) ==
    /\ tap[h].pc = "insert"
    /\ tap[h].code # Deleted
    /\ order[o] = None
    /\ order' = [order EXCEPT ![o] =
           [status |-> "pending", plan |-> tap[h].plan, purpose |-> tap[h].purpose,
            original |-> tap[h].price, amount |-> tap[h].amount, code |-> tap[h].code]]
    /\ tap' = [tap EXCEPT ![h].pc = "invoice", ![h].order = o]
    /\ UNCHANGED <<discountVars, sales, mine, listed, buttons>>

\* The quoted code's row is gone: the foreign key refuses the insert.
InsertFails(h) == tap[h].pc = "insert" /\ tap[h].code = Deleted /\ Ends(h)

\* The link is sent; or Plisio fails, and the order stays without an invoice.
Invoice(h) == tap[h].pc = "invoice" /\ Ends(h)

Customer ==
    \/ Browse
    \/ \E p \in Plans : Summary(p)
    \/ \E h \in Taps :
         \/ PassGate(h) \/ Paused(h) \/ FindAccount(h) \/ NotOwned(h)
         \/ LoadPlan(h) \/ QuoteAmount(h)
         \/ \E o \in Orders : InsertOrder(h, o)
         \/ InsertFails(h) \/ Invoice(h)

-----------------------------------------------------------------------------
(* Activation: activate_finished_payment and what follows it *)

\* As far as the first commit, which gives the order's row lock back.  Nothing
\* asks whether sales are paused, the plan is still on sale, the account still
\* the customer's or the code still applies.  A second process finds the row of
\* a purchase's account and stops; a renewal it renews again.
Activate(s, o) ==
    /\ serving[s].pc = "idle"
    /\ order[o] # None /\ order[o].status = "pending" /\ o \notin provisioned
    /\ provisioned' = IF order[o].purpose = "purchase" THEN provisioned \cup {o} ELSE provisioned
    /\ serving' = [serving EXCEPT ![s] =
           [pc |-> IF order[o].code = None THEN "settle" ELSE "count",
            order |-> o, code |-> order[o].code, read |-> 0]]
    /\ UNCHANGED <<discountVars, shopVars, uses>>

\* A code that is gone has nothing to count.
ReadUses(s) ==
    /\ serving[s].pc = "count"
    /\ serving' = [serving EXCEPT ![s] =
           IF @.code = Deleted THEN [@ EXCEPT !.pc = "settle"]
           ELSE [@ EXCEPT !.pc = "write", !.read = discount[serving[s].code].used]]
    /\ UNCHANGED <<discountVars, shopVars, provisioned, uses>>

\* In a commit of its own; if the code is gone by now, the update fails.
WriteUse(s) ==
    /\ serving[s].pc = "write" /\ serving[s].code # Deleted
    /\ discount' = CountUse(serving[s].code, serving[s].read)
    /\ uses' = [uses EXCEPT ![serving[s].code] = @ + 1]
    /\ serving' = [serving EXCEPT ![s].pc = "settle"]
    /\ UNCHANGED <<catalogVars, shopVars, provisioned>>

\* A mutant: the order is committed as paid before its use is counted.
MarkPaidFirst(s) ==
    /\ serving[s].pc \in {"count", "settle"}
    /\ order' = [order EXCEPT ![serving[s].order].status = "paid"]
    /\ serving' = [serving EXCEPT ![s] = IF @.pc = "count" THEN @ ELSE NoService]
    /\ UNCHANGED <<discountVars, sales, mine, listed, buttons, tap, provisioned, uses>>

MarkPaid(s) ==
    /\ serving[s].pc = "settle"
    /\ order' = [order EXCEPT ![serving[s].order].status = "paid"]
    /\ serving' = [serving EXCEPT ![s] = NoService]
    /\ UNCHANGED <<discountVars, sales, mine, listed, buttons, tap, provisioned, uses>>

\* An error, a lost connection or a restart, between any two commits.
CutShort(s) ==
    /\ serving[s].pc # "idle"
    /\ serving' = [serving EXCEPT ![s] = NoService]
    /\ UNCHANGED <<discountVars, shopVars, provisioned, uses>>

-----------------------------------------------------------------------------
(* The others *)

SetSales(on) ==
    /\ sales # on
    /\ sales' = on
    /\ UNCHANGED <<discountVars, mine, listed, buttons, tap, order>>

\* An accepted transfer of the account, to the customer or away.
Transfer ==
    /\ mine' = ~mine
    /\ UNCHANGED <<discountVars, sales, listed, buttons, tap, order>>

\* Deleting a code clears it from its orders (ON DELETE SET NULL).
ForgetCode ==
    LET gone == {c \in Existing : discount'[c] = None} IN
    /\ order' = [o \in Orders |-> IF order[o] # None /\ order[o].code \in gone
                                  THEN [order[o] EXCEPT !.code = None] ELSE order[o]]
    /\ tap' = [h \in Taps |-> IF tap[h].code \in gone
                              THEN [tap[h] EXCEPT !.code = IF tap[h].pc = "insert"
                                                           THEN Deleted ELSE None]
                              ELSE tap[h]]
    /\ serving' = [s \in Confirmers |-> IF serving[s].code \in gone
                                        THEN [serving[s] EXCEPT !.code = Deleted] ELSE serving[s]]
    /\ uses' = [c \in Codes |-> IF c \in gone THEN 0 ELSE uses[c]]

SalesAdmin(a) ==
    ManageCodes(a) /\ ForgetCode /\ UNCHANGED <<sales, mine, listed, buttons, provisioned>>

FullAdmin(a) == ManagePlans(a) /\ UNCHANGED <<discount, shopVars>>

-----------------------------------------------------------------------------
(* History, bounds, and the specification *)

\* What a customer would be offered at this moment: a reference that compares
\* prices, where the code compares percentages.
Offers(p) ==
    LET usable == {c \in Existing :
                     /\ discount[c].active /\ discount[c].public
                     /\ discount[c].limit # None => discount[c].used < discount[c].limit
                     /\ discount[c].scope # All => p \in discount[c].scope}
    IN  IF usable = {} THEN {[code |-> None, percent |-> 0]}
        ELSE {[code |-> c, percent |-> discount[c].percent] : c \in
                {c \in usable : \A d \in usable : Quote(plan[p].price, c) <= Quote(plan[p].price, d)}}

Now(h) == [sales |-> sales, mine |-> mine, prices |-> {plan[tap[h].plan].price},
           offers |-> Offers(tap[h].plan)]

Earlier(a, b) == [sales |-> a.sales \/ b.sales, mine |-> a.mine \/ b.mine,
                  prices |-> a.prices \cup b.prices, offers |-> a.offers \cup b.offers]

Watching ==
    seen' = [h \in Taps |-> IF tap'[h].pc = "idle" THEN None
                            ELSE IF tap[h].pc = "idle" THEN Now(h)'
                            ELSE IF tap'[h].pc = "invoice" THEN seen[h]
                            ELSE Earlier(seen[h], Now(h)')]

Spend(kind) ==
    /\ budget[kind] > 0
    /\ budget' = [budget EXCEPT ![kind] = @ - 1]

Next ==
    /\ \/ Customer /\ UNCHANGED <<activationVars, budget>>
       \/ \E h \in Taps, purpose \in {"purchase", "renew"}, p \in Plans :
             Confirm(h, purpose, p) /\ Spend("taps") /\ UNCHANGED activationVars
       \/ \E s \in Confirmers, o \in Orders : Activate(s, o) /\ Spend("serve")
       \/ \E s \in Confirmers :
             (ReadUses(s) \/ WriteUse(s) \/ MarkPaid(s) \/ CutShort(s)) /\ UNCHANGED budget
       \/ \E on \in BOOLEAN : SetSales(on) /\ Spend("switch") /\ UNCHANGED activationVars
       \/ Transfer /\ Spend("switch") /\ UNCHANGED activationVars
       \/ \E a \in Admins : SalesAdmin(a) /\ Spend("codes")
       \/ \E a \in Admins : FullAdmin(a) /\ Spend("plans") /\ UNCHANGED activationVars
    /\ Watching

Spec == Init /\ [][Next]_vars

-----------------------------------------------------------------------------
(* Properties *)

TapTypes == [pc : {"idle", "gate", "owner", "plan", "quote", "insert", "invoice"},
             purpose : {"purchase", "renew"},
             plan : Plans \cup {None}, price : Nat, code : Codes \cup {None, Deleted},
             amount : Nat, order : Orders \cup {None}]

Services == [pc : {"idle", "count", "write", "settle"}, order : Orders \cup {None},
             code : Codes \cup {None, Deleted}, read : Nat]

\* Every row has the types of its columns: no price or percentage outside the
\* range the screens accept is stored, and no order takes up a deleted code.
TypeOK ==
    /\ plan \in [Plans -> [price : 0..MaxPrice, active : BOOLEAN]]
    /\ discount \in [Codes -> Rows \cup {None}]
    /\ sales \in BOOLEAN /\ mine \in BOOLEAN /\ buttons \subseteq listed /\ listed \subseteq Plans
    /\ tap \in [Taps -> TapTypes]
    /\ order \in [Orders -> OrderTypes \cup {None}]
    /\ serving \in [Confirmers -> Services] /\ provisioned \subseteq Orders
    /\ uses \in [Codes -> Nat]

\* An invoice for $0.00 is only ever due to a discount, of all of the price or
\* all but less than half a cent: no button leads to a plan before it has a
\* price (the price floor, the list of active plans and the price's own check
\* together), and none to a trial.
NothingForFree ==
    \A o \in Orders :
      order[o] # None /\ order[o].amount = 0 =>
        /\ order[o].original > 0 /\ order[o].plan \notin Trials

\* An order is created only by a tap during which sales were open, and, if it
\* renews the account, during which the account was the customer's: however
\* old the button, and whatever changes between the checks and the commit.
SoldWhileAllowed ==
    \A h \in Taps :
      tap[h].pc = "invoice" =>
        /\ seen[h].sales
        /\ tap[h].purpose = "renew" => seen[h].mine

\* What is charged is the price of the plan and the best public code for it,
\* each as it stood at some moment of the confirming tap - never as it stood
\* on an earlier screen.
ChargedAsOffered ==
    \A h \in Taps :
      tap[h].pc = "invoice" =>
        \E price \in seen[h].prices, offer \in seen[h].offers :
          /\ order[tap[h].order].original = price
          /\ order[tap[h].order].amount = IF offer.code = None THEN price
                                          ELSE DiscountPrice(price, offer.percent)

PaidWith(c) == {o \in Orders : order[o] # None /\ order[o].status = "paid" /\ order[o].code = c}

\* Uses that were counted and that a count which had read before overwrote.
Overwritten(c) == uses[c] - discount[c].used

\* A usage limit counts orders that were paid, so open orders may overshoot it.
\* But a code is quoted to nobody once as many orders as its limit have been
\* paid with it - at any moment of any activation, cut short, repeated or
\* overlapping with another, and beyond that only for uses that overlapping
\* activations overwrote.
LimitIsKept ==
    [][\A h \in Taps, c \in Codes :
         tap[h].pc = "quote" /\ tap'[h].pc = "insert" /\ tap'[h].code = c /\ discount[c].limit # None
           => Cardinality(PaidWith(c)) < discount[c].limit + Overwritten(c)]_vars
=============================================================================
