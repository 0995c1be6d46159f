------------------------------ MODULE Payments ------------------------------
(***************************************************************************)
(* The payment pipeline: checkout, Plisio's callbacks, the reconciler, and *)
(* the activation that both of them drive (app/webhook.py and              *)
(* app/services/payments/).                                                *)
(*                                                                         *)
(* An order is one row of the payments table.  Two kinds of process work   *)
(* on orders at the same time: callback handlers (one per HTTP request)    *)
(* and reconciliation sweeps (the background loop, and the one an admin    *)
(* starts by hand).  A process holds the row lock of its order (SELECT ... *)
(* FOR UPDATE) only until its session commits - and activation commits     *)
(* several times.                                                          *)
(***************************************************************************)
EXTENDS Naturals, FiniteSets

CONSTANTS
    Orders,       \* payment rows that may be created
    Renewals,     \* the orders with purpose = "renew"; the others are purchases
    Discounted,   \* the orders quoted with a discount code (one shared code)
    Callbacks,    \* webhook requests that can be in progress at once
    Sweeps,       \* reconciliation passes that can be in progress at once
    Txns,         \* Plisio invoices (txn_id) an order may go through
    FirstTxn,     \* the invoice made at checkout
    Faults,       \* which failures the environment may inject
    MaxCrashes,   \* bound: process restarts in one behaviour
    None          \* SQL NULL / nobody

Procs == Callbacks \cup Sweeps

FaultKinds == {"ibsng_down", "reply_lost", "telegram_down", "plisio_down", "aged"}

ASSUME OrderAssumption == Renewals \subseteq Orders /\ Discounted \subseteq Orders
ASSUME ProcAssumption == Callbacks \cap Sweeps = {} /\ None \notin Procs
ASSUME TxnAssumption == FirstTxn \in Txns /\ None \notin Txns
ASSUME NoneAssumption == None \notin Orders
ASSUME FaultAssumption == Faults \subseteq FaultKinds /\ MaxCrashes \in Nat

VARIABLES
    \* the payments table
    status,       \* Payment.status, "none" before the row is committed
    txn,          \* Payment.provider_payment_id
    linked,       \* Payment.vpn_user_id is set
    aged,         \* orders created more than MAX_AGE_HOURS ago
    holder,       \* the process whose open transaction holds the row lock
    \* what an activation produces
    account,      \* the order's IBSng account exists
    row,          \* the order's local vpn_users row exists
    renewals,     \* renew_and_change_group calls completed for the order
    used,         \* DiscountCode.used_count of the shared code
    counted,      \* how often the order was counted in it
    \* Plisio
    invoice,      \* the status Plisio holds for each invoice of each order
    sent,         \* callbacks sent so far; any of them may arrive at any time
    \* what the buyer was told
    told,         \* orders whose buyer got "activation technical issue"
    delivered,    \* how often the credentials were sent
    \* local state of the processes
    pc, ord, want, seen, tally, todo,
    crashes

payVars    == <<status, txn, linked>>
svcVars    == <<account, row, renewals>>
usageVars  == <<used, counted>>
plisioVars == <<invoice, sent>>
buyerVars  == <<told, delivered>>
procVars   == <<pc, ord, want, seen, tally, todo>>
vars == <<payVars, aged, holder, svcVars, usageVars, plisioVars, buyerVars,
          procVars, crashes>>

-----------------------------------------------------------------------------
(* Statuses *)

\* "underpaid" stands for Plisio's "expired" with a non-zero received amount.
ClosingStatuses == {"expired", "cancelled", "error"}
PlisioStatuses  == {"none", "pending", "completed", "underpaid",
                    "cancelled duplicate"} \cup ClosingStatuses

OpenStatuses     == {"pending", "partially_paid"}
TerminalStatuses == {"paid", "failed"}
Statuses         == {"none"} \cup OpenStatuses \cup TerminalStatuses

\* A mutant: the invoice a buyer abandoned is taken for a failed order.
FinalStatusDuplicateFails(raw) ==
    IF raw = "completed" THEN "paid"
    ELSE IF raw = "underpaid" THEN "partially_paid"
    ELSE IF raw \in ClosingStatuses \cup {"cancelled duplicate"} THEN "failed"
    ELSE "progress"

\* A mutant: an expired invoice is always a failed order.
FinalStatusNoTopUp(raw) ==
    IF raw = "completed" THEN "paid"
    ELSE IF raw \in ClosingStatuses \cup {"underpaid"} THEN "failed"
    ELSE "progress"

\* A mutant: "expired" is taken for a status of its own.
FinalStatusUnresolved(raw) ==
    IF raw = "completed" THEN "paid"
    ELSE IF raw \in {"expired", "underpaid"} THEN "expired"
    ELSE IF raw \in ClosingStatuses THEN "failed"
    ELSE "progress"

\* _FINAL_STATUSES with the later split of "expired" by amount received.
FinalStatus(raw) ==
    IF raw = "completed" THEN "paid"
    ELSE IF raw = "underpaid" THEN "partially_paid"
    ELSE IF raw \in ClosingStatuses THEN "failed"
    ELSE "progress"

Completed(o) == \E k \in Txns : invoice[o][k] = "completed"
Closed(o)    == \E k \in Txns : invoice[o][k] \in ClosingStatuses

CallbackMsg == [order : Orders, txn : Txns, raw : PlisioStatuses \ {"none"}]

Message(o, k, raw) == [order |-> o, txn |-> k, raw |-> raw]

-----------------------------------------------------------------------------
(* Program locations.  A process in LockedAt is between its locking SELECT *)
(* and its next commit; one in ServedAt has provisioned and committed, but *)
(* its order is not marked paid yet (at "recount" it may hold the row      *)
(* lock again).                                                            *)

LockedAt == {"provision", "insert", "regroup", "update"}
ServedAt == {"count", "recount", "close"}
Locations == {"idle", "decide", "query", "claim", "deliver"} \cup LockedAt \cup ServedAt

Free(o) == holder[o] = None

Goto(p, label) == pc' = [pc EXCEPT ![p] = label]

\* The request or the step of the sweep ends; its session is closed.
Finish(p) ==
    /\ pc'    = [pc    EXCEPT ![p] = "idle"]
    /\ ord'   = [ord   EXCEPT ![p] = None]
    /\ want'  = [want  EXCEPT ![p] = "progress"]
    /\ seen'  = [seen  EXCEPT ![p] = None]
    /\ tally' = [tally EXCEPT ![p] = 0]
    /\ UNCHANGED todo

Lock(p)    == holder' = [holder EXCEPT ![ord[p]] = p]
Release(p) == holder' = [holder EXCEPT ![ord[p]] = None]

Init ==
    /\ status    = [o \in Orders |-> "none"]
    /\ txn       = [o \in Orders |-> None]
    /\ linked    = [o \in Orders |-> o \in Renewals]
    /\ aged      = {}
    /\ holder    = [o \in Orders |-> None]
    /\ account   = [o \in Orders |-> o \in Renewals]
    /\ row       = [o \in Orders |-> o \in Renewals]
    /\ renewals  = [o \in Orders |-> 0]
    /\ used      = 0
    /\ counted   = [o \in Orders |-> 0]
    /\ invoice   = [o \in Orders |-> [k \in Txns |-> "none"]]
    /\ sent      = {}
    /\ told      = {}
    /\ delivered = [o \in Orders |-> 0]
    /\ pc        = [p \in Procs |-> "idle"]
    /\ ord       = [p \in Procs |-> None]
    /\ want      = [p \in Procs |-> "progress"]
    /\ seen      = [p \in Procs |-> None]
    /\ tally     = [p \in Procs |-> 0]
    /\ todo      = [p \in Procs |-> {}]
    /\ crashes   = 0

-----------------------------------------------------------------------------
(* Checkout: create_crypto_payment.  The row is committed before Plisio is *)
(* asked for an invoice; if that call fails the order stays behind as an   *)
(* orphan with no invoice, which is InvoiceCreated never happening.        *)

Checkout(o) ==
    /\ status[o] = "none"
    /\ status' = [status EXCEPT ![o] = "pending"]
    /\ UNCHANGED <<txn, linked, aged, holder, svcVars, usageVars, plisioVars,
                   buyerVars, procVars, crashes>>

InvoiceCreated(o) ==
    /\ status[o] = "pending" /\ txn[o] = None /\ Free(o)
    /\ invoice' = [invoice EXCEPT ![o][FirstTxn] = "pending"]
    /\ txn'     = [txn EXCEPT ![o] = FirstTxn]
    /\ UNCHANGED <<status, linked, aged, holder, svcVars, usageVars, sent,
                   buyerVars, procVars, crashes>>

\* Time passes the order's 72 hours.
Age(o) ==
    /\ "aged" \in Faults /\ status[o] # "none" /\ o \notin aged
    /\ aged' = aged \cup {o}
    /\ UNCHANGED <<payVars, holder, svcVars, usageVars, plisioVars, buyerVars,
                   procVars, crashes>>

-----------------------------------------------------------------------------
(* Plisio (external).  Every status an invoice takes is announced by a     *)
(* callback that may be late, repeated, reordered or never arrive.         *)

Announce(o, k, raw) ==
    /\ invoice' = [invoice EXCEPT ![o][k] = raw]
    /\ sent'    = sent \cup {Message(o, k, raw)}
    /\ UNCHANGED <<payVars, aged, holder, svcVars, usageVars, buyerVars,
                   procVars, crashes>>

\* Paid in full, at once or by topping up an expired invoice.
BuyerPays(o, k) ==
    /\ invoice[o][k] \in {"pending", "underpaid"}
    /\ Announce(o, k, "completed")

InvoiceEnds(o, k) ==
    /\ invoice[o][k] = "pending"
    /\ \E raw \in ClosingStatuses \cup {"underpaid"} : Announce(o, k, raw)

\* The buyer switches coins: a replacement invoice for the same order.
SwitchCoin(o, k, next) ==
    /\ invoice[o][k] = "pending" /\ invoice[o][next] = "none"
    /\ invoice' = [invoice EXCEPT ![o] =
                      [@ EXCEPT ![k] = "cancelled duplicate", ![next] = "pending"]]
    /\ sent' = sent \cup {Message(o, k, "cancelled duplicate"),
                          Message(o, next, "pending")}
    /\ UNCHANGED <<payVars, aged, holder, svcVars, usageVars, buyerVars,
                   procVars, crashes>>

-----------------------------------------------------------------------------
(* The callback handler, _handle_crypto_ipn.                               *)

\* First transaction: audit row, provider_payment_id, commit.  A progress
\* status is answered here; a final one goes on, without the lock.
Audit(w, m) ==
    /\ pc[w] = "idle" /\ m \in sent
    /\ status[m.order] # "none" /\ Free(m.order)
    /\ txn' = [txn EXCEPT ![m.order] = m.txn]
    /\ IF FinalStatus(m.raw) = "progress"
         THEN UNCHANGED procVars
         ELSE /\ Goto(w, "decide")
              /\ ord'  = [ord  EXCEPT ![w] = m.order]
              /\ want' = [want EXCEPT ![w] = FinalStatus(m.raw)]
              /\ UNCHANGED <<seen, tally, todo>>
    /\ UNCHANGED <<status, linked, aged, holder, svcVars, usageVars, plisioVars,
                   buyerVars, crashes>>

\* The locking re-read finds the order already closed: nothing to do.
AlreadyClosed(p) ==
    /\ pc[p] \in {"decide", "claim"} /\ Free(ord[p])
    /\ status[ord[p]] \in TerminalStatuses
    /\ Finish(p)
    /\ UNCHANGED <<payVars, aged, holder, svcVars, usageVars, plisioVars,
                   buyerVars, crashes>>

\* A mutant: the idempotency guard on the status is dropped.
MarkUnpaidUnguarded(w) ==
    /\ pc[w] = "decide" /\ want[w] \in {"partially_paid", "failed"} /\ Free(ord[w])
    /\ status' = [status EXCEPT ![ord[w]] = want[w]]
    /\ Finish(w)
    /\ UNCHANGED <<txn, linked, aged, holder, svcVars, usageVars, plisioVars,
                   buyerVars, crashes>>

\* "partially_paid" and "failed": the status is set and committed under the
\* lock, then the buyer is told.
MarkUnpaid(w) ==
    /\ pc[w] = "decide" /\ want[w] \in {"partially_paid", "failed"} /\ Free(ord[w])
    /\ status[ord[w]] \notin TerminalStatuses
    /\ status' = [status EXCEPT ![ord[w]] = want[w]]
    /\ Finish(w)
    /\ UNCHANGED <<txn, linked, aged, holder, svcVars, usageVars, plisioVars,
                   buyerVars, crashes>>

-----------------------------------------------------------------------------
(* The reconciler, reconcile_pending_payments and _reconcile_one.          *)

\* One pass selects the ids it will look at, once, up front.
StartPass(s) ==
    LET due == {o \in Orders : status[o] \in OpenStatuses /\ txn[o] # None /\ o \notin aged}
    IN  /\ pc[s] = "idle" /\ todo[s] = {} /\ due # {}
        /\ todo' = [todo EXCEPT ![s] = due]
        /\ UNCHANGED <<payVars, aged, holder, svcVars, usageVars, plisioVars,
                       buyerVars, pc, ord, want, seen, tally, crashes>>

\* Reads the invoice id in a session of its own, without a lock.
ReadInvoiceId(s, o) ==
    /\ pc[s] = "idle" /\ o \in todo[s]
    /\ todo' = [todo EXCEPT ![s] = @ \ {o}]
    /\ Goto(s, "query")
    /\ ord'  = [ord  EXCEPT ![s] = o]
    /\ seen' = [seen EXCEPT ![s] = txn[o]]
    /\ UNCHANGED <<payVars, aged, holder, svcVars, usageVars, plisioVars,
                   buyerVars, want, tally, crashes>>

\* A mutant: any answer from Plisio is taken for "completed".
QueryPaidAlways(s) ==
    /\ pc[s] = "query"
    /\ Goto(s, "claim")
    /\ want' = [want EXCEPT ![s] = "paid"]
    /\ UNCHANGED <<payVars, aged, holder, svcVars, usageVars, plisioVars,
                   buyerVars, ord, seen, tally, todo, crashes>>

\* get_invoice_status answers for the id read before.
QueryPaid(s) ==
    /\ pc[s] = "query" /\ invoice[ord[s]][seen[s]] = "completed"
    /\ Goto(s, "claim")
    /\ want' = [want EXCEPT ![s] = "paid"]
    /\ UNCHANGED <<payVars, aged, holder, svcVars, usageVars, plisioVars,
                   buyerVars, ord, seen, tally, todo, crashes>>

\* Not completed, or the lookup failed: the next pass asks again.
QueryOpen(s) ==
    /\ pc[s] = "query"
    /\ "plisio_down" \in Faults \/ invoice[ord[s]][seen[s]] # "completed"
    /\ Finish(s)
    /\ UNCHANGED <<payVars, aged, holder, svcVars, usageVars, plisioVars,
                   buyerVars, crashes>>

QueryFails(s) == QueryOpen(s) /\ invoice[ord[s]][seen[s]] = "completed"

-----------------------------------------------------------------------------
(* Activation: confirm_paid_payment, activate_finished_payment.            *)

\* The locking re-read finds the order open; from here to the next commit
\* the process holds the row.
Claim(p) ==
    /\ pc[p] = "claim" \/ (pc[p] = "decide" /\ want[p] = "paid")
    /\ Free(ord[p]) /\ status[ord[p]] \in OpenStatuses
    /\ Lock(p)
    /\ Goto(p, "provision")
    /\ UNCHANGED <<payVars, aged, svcVars, usageVars, plisioVars, buyerVars,
                   ord, want, seen, tally, todo, crashes>>

\* VPNUsernameTakenError from the local pre-check, or IBSngUserExistsError:
\* BLOCKED.  The buyer is told, the order stays open.
Blocked(p) ==
    /\ pc[p] = "provision" /\ ord[p] \notin Renewals
    /\ row[ord[p]] \/ account[ord[p]]
    /\ told' = told \cup {ord[p]} \/ ("telegram_down" \in Faults /\ told' = told)
    /\ Release(p)
    /\ Finish(p)
    /\ UNCHANGED <<payVars, aged, svcVars, usageVars, plisioVars, delivered, crashes>>

\* A mutant: creation made repeatable - what exists already is used again.
CreateAccountReuses(p) ==
    /\ pc[p] = "provision" /\ ord[p] \notin Renewals
    /\ account' = [account EXCEPT ![ord[p]] = TRUE]
    /\ Goto(p, "insert")
    /\ UNCHANGED <<payVars, aged, holder, row, renewals, usageVars, plisioVars,
                   buyerVars, ord, want, seen, tally, todo, crashes>>

CreateAccount(p) ==
    /\ pc[p] = "provision" /\ ord[p] \notin Renewals
    /\ ~row[ord[p]] /\ ~account[ord[p]]
    /\ account' = [account EXCEPT ![ord[p]] = TRUE]
    /\ Goto(p, "insert")
    /\ UNCHANGED <<payVars, aged, holder, row, renewals, usageVars, plisioVars,
                   buyerVars, ord, want, seen, tally, todo, crashes>>

\* IBSng took the account but its answer was lost: an IBSngError here.
CreateReplyLost(p) ==
    /\ "reply_lost" \in Faults
    /\ pc[p] = "provision" /\ ord[p] \notin Renewals
    /\ ~row[ord[p]] /\ ~account[ord[p]]
    /\ account' = [account EXCEPT ![ord[p]] = TRUE]
    /\ Release(p)
    /\ Finish(p)
    /\ UNCHANGED <<payVars, aged, row, renewals, usageVars, plisioVars, buyerVars,
                   crashes>>

\* Any other IBSngError: TRANSIENT, the transaction is rolled back.
ActivationFails(p) ==
    /\ "ibsng_down" \in Faults
    /\ \/ pc[p] = "provision" /\ (ord[p] \in Renewals \/ ~row[ord[p]])
       \/ pc[p] = "regroup"
    /\ Release(p)
    /\ Finish(p)
    /\ UNCHANGED <<payVars, aged, svcVars, usageVars, plisioVars, buyerVars, crashes>>

RenewAccount(p) ==
    /\ pc[p] = "provision" /\ ord[p] \in Renewals
    /\ Goto(p, "regroup")
    /\ UNCHANGED <<payVars, aged, holder, svcVars, usageVars, plisioVars,
                   buyerVars, ord, want, seen, tally, todo, crashes>>

ChangeGroup(p) ==
    /\ pc[p] = "regroup"
    /\ Goto(p, "update")
    /\ UNCHANGED <<payVars, aged, holder, svcVars, usageVars, plisioVars,
                   buyerVars, ord, want, seen, tally, todo, crashes>>

\* What follows the commit that ends provisioning - and releases the lock.
AfterService(p) == IF ord[p] \in Discounted THEN "count" ELSE "close"

\* A mutant: the row is added to the session but never committed.
InsertRowForgetsRow(p) ==
    /\ pc[p] = "insert"
    /\ Release(p)
    /\ Goto(p, AfterService(p))
    /\ UNCHANGED <<payVars, aged, svcVars, usageVars, plisioVars,
                   buyerVars, ord, want, seen, tally, todo, crashes>>

InsertRow(p) ==
    /\ pc[p] = "insert"
    /\ row' = [row EXCEPT ![ord[p]] = TRUE]
    /\ Release(p)
    /\ Goto(p, AfterService(p))
    /\ UNCHANGED <<payVars, aged, account, renewals, usageVars, plisioVars,
                   buyerVars, ord, want, seen, tally, todo, crashes>>

UpdateRow(p) ==
    /\ pc[p] = "update"
    /\ renewals' = [renewals EXCEPT ![ord[p]] = @ + 1]
    /\ Release(p)
    /\ Goto(p, AfterService(p))
    /\ UNCHANGED <<payVars, aged, account, row, usageVars, plisioVars,
                   buyerVars, ord, want, seen, tally, todo, crashes>>

\* increment_discount_usage: an unlocked read of the code's row.  It flushes
\* the vpn_user_id just set on a purchase, which takes the payment's row lock ...
ReadUsage(p) ==
    /\ pc[p] = "count"
    /\ IF ord[p] \in Renewals THEN UNCHANGED holder ELSE Free(ord[p]) /\ Lock(p)
    /\ tally' = [tally EXCEPT ![p] = used]
    /\ Goto(p, "recount")
    /\ UNCHANGED <<payVars, aged, svcVars, usageVars, plisioVars,
                   buyerVars, ord, want, seen, todo, crashes>>

\* ... and a write of the value read plus one, whose commit releases it.
WriteUsage(p) ==
    /\ pc[p] = "recount"
    /\ used'    = tally[p] + 1
    /\ counted' = [counted EXCEPT ![ord[p]] = @ + 1]
    /\ linked'  = [linked EXCEPT ![ord[p]] = TRUE]
    /\ IF ord[p] \in Renewals THEN UNCHANGED holder ELSE Release(p)
    /\ Goto(p, "close")
    /\ UNCHANGED <<status, txn, aged, svcVars, plisioVars, buyerVars,
                   ord, want, seen, tally, todo, crashes>>

\* A mutant: the account is never linked to the order.
MarkPaidUnlinked(p) ==
    /\ pc[p] = "close" /\ Free(ord[p])
    /\ status' = [status EXCEPT ![ord[p]] = "paid"]
    /\ Goto(p, "deliver")
    /\ UNCHANGED <<txn, linked, aged, holder, svcVars, usageVars, plisioVars, buyerVars,
                   ord, want, seen, tally, todo, crashes>>

\* The UPDATE waits for whoever holds the row by now; the status it
\* overwrites is not read again.
MarkPaid(p) ==
    /\ pc[p] = "close" /\ Free(ord[p])
    /\ status' = [status EXCEPT ![ord[p]] = "paid"]
    /\ linked' = [linked EXCEPT ![ord[p]] = TRUE]
    /\ Goto(p, "deliver")
    /\ UNCHANGED <<txn, aged, holder, svcVars, usageVars, plisioVars, buyerVars,
                   ord, want, seen, tally, todo, crashes>>

\* A mutant: the credentials are sent before the order is marked paid.
DeliverEarly(p) ==
    /\ pc[p] \in {"close", "deliver"}
    /\ delivered' = [delivered EXCEPT ![ord[p]] = @ + 1]
    /\ Finish(p)
    /\ UNCHANGED <<payVars, aged, holder, svcVars, usageVars, plisioVars, told,
                   crashes>>

\* _send_delivery_message, after the commit.
Deliver(p) ==
    /\ pc[p] = "deliver"
    /\ delivered' = [delivered EXCEPT ![ord[p]] = @ + 1]
    /\ Finish(p)
    /\ UNCHANGED <<payVars, aged, holder, svcVars, usageVars, plisioVars, told,
                   crashes>>

\* Telegram refuses the message with an error nobody catches.
DeliveryFails(p) ==
    /\ "telegram_down" \in Faults /\ pc[p] = "deliver"
    /\ Finish(p)
    /\ UNCHANGED <<payVars, aged, holder, svcVars, usageVars, plisioVars,
                   buyerVars, crashes>>

\* The process restarts: callbacks and sweeps are one process, so all of
\* them end, and PostgreSQL rolls their transactions back.
Crash ==
    /\ crashes < MaxCrashes /\ \E p \in Procs : pc[p] # "idle"
    /\ crashes' = crashes + 1
    /\ holder' = [o \in Orders |-> None]
    /\ pc'     = [p \in Procs |-> "idle"]
    /\ ord'    = [p \in Procs |-> None]
    /\ want'   = [p \in Procs |-> "progress"]
    /\ seen'   = [p \in Procs |-> None]
    /\ tally'  = [p \in Procs |-> 0]
    /\ todo'   = [p \in Procs |-> {}]
    /\ UNCHANGED <<payVars, aged, svcVars, usageVars, plisioVars, buyerVars>>

-----------------------------------------------------------------------------
BuyerNext(o) ==
    \/ Checkout(o) \/ InvoiceCreated(o) \/ Age(o)
    \/ \E k \in Txns : BuyerPays(o, k) \/ InvoiceEnds(o, k)
    \/ \E k, next \in Txns : SwitchCoin(o, k, next)

CallbackNext(w) == MarkUnpaid(w) \/ \E m \in sent : Audit(w, m)

SweepNext(s) ==
    \/ StartPass(s) \/ QueryPaid(s) \/ QueryOpen(s)
    \/ \E o \in Orders : ReadInvoiceId(s, o)

Activate(p) ==
    \/ AlreadyClosed(p) \/ Claim(p) \/ Blocked(p)
    \/ CreateAccount(p) \/ CreateReplyLost(p) \/ ActivationFails(p)
    \/ RenewAccount(p) \/ ChangeGroup(p) \/ InsertRow(p) \/ UpdateRow(p)
    \/ ReadUsage(p) \/ WriteUsage(p) \/ MarkPaid(p)
    \/ Deliver(p) \/ DeliveryFails(p)

Next ==
    \/ \E o \in Orders : BuyerNext(o)
    \/ \E w \in Callbacks : CallbackNext(w)
    \/ \E s \in Sweeps : SweepNext(s)
    \/ \E p \in Procs : Activate(p)
    \/ Crash

Spec == Init /\ [][Next]_vars

\* A started handler and the sweep loop keep running (asyncio) and a row lock
\* is granted in turn (PostgreSQL queues its waiters): strong fairness of
\* Activate, whose steps only ever wait for a lock.  Outages of IBSng and of
\* Plisio's API end.  No fairness for callbacks' arrival.
Fairness ==
    /\ \A p \in Procs : SF_vars(Activate(p))
    /\ \A s \in Sweeps :
          /\ WF_vars(SweepNext(s))
          /\ <>[][~ActivationFails(s) /\ ~QueryFails(s)]_vars

FairSpec == Spec /\ Fairness

-----------------------------------------------------------------------------
(* Properties *)

\* Every variable keeps its type.
TypeOK ==
    /\ status \in [Orders -> Statuses]
    /\ txn \in [Orders -> Txns \cup {None}]
    /\ linked \in [Orders -> BOOLEAN]
    /\ aged \subseteq Orders
    /\ holder \in [Orders -> Procs \cup {None}]
    /\ account \in [Orders -> BOOLEAN]
    /\ row \in [Orders -> BOOLEAN]
    /\ renewals \in [Orders -> Nat]
    /\ used \in Nat
    /\ counted \in [Orders -> Nat]
    /\ invoice \in [Orders -> [Txns -> PlisioStatuses]]
    /\ sent \subseteq CallbackMsg
    /\ told \subseteq Orders
    /\ delivered \in [Orders -> Nat]
    /\ pc \in [Procs -> Locations]
    /\ ord \in [Procs -> Orders \cup {None}]
    /\ want \in [Procs -> {"progress", "paid", "partially_paid", "failed"}]
    /\ seen \in [Procs -> Txns \cup {None}]
    /\ tally \in [Procs -> Nat]
    /\ todo \in [Procs -> SUBSET Orders]
    /\ crashes \in 0..MaxCrashes

\* The service the order paid for exists on our side.
Served(o) == IF o \in Renewals THEN renewals[o] > 0 ELSE row[o]

\* What an order looks like from outside: see OrderLifecycle.
Lifecycle == INSTANCE OrderLifecycle WITH
    state     <- [o \in Orders |-> IF status[o] \in OpenStatuses THEN "open" ELSE status[o]],
    money     <- {o \in Orders : Completed(o)},
    served    <- {o \in Orders : Served(o)},
    delivered <- delivered

\* The pipeline, with every interleaving and failure in it, does nothing an
\* order's life cycle does not allow: no money is taken for a failed order,
\* no order is served twice, closed unserved or failed with its money in.
KeepsLifecycle == Lifecycle!Spec

\* A paid order was provisioned: its account exists in IBSng and locally,
\* the order points at it, and a renewal was carried out - whatever process
\* did it, and wherever others were interrupted.
PaidIsServed ==
    \A o \in Orders : status[o] = "paid" => Served(o) /\ account[o] /\ linked[o]

\* Nothing is provisioned, counted or delivered for an order that Plisio
\* does not hold completed, however callbacks and sweeps interleave.
ServedIsPaidFor ==
    \A o \in Orders :
        \/ Completed(o)
        \/ /\ o \in Renewals \/ ~account[o]
           /\ renewals[o] = 0 /\ counted[o] = 0 /\ delivered[o] = 0

\* An order closed as failed was not paid at Plisio: no callback for an
\* abandoned or expired invoice closes an order whose money arrived.
FailedIsUnpaid ==
    \A o \in Orders : status[o] = "failed" => ~Completed(o)

\* A purchase is served once: its credentials go out at most once, its
\* discount is counted at most once, and never two processes are finishing
\* it, although the row lock is given up in the middle of activation.
PurchaseServedOnce ==
    \A o \in Orders \ Renewals :
        /\ delivered[o] <= 1 /\ counted[o] <= 1
        /\ \A p, q \in Procs :
              (ord[p] = o /\ ord[q] = o /\ pc[p] \in ServedAt /\ pc[q] \in ServedAt) => p = q

\* An order that is paid or failed stays what it is: late, repeated and
\* reordered callbacks and an unlocked MarkPaid change nothing.
ClosedStays ==
    [][\A o \in Orders : status[o] \in TerminalStatuses => status'[o] = status[o]]_vars

\* IBSng has the account of an open purchase and nobody is about to make use
\* of it: its answer was lost, or a restart cut the activation.  Every later
\* attempt meets the account and is Blocked.
Stranded(o) ==
    /\ o \notin Renewals /\ account[o] /\ status[o] \in OpenStatuses
    /\ \A p \in Procs : ord[p] = o => pc[p] \notin {"insert"} \cup ServedAt

\* The reconciler closes the hole the callback leaves: an order whose
\* invoice Plisio holds completed is eventually paid, even if no callback
\* is ever delivered, IBSng, Plisio's API and Telegram fail for a while,
\* answers are lost and the process restarts.  Only a purchase can be left,
\* stranded with an account in IBSng, and only an order of more than 72 hours.
CompletedIsSettled ==
    \A o \in Orders : Completed(o) ~> status[o] = "paid" \/ Stranded(o) \/ o \in aged

\* What app/services/payments/reconcile.py says of every order.
CompletedIsPaid == \A o \in Orders : Completed(o) ~> status[o] = "paid"
=============================================================================
