--------------------------- MODULE PaymentsProofs ---------------------------
(***************************************************************************)
(* The properties of Payments, for every number of orders, invoices per    *)
(* order, concurrent callbacks and sweeps, and restarts.                   *)
(*                                                                         *)
(* The inductive invariant behind them comes in three layers, each         *)
(* inductive relative to the ones below: who holds a row lock (LockInv),   *)
(* what every process and every row may believe about Plisio (MoneyInv),   *)
(* and what has been provisioned, counted and delivered for an order       *)
(* (ServiceInv).  With it every step of Payments is a step of the life     *)
(* cycle of one order, or a stutter: OrderLifecycle.                       *)
(***************************************************************************)
EXTENDS Payments, TLAPS

\* A process that is doing something works on an order.
OrdInv == \A p \in Procs : pc[p] = "idle" \/ ord[p] \in Orders

TypeInv == TypeOK /\ OrdInv

-----------------------------------------------------------------------------
(* Type correctness *)

LEMMA MessageType ==
  ASSUME NEW o \in Orders, NEW k \in Txns, NEW raw \in PlisioStatuses \ {"none"}
  PROVE  Message(o, k, raw) \in CallbackMsg
  BY DEF Message, CallbackMsg

LEMMA MessageFields ==
  ASSUME NEW m \in CallbackMsg
  PROVE  m.order \in Orders /\ m.txn \in Txns
  BY DEF CallbackMsg

LEMMA FinalStatusType ==
  ASSUME NEW raw
  PROVE  FinalStatus(raw) \in {"progress", "paid", "partially_paid", "failed"}
  BY DEF FinalStatus

LEMMA AnnounceType ==
  ASSUME TypeInv, NEW o \in Orders, NEW k \in Txns,
         NEW raw \in PlisioStatuses \ {"none"}, Announce(o, k, raw)
  PROVE  TypeInv'
<1>1. sent' \subseteq CallbackMsg
  BY MessageType DEF Announce, TypeInv, TypeOK
<1>2. invoice' \in [Orders -> [Txns -> PlisioStatuses]]
  BY DEF Announce, TypeInv, TypeOK
<1> QED
  BY <1>1, <1>2 DEF Announce, TypeInv, TypeOK, OrdInv, payVars, svcVars,
     usageVars, buyerVars, procVars

LEMMA TypeInit == Init => TypeInv
  BY OrderAssumption, TxnAssumption, FaultAssumption
  DEF Init, TypeInv, TypeOK, OrdInv, Statuses, PlisioStatuses, Locations

LEMMA TypeStep == ASSUME TypeInv, [Next]_vars PROVE TypeInv'
<1> USE ProcAssumption, TxnAssumption, NoneAssumption, FaultAssumption
<1>1. ASSUME NEW o \in Orders, Checkout(o)
     PROVE  TypeInv'
  BY <1>1 DEF TypeInv, TypeOK, OrdInv, Checkout, svcVars, usageVars,
      plisioVars, buyerVars, procVars, Statuses, OpenStatuses,
      TerminalStatuses
<1>2. ASSUME NEW o \in Orders, InvoiceCreated(o)
     PROVE  TypeInv'
  BY <1>2 DEF TypeInv, TypeOK, OrdInv, InvoiceCreated, Free, svcVars,
      usageVars, buyerVars, procVars, PlisioStatuses, ClosingStatuses
<1>3. ASSUME NEW o \in Orders, Age(o)
     PROVE  TypeInv'
  BY <1>3 DEF TypeInv, TypeOK, OrdInv, Age, payVars, svcVars, usageVars,
      plisioVars, buyerVars, procVars
<1>4. ASSUME NEW o \in Orders, NEW k \in Txns, BuyerPays(o, k)
     PROVE  TypeInv'
  BY <1>4, AnnounceType DEF BuyerPays, PlisioStatuses
<1>5. ASSUME NEW o \in Orders, NEW k \in Txns, InvoiceEnds(o, k)
     PROVE  TypeInv'
  BY <1>5, AnnounceType DEF InvoiceEnds, PlisioStatuses, ClosingStatuses
<1>6. ASSUME NEW o \in Orders, NEW k \in Txns, NEW next \in Txns, SwitchCoin(o, k, next)
     PROVE  TypeInv'
  <2>1. sent' \subseteq CallbackMsg
    <3>1. Message(o, k, "cancelled duplicate") \in CallbackMsg
      BY MessageType DEF PlisioStatuses
    <3>2. Message(o, next, "pending") \in CallbackMsg
      BY MessageType DEF PlisioStatuses
    <3> QED
      BY <1>6, <3>1, <3>2 DEF SwitchCoin, TypeInv, TypeOK
  <2>2. invoice' \in [Orders -> [Txns -> PlisioStatuses]]
    <3> DEFINE switched == [invoice[o] EXCEPT ![k] = "cancelled duplicate",
                                             ![next] = "pending"]
    <3>1. switched \in [Txns -> PlisioStatuses]
      BY DEF TypeInv, TypeOK, PlisioStatuses
    <3>2. invoice' = [invoice EXCEPT ![o] = switched]
      BY <1>6 DEF SwitchCoin
    <3> QED
      BY <3>1, <3>2 DEF TypeInv, TypeOK
  <2> QED
    BY <1>6, <2>1, <2>2 DEF SwitchCoin, TypeInv, TypeOK, OrdInv, payVars,
       svcVars, usageVars, buyerVars, procVars
<1>7. ASSUME NEW w \in Callbacks, NEW m \in sent, Audit(w, m)
     PROVE  TypeInv'
  <2>1. m.order \in Orders /\ m.txn \in Txns
    BY <1>7, MessageFields DEF TypeInv, TypeOK
  <2>2. txn' \in [Orders -> Txns \cup {None}]
    BY <1>7, <2>1 DEF Audit, TypeInv, TypeOK
  <2>3. CASE FinalStatus(m.raw) = "progress"
    BY <1>7, <2>2, <2>3 DEF Audit, TypeInv, TypeOK, OrdInv, svcVars, usageVars,
       plisioVars, buyerVars, procVars
  <2>4. CASE FinalStatus(m.raw) # "progress"
    <3>1. w \in Procs /\ "decide" \in Locations
      BY DEF Procs, Locations
    <3>2. /\ pc' = [pc EXCEPT ![w] = "decide"]
          /\ ord' = [ord EXCEPT ![w] = m.order]
      BY <1>7, <2>4 DEF Audit, Goto
    <3>3. pc' \in [Procs -> Locations] /\ ord' \in [Procs -> Orders \cup {None}]
      BY <2>1, <3>1, <3>2 DEF TypeInv, TypeOK
    <3>4. want' \in [Procs -> {"progress", "paid", "partially_paid", "failed"}]
      <4>1. FinalStatus(m.raw) \in {"progress", "paid", "partially_paid", "failed"}
        BY FinalStatusType
      <4> QED
        BY <1>7, <2>4, <4>1 DEF Audit, TypeInv, TypeOK
    <3>5. OrdInv'
      BY <2>1, <3>2 DEF TypeInv, TypeOK, OrdInv
    <3> QED
      BY <1>7, <2>2, <2>4, <3>3, <3>4, <3>5 DEF Audit, TypeInv, TypeOK, svcVars,
         usageVars, plisioVars, buyerVars
  <2> QED
    BY <2>3, <2>4
<1>8. ASSUME NEW w \in Callbacks, MarkUnpaid(w)
     PROVE  TypeInv'
  BY <1>8 DEF TypeInv, TypeOK, OrdInv, MarkUnpaid, Finish, Free, svcVars,
      usageVars, plisioVars, buyerVars, Locations, LockedAt, ServedAt,
      Statuses, OpenStatuses, TerminalStatuses, Procs
<1>9. ASSUME NEW s \in Sweeps, StartPass(s)
     PROVE  TypeInv'
  BY <1>9 DEF TypeInv, TypeOK, OrdInv, StartPass, payVars, svcVars, usageVars,
      plisioVars, buyerVars, Procs
<1>10. ASSUME NEW s \in Sweeps, NEW o \in Orders, ReadInvoiceId(s, o)
     PROVE  TypeInv'
  BY <1>10 DEF TypeInv, TypeOK, OrdInv, ReadInvoiceId, Goto, payVars, svcVars,
      usageVars, plisioVars, buyerVars, Locations, LockedAt, ServedAt, Procs
<1>11. ASSUME NEW s \in Sweeps, QueryPaid(s)
     PROVE  TypeInv'
  BY <1>11 DEF TypeInv, TypeOK, OrdInv, QueryPaid, Goto, payVars, svcVars,
      usageVars, plisioVars, buyerVars, Locations, LockedAt, ServedAt, Procs
<1>12. ASSUME NEW s \in Sweeps, QueryOpen(s)
     PROVE  TypeInv'
  BY <1>12 DEF TypeInv, TypeOK, OrdInv, QueryOpen, Finish, payVars, svcVars,
      usageVars, plisioVars, buyerVars, Locations, LockedAt, ServedAt, Procs
<1>13. ASSUME NEW p \in Procs, AlreadyClosed(p)
     PROVE  TypeInv'
  BY <1>13 DEF TypeInv, TypeOK, OrdInv, AlreadyClosed, Finish, Free, payVars,
      svcVars, usageVars, plisioVars, buyerVars, Locations, LockedAt, ServedAt
<1>14. ASSUME NEW p \in Procs, Claim(p)
     PROVE  TypeInv'
  BY <1>14 DEF TypeInv, TypeOK, OrdInv, Claim, Goto, Lock, Free, payVars,
      svcVars, usageVars, plisioVars, buyerVars, Locations, LockedAt, ServedAt
<1>15. ASSUME NEW p \in Procs, Blocked(p)
     PROVE  TypeInv'
  BY <1>15 DEF TypeInv, TypeOK, OrdInv, Blocked, Finish, Release, payVars,
      svcVars, usageVars, plisioVars, Locations, LockedAt, ServedAt
<1>16. ASSUME NEW p \in Procs, CreateAccount(p)
     PROVE  TypeInv'
  BY <1>16 DEF TypeInv, TypeOK, OrdInv, CreateAccount, Goto, payVars,
      usageVars, plisioVars, buyerVars, Locations, LockedAt, ServedAt
<1>17. ASSUME NEW p \in Procs, CreateReplyLost(p)
     PROVE  TypeInv'
  BY <1>17 DEF TypeInv, TypeOK, OrdInv, CreateReplyLost, Finish, Release,
      payVars, usageVars, plisioVars, buyerVars, Locations, LockedAt, ServedAt
<1>18. ASSUME NEW p \in Procs, ActivationFails(p)
     PROVE  TypeInv'
  BY <1>18 DEF TypeInv, TypeOK, OrdInv, ActivationFails, Finish, Release,
      payVars, svcVars, usageVars, plisioVars, buyerVars, Locations, LockedAt,
      ServedAt
<1>19. ASSUME NEW p \in Procs, RenewAccount(p)
     PROVE  TypeInv'
  BY <1>19 DEF TypeInv, TypeOK, OrdInv, RenewAccount, Goto, payVars, svcVars,
      usageVars, plisioVars, buyerVars, Locations, LockedAt, ServedAt
<1>20. ASSUME NEW p \in Procs, ChangeGroup(p)
     PROVE  TypeInv'
  BY <1>20 DEF TypeInv, TypeOK, OrdInv, ChangeGroup, Goto, payVars, svcVars,
      usageVars, plisioVars, buyerVars, Locations, LockedAt, ServedAt
<1>21. ASSUME NEW p \in Procs, InsertRow(p)
     PROVE  TypeInv'
  BY <1>21 DEF TypeInv, TypeOK, OrdInv, InsertRow, Goto, Release,
      AfterService, payVars, usageVars, plisioVars, buyerVars, Locations,
      LockedAt, ServedAt
<1>22. ASSUME NEW p \in Procs, UpdateRow(p)
     PROVE  TypeInv'
  BY <1>22 DEF TypeInv, TypeOK, OrdInv, UpdateRow, Goto, Release,
      AfterService, payVars, usageVars, plisioVars, buyerVars, Locations,
      LockedAt, ServedAt
<1>23. ASSUME NEW p \in Procs, ReadUsage(p)
     PROVE  TypeInv'
  BY <1>23 DEF TypeInv, TypeOK, OrdInv, ReadUsage, Goto, Lock, payVars, svcVars,
      usageVars, plisioVars, buyerVars, Locations, LockedAt, ServedAt
<1>24. ASSUME NEW p \in Procs, WriteUsage(p)
     PROVE  TypeInv'
  BY <1>24 DEF TypeInv, TypeOK, OrdInv, WriteUsage, Goto, Release, svcVars,
      plisioVars, buyerVars, Locations, LockedAt, ServedAt
<1>25. ASSUME NEW p \in Procs, MarkPaid(p)
     PROVE  TypeInv'
  BY <1>25 DEF TypeInv, TypeOK, OrdInv, MarkPaid, Goto, Free, svcVars,
      usageVars, plisioVars, buyerVars, Locations, LockedAt, ServedAt,
      Statuses, OpenStatuses, TerminalStatuses
<1>26. ASSUME NEW p \in Procs, Deliver(p)
     PROVE  TypeInv'
  BY <1>26 DEF TypeInv, TypeOK, OrdInv, Deliver, Finish, payVars, svcVars,
      usageVars, plisioVars, Locations, LockedAt, ServedAt
<1>27. ASSUME NEW p \in Procs, DeliveryFails(p)
     PROVE  TypeInv'
  BY <1>27 DEF TypeInv, TypeOK, OrdInv, DeliveryFails, Finish, payVars,
      svcVars, usageVars, plisioVars, buyerVars, Locations, LockedAt, ServedAt
<1>28. CASE Crash
  BY <1>28 DEF TypeInv, TypeOK, OrdInv, Crash, payVars, svcVars, usageVars,
      plisioVars, buyerVars, Locations, LockedAt, ServedAt
<1>29. CASE UNCHANGED vars
  BY <1>29 DEF TypeInv, TypeOK, OrdInv, vars, payVars, svcVars, usageVars,
      plisioVars, buyerVars, procVars
<1> QED
  BY <1>1, <1>2, <1>3, <1>4, <1>5, <1>6, <1>7, <1>8, <1>9, <1>10, <1>11,
      <1>12, <1>13, <1>14, <1>15, <1>16, <1>17, <1>18, <1>19, <1>20, <1>21,
      <1>22, <1>23, <1>24, <1>25, <1>26, <1>27, <1>28, <1>29 DEF Next,
      BuyerNext, CallbackNext, SweepNext, Activate

\* Every variable of the pipeline keeps its type.
THEOREM TypeCorrect == Spec => []TypeOK
<1>1. Spec => []TypeInv
  BY TypeInit, TypeStep, PTL DEF Spec
<1>2. TypeInv => TypeOK
  BY DEF TypeInv
<1> QED
  BY <1>1, <1>2, PTL

-----------------------------------------------------------------------------
(* The invariant *)

ActiveAt == {"claim", "deliver"} \cup LockedAt \cup ServedAt
AfterRow == ServedAt \cup {"deliver"}

\* A process between its locking SELECT and its next commit holds the row.
HoldsRow(p) == pc[p] \in LockedAt \/ (pc[p] = "recount" /\ ord[p] \notin Renewals)

LockInv == \A p \in Procs : HoldsRow(p) => holder[ord[p]] = p

-----------------------------------------------------------------------------
(* What is known about Plisio *)

Dead == {"none", "cancelled duplicate"}

\* An order has one live invoice at most, and none before InvoiceCreated.
InvoiceInv ==
    \A o \in Orders :
        /\ \A k, l \in Txns : k # l => invoice[o][k] \in Dead \/ invoice[o][l] \in Dead
        /\ txn[o] = None => \A k \in Txns : invoice[o][k] = "none"

\* A callback that announces an end tells the truth, however late it is.
SentInv ==
    \A m \in sent :
        /\ m.raw = "completed" => invoice[m.order][m.txn] = "completed"
        /\ m.raw \in ClosingStatuses => invoice[m.order][m.txn] \in ClosingStatuses

\* The reconciler asks about an invoice, never about NULL.
SeenInv ==
    /\ \A s \in Sweeps : \A o \in todo[s] : txn[o] # None
    /\ \A p \in Procs : pc[p] = "query" => seen[p] \in Txns

\* What a process decided, and what it is carrying out, is true at Plisio.
WorkInv ==
    \A p \in Procs :
        /\ pc[p] = "decide" /\ want[p] = "paid" => Completed(ord[p])
        /\ pc[p] = "decide" /\ want[p] = "failed" => Closed(ord[p])
        /\ pc[p] \in ActiveAt => Completed(ord[p])

\* So is what the order's row says.
StatusInv ==
    \A o \in Orders :
        /\ status[o] = "paid" => Completed(o)
        /\ status[o] = "failed" => Closed(o)

\* Nothing happens to an order before its row is committed.
NewInv ==
    /\ \A o \in Orders : status[o] = "none" => txn[o] = None
    /\ \A p \in Procs : pc[p] # "idle" => status[ord[p]] # "none"

MoneyInv == NewInv /\ InvoiceInv /\ SentInv /\ SeenInv /\ WorkInv /\ StatusInv

-----------------------------------------------------------------------------
(* What has been done for an order *)

\* A row has an account; what a renewal renews is there from the start.
AccountInv ==
    \A o \in Orders :
        /\ row[o] => account[o]
        /\ o \in Renewals => row[o] /\ linked[o]

\* How far a process got with its order is how far the order got.
StepInv ==
    \A p \in Procs :
        /\ pc[p] = "insert" => ord[p] \notin Renewals /\ account[ord[p]] /\ ~row[ord[p]]
        /\ pc[p] \in {"regroup", "update"} => ord[p] \in Renewals
        /\ pc[p] \in AfterRow => Served(ord[p])
        /\ pc[p] = "deliver" => status[ord[p]] = "paid"

\* Of the processes that work on a purchase, one at most gets past the row,
\* and whatever comes after the row has not happened before it.
OnceInv ==
    /\ \A p \in Procs : pc[p] \in AfterRow /\ ord[p] \notin Renewals =>
          /\ delivered[ord[p]] = 0
          /\ pc[p] \in {"count", "recount"} => counted[ord[p]] = 0
          /\ \A q \in Procs : pc[q] \in AfterRow /\ ord[q] = ord[p] => q = p
    /\ \A o \in Orders \ Renewals : ~row[o] => counted[o] = 0 /\ delivered[o] = 0

\* Credentials are only ever sent for an order that is marked paid.
SentAfterPaid == \A o \in Orders : delivered[o] > 0 => status[o] = "paid"

CountInv == \A o \in Orders \ Renewals : delivered[o] <= 1 /\ counted[o] <= 1

ServiceInv ==
    /\ AccountInv /\ StepInv /\ OnceInv /\ CountInv
    /\ PaidIsServed /\ ServedIsPaidFor /\ SentAfterPaid

-----------------------------------------------------------------------------
(* The row locks *)

LEMMA LockStep == ASSUME TypeInv, LockInv, [Next]_vars PROVE LockInv'
<1> USE ProcAssumption, NoneAssumption
        DEF TypeInv, TypeOK, OrdInv, LockInv, HoldsRow, LockedAt, ServedAt
\* Steps that leave locks and processes alone.
<1>1. CASE UNCHANGED <<pc, ord, holder>>
  BY <1>1
<1>2. ASSUME NEW o \in Orders, BuyerNext(o)
      PROVE  UNCHANGED <<pc, ord, holder>>
  BY <1>2 DEF BuyerNext, Checkout, InvoiceCreated, Age, BuyerPays, InvoiceEnds,
     SwitchCoin, Announce, procVars
\* Steps of a process that holds no lock before or after.
<1>3. ASSUME NEW w \in Callbacks, NEW m \in sent, Audit(w, m)
      PROVE  LockInv'
  BY <1>3 DEF Audit, Goto, procVars, Procs
<1>4. ASSUME NEW w \in Callbacks, MarkUnpaid(w)
      PROVE  LockInv'
  BY <1>4 DEF MarkUnpaid, Finish, Procs
<1>5. ASSUME NEW s \in Sweeps, SweepNext(s)
      PROVE  LockInv'
  BY <1>5 DEF SweepNext, StartPass, ReadInvoiceId, QueryPaid, QueryOpen, Goto, Finish, Procs
<1>6. ASSUME NEW p \in Procs,
             AlreadyClosed(p) \/ MarkPaid(p) \/ Deliver(p) \/ DeliveryFails(p)
      PROVE  LockInv'
  BY <1>6 DEF AlreadyClosed, MarkPaid, Deliver, DeliveryFails, Goto, Finish
\* Steps that take the lock, keep it and give it up.
<1>7. ASSUME NEW p \in Procs, Claim(p) \/ ReadUsage(p)
      PROVE  LockInv'
  BY <1>7 DEF Claim, ReadUsage, Free, Lock, Goto
<1>8. ASSUME NEW p \in Procs, CreateAccount(p) \/ RenewAccount(p) \/ ChangeGroup(p)
      PROVE  LockInv'
  BY <1>8 DEF CreateAccount, RenewAccount, ChangeGroup, Goto
<1>9. ASSUME NEW p \in Procs, Blocked(p) \/ CreateReplyLost(p) \/ ActivationFails(p)
      PROVE  LockInv'
  <2>1. pc' = [pc EXCEPT ![p] = "idle"] /\ ord' = [ord EXCEPT ![p] = None]
    BY <1>9 DEF Blocked, CreateReplyLost, ActivationFails, Finish
  <2>2. HoldsRow(p) /\ holder' = [holder EXCEPT ![ord[p]] = None]
    BY <1>9 DEF Blocked, CreateReplyLost, ActivationFails, Release
  <2> QED
    BY <2>1, <2>2
<1>10. ASSUME NEW p \in Procs, InsertRow(p) \/ UpdateRow(p) \/ WriteUsage(p)
       PROVE  LockInv'
  <2>1. /\ UNCHANGED ord
        /\ pc' = [pc EXCEPT ![p] = "count"] \/ pc' = [pc EXCEPT ![p] = "close"]
    BY <1>10 DEF InsertRow, UpdateRow, WriteUsage, Goto, AfterService
  <2>2. \/ HoldsRow(p) /\ holder' = [holder EXCEPT ![ord[p]] = None]
        \/ UNCHANGED holder
    BY <1>10 DEF InsertRow, UpdateRow, WriteUsage, Release
  <2> QED
    BY <2>1, <2>2
<1>11. CASE Crash
  BY <1>11 DEF Crash
<1>12. CASE UNCHANGED vars
  BY <1>1, <1>12 DEF vars, procVars
<1> QED
  BY <1>1, <1>2, <1>3, <1>4, <1>5, <1>6, <1>7, <1>8, <1>9, <1>10, <1>11, <1>12
  DEF Next, CallbackNext, Activate

-----------------------------------------------------------------------------
(* What is known about Plisio *)

\* The steps that touch an invoice, the invoice id or the callbacks.
LEMMA PlisioSteps ==
  ASSUME [Next]_vars
  PROVE  \/ UNCHANGED <<invoice, txn, sent>>
         \/ \E o \in Orders : InvoiceCreated(o)
         \/ \E o \in Orders, k \in Txns : BuyerPays(o, k) \/ InvoiceEnds(o, k)
         \/ \E o \in Orders, k, next \in Txns : SwitchCoin(o, k, next)
         \/ \E w \in Callbacks, m \in sent : Audit(w, m)
<1> DEFINE Same == UNCHANGED <<invoice, txn, sent>>
<1>1. ASSUME NEW o \in Orders, Checkout(o) \/ Age(o)
      PROVE  Same
  BY <1>1 DEF Checkout, Age, payVars, plisioVars
<1>2. ASSUME NEW w \in Callbacks, MarkUnpaid(w)
      PROVE  Same
  BY <1>2 DEF MarkUnpaid, plisioVars
<1>3. ASSUME NEW s \in Sweeps, SweepNext(s)
      PROVE  Same
  BY <1>3 DEF SweepNext, StartPass, ReadInvoiceId, QueryPaid, QueryOpen, payVars,
     plisioVars
<1>4. ASSUME NEW p \in Procs, Activate(p)
      PROVE  Same
  BY <1>4 DEF Activate, AlreadyClosed, Claim, Blocked, CreateAccount, CreateReplyLost,
     ActivationFails, RenewAccount, ChangeGroup, InsertRow, UpdateRow, ReadUsage,
     WriteUsage, MarkPaid, Deliver, DeliveryFails, payVars, plisioVars
<1>5. CASE Crash
  BY <1>5 DEF Crash, payVars, plisioVars
<1>6. CASE UNCHANGED vars
  BY <1>6 DEF vars, payVars, plisioVars
<1> QED
  BY <1>1, <1>2, <1>3, <1>4, <1>5, <1>6 DEF Next, BuyerNext, CallbackNext

LEMMA InvoiceStep == ASSUME TypeInv, InvoiceInv, [Next]_vars PROVE InvoiceInv'
<1> DEFINE Typed == invoice \in [Orders -> [Txns -> PlisioStatuses]] /\ txn \in [Orders -> Txns \cup {None}]
<1>0. Typed
  BY DEF TypeInv, TypeOK
<1>1. CASE UNCHANGED <<invoice, txn, sent>>
  BY <1>1 DEF InvoiceInv
<1>2. ASSUME NEW o \in Orders, InvoiceCreated(o)
      PROVE  InvoiceInv'
  <2>1. invoice' = [invoice EXCEPT ![o][FirstTxn] = "pending"] /\ txn' = [txn EXCEPT ![o] = FirstTxn]
    BY <1>2 DEF InvoiceCreated
  <2>2. \A k \in Txns : invoice[o][k] = "none"
    BY <1>2 DEF InvoiceCreated, InvoiceInv
  <2>3. \A k \in Txns \ {FirstTxn} : invoice'[o][k] = "none"
    <3>1. invoice'[o] = [invoice[o] EXCEPT ![FirstTxn] = "pending"]
      BY <1>0, <2>1
    <3>2. invoice[o] \in [Txns -> PlisioStatuses]
      BY <1>0
    <3> QED
      BY <2>2, <3>1, <3>2
  <2>4. \A q \in Orders \ {o} : invoice'[q] = invoice[q] /\ txn'[q] = txn[q]
    BY <1>0, <2>1
  <2>5. txn'[o] # None
    BY <1>0, <2>1, TxnAssumption
  <2>6. \A q \in Orders \ {o} :
          /\ \A k, l \in Txns : k # l => invoice'[q][k] \in Dead \/ invoice'[q][l] \in Dead
          /\ txn'[q] = None => \A k \in Txns : invoice'[q][k] = "none"
    BY <2>4 DEF InvoiceInv
  <2>7. \A k, l \in Txns : k # l => invoice'[o][k] \in Dead \/ invoice'[o][l] \in Dead
    BY <2>3 DEF Dead
  <2> QED
    BY <2>5, <2>6, <2>7 DEF InvoiceInv
<1>3. ASSUME NEW o \in Orders, NEW k \in Txns, NEW raw, Announce(o, k, raw),
             invoice[o][k] \in {"pending", "underpaid"}
      PROVE  InvoiceInv'
  <2>1. invoice' = [invoice EXCEPT ![o][k] = raw] /\ txn' = txn
    BY <1>3 DEF Announce, payVars
  <2>2. \A l \in Txns \ {k} : invoice'[o][l] = invoice[o][l] /\ invoice[o][l] \in Dead
    BY <1>0, <1>3, <2>1 DEF InvoiceInv, Dead
  <2>3. \A q \in Orders \ {o} : invoice'[q] = invoice[q]
    BY <1>0, <2>1
  <2>4. txn[o] # None
    BY <1>3 DEF InvoiceInv
  <2> QED
    BY <2>1, <2>2, <2>3, <2>4 DEF InvoiceInv
<1>4. ASSUME NEW o \in Orders, NEW k \in Txns, NEW next \in Txns,
             SwitchCoin(o, k, next)
      PROVE  InvoiceInv'
  <2>1. /\ invoice' = [invoice EXCEPT ![o] = [@ EXCEPT ![k] = "cancelled duplicate", ![next] = "pending"]]
        /\ txn' = txn /\ invoice[o][k] = "pending" /\ invoice[o][next] = "none"
    BY <1>4 DEF SwitchCoin, payVars
  <2>2. \A l \in Txns \ {next} : invoice'[o][l] \in Dead
    <3>1. \A l \in Txns \ {k} : invoice[o][l] \in Dead
      BY <2>1 DEF InvoiceInv, Dead
    <3>2. \A l \in Txns \ {k, next} : invoice'[o][l] = invoice[o][l]
      BY <1>0, <2>1
    <3>3. k # next => invoice'[o][k] = "cancelled duplicate"
      BY <1>0, <2>1
    <3> QED
      BY <3>1, <3>2, <3>3 DEF Dead
  <2>3. \A q \in Orders \ {o} : invoice'[q] = invoice[q]
    BY <1>0, <2>1
  <2>4. txn[o] # None
    BY <2>1 DEF InvoiceInv
  <2> QED
    BY <2>1, <2>2, <2>3, <2>4 DEF InvoiceInv
<1>5. ASSUME NEW w \in Callbacks, NEW m \in sent, Audit(w, m)
      PROVE  InvoiceInv'
  <2>1. invoice' = invoice
    BY <1>5 DEF Audit, plisioVars
  <2>2. \A o \in Orders : txn'[o] = None => txn[o] = None
    BY <1>5, MessageFields, TxnAssumption DEF Audit, TypeInv, TypeOK
  <2> QED
    BY <2>1, <2>2 DEF InvoiceInv
<1> QED
  BY <1>1, <1>2, <1>3, <1>4, <1>5, PlisioSteps DEF BuyerPays, InvoiceEnds

LEMMA SentStep == ASSUME TypeInv, InvoiceInv, SentInv, [Next]_vars PROVE SentInv'
<1> USE TxnAssumption DEF TypeInv, TypeOK, CallbackMsg, ClosingStatuses
<1>1. CASE UNCHANGED <<invoice, txn, sent>>
  BY <1>1 DEF SentInv
<1>2. ASSUME NEW o \in Orders, InvoiceCreated(o)
      PROVE  SentInv'
  BY <1>2 DEF InvoiceCreated, InvoiceInv, SentInv
<1>3. ASSUME NEW o \in Orders, NEW k \in Txns, NEW raw, Announce(o, k, raw),
             invoice[o][k] \in {"pending", "underpaid"}
      PROVE  SentInv'
  BY <1>3 DEF Announce, Message, SentInv
<1>4. ASSUME NEW o \in Orders, NEW k \in Txns, NEW next \in Txns,
             SwitchCoin(o, k, next)
      PROVE  SentInv'
  <2>1. \A q \in Orders, l \in Txns :
          invoice[q][l] \in {"completed"} \cup ClosingStatuses => invoice'[q][l] = invoice[q][l]
    BY <1>4 DEF SwitchCoin
  <2>2. \A m \in sent' : m \in sent \/ m.raw \in {"cancelled duplicate", "pending"}
    <3>1. \A l, raw : Message(o, l, raw).raw = raw
      BY DEF Message
    <3>2. sent' = sent \cup {Message(o, k, "cancelled duplicate"), Message(o, next, "pending")}
      BY <1>4 DEF SwitchCoin
    <3> QED
      BY <3>1, <3>2
  <2> QED
    BY <2>1, <2>2 DEF SentInv
<1>5. ASSUME NEW w \in Callbacks, NEW m \in sent, Audit(w, m)
      PROVE  SentInv'
  BY <1>5 DEF Audit, plisioVars, SentInv
<1> QED
  BY <1>1, <1>2, <1>3, <1>4, <1>5, PlisioSteps DEF BuyerPays, InvoiceEnds

\* An invoice that is completed, or closed, stays so.
LEMMA PlisioKeeps ==
  ASSUME TypeInv, InvoiceInv, [Next]_vars, NEW o \in Orders, NEW k \in Txns,
         invoice[o][k] \in {"completed"} \cup ClosingStatuses
  PROVE  invoice'[o][k] = invoice[o][k]
<1> USE TxnAssumption DEF TypeInv, TypeOK, ClosingStatuses
<1>1. CASE UNCHANGED <<invoice, txn, sent>>
  BY <1>1
<1>2. ASSUME NEW q \in Orders, InvoiceCreated(q)
      PROVE  invoice'[o][k] = invoice[o][k]
  BY <1>2 DEF InvoiceCreated, InvoiceInv
<1>3. ASSUME NEW q \in Orders, NEW l \in Txns, NEW raw, Announce(q, l, raw),
             invoice[q][l] \in {"pending", "underpaid"}
      PROVE  invoice'[o][k] = invoice[o][k]
  BY <1>3 DEF Announce
<1>4. ASSUME NEW q \in Orders, NEW l \in Txns, NEW next \in Txns,
             SwitchCoin(q, l, next)
      PROVE  invoice'[o][k] = invoice[o][k]
  BY <1>4 DEF SwitchCoin
<1>5. ASSUME NEW w \in Callbacks, NEW m \in sent, Audit(w, m)
      PROVE  invoice'[o][k] = invoice[o][k]
  BY <1>5 DEF Audit, plisioVars
<1> QED
  BY <1>1, <1>2, <1>3, <1>4, <1>5, PlisioSteps DEF BuyerPays, InvoiceEnds

LEMMA Stable ==
  ASSUME TypeInv, InvoiceInv, [Next]_vars, NEW o \in Orders
  PROVE  (Completed(o) => Completed(o)') /\ (Closed(o) => Closed(o)')
  BY PlisioKeeps DEF Completed, Closed

\* No order is both paid for and closed at Plisio.
LEMMA NotBoth ==
  ASSUME InvoiceInv, NEW o \in Orders
  PROVE  ~(Completed(o) /\ Closed(o))
  BY DEF InvoiceInv, Completed, Closed, ClosingStatuses, Dead

\* The steps in which p goes on with its activation.
Works(p) ==
    \/ CreateAccount(p) \/ RenewAccount(p) \/ ChangeGroup(p) \/ InsertRow(p)
    \/ UpdateRow(p) \/ ReadUsage(p) \/ WriteUsage(p) \/ MarkPaid(p)

LEMMA WorksLocal ==
  ASSUME TypeInv, NEW p \in Procs, Works(p)
  PROVE  /\ pc[p] \in ActiveAt /\ pc'[p] \in ActiveAt
         /\ ord'[p] = ord[p] /\ ord[p] \in Orders
  BY DEF Works, CreateAccount, RenewAccount, ChangeGroup, InsertRow, UpdateRow, ReadUsage,
     WriteUsage, MarkPaid, Goto, AfterService, ActiveAt, LockedAt, ServedAt, TypeInv,
     TypeOK, OrdInv

\* What a step may do to a process.
LEMMA ProcSteps ==
  ASSUME TypeInv, [Next]_vars, NEW r \in Procs
  PROVE  \/ pc'[r] = pc[r] /\ ord'[r] = ord[r] /\ want'[r] = want[r]
         \/ pc'[r] = "idle"
         \/ r \in Sweeps /\ \E o \in Orders : ReadInvoiceId(r, o)
         \/ \E m \in sent : Audit(r, m)
         \/ QueryPaid(r)
         \/ Claim(r)
         \/ Works(r)
<1> USE ProcAssumption
<1> DEFINE Moved == \/ pc'[r] = pc[r] /\ ord'[r] = ord[r] /\ want'[r] = want[r]
                    \/ pc'[r] = "idle"
                    \/ r \in Sweeps /\ \E o \in Orders : ReadInvoiceId(r, o)
                    \/ \E m \in sent : Audit(r, m)
                    \/ QueryPaid(r)
                    \/ Claim(r)
                    \/ Works(r)
<1>1. ASSUME UNCHANGED <<pc, ord, want>>
      PROVE  Moved
  BY <1>1
<1>2. ASSUME NEW o \in Orders, BuyerNext(o)
      PROVE  Moved
  BY <1>1, <1>2 DEF BuyerNext, Checkout, InvoiceCreated, Age, BuyerPays, InvoiceEnds,
     SwitchCoin, Announce, procVars
<1>3. ASSUME NEW w \in Callbacks, NEW m \in sent, Audit(w, m)
      PROVE  Moved
  <2>1. CASE w = r
    BY <1>3, <2>1
  <2>2. CASE w # r
    <3>1. \/ UNCHANGED <<pc, ord, want>>
          \/ /\ pc' = [pc EXCEPT ![w] = "decide"]
             /\ ord' = [ord EXCEPT ![w] = m.order]
             /\ want' = [want EXCEPT ![w] = FinalStatus(m.raw)]
      BY <1>3 DEF Audit, Goto, procVars
    <3> QED
      BY <2>2, <3>1 DEF TypeInv, TypeOK
  <2> QED
    BY <2>1, <2>2
<1>4. ASSUME NEW s \in Sweeps, StartPass(s) \/ \E o \in Orders : ReadInvoiceId(s, o)
      PROVE  Moved
  <2>1. CASE s = r /\ ~StartPass(s)
    BY <1>4, <2>1
  <2>2. CASE s # r \/ StartPass(s)
    BY <1>4, <2>2 DEF StartPass, ReadInvoiceId, Goto, Procs, TypeInv, TypeOK
  <2> QED
    BY <2>1, <2>2
<1>5. ASSUME NEW p \in Procs,
             \/ (p \in Callbacks /\ MarkUnpaid(p)) \/ (p \in Sweeps /\ QueryOpen(p))
             \/ AlreadyClosed(p) \/ Blocked(p) \/ CreateReplyLost(p) \/ ActivationFails(p)
             \/ Deliver(p) \/ DeliveryFails(p)
      PROVE  Moved
  BY <1>5 DEF MarkUnpaid, QueryOpen, AlreadyClosed, Blocked, CreateReplyLost,
     ActivationFails, Deliver, DeliveryFails, Finish, TypeInv, TypeOK
<1>6. ASSUME NEW p \in Procs, QueryPaid(p) \/ Claim(p) \/ Works(p)
      PROVE  Moved
  <2>1. CASE p = r
    BY <1>6, <2>1
  <2>2. CASE p # r
    BY <1>6, <2>2 DEF QueryPaid, Claim, Works, CreateAccount, RenewAccount, ChangeGroup,
       InsertRow, UpdateRow, ReadUsage, WriteUsage, MarkPaid, Goto, TypeInv, TypeOK
  <2> QED
    BY <2>1, <2>2
<1>7. CASE Crash
  BY <1>7 DEF Crash, Procs
<1>8. CASE UNCHANGED vars
  BY <1>1, <1>8 DEF vars, procVars
<1>9. ASSUME NEW p \in Procs, Activate(p)
      PROVE  Moved
  BY <1>5, <1>6, <1>9 DEF Activate, Works
<1>10. ASSUME NEW w \in Callbacks, CallbackNext(w)
       PROVE  Moved
  <2>1. w \in Procs
    BY DEF Procs
  <2>2. CASE MarkUnpaid(w)
    BY <1>5, <2>1, <2>2
  <2> QED
    BY <1>3, <1>10, <2>2 DEF CallbackNext
<1>11. ASSUME NEW s \in Sweeps, SweepNext(s)
       PROVE  Moved
  BY <1>4, <1>5, <1>6, <1>11 DEF SweepNext, Procs
<1> QED
  BY <1>2, <1>7, <1>8, <1>9, <1>10, <1>11 DEF Next

LEMMA WorkStep ==
  ASSUME TypeInv, InvoiceInv, SentInv, SeenInv, WorkInv, [Next]_vars
  PROVE  WorkInv'
<1> DEFINE True(p) ==
      /\ pc[p] = "decide" /\ want[p] = "paid" => Completed(ord[p])
      /\ pc[p] = "decide" /\ want[p] = "failed" => Closed(ord[p])
      /\ pc[p] \in ActiveAt => Completed(ord[p])
<1>0. SUFFICES ASSUME NEW p \in Procs PROVE True(p)'
  BY DEF WorkInv
<1>1. True(p)
  BY DEF WorkInv
<1> HIDE DEF True
<1>2. CASE pc'[p] = pc[p] /\ ord'[p] = ord[p] /\ want'[p] = want[p]
  BY <1>1, <1>2, Stable DEF True, TypeInv, OrdInv, Completed, Closed, ActiveAt, LockedAt, ServedAt
<1>3. CASE pc'[p] = "idle" \/ \E o \in Orders : ReadInvoiceId(p, o)
  BY <1>3 DEF ReadInvoiceId, Goto, True, ActiveAt, LockedAt, ServedAt, TypeInv, TypeOK
<1>4. ASSUME NEW m \in sent, Audit(p, m)
      PROVE  True(p)'
  <2>1. m.order \in Orders /\ m.txn \in Txns
    BY MessageFields DEF TypeInv, TypeOK
  <2>2. CASE FinalStatus(m.raw) = "progress"
    BY <1>2, <1>4, <2>2 DEF Audit, procVars
  <2>3. CASE FinalStatus(m.raw) # "progress"
    <3>1. pc'[p] = "decide" /\ ord'[p] = m.order /\ want'[p] = FinalStatus(m.raw)
      BY <1>4, <2>3 DEF Audit, Goto, TypeInv, TypeOK
    <3>2. FinalStatus(m.raw) = "paid" => Completed(m.order)
      BY <2>1 DEF FinalStatus, SentInv, Completed
    <3>3. FinalStatus(m.raw) = "failed" => Closed(m.order)
      BY <2>1 DEF FinalStatus, SentInv, Closed
    <3> QED
      BY <2>1, <3>1, <3>2, <3>3, Stable DEF True, ActiveAt, LockedAt, ServedAt
  <2> QED
    BY <2>2, <2>3
<1>5. CASE QueryPaid(p)
  <2>1. ord[p] \in Orders /\ seen[p] \in Txns /\ invoice[ord[p]][seen[p]] = "completed"
    BY <1>5 DEF QueryPaid, TypeInv, OrdInv, SeenInv
  <2>2. pc'[p] = "claim" /\ ord'[p] = ord[p]
    BY <1>5 DEF QueryPaid, Goto, TypeInv, TypeOK
  <2> QED
    BY <2>1, <2>2, Stable DEF Completed, True
<1>6. CASE Claim(p)
  <2>1. ord[p] \in Orders /\ Completed(ord[p])
    BY <1>1, <1>6 DEF Claim, True, ActiveAt, TypeInv, OrdInv
  <2>2. pc'[p] = "provision" /\ ord'[p] = ord[p]
    BY <1>6 DEF Claim, Goto, TypeInv, TypeOK
  <2> QED
    BY <2>1, <2>2, Stable DEF True
<1>7. CASE Works(p)
  BY <1>1, <1>7, WorksLocal, Stable DEF True, Completed, ActiveAt, LockedAt, ServedAt
<1> QED
  BY <1>2, <1>3, <1>4, <1>5, <1>6, <1>7, ProcSteps

\* The steps that write a status.
LEMMA StatusWriters ==
  ASSUME [Next]_vars
  PROVE  \/ UNCHANGED status
         \/ \E o \in Orders : Checkout(o)
         \/ \E w \in Callbacks : MarkUnpaid(w)
         \/ \E p \in Procs : MarkPaid(p)
<1> DEFINE Same == UNCHANGED status
<1>1. ASSUME NEW q \in Orders, BuyerNext(q), ~Checkout(q)
      PROVE  Same
  BY <1>1 DEF BuyerNext, InvoiceCreated, Age, BuyerPays, InvoiceEnds, SwitchCoin,
     Announce, payVars
<1>2. ASSUME NEW w \in Callbacks, NEW m \in sent, Audit(w, m)
      PROVE  Same
  BY <1>2 DEF Audit
<1>3. ASSUME NEW s \in Sweeps, SweepNext(s)
      PROVE  Same
  BY <1>3 DEF SweepNext, StartPass, ReadInvoiceId, QueryPaid, QueryOpen, payVars
<1>4. ASSUME NEW p \in Procs, Activate(p), ~MarkPaid(p)
      PROVE  Same
  BY <1>4 DEF Activate, AlreadyClosed, Claim, Blocked, CreateAccount, CreateReplyLost,
     ActivationFails, RenewAccount, ChangeGroup, InsertRow, UpdateRow, ReadUsage,
     WriteUsage, Deliver, DeliveryFails, payVars
<1>5. CASE Crash
  BY <1>5 DEF Crash, payVars
<1>6. CASE UNCHANGED vars
  BY <1>6 DEF vars, payVars
<1> QED
  BY <1>1, <1>2, <1>3, <1>4, <1>5, <1>6 DEF Next, CallbackNext

\* What a step may do to an order's status.
LEMMA StatusSteps ==
  ASSUME TypeInv, [Next]_vars, NEW o \in Orders
  PROVE  \/ status'[o] = status[o]
         \/ status[o] = "none" /\ status'[o] = "pending"
         \/ \E w \in Callbacks : MarkUnpaid(w) /\ ord[w] = o
         \/ \E p \in Procs : MarkPaid(p) /\ ord[p] = o
<1>1. ASSUME NEW q \in Orders, Checkout(q)
      PROVE  \/ status'[o] = status[o]
             \/ status[o] = "none" /\ status'[o] = "pending"
  BY <1>1 DEF Checkout, TypeInv, TypeOK
<1>2. ASSUME NEW w \in Callbacks, MarkUnpaid(w), ord[w] # o
      PROVE  status'[o] = status[o]
  BY <1>2 DEF MarkUnpaid, TypeInv, TypeOK
<1>3. ASSUME NEW p \in Procs, MarkPaid(p), ord[p] # o
      PROVE  status'[o] = status[o]
  BY <1>3 DEF MarkPaid, TypeInv, TypeOK
<1> QED
  BY <1>1, <1>2, <1>3, StatusWriters

LEMMA SeenStep == ASSUME TypeInv, SeenInv, [Next]_vars PROVE SeenInv'
<1> USE ProcAssumption, TxnAssumption DEF TypeInv, TypeOK, SeenInv, Procs
\* No invoice id is ever cleared.
<1>1. \A o \in Orders : txn[o] # None => txn'[o] # None
  <2>1. ASSUME NEW w \in Callbacks, NEW m \in sent, Audit(w, m)
        PROVE  \E k \in Txns : txn' = [txn EXCEPT ![m.order] = k]
    BY <2>1, MessageFields DEF Audit
  <2>2. ASSUME NEW o \in Orders, InvoiceCreated(o)
        PROVE  txn' = [txn EXCEPT ![o] = FirstTxn]
    BY <2>2 DEF InvoiceCreated
  <2>3. \/ UNCHANGED txn
        \/ \E o, k : k \in Txns /\ txn' = [txn EXCEPT ![o] = k]
    BY <2>1, <2>2, PlisioSteps DEF BuyerPays, InvoiceEnds, SwitchCoin, Announce, payVars
  <2> QED
    BY <2>3
<1>2. ASSUME NEW s \in Sweeps, StartPass(s) \/ \E o \in Orders : ReadInvoiceId(s, o)
      PROVE  SeenInv'
  <2>1. CASE StartPass(s)
    BY <2>1 DEF StartPass, payVars
  <2>2. ASSUME NEW o \in Orders, ReadInvoiceId(s, o)
        PROVE  SeenInv'
    <3>1. txn[o] \in Txns
      BY <2>2 DEF ReadInvoiceId
    <3> QED
      BY <2>2, <3>1 DEF ReadInvoiceId, Goto, payVars
  <2> QED
    BY <1>2, <2>1, <2>2
\* Every other step can only end a lookup.
<1>3. ASSUME UNCHANGED todo, UNCHANGED seen,
             \A p \in Procs : pc'[p] = "query" => pc[p] = "query"
      PROVE  SeenInv'
  BY <1>1, <1>3
<1>4. ASSUME UNCHANGED todo,
             \A p \in Procs : pc'[p] = "query" => pc[p] = "query" /\ seen'[p] = seen[p]
      PROVE  SeenInv'
  BY <1>1, <1>4
<1>5. ASSUME NEW o \in Orders, BuyerNext(o)
      PROVE  SeenInv'
  BY <1>3, <1>5 DEF BuyerNext, Checkout, InvoiceCreated, Age, BuyerPays, InvoiceEnds,
     SwitchCoin, Announce, procVars
<1>6. ASSUME NEW w \in Callbacks, NEW m \in sent, Audit(w, m)
      PROVE  SeenInv'
  BY <1>3, <1>6 DEF Audit, Goto, procVars
<1>7. ASSUME NEW p \in Procs,
             \/ (p \in Callbacks /\ MarkUnpaid(p)) \/ (p \in Sweeps /\ QueryOpen(p))
             \/ AlreadyClosed(p) \/ Blocked(p) \/ CreateReplyLost(p) \/ ActivationFails(p)
             \/ Deliver(p) \/ DeliveryFails(p)
      PROVE  SeenInv'
  BY <1>4, <1>7 DEF MarkUnpaid, QueryOpen, AlreadyClosed, Blocked, CreateReplyLost,
     ActivationFails, Deliver, DeliveryFails, Finish
<1>8. ASSUME NEW p \in Procs, (p \in Sweeps /\ QueryPaid(p)) \/ Claim(p) \/ Works(p)
      PROVE  SeenInv'
  BY <1>3, <1>8 DEF QueryPaid, Claim, Works, CreateAccount, RenewAccount, ChangeGroup,
     InsertRow, UpdateRow, AfterService, ReadUsage, WriteUsage, MarkPaid, Goto
<1>9. CASE Crash
  BY <1>1, <1>9 DEF Crash, payVars
<1>10. CASE UNCHANGED vars
  BY <1>3, <1>10 DEF vars, procVars
<1>11. ASSUME NEW p \in Procs, Activate(p)
       PROVE  SeenInv'
  BY <1>7, <1>8, <1>11 DEF Activate, Works
<1>12. ASSUME NEW w \in Callbacks, CallbackNext(w)
       PROVE  SeenInv'
  <2>1. CASE MarkUnpaid(w)
    BY <1>7, <2>1
  <2> QED
    BY <1>6, <1>12, <2>1 DEF CallbackNext
<1>13. ASSUME NEW s \in Sweeps, SweepNext(s)
       PROVE  SeenInv'
  BY <1>2, <1>7, <1>8, <1>13 DEF SweepNext
<1> QED
  BY <1>5, <1>9, <1>10, <1>11, <1>12, <1>13 DEF Next

LEMMA StatusStep ==
  ASSUME TypeInv, InvoiceInv, WorkInv, StatusInv, [Next]_vars
  PROVE  StatusInv'
<1> DEFINE Honest(o) == /\ status[o] = "paid" => Completed(o)
                        /\ status[o] = "failed" => Closed(o)
<1>0. SUFFICES ASSUME NEW o \in Orders PROVE Honest(o)'
  BY DEF StatusInv
<1>1. CASE status'[o] = status[o]
  <2>1. Honest(o)
    BY DEF StatusInv
  <2>2. (Completed(o) => Completed(o)') /\ (Closed(o) => Closed(o)')
    BY Stable
  <2> QED
    BY <1>1, <2>1, <2>2
<1>2. CASE status'[o] = "pending"
  BY <1>2
<1>3. ASSUME NEW w \in Callbacks, MarkUnpaid(w), ord[w] = o
      PROVE  Honest(o)'
  <2>1. status'[o] = want[w] /\ pc[w] = "decide" /\ want[w] # "paid"
    BY <1>3 DEF MarkUnpaid, TypeInv, TypeOK
  <2>2. want[w] = "failed" => Closed(o)
    BY <1>3, <2>1 DEF WorkInv, Procs
  <2> QED
    BY <2>1, <2>2, Stable
<1>4. ASSUME NEW p \in Procs, MarkPaid(p), ord[p] = o
      PROVE  Honest(o)'
  <2>1. status'[o] = "paid" /\ pc[p] = "close"
    BY <1>4 DEF MarkPaid, TypeInv, TypeOK
  <2> QED
    BY <1>4, <2>1, Stable DEF WorkInv, ActiveAt, ServedAt
<1> QED
  BY <1>1, <1>2, <1>3, <1>4, StatusSteps

LEMMA NewStep == ASSUME TypeInv, NewInv, SeenInv, [Next]_vars PROVE NewInv'
<1>1. ASSUME NEW o \in Orders, status'[o] = "none"
      PROVE  status[o] = "none"
  <2>1. ASSUME NEW w \in Callbacks, MarkUnpaid(w), ord[w] = o
        PROVE  FALSE
    BY <1>1, <2>1 DEF MarkUnpaid, TypeInv, TypeOK
  <2>2. ASSUME NEW p \in Procs, MarkPaid(p), ord[p] = o
        PROVE  FALSE
    BY <1>1, <2>2 DEF MarkPaid, TypeInv, TypeOK
  <2> QED
    BY <1>1, <2>1, <2>2, StatusSteps
<1>2. ASSUME NEW o \in Orders, status'[o] = "none"
      PROVE  txn'[o] = None
  <2>1. status[o] = "none" /\ txn[o] = None
    BY <1>1, <1>2 DEF NewInv
  <2>2. ASSUME NEW w \in Callbacks, NEW m \in sent, Audit(w, m)
        PROVE  m.order # o /\ txn' = [txn EXCEPT ![m.order] = m.txn]
    BY <2>1, <2>2 DEF Audit
  <2>3. ASSUME NEW q \in Orders, InvoiceCreated(q)
        PROVE  q # o /\ txn' = [txn EXCEPT ![q] = FirstTxn]
    BY <2>1, <2>3 DEF InvoiceCreated
  <2> QED
    BY <2>1, <2>2, <2>3, PlisioSteps DEF BuyerPays, InvoiceEnds, SwitchCoin, Announce,
       payVars, TypeInv, TypeOK
<1>3. ASSUME NEW p \in Procs, pc'[p] # "idle"
      PROVE  ord'[p] \in Orders /\ status[ord'[p]] # "none"
  <2>1. ASSUME NEW m \in sent, Audit(p, m)
        PROVE  \/ pc'[p] = pc[p] /\ ord'[p] = ord[p] /\ want'[p] = want[p]
               \/ ord'[p] = m.order /\ m.order \in Orders /\ status[m.order] # "none"
    BY <2>1, MessageFields DEF Audit, procVars, TypeInv, TypeOK
  <2>2. ASSUME NEW o \in Orders, ReadInvoiceId(p, o), p \in Sweeps
        PROVE  ord'[p] = o /\ status[o] # "none"
    BY <2>2 DEF ReadInvoiceId, SeenInv, NewInv, TypeInv, TypeOK
  <2>3. CASE QueryPaid(p) \/ Claim(p)
    BY <2>3 DEF QueryPaid, Claim, NewInv, TypeInv, OrdInv
  <2>4. CASE Works(p)
    BY <2>4, WorksLocal DEF ActiveAt, LockedAt, ServedAt, NewInv
  <2>5. CASE pc'[p] = pc[p] /\ ord'[p] = ord[p]
    BY <1>3, <2>5 DEF NewInv, TypeInv, OrdInv
  <2> QED
    BY <1>3, <2>1, <2>2, <2>3, <2>4, <2>5, ProcSteps
<1> QED
  BY <1>1, <1>2, <1>3 DEF NewInv

LEMMA MoneyStep ==
  ASSUME TypeInv, MoneyInv, [Next]_vars
  PROVE  MoneyInv'
  BY NewStep, InvoiceStep, SentStep, SeenStep, WorkStep, StatusStep DEF MoneyInv

LEMMA MoneyInit == Init => MoneyInv
  BY TxnAssumption DEF Init, MoneyInv, NewInv, InvoiceInv, SentInv, SeenInv, WorkInv, StatusInv, Dead,
     ActiveAt, LockedAt, ServedAt, Procs

-----------------------------------------------------------------------------
(* What has been done for an order *)

\* A paid or failed order stays what it is, in every step.
LEMMA ClosedStep ==
  ASSUME TypeInv, MoneyInv, [Next]_vars, NEW o \in Orders,
         status[o] \in TerminalStatuses
  PROVE  status'[o] = status[o]
<1> USE DEF MoneyInv
<1>1. ASSUME NEW w \in Callbacks, MarkUnpaid(w), ord[w] = o
      PROVE  FALSE
  BY <1>1 DEF MarkUnpaid
<1>2. ASSUME NEW p \in Procs, MarkPaid(p), ord[p] = o
      PROVE  status'[o] = status[o]
  <2>1. status'[o] = "paid" /\ Completed(o)
    BY <1>2 DEF MarkPaid, TypeInv, TypeOK, WorkInv, ActiveAt, ServedAt
  <2>2. status[o] # "failed"
    BY <2>1, NotBoth DEF StatusInv
  <2> QED
    BY <2>1, <2>2 DEF TerminalStatuses
<1> QED
  BY <1>1, <1>2, StatusSteps DEF TerminalStatuses

\* The steps that provision, count, link or deliver.
LEMMA ServiceSteps ==
  ASSUME [Next]_vars
  PROVE  \/ UNCHANGED <<account, row, renewals, used, counted, linked, delivered>>
         \/ \E p \in Procs : \/ CreateAccount(p) \/ CreateReplyLost(p)
                             \/ InsertRow(p) \/ UpdateRow(p)
                             \/ WriteUsage(p) \/ MarkPaid(p) \/ Deliver(p)
<1> DEFINE Same == UNCHANGED <<account, row, renewals, used, counted, linked, delivered>>
<1>1. ASSUME NEW o \in Orders, BuyerNext(o)
      PROVE  Same
  BY <1>1 DEF BuyerNext, Checkout, InvoiceCreated, Age, BuyerPays, InvoiceEnds,
     SwitchCoin, Announce, payVars, svcVars, usageVars, buyerVars
<1>2. ASSUME NEW w \in Callbacks, CallbackNext(w)
      PROVE  Same
  BY <1>2 DEF CallbackNext, MarkUnpaid, Audit, payVars, svcVars, usageVars, buyerVars
<1>3. ASSUME NEW s \in Sweeps, SweepNext(s)
      PROVE  Same
  BY <1>3 DEF SweepNext, StartPass, ReadInvoiceId, QueryPaid, QueryOpen, payVars,
     svcVars, usageVars, buyerVars
<1>4. ASSUME NEW p \in Procs,
             \/ AlreadyClosed(p) \/ Claim(p) \/ Blocked(p) \/ ActivationFails(p)
             \/ RenewAccount(p) \/ ChangeGroup(p) \/ ReadUsage(p) \/ DeliveryFails(p)
      PROVE  Same
  BY <1>4 DEF AlreadyClosed, Claim, Blocked, ActivationFails, RenewAccount,
     ChangeGroup, ReadUsage, DeliveryFails, payVars, svcVars, usageVars, buyerVars
<1>5. CASE Crash
  BY <1>5 DEF Crash, payVars, svcVars, usageVars, buyerVars
<1>6. CASE UNCHANGED vars
  BY <1>6 DEF vars, payVars, svcVars, usageVars, buyerVars
<1> QED
  BY <1>1, <1>2, <1>3, <1>4, <1>5, <1>6 DEF Next, Activate

\* Nothing that was provisioned is taken back.
LEMMA ServiceKeeps ==
  ASSUME TypeInv, [Next]_vars, NEW o \in Orders
  PROVE  /\ account[o] => account'[o]
         /\ row[o] => row'[o]
         /\ linked[o] => linked'[o]
         /\ renewals[o] > 0 => renewals'[o] > 0
<1> USE DEF TypeInv, TypeOK
<1> DEFINE Kept == /\ account[o] => account'[o]
                   /\ row[o] => row'[o]
                   /\ linked[o] => linked'[o]
                   /\ renewals[o] > 0 => renewals'[o] > 0
<1>1. CASE UNCHANGED <<account, row, renewals, used, counted, linked, delivered>>
  BY <1>1
<1>2. ASSUME NEW p \in Procs, CreateAccount(p) \/ CreateReplyLost(p)
      PROVE  Kept
  BY <1>2 DEF CreateAccount, CreateReplyLost, payVars
<1>3. ASSUME NEW p \in Procs, InsertRow(p)
      PROVE  Kept
  BY <1>3 DEF InsertRow, payVars
<1>4. ASSUME NEW p \in Procs, UpdateRow(p)
      PROVE  Kept
  BY <1>4 DEF UpdateRow, payVars
<1>5. ASSUME NEW p \in Procs, WriteUsage(p) \/ MarkPaid(p)
      PROVE  Kept
  BY <1>5 DEF WriteUsage, MarkPaid, svcVars
<1>6. ASSUME NEW p \in Procs, Deliver(p)
      PROVE  Kept
  BY <1>6 DEF Deliver, payVars, svcVars
<1> QED
  BY <1>1, <1>2, <1>3, <1>4, <1>5, <1>6, ServiceSteps

LEMMA ServedKeeps ==
  ASSUME TypeInv, [Next]_vars, NEW o \in Orders, Served(o)
  PROVE  Served(o)'
  BY ServiceKeeps DEF Served

LEMMA AccountStep ==
  ASSUME TypeInv, AccountInv, StepInv, [Next]_vars
  PROVE  AccountInv'
<1>0. SUFFICES ASSUME NEW o \in Orders
               PROVE  (row'[o] => account'[o]) /\ (o \in Renewals => row'[o] /\ linked'[o])
  BY DEF AccountInv
<1>1. CASE row'[o] = row[o]
  BY <1>1, ServiceKeeps DEF AccountInv
<1>2. ASSUME NEW p \in Procs, InsertRow(p), ord[p] = o
      PROVE  row'[o] /\ account'[o] /\ o \notin Renewals
  BY <1>2 DEF InsertRow, StepInv, TypeInv, TypeOK
<1>3. row'[o] = row[o] \/ \E p \in Procs : InsertRow(p) /\ ord[p] = o
  BY ServiceSteps DEF CreateAccount, CreateReplyLost, InsertRow, UpdateRow, WriteUsage,
     MarkPaid, Deliver, svcVars, TypeInv, TypeOK
<1> QED
  BY <1>1, <1>2, <1>3

LEMMA PaidStep ==
  ASSUME TypeInv, AccountInv, StepInv, PaidIsServed, MoneyInv, [Next]_vars
  PROVE  PaidIsServed'
<1>0. SUFFICES ASSUME NEW o \in Orders, status'[o] = "paid"
               PROVE  Served(o)' /\ account'[o] /\ linked'[o]
  BY DEF PaidIsServed
<1>1. CASE status[o] = "paid"
  BY <1>1, ServedKeeps, ServiceKeeps DEF PaidIsServed
<1>2. ASSUME NEW p \in Procs, MarkPaid(p), ord[p] = o
      PROVE  Served(o)' /\ account'[o] /\ linked'[o]
  <2>1. Served(o)
    BY <1>2 DEF MarkPaid, StepInv, AfterRow, ServedAt
  <2>2. account[o]
    BY <2>1 DEF Served, AccountInv
  <2>3. linked'[o]
    BY <1>2 DEF MarkPaid, TypeInv, TypeOK
  <2> QED
    BY <2>1, <2>2, <2>3, ServedKeeps, ServiceKeeps
<1>3. ASSUME NEW w \in Callbacks, MarkUnpaid(w), ord[w] = o
      PROVE  FALSE
  BY <1>0, <1>3 DEF MarkUnpaid, TypeInv, TypeOK
<1> QED
  BY <1>0, <1>1, <1>2, <1>3, StatusSteps DEF TerminalStatuses

LEMMA DeliveredSteps ==
  ASSUME TypeInv, [Next]_vars, NEW o \in Orders
  PROVE  \/ delivered'[o] = delivered[o]
         \/ \E p \in Procs : Deliver(p) /\ ord[p] = o /\ delivered'[o] = delivered[o] + 1
  BY ServiceSteps DEF CreateAccount, CreateReplyLost, InsertRow, UpdateRow, WriteUsage,
     MarkPaid, Deliver, buyerVars, TypeInv, TypeOK

LEMMA CountedSteps ==
  ASSUME TypeInv, [Next]_vars, NEW o \in Orders
  PROVE  \/ counted'[o] = counted[o]
         \/ \E p \in Procs : WriteUsage(p) /\ ord[p] = o /\ counted'[o] = counted[o] + 1
  BY ServiceSteps DEF CreateAccount, CreateReplyLost, InsertRow, UpdateRow, WriteUsage,
     MarkPaid, Deliver, usageVars, TypeInv, TypeOK

LEMMA SentPaidStep ==
  ASSUME TypeInv, MoneyInv, StepInv, SentAfterPaid, [Next]_vars
  PROVE  SentAfterPaid'
<1>0. SUFFICES ASSUME NEW o \in Orders, delivered'[o] > 0
               PROVE  status'[o] = "paid"
  BY DEF SentAfterPaid
<1>1. status[o] = "paid"
  BY <1>0, DeliveredSteps DEF SentAfterPaid, Deliver, StepInv
<1> QED
  BY <1>1, ClosedStep DEF TerminalStatuses

LEMMA PaidForStep ==
  ASSUME TypeInv, MoneyInv, ServedIsPaidFor, [Next]_vars
  PROVE  ServedIsPaidFor'
<1> DEFINE Untouched(o) == /\ o \in Renewals \/ ~account[o]
                           /\ renewals[o] = 0 /\ counted[o] = 0 /\ delivered[o] = 0
<1>0. SUFFICES ASSUME NEW o \in Orders, ~Completed(o)'
               PROVE  Untouched(o)'
  BY DEF ServedIsPaidFor
<1>1. ~Completed(o)
  BY <1>0, Stable DEF MoneyInv
<1>2. Untouched(o)
  BY <1>1 DEF ServedIsPaidFor
<1>3. ASSUME NEW p \in Procs, pc[p] \in ActiveAt, ord[p] = o
      PROVE  FALSE
  BY <1>1, <1>3 DEF MoneyInv, WorkInv
<1>4. CASE UNCHANGED <<account, row, renewals, used, counted, linked, delivered>>
  BY <1>2, <1>4
<1>5. ASSUME NEW p \in Procs,
             \/ CreateAccount(p) \/ CreateReplyLost(p) \/ InsertRow(p) \/ UpdateRow(p)
             \/ WriteUsage(p) \/ MarkPaid(p) \/ Deliver(p)
      PROVE  Untouched(o)'
  <2>1. pc[p] \in ActiveAt
    BY <1>5 DEF CreateAccount, CreateReplyLost, InsertRow, UpdateRow, WriteUsage,
       MarkPaid, Deliver, ActiveAt, LockedAt, ServedAt
  <2>2. ord[p] # o
    BY <1>3, <2>1
  <2> QED
    BY <1>2, <1>5, <2>2 DEF CreateAccount, CreateReplyLost, InsertRow, UpdateRow,
       WriteUsage, MarkPaid, Deliver, svcVars, usageVars, buyerVars, TypeInv, TypeOK
<1> QED
  BY <1>4, <1>5, ServiceSteps

LEMMA StepStep ==
  ASSUME TypeInv, LockInv, MoneyInv, StepInv, [Next]_vars
  PROVE  StepInv'
<1> DEFINE Far(r) ==
      /\ pc[r] = "insert" => ord[r] \notin Renewals /\ account[ord[r]] /\ ~row[ord[r]]
      /\ pc[r] \in {"regroup", "update"} => ord[r] \in Renewals
      /\ pc[r] \in AfterRow => Served(ord[r])
      /\ pc[r] = "deliver" => status[ord[r]] = "paid"
<1>0. SUFFICES ASSUME NEW r \in Procs PROVE Far(r)'
  BY DEF StepInv
<1>1. Far(r)
  BY DEF StepInv
<1>2. CASE pc'[r] = pc[r] /\ ord'[r] = ord[r]
  <2>1. CASE pc[r] = "idle"
    BY <1>2, <2>1 DEF AfterRow, ServedAt
  <2>2. CASE ord[r] \in Orders /\ pc[r] = "insert"
    <3>1. account'[ord[r]]
      BY <1>1, <2>2, ServiceKeeps
    <3>2. ASSUME NEW p \in Procs, InsertRow(p), ord[p] = ord[r]
          PROVE  FALSE
      <4>1. p = r
        BY <2>2, <3>2 DEF LockInv, HoldsRow, LockedAt, InsertRow
      <4> QED
        BY <1>2, <2>2, <3>2, <4>1
        DEF InsertRow, Goto, AfterService, TypeInv, TypeOK
    <3>3. ~row'[ord[r]]
      BY <1>1, <2>2, <3>2, ServiceSteps
      DEF CreateAccount, CreateReplyLost, InsertRow, UpdateRow, WriteUsage, MarkPaid,
          Deliver, svcVars, TypeInv, TypeOK
    <3> QED
      BY <1>1, <1>2, <2>2, <3>1, <3>3 DEF AfterRow, ServedAt
  <2>3. CASE ord[r] \in Orders /\ pc[r] # "insert"
    <3>1. pc[r] \in AfterRow => Served(ord[r])'
      BY <1>1, <1>2, <2>3, ServedKeeps
    <3>2. pc[r] = "deliver" => status'[ord[r]] = "paid"
      BY <1>1, <2>3, ClosedStep DEF TerminalStatuses
    <3> QED
      BY <1>1, <1>2, <2>3, <3>1, <3>2 DEF Served
  <2> QED
    BY <2>1, <2>2, <2>3 DEF TypeInv, OrdInv
<1>3. CASE pc'[r] \in {"idle", "query", "decide", "claim", "provision"}
  BY <1>3 DEF AfterRow, ServedAt
<1>4. CASE CreateAccount(r)
  BY <1>4 DEF CreateAccount, Goto, AfterRow, ServedAt, TypeInv, TypeOK, OrdInv, svcVars
<1>5. CASE RenewAccount(r) \/ ChangeGroup(r)
  BY <1>1, <1>5 DEF RenewAccount, ChangeGroup, Goto, AfterRow, ServedAt, TypeInv, TypeOK
<1>6. CASE InsertRow(r)
  <2>1. pc'[r] \in {"count", "close"} /\ ord'[r] = ord[r] /\ ord[r] \in Orders
    BY <1>6 DEF InsertRow, Goto, AfterService, TypeInv, TypeOK, OrdInv
  <2>2. Served(ord[r])'
    BY <1>1, <1>6, <2>1 DEF InsertRow, Served, TypeInv, TypeOK
  <2> QED
    BY <2>1, <2>2 DEF Served
<1>7. CASE UpdateRow(r)
  <2>1. pc'[r] \in {"count", "close"} /\ ord'[r] = ord[r] /\ ord[r] \in Orders
    BY <1>7 DEF UpdateRow, Goto, AfterService, TypeInv, TypeOK, OrdInv
  <2>2. Served(ord[r])'
    BY <1>1, <1>7, <2>1 DEF UpdateRow, Served, TypeInv, TypeOK
  <2> QED
    BY <2>1, <2>2 DEF Served
<1>8. CASE ReadUsage(r) \/ WriteUsage(r) \/ MarkPaid(r)
  <2>1. /\ pc'[r] \in AfterRow /\ ord'[r] = ord[r] /\ ord[r] \in Orders /\ pc[r] \in ServedAt
        /\ pc'[r] = "deliver" => status'[ord[r]] = "paid"
    BY <1>8 DEF ReadUsage, WriteUsage, MarkPaid, Goto, AfterRow, ServedAt, TypeInv,
       TypeOK, OrdInv
  <2>2. Served(ord[r])'
    BY <1>1, <2>1, ServedKeeps DEF AfterRow
  <2> QED
    BY <2>1, <2>2 DEF Served, AfterRow, ServedAt
<1>9. ASSUME NEW m \in sent, Audit(r, m)
      PROVE  pc'[r] = "decide" \/ (pc'[r] = pc[r] /\ ord'[r] = ord[r])
  BY <1>9 DEF Audit, Goto, procVars, TypeInv, TypeOK
<1>10. CASE QueryPaid(r) \/ Claim(r) \/ \E o \in Orders : ReadInvoiceId(r, o)
  BY <1>3, <1>10 DEF QueryPaid, Claim, ReadInvoiceId, Goto, TypeInv, TypeOK
<1> QED
  BY <1>2, <1>3, <1>4, <1>5, <1>6, <1>7, <1>8, <1>9, <1>10, ProcSteps DEF Works

\* How a process gets past the row of its order.
LEMMA AfterRowSteps ==
  ASSUME TypeInv, [Next]_vars, NEW r \in Procs, pc'[r] \in AfterRow
  PROVE  /\ ord'[r] = ord[r] /\ ord[r] \in Orders
         /\ \/ /\ pc[r] \in AfterRow
               /\ pc'[r] \in {"count", "recount"} => pc[r] \in {"count", "recount"}
            \/ InsertRow(r)
            \/ UpdateRow(r)
<1> USE DEF AfterRow, ServedAt, TypeInv, TypeOK, OrdInv
<1>1. ASSUME NEW m \in sent, Audit(r, m)
      PROVE  pc'[r] = "decide" \/ (pc'[r] = pc[r] /\ ord'[r] = ord[r] /\ want'[r] = want[r])
  BY <1>1 DEF Audit, Goto, procVars
<1>2. ASSUME \/ QueryPaid(r) \/ Claim(r) \/ \E o \in Orders : ReadInvoiceId(r, o)
             \/ CreateAccount(r) \/ RenewAccount(r) \/ ChangeGroup(r)
      PROVE  FALSE
  BY <1>2 DEF QueryPaid, Claim, ReadInvoiceId, CreateAccount, RenewAccount, ChangeGroup, Goto
<1>3. ASSUME ReadUsage(r) \/ WriteUsage(r) \/ MarkPaid(r)
      PROVE  /\ ord'[r] = ord[r] /\ pc[r] \in AfterRow
             /\ pc'[r] \in {"count", "recount"} => pc[r] \in {"count", "recount"}
  BY <1>3 DEF ReadUsage, WriteUsage, MarkPaid, Goto
<1>4. ASSUME InsertRow(r) \/ UpdateRow(r)
      PROVE  ord'[r] = ord[r] /\ pc[r] # "idle"
  BY <1>4 DEF InsertRow, UpdateRow
<1> QED
  BY <1>1, <1>2, <1>3, <1>4, ProcSteps DEF Works

LEMMA OnceStep ==
  ASSUME TypeInv, LockInv, StepInv, OnceInv, [Next]_vars
  PROVE  OnceInv'
\* Who enters past the row of a purchase is alone there.
<1>1. ASSUME NEW r \in Procs, InsertRow(r)
      PROVE  /\ ord[r] \in Orders \ Renewals /\ ~row[ord[r]]
             /\ \A q \in Procs : pc[q] \in AfterRow => ord[q] # ord[r]
             /\ \A q \in Procs : InsertRow(q) /\ ord[q] = ord[r] => q = r
  <2>1. ord[r] \in Orders \ Renewals /\ ~row[ord[r]]
    BY <1>1 DEF InsertRow, StepInv, TypeInv, OrdInv
  <2>2. \A q \in Procs : pc[q] \in AfterRow => ord[q] # ord[r]
    BY <2>1 DEF StepInv, Served
  <2>3. \A q \in Procs : InsertRow(q) /\ ord[q] = ord[r] => q = r
    BY <1>1 DEF InsertRow, LockInv, HoldsRow, LockedAt
  <2> QED
    BY <2>1, <2>2, <2>3
<1>2. ASSUME NEW r \in Procs, UpdateRow(r)
      PROVE  ord[r] \in Renewals
  BY <1>2 DEF UpdateRow, StepInv
<1>3. ASSUME NEW r \in Procs, pc'[r] \in AfterRow, ord'[r] \notin Renewals
      PROVE  /\ delivered'[ord'[r]] = 0
             /\ pc'[r] \in {"count", "recount"} => counted'[ord'[r]] = 0
             /\ \A q \in Procs : pc'[q] \in AfterRow /\ ord'[q] = ord'[r] => q = r
  <2>1. /\ ord'[r] = ord[r] /\ ord[r] \in Orders \ Renewals
        /\ \/ /\ pc[r] \in AfterRow
              /\ pc'[r] \in {"count", "recount"} => pc[r] \in {"count", "recount"}
           \/ InsertRow(r)
    BY <1>2, <1>3, AfterRowSteps
  <2>2. ASSUME NEW q \in Procs, pc'[q] \in AfterRow, ord'[q] = ord'[r]
        PROVE  q = r
    <3>1. ord[q] = ord[r] /\ (pc[q] \in AfterRow \/ InsertRow(q))
      BY <1>2, <2>1, <2>2, AfterRowSteps
    <3> QED
      BY <1>1, <2>1, <3>1 DEF OnceInv
  <2>3. CASE pc[r] \in AfterRow
    <3>1. ASSUME NEW p \in Procs, Deliver(p), ord[p] = ord[r]
          PROVE  FALSE
      <4>1. p = r
        BY <2>1, <2>3, <3>1 DEF Deliver, AfterRow, OnceInv
      <4> QED
        BY <1>3, <3>1, <4>1 DEF Deliver, Finish, AfterRow, ServedAt, TypeInv, TypeOK
    <3>2. ASSUME NEW p \in Procs, WriteUsage(p), ord[p] = ord[r]
          PROVE  pc'[r] = "close"
      <4>1. p = r
        BY <2>1, <2>3, <3>2 DEF WriteUsage, AfterRow, ServedAt, OnceInv
      <4> QED
        BY <3>2, <4>1 DEF WriteUsage, Goto, TypeInv, TypeOK
    <3>3. delivered'[ord[r]] = 0
      BY <2>1, <2>3, <3>1, DeliveredSteps DEF OnceInv
    <3>4. pc'[r] \in {"count", "recount"} => counted'[ord[r]] = 0
      <4>1. SUFFICES ASSUME pc'[r] \in {"count", "recount"}
                     PROVE  counted'[ord[r]] = 0
        OBVIOUS
      <4>2. pc[r] \in {"count", "recount"}
        BY <2>1, <2>3, <4>1 DEF InsertRow, AfterRow, ServedAt
      <4>3. counted'[ord[r]] = counted[ord[r]]
        BY <2>1, <3>2, <4>1, CountedSteps
      <4> QED
        BY <2>1, <2>3, <4>2, <4>3 DEF OnceInv
    <3> QED
      BY <2>1, <2>2, <3>3, <3>4
  <2>4. CASE InsertRow(r)
    <3>1. delivered[ord[r]] = 0 /\ counted[ord[r]] = 0
      BY <1>1, <2>4 DEF OnceInv
    <3>2. delivered' = delivered /\ counted' = counted
      BY <2>4 DEF InsertRow, usageVars, buyerVars
    <3> QED
      BY <2>1, <2>2, <3>1, <3>2
  <2> QED
    BY <2>1, <2>3, <2>4
<1>4. ASSUME NEW o \in Orders \ Renewals, ~row'[o]
      PROVE  counted'[o] = 0 /\ delivered'[o] = 0
  <2>1. ~row[o]
    BY <1>4, ServiceKeeps
  <2>2. \A p \in Procs : ord[p] = o => pc[p] \notin AfterRow
    BY <2>1 DEF StepInv, Served
  <2>3. counted'[o] = counted[o] /\ delivered'[o] = delivered[o]
    BY <2>2, CountedSteps, DeliveredSteps DEF WriteUsage, Deliver, AfterRow, ServedAt
  <2> QED
    BY <2>1, <2>3 DEF OnceInv
<1> QED
  BY <1>3, <1>4 DEF OnceInv

LEMMA CountStep ==
  ASSUME TypeInv, OnceInv, CountInv, [Next]_vars
  PROVE  CountInv'
<1>0. SUFFICES ASSUME NEW o \in Orders \ Renewals
               PROVE  delivered'[o] <= 1 /\ counted'[o] <= 1
  BY DEF CountInv
<1>1. delivered'[o] <= 1
  BY DeliveredSteps DEF Deliver, OnceInv, CountInv, AfterRow, TypeInv, TypeOK
<1>2. counted'[o] <= 1
  BY CountedSteps DEF WriteUsage, OnceInv, CountInv, AfterRow, ServedAt, TypeInv, TypeOK
<1> QED
  BY <1>1, <1>2

LEMMA ServiceStep ==
  ASSUME TypeInv, LockInv, MoneyInv, ServiceInv, [Next]_vars
  PROVE  ServiceInv'
  BY AccountStep, StepStep, OnceStep, CountStep, PaidStep, PaidForStep, SentPaidStep
  DEF ServiceInv

LEMMA ServiceInit == Init => ServiceInv
<1> SUFFICES ASSUME Init PROVE ServiceInv
  OBVIOUS
<1> USE DEF Init
<1>1. AccountInv
  BY OrderAssumption DEF AccountInv
<1>2. PaidIsServed /\ SentAfterPaid /\ CountInv
  BY DEF PaidIsServed, SentAfterPaid, CountInv
<1>3. ServedIsPaidFor
  BY DEF ServedIsPaidFor
<1>4. StepInv /\ OnceInv
  BY DEF StepInv, OnceInv, AfterRow, ServedAt
<1> QED
  BY <1>1, <1>2, <1>3, <1>4 DEF ServiceInv

-----------------------------------------------------------------------------
(* The theorems *)

Inv == TypeInv /\ LockInv /\ MoneyInv /\ ServiceInv

LEMMA LockInit == Init => LockInv
  BY DEF Init, LockInv, HoldsRow, LockedAt

\* The invariant of the pipeline, inductive as it stands.
THEOREM Invariant == Spec => []Inv
<1>1. Init => Inv
  BY TypeInit, LockInit, MoneyInit, ServiceInit DEF Inv
<1>2. Inv /\ [Next]_vars => Inv'
  BY TypeStep, LockStep, MoneyStep, ServiceStep DEF Inv
<1> QED
  BY <1>1, <1>2, PTL DEF Spec

\* A paid order was provisioned, in IBSng and locally, and is linked to its account.
THEOREM PaidIsServedAlways == Spec => []PaidIsServed
<1>1. Inv => PaidIsServed
  BY DEF Inv, ServiceInv
<1> QED
  BY <1>1, Invariant, PTL

\* Nothing is provisioned, counted or delivered that Plisio does not hold completed.
THEOREM ServedIsPaidForAlways == Spec => []ServedIsPaidFor
<1>1. Inv => ServedIsPaidFor
  BY DEF Inv, ServiceInv
<1> QED
  BY <1>1, Invariant, PTL

\* No order whose money arrived is ever closed as failed.
THEOREM FailedIsUnpaidAlways == Spec => []FailedIsUnpaid
<1>1. Inv => FailedIsUnpaid
  BY NotBoth DEF Inv, MoneyInv, StatusInv, FailedIsUnpaid
<1> QED
  BY <1>1, Invariant, PTL

\* A purchase is finished by one process, delivered once, counted once.
THEOREM PurchaseServedOnceAlways == Spec => []PurchaseServedOnce
<1>1. Inv => PurchaseServedOnce
  BY DEF Inv, ServiceInv, OnceInv, CountInv, PurchaseServedOnce, AfterRow
<1> QED
  BY <1>1, Invariant, PTL

\* Callbacks and the passes of the reconciler take an order one at a
\* time: between the locking SELECT and the commit nobody else is.
THEOREM OneHoldsTheRow ==
  Spec => [](\A p, q \in Procs : HoldsRow(p) /\ HoldsRow(q) /\ ord[p] = ord[q] => p = q)
<1>1. Inv => \A p, q \in Procs : HoldsRow(p) /\ HoldsRow(q) /\ ord[p] = ord[q] => p = q
  BY DEF Inv, LockInv
<1> QED
  BY <1>1, Invariant, PTL

\* Credentials are only ever sent for an order that is marked paid, and so
\* that Plisio has completed: whatever failed in between, and whoever sends.
THEOREM SentAfterPaidAlways ==
  Spec => [](\A o \in Orders : delivered[o] > 0 => status[o] = "paid" /\ Completed(o))
<1>1. Inv => \A o \in Orders : delivered[o] > 0 => status[o] = "paid" /\ Completed(o)
  BY DEF Inv, ServiceInv, SentAfterPaid, MoneyInv, StatusInv
<1> QED
  BY <1>1, Invariant, PTL

\* A paid or failed order keeps its status.
THEOREM ClosedStaysAlways == Spec => ClosedStays
<1>1. Inv /\ [Next]_vars
        => [\A o \in Orders : status[o] \in TerminalStatuses => status'[o] = status[o]]_vars
  BY ClosedStep DEF Inv
<1> QED
  BY <1>1, Invariant, PTL DEF Spec, ClosedStays

-----------------------------------------------------------------------------
(* The life cycle of an order *)

LEMMA LifecycleInit == Init => Lifecycle!Init
<1> SUFFICES ASSUME Init PROVE Lifecycle!Init
  OBVIOUS
<1> USE DEF Init
<1>1. \A o \in Orders : status[o] = "none"
  OBVIOUS
<1>2. \A o \in Orders : ~Completed(o)
  BY DEF Completed
<1>3. ASSUME NEW o \in Orders PROVE ~Served(o)
  <2>1. renewals[o] = 0 /\ (o \notin Renewals => ~row[o])
    OBVIOUS
  <2> QED
    BY <2>1 DEF Served
<1> QED
  BY <1>1, <1>2, <1>3 DEF Lifecycle!Init, OpenStatuses

\* A step that shows nothing.
LEMMA Hidden ==
  ASSUME UNCHANGED <<status, row, renewals, delivered>>,
         \A o \in Orders : Completed(o)' <=> Completed(o)
  PROVE  UNCHANGED Lifecycle!vars
  BY DEF Lifecycle!vars, Served, OpenStatuses, Completed

\* Only BuyerPays completes an invoice.
LEMMA CompletedSteps ==
  ASSUME TypeInv, InvoiceInv, [Next]_vars, NEW o \in Orders
  PROVE  \/ Completed(o)' <=> Completed(o)
         \/ \E k \in Txns : BuyerPays(o, k)
<1> SUFFICES ASSUME Completed(o)', ~Completed(o)
             PROVE  \E k \in Txns : BuyerPays(o, k)
  BY Stable
<1>1. PICK k \in Txns : invoice'[o][k] = "completed" /\ invoice[o][k] # "completed"
  BY DEF Completed
<1> USE TxnAssumption DEF TypeInv, TypeOK
<1>2. ASSUME NEW q \in Orders, InvoiceCreated(q)
      PROVE  FALSE
  BY <1>1, <1>2 DEF InvoiceCreated
<1>3. ASSUME NEW q \in Orders, NEW l \in Txns, InvoiceEnds(q, l)
      PROVE  FALSE
  BY <1>1, <1>3 DEF InvoiceEnds, Announce, ClosingStatuses
<1>4. ASSUME NEW q \in Orders, NEW l \in Txns, NEW next \in Txns, SwitchCoin(q, l, next)
      PROVE  FALSE
  BY <1>1, <1>4 DEF SwitchCoin
<1>5. ASSUME NEW q \in Orders, NEW l \in Txns, BuyerPays(q, l)
      PROVE  q = o
  BY <1>1, <1>5 DEF BuyerPays, Announce
<1>6. ASSUME NEW w \in Callbacks, NEW m \in sent, Audit(w, m)
      PROVE  FALSE
  BY <1>1, <1>6 DEF Audit, plisioVars
<1> QED
  BY <1>1, <1>2, <1>3, <1>4, <1>5, <1>6, PlisioSteps

-----------------------------------------------------------------------------
(* One lemma per step that shows *)

LEMMA MapCheckout ==
  ASSUME NEW o \in Orders, Inv, Checkout(o)
  PROVE  Lifecycle!Open(o)
  BY DEF Checkout, Lifecycle!Open, svcVars, plisioVars, buyerVars, Completed, Served,
     OpenStatuses, Inv, TypeInv, TypeOK

LEMMA MapBuyerPays ==
  ASSUME NEW o \in Orders, NEW k \in Txns, Inv, BuyerPays(o, k)
  PROVE  Lifecycle!Pay(o)
<1> USE DEF Inv, TypeInv, TypeOK, MoneyInv
<1>1. invoice[o][k] \in {"pending", "underpaid"}
  BY DEF BuyerPays
<1>2. ~Completed(o) /\ ~Closed(o) /\ txn[o] # None
  BY <1>1 DEF InvoiceInv, Dead, Completed, Closed, ClosingStatuses
<1>3. status[o] \in OpenStatuses
  BY <1>2 DEF NewInv, StatusInv, Statuses, TerminalStatuses
<1>4. \A q \in Orders : Completed(q)' <=> Completed(q) \/ q = o
  BY DEF BuyerPays, Announce, Completed
<1> QED
  BY <1>2, <1>3, <1>4 DEF BuyerPays, Announce, payVars, svcVars, buyerVars, Lifecycle!Pay, Served, OpenStatuses

LEMMA MapInsertRow ==
  ASSUME NEW p \in Procs, NEW o \in Orders, ord[p] = o, Inv, InsertRow(p)
  PROVE  Lifecycle!Serve(o)
<1> USE DEF Inv, TypeInv, TypeOK, OrdInv
<1>1. ord[p] \in Orders \ Renewals /\ ~Served(ord[p]) /\ Completed(ord[p])
  BY DEF InsertRow, ServiceInv, StepInv, Served, MoneyInv, WorkInv, ActiveAt, LockedAt
<1>2. status[ord[p]] \in OpenStatuses
  <2>1. status[ord[p]] # "none"
    BY DEF InsertRow, MoneyInv, NewInv
  <2>2. status[ord[p]] # "failed"
    BY <1>1, NotBoth DEF MoneyInv, StatusInv
  <2>3. status[ord[p]] # "paid"
    BY <1>1 DEF ServiceInv, PaidIsServed
  <2> QED
    BY <1>1, <2>1, <2>2, <2>3 DEF Statuses, TerminalStatuses
<1>3. \A q \in Orders : Served(q)' <=> Served(q) \/ q = ord[p]
  BY <1>1 DEF InsertRow, Served
<1> QED
  BY <1>1, <1>2, <1>3 DEF InsertRow, payVars, plisioVars, buyerVars, Lifecycle!Serve, OpenStatuses,
     Completed

LEMMA MapUpdateRow ==
  ASSUME NEW p \in Procs, NEW o \in Orders, ord[p] = o, Inv, UpdateRow(p)
  PROVE  Lifecycle!Serve(o) \/ UNCHANGED Lifecycle!vars
<1> USE DEF Inv, TypeInv, TypeOK, OrdInv
<1>1. ord[p] \in Orders /\ ord[p] \in Renewals /\ Completed(ord[p])
  BY DEF UpdateRow, ServiceInv, StepInv, MoneyInv, WorkInv, ActiveAt, LockedAt
<1>2. \A q \in Orders : Served(q)' <=> Served(q) \/ q = ord[p]
  BY <1>1 DEF UpdateRow, Served
<1>3. /\ UNCHANGED <<status, delivered>>
      /\ \A q \in Orders : Completed(q)' <=> Completed(q)
  BY DEF UpdateRow, payVars, plisioVars, buyerVars, Completed
<1>4. CASE Served(ord[p])
  BY <1>1, <1>2, <1>3, <1>4 DEF Lifecycle!vars
<1>5. CASE ~Served(ord[p])
  <2>1. status[ord[p]] # "none"
    BY DEF UpdateRow, MoneyInv, NewInv
  <2>2. status[ord[p]] # "failed"
    BY <1>1, NotBoth DEF MoneyInv, StatusInv
  <2>3. status[ord[p]] # "paid"
    BY <1>1, <1>5 DEF ServiceInv, PaidIsServed
  <2>4. status[ord[p]] \in OpenStatuses
    BY <1>1, <2>1, <2>2, <2>3 DEF Statuses, TerminalStatuses
  <2> QED
    BY <1>1, <1>2, <1>3, <1>5, <2>4 DEF Lifecycle!Serve
<1> QED
  BY <1>4, <1>5

LEMMA MapMarkPaid ==
  ASSUME NEW p \in Procs, NEW o \in Orders, ord[p] = o, Inv, MarkPaid(p)
  PROVE  Lifecycle!Close(o) \/ UNCHANGED Lifecycle!vars
<1> USE DEF Inv, TypeInv, TypeOK, OrdInv
<1>1. ord[p] \in Orders /\ Completed(ord[p]) /\ Served(ord[p])
  BY DEF MarkPaid, ServiceInv, StepInv, AfterRow, MoneyInv, WorkInv, ActiveAt, ServedAt
<1>2. status[ord[p]] \in OpenStatuses \/ status[ord[p]] = "paid"
  BY <1>1, NotBoth DEF MarkPaid, MoneyInv, NewInv, StatusInv, Statuses, TerminalStatuses
<1>3. /\ status' = [status EXCEPT ![ord[p]] = "paid"]
      /\ UNCHANGED <<invoice, row, renewals, delivered>>
  BY DEF MarkPaid, svcVars, plisioVars, buyerVars
<1>4. CASE status[ord[p]] = "paid"
  BY <1>3, <1>4 DEF Lifecycle!vars, Completed, Served
<1>5. CASE status[ord[p]] \in OpenStatuses
  BY <1>1, <1>3, <1>5 DEF Lifecycle!Close, Completed, Served, OpenStatuses
<1> QED
  BY <1>2, <1>4, <1>5

LEMMA MapMarkUnpaid ==
  ASSUME NEW w \in Callbacks, NEW o \in Orders, ord[w] = o, Inv, MarkUnpaid(w)
  PROVE  Lifecycle!Fail(o) \/ UNCHANGED Lifecycle!vars
<1> USE DEF Inv, TypeInv, TypeOK, OrdInv
<1>1. w \in Procs /\ ord[w] \in Orders
  BY DEF MarkUnpaid, Procs
<1>2. status[ord[w]] \in OpenStatuses
  BY <1>1 DEF MarkUnpaid, MoneyInv, NewInv, Statuses
<1>3. /\ status' = [status EXCEPT ![ord[w]] = want[w]]
      /\ UNCHANGED <<invoice, row, renewals, delivered>>
  BY DEF MarkUnpaid, svcVars, plisioVars, buyerVars
<1>4. CASE want[w] = "partially_paid"
  BY <1>1, <1>2, <1>3, <1>4 DEF Lifecycle!vars, Completed, Served, OpenStatuses
<1>5. CASE want[w] = "failed"
  <2>1. ~Completed(ord[w])
    BY <1>1, <1>5, NotBoth DEF MarkUnpaid, MoneyInv, WorkInv
  <2> QED
    BY <1>1, <1>2, <1>3, <1>5, <2>1 DEF Lifecycle!Fail, Completed, Served, OpenStatuses
<1> QED
  BY <1>4, <1>5 DEF MarkUnpaid

LEMMA MapDeliver ==
  ASSUME NEW p \in Procs, NEW o \in Orders, ord[p] = o, Inv, Deliver(p)
  PROVE  Lifecycle!Deliver(o)
<1>1. /\ status[ord[p]] = "paid"
      /\ ord[p] \in Renewals \/ delivered[ord[p]] = 0
  BY DEF Deliver, Inv, ServiceInv, StepInv, OnceInv, AfterRow
<1>2. delivered \in [Orders -> Nat]
  BY DEF Inv, TypeInv, TypeOK
<1> QED
  BY <1>1, <1>2 DEF Deliver, payVars, svcVars, plisioVars, Lifecycle!Deliver, Completed, Served,
     OpenStatuses

-----------------------------------------------------------------------------
(* The rest shows nothing, and the theorem *)

LEMMA RefinementStep ==
  ASSUME Inv, [Next]_vars
  PROVE  [Lifecycle!Next]_(Lifecycle!vars)
<1>1. ASSUME NEW o \in Orders, Checkout(o)
      PROVE  Lifecycle!Next
  BY <1>1, MapCheckout DEF Lifecycle!Next
<1>2. ASSUME NEW o \in Orders, NEW k \in Txns, BuyerPays(o, k)
      PROVE  Lifecycle!Next
  BY <1>2, MapBuyerPays DEF Lifecycle!Next
<1>3. ASSUME NEW p \in Procs, InsertRow(p) \/ UpdateRow(p) \/ MarkPaid(p) \/ Deliver(p)
      PROVE  Lifecycle!Next \/ UNCHANGED Lifecycle!vars
  <2>1. PICK o \in Orders : ord[p] = o
    BY <1>3 DEF InsertRow, UpdateRow, MarkPaid, Deliver, Inv, TypeInv, OrdInv
  <2> QED
    BY <1>3, <2>1, MapInsertRow, MapUpdateRow, MapMarkPaid, MapDeliver DEF Lifecycle!Next
<1>4. ASSUME NEW w \in Callbacks, MarkUnpaid(w)
      PROVE  Lifecycle!Next \/ UNCHANGED Lifecycle!vars
  <2>1. PICK o \in Orders : ord[w] = o
    BY <1>4 DEF MarkUnpaid, Inv, TypeInv, OrdInv, Procs
  <2> QED
    BY <1>4, <2>1, MapMarkUnpaid DEF Lifecycle!Next
<1>5. CASE /\ UNCHANGED <<status, row, renewals, delivered>>
           /\ ~\E o \in Orders, k \in Txns : BuyerPays(o, k)
  BY <1>5, CompletedSteps, Hidden DEF Inv, MoneyInv
<1>6. \/ UNCHANGED status
      \/ \E o \in Orders : Checkout(o)
      \/ \E w \in Callbacks : MarkUnpaid(w)
      \/ \E p \in Procs : MarkPaid(p)
  BY StatusWriters
<1>7. \/ UNCHANGED <<row, renewals, delivered>>
      \/ \E p \in Procs : InsertRow(p) \/ UpdateRow(p) \/ Deliver(p)
  BY ServiceSteps DEF CreateAccount, CreateReplyLost, WriteUsage, MarkPaid, svcVars, buyerVars
<1> QED
  BY <1>1, <1>2, <1>3, <1>4, <1>5, <1>6, <1>7

\* The payment pipeline implements the life cycle of its orders.
THEOREM Refinement == Spec => KeepsLifecycle
<1>1. Inv /\ [Next]_vars => [Lifecycle!Next]_(Lifecycle!vars)
  BY RefinementStep
<1> QED
  BY <1>1, LifecycleInit, Invariant, PTL DEF Spec, KeepsLifecycle, Lifecycle!Spec
=============================================================================
