\* One discounted purchase, two callback handlers and two sweeps, coin switch,
\* every fault and one restart.
SPECIFICATION Spec
CONSTANTS
    None = None
    Orders = {o1}
    Renewals = {}
    Discounted = {o1}
    Callbacks = {w1, w2}
    Sweeps = {s1, s2}
    Txns = {t1, t2}
    FirstTxn = t1
    Faults = {"ibsng_down", "reply_lost", "telegram_down", "plisio_down", "aged"}
    MaxCrashes = 1
SYMMETRY ProcSymmetry
INVARIANTS TypeOK PaidIsServed ServedIsPaidFor FailedIsUnpaid PurchaseServedOnce
PROPERTIES ClosedStays KeepsLifecycle
CHECK_DEADLOCK FALSE
