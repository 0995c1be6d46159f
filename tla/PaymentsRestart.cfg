\* One restart, which may fall into an activation.
SPECIFICATION FairSpec
CONSTANTS
    None = None
    Orders = {o1}
    Renewals = {}
    Discounted = {o1}
    Callbacks = {w1}
    Sweeps = {s1}
    Txns = {t1}
    FirstTxn = t1
    Faults = {}
    MaxCrashes = 1
PROPERTIES CompletedIsPaid
CHECK_DEADLOCK FALSE
