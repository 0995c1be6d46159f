\* Liveness: no callback need arrive; IBSng, Plisio's API and Telegram fail
\* for a while, IBSng's answers are lost, and one restart falls anywhere.
SPECIFICATION FairSpec
CONSTANTS
    None = None
    Orders = {o1, o2}
    Renewals = {o2}
    Discounted = {}
    Callbacks = {w1}
    Sweeps = {s1}
    Txns = {t1}
    FirstTxn = t1
    Faults = {"ibsng_down", "reply_lost", "plisio_down", "telegram_down", "aged"}
    MaxCrashes = 1
PROPERTIES CompletedIsSettled
CHECK_DEADLOCK FALSE
