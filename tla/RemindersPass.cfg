\* Two accounts, one of them renewed up to twice, outages, one restart, lost answer or failed commit,
\* and an admin at the settings.
CONSTANTS
    Accounts = {a1, a2}
    PaidRenewals = {paid}
    AdminRenewals = {admin}
    Faults = {"ibsng_down", "telegram_down", "reply_lost", "db_down", "crash"}
    MaxCycles = 2
    Renewable = {a1}
    MaxLosses = 1
    MaxTaps = 2
    Near = 7
    Days = {9, 366}
    None = None
SPECIFICATION FairSpec
INVARIANTS OncePerCycle
PROPERTIES CandidateIsReminded
CHECK_DEADLOCK FALSE
