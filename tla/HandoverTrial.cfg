\* Two taps at a time on the trial, with every failure, restarts, and the limit switched off and on.
CONSTANTS
    Accounts = {a1, a2, a3}
    Orders = {}
    Renewals = {}
    Confirmers = {}
    Screens = {m1}
    Legacy = {m3}
    Devices = {"android"}
    Taps = {h1, h2}
    Faults = {"ibsng_down", "collision", "telegram_down", "edit_refused", "no_material", "crash"}
    Cap = 2
    MaxSwitches = 2
    None = None
SPECIFICATION Spec
SYMMETRY TapSymmetry
INVARIANTS HandedOverWorks 
CHECK_DEADLOCK FALSE
