\* Three taps at a time on the pickers of a renewal that two processes
\* confirm.
CONSTANTS
    Accounts = {}
    Orders = {o1}
    Renewals = {o1}
    Confirmers = {c1, c2}
    Screens = {}
    Legacy = {}
    Devices = {"ios", "android"}
    Taps = {h1, h2, h3}
    Faults = {"telegram_down", "no_material", "crash"}
    Cap = 3
    MaxSwitches = 0
    None = None
SPECIFICATION Spec
SYMMETRY TapSymmetry
INVARIANTS CredentialsComeFirst EachKeyboardRunsOnce
CHECK_DEADLOCK FALSE
