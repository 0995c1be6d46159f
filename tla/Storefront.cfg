\* One admin, one tap at a time, three orders, two processes that activate them; behaviours with many changes of
\* codes, or a few of everything.
CONSTANTS
    Plans = {"month", "unlimited", "trial"}
    Trials = {"trial"}
    FirstPlans <- MCFirstPlans
    Admins = {adm}
    Prices = {0, 1}
    None = None
    Codes = {"SPRING", "NEW"}
    FirstCodes <- MCFirstCodes
    Percents = {50004, 100010}
    Limits = {1}
    All = All
    Deleted = Deleted
    Taps = {h1}
    Orders = {o1, o2, o3}
    Confirmers = {c1, c2}
    Budgets <- MCBudgets
SPECIFICATION Spec
SYMMETRY Symmetry
INVARIANTS TypeOK NothingForFree SoldWhileAllowed ChargedAsOffered
PROPERTIES LimitIsKept
CHECK_DEADLOCK FALSE
