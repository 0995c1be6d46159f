\* Two full admins and a new customer, two updates at once, three connections.
CONSTANTS
    Users = {"ann", "ben", "eve"}
    Bootstrap = {}
    Staff = {"ann", "ben"}
    FirstAdmins <- MCFirstAdmins
    Known = {"ann", "ben"}
    Updates = {h1, h2}
    PoolSize = 3
    Networks = {"TRC20", "BEP20"}
    None = None
    Budgets <- MCBudgets
SPECIFICATION Spec
INVARIANTS TypeOK ActsWithAuthority SomeoneIsFull NewUserOnce SettlementPair
PROPERTIES Answered
CHECK_DEADLOCK FALSE
