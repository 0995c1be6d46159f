\* One admin with two handlers at once; an id of a protocol is also an id of a
\* device, and one device's id is no protocol's.
CONSTANTS
    ProtocolIds = {1, 2}
    OpenVPN = 2
    L2TP = 1
    DeviceIds = {1, 2, 3}
    Android = 1
    Any = 0
    AdminTaps = {h1, h2}
    Budgets <- MCBudgets
    Unset = Unset
SPECIFICATION GuidesSpec
INVARIANTS OfferedIsDelivered
PROPERTIES SavedWhereMeant
CHECK_DEADLOCK FALSE
