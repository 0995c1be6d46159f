\* Two taps of every kind, recipients who cannot be reached, IBSng failing before
\* or after a change, restarts; the two lock orders deadlock.
CONSTANTS
    Users = {ann, bob}
    FirstOwner = ann
    Offers = {1, 2}
    Handlers = {h1, h2}
    Faults = {"unreachable", "ibsng_down", "crash"}
    None = None
SPECIFICATION FairSpec
INVARIANTS TypeOK StandingOffer CooldownIsOwners ResetDecisionHolds
PROPERTIES SettledStays KeepsCustody TapsAreAnswered
CHECK_DEADLOCK FALSE
