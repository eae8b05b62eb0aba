\* Four requests about one account, two at a time.
SPECIFICATION Spec
CONSTANTS
    Handlers = {h1, h2, h3, h4}
    None = None
    Traffic <- MCTraffic
    Plans = {"FREE", "BASIC"}
    LastSecond = 2
    MaxInFlight = 2
    Faults = TRUE
CHECK_DEADLOCK FALSE
INVARIANTS
    UsedOnlyOnce
    SessionsEndWithReset
    OneOpenLink
    UpgradeIsShown
