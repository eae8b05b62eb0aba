\* The service by itself: every code format reaches checkIn.
SPECIFICATION FairSpec
CONSTANTS
    Handlers = {h1, h2, h3, h4}
    Guests = {g1}
    None = None
    ScanFormats = {"token", "uuid"}
    MaxInFlight = 3
    Faults = TRUE
CHECK_DEADLOCK FALSE
INVARIANTS
    LateScansNeverAdmit
    SentTokensAreStored
PROPERTIES
    CurrentCodesOpenTheDoor
