\* The route as it is: only uuids reach checkIn.
SPECIFICATION Spec
CONSTANTS
    Handlers = {h1, h2}
    Guests = {g1}
    None = None
    ScanFormats = {"uuid"}
    MaxInFlight = 1
    Faults = FALSE
CHECK_DEADLOCK FALSE
INVARIANTS
    TicketIsAccepted
