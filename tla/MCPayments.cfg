\* Two guests racing for one reference, or payments overlapping with edits.
SPECIFICATION Spec
CONSTANTS
    Handlers = {h1, h2, h3, h4}
    Guests = {g1, g2}
    Refs = {r1, r2}
    Amounts = {1, 2}
    Target = 2
    Edits <- MCEdits
    Outcomes = {"PAID", "FAILED"}
    None = None
    Ops = {"pay", "webhook", "edit"}
    MaxInFlight = 2
    Faults = {}
    KeysExpire = TRUE
    LateReports = TRUE
SYMMETRY Symmetry
CONSTRAINT Scenario
CHECK_DEADLOCK FALSE
INVARIANTS
    RowsAndChargesAgree
    CreditBacked
    DoubleCreditExplained
    PaidIsCredited
    ContributionConsistent
    TicketIsPaidFor
    LedgerExact
PROPERTIES
    OnlyStaleReadsPayTwice
