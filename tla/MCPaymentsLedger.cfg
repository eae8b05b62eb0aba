\* One request at a time, with crashes, retries and expired keys.
SPECIFICATION FairSpec
CONSTANTS
    Handlers = {h1, h2, h3}
    Guests = {g1}
    Refs = {r1}
    Amounts = {1, 2}
    Target = 2
    Edits <- NoEdits
    Outcomes = {"PAID", "FAILED"}
    None = None
    Ops = {"pay", "webhook", "balance"}
    MaxInFlight = 1
    Faults = {"webhook", "balance"}
    KeysExpire = TRUE
    LateReports = FALSE
CHECK_DEADLOCK FALSE
PROPERTIES
    ImplementsLedger
    PaidLeadsToCredit
