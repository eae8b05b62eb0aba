SPECIFICATION Spec
CONSTANTS
    Handlers = {h1, h2, h3}
    Issued = {k1}
    Users = {u1, u2}
    Phones = {p1}
    Addresses = {a1}
    Tracked = {m1}
    None = None
    Traffic <- ManyTraffics
    Grants <- TwoGrants
    Changes <- FourChanges
    GlobalLimit = 1
    KeyLimit = 2
    MaxInFlight = 2
    Faults = TRUE
CHECK_DEADLOCK FALSE
INVARIANTS
    TypeOK
    ChangesHold
    OneContactPerPhone
    
