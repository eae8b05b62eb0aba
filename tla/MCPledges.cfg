\* One pledge and two guests; as many workers as a job can have attempts, and one.
SPECIFICATION FairSpec
CONSTANTS
    Handlers = {h1, h2, h3}
    Workers = {w1, w2, w3, w4}
    Pledges = {p1}
    Guests = {g1, g2}
    None = None
    Attempts = 2
    Stalls = 1
    ClocksLag = TRUE
    Patches = {"ACTIVE", "CANCELLED"}
    Faults = TRUE
CHECK_DEADLOCK FALSE

    
PROPERTIES
    SettledUndoneOnlyByStaleReads
    
