\* Two requests of two guests, or one campaign; more workers than their jobs can have attempts.
SPECIFICATION FairSpec
CONSTANTS
    Handlers = {h1, h2}
    Workers = {w1, w2, w3, w4}
    Guests = {g1, g2}
    None = None
    Scheduled = {c1}
    Traffic <- MCTraffic
    MaxSends = 2
    Attempts = 1
    CampaignAttempts = 2
    Stalls = 1
    Crashes = TRUE
CHECK_DEADLOCK FALSE
INVARIANTS
    
    StatusIsBacked
    SentCampaignReachedEveryGuest
PROPERTIES
    QueuedMessageIsTried
