\* One message whose first send is refused.
SPECIFICATION Spec
CONSTANTS
    Handlers = {h1}
    Workers = {w1, w2}
    Guests = {g1}
    None = None
    Scheduled = {}
    Traffic <- Singles
    MaxSends = 2
    Attempts = 2
    CampaignAttempts = 1
    Stalls = 0
    Crashes = FALSE
CHECK_DEADLOCK FALSE
PROPERTIES
    FailedMessagesAreRetried
