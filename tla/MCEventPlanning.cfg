\* Three requests about one event, at a time, with one guest and one invitation.
SPECIFICATION Spec
CONSTANTS
    Handlers = {h1, h2, h3}
    Invited = {g1}
    Drafts = {i1}
    None = None
    Traffic <- MCTraffic
    Answers = {"ACCEPTED"}
    Rows = 2
    MaxImports = 2
    MaxInFlight = 3
CHECK_DEADLOCK FALSE
INVARIANTS
    TypeOK
    ReadsAreCurrent
    
    LastAnswerStands
    
    InvitationsKeepWhatWasWritten
    NothingAfterRemoval
