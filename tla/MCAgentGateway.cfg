SPECIFICATION Spec
CONSTANTS
    Handlers = {h1, h2, h3}
    Guests = {g1}
    TheEvent = event
    None = None
    Channels = {whatsapp, sms}
    Traffic <- ManyTraffics
    Texts <- SomeTexts
    Required = 2
    MaxInFlight = 2
    MaxRedelivery = 1
    Faults = TRUE
CHECK_DEADLOCK FALSE
INVARIANTS
    TypeOK
    OneConversation
    
    
    RemindersAreSpaced
