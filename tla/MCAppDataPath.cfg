SPECIFICATION FairSpec
CONSTANTS
    Capacity = 2
    NoCommand = NoCommand
    Callers = {ui}
    Scenario = scenario
    MaxActions = 1
    MaxCommands = 4
    MaxSessions = 2
INVARIANTS
    SentInOrder
    NoCarryOver
    FaultsAccounted
    NewestTextSurvives
PROPERTIES
    RingIsFifo
    CommandsAreTaken
CHECK_DEADLOCK FALSE
