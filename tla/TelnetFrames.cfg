SPECIFICATION Spec
CONSTANTS
    Payloads <- PayloadsAll
    Commands <- CommandsAll
    MaxFrames = 3
    MaxCommands = 2
    MaxSent = 4
    MaxCancels = 2
INVARIANTS
    TypeOK
    NothingLost
    AnswersInOrder
PROPERTIES
    ChannelSpec
CHECK_DEADLOCK FALSE
