\* Two calls, two attempts to reconnect, two lost connections.
SPECIFICATION FairSpec
CONSTANTS
    Calls <- TwoCalls
    MaxRetries = 2
    MaxDrops = 2
INVARIANTS TypeOK CountSeesOwnPush
PROPERTIES PushesSettled ImplementsListCommands EveryCommandEnds
CHECK_DEADLOCK FALSE
