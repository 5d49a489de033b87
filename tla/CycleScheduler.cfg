SPECIFICATION FairSpec
CONSTANTS
    H = 12
    TickSizes = {4}
    Sleep <- MCSleep
    InterruptibleSleep <- MCInterruptibleSleep
    PostDelay = 2
    AfterPost = {3}
    Triggers <- MCTriggers
    StartDelay = 2
    IdleLimit = 4
INVARIANTS
    TypeOK
    QueueInOrder
    NextIsLowerBound
    WakeUpsMatchAwait
    KeysAreUnique
PROPERTIES
    InterruptedOnlyByTrigger
    TimeStandsStillInNestedCalls
    TicksEndAndSleepersRun
    TimelineRefinement
