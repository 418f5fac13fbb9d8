CONSTANTS
    LastSeed = 2
    Wraps = 2
    MaxPolls = 2
    MaxFetches = 2
SPECIFICATION FairSpec
INVARIANTS CollectedIsMeasured
PROPERTIES OnlyWholeIsWritten IntactIsAccepted EveryJobIsSettled
CHECK_DEADLOCK FALSE
