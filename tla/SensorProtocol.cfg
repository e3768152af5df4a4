\* Three calls are enough for a command that is cut short, one that runs into
\* it and one that is deceived; the sync is among them.  One attempt more than
\* the longest command has bytes, as 20 is one more than 19.
SPECIFICATION FairSpec
CONSTANTS
    temp = "temp"
    used = "used"
    fire = "fire"
    speeds = "speeds"
    None = "none"
    Reads <- MCReads
    Writes <- MCWrites
    SetSpeed = "speeds"
    Length <- MCLength
    Cycle <- MCCycle
    Masked <- MCMasked
    Zeroed <- MCZeroed
    Unset <- MCUnset
    MaxSyncAttempts = 5
    MaxExchanges = 3
    MaxLosses = 1
INVARIANTS BoardInHand SuccessIsFresh SyncBringsInStep CycleIsComplete
PROPERTY MotorsStop
CHECK_DEADLOCK FALSE
