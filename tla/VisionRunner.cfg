\* One client, as the mission thread is; two loops are what can be alive at a
\* time.  One detector is enough for the set to be empty or not.
SPECIFICATION RunnerFairSpec
CONSTANTS
    Controllers = {client, l1, l2}
    Loops = {l1, l2}
    JoinArgs = {TRUE, FALSE}
    UpdateStops = FALSE
    Settings = {"default"}
    RealTime = {}
    Detectors = {d1}
    MaxCalls = 3
INVARIANTS RunnerLifetime StoppedMeansEmpty
PROPERTIES ClientReturns FramesRecorded
CHECK_DEADLOCK FALSE
