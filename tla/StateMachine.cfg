\* Three events from others, two runs of the machine.
\* It stops when these are used up.
SPECIFICATION FairSpec
CONSTANTS
    Main = Main
    None = None
    Begin = "Gate"
    Table <- MCTable
    Branching <- MCBranching
    Vetoes <- MCVetoes
    BranchOf <- MCBranchOf
    TimerOf <- MCTimerOf
    Forgetful <- MCForgetful
    Announces <- MCAnnounces
    External <- MCExternal
    Foreign <- MCForeign
    MaxSent = 3
    MaxStarts = 2
INVARIANTS NothingOutlivesState TimeoutIsOwn
PROPERTIES OneStepPerEvent TimedStatesEnd
CHECK_DEADLOCK FALSE
