\* One controller, as the owner of an Updatable is in the program, and every
\* kind of call in every order, update() stopping itself included.
\* Settings do not steer the loop.
SPECIFICATION FairSpec
CONSTANTS
    Controllers = {c1}
    Loops = {l1, l2}
    JoinArgs = {TRUE, FALSE}
    UpdateStops = TRUE
    Settings = {"default"}
    RealTime = {}
INVARIANT LoopLifetime
PROPERTIES CallsReturnUnlessOverlapped KeepsUpdating
CHECK_DEADLOCK FALSE
