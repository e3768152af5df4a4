\* No error on the line is needed: fireTorpedo() asks for a torpedo there is not.
SPECIFICATION Spec
CONSTANTS
    Clients = {c1, c2}
    Loop = loop
    Speeds = {0, 1}
    Initial = 0
    Nobody = none
    MaxCalls = 2
    MaxErrors = 0
INVARIANT NeverWaitsForItself
CHECK_DEADLOCK FALSE
