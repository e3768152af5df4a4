SPECIFICATION FairSpec
CONSTANTS
    Clients = {c1, c2}
    Loop = loop
    Speeds = {0, 1}
    Initial = 0
    Nobody = none
    MaxCalls = 3
    MaxErrors = 1
INVARIANT DeviceGuarded
PROPERTIES CommandsSent ClientReturns
CHECK_DEADLOCK FALSE
