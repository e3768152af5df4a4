\* Two threads, each making up to three calls, those of its handlers included.
\* It stops when all calls are made, or at a data race.
SPECIFICATION FairSpec
CONSTANTS
    Threads = {t1, t2}
    a = a  b = b  h1 = h1  h2 = h2
    Types <- MCTypes
    Handlers <- MCHandlers
    TypeOf <- MCTypeOf
    Uses <- MCUses
    MaxCalls = 3
INVARIANTS RacesOnlyWithNewcomers HandlersGuarded
PROPERTY CallsReturn
CHECK_DEADLOCK FALSE
