\* One user thread, the dispatcher and one publisher of the parent; two
\* events of two types.  It stops when the last event is dispatched.
SPECIFICATION FairSpec
CONSTANTS
    Users = {u}
    Dispatcher = d
    Publishers = {p}
    a = a  b = b  h1 = h1  h2 = h2
    Types <- MCTypes
    Handlers <- MCHandlers
    TypeOf <- MCTypeOf
    MaxPushes = 2
INVARIANT Delivery
PROPERTIES NoCallOnceLeft CallsReturn QueuedIsReceived
CHECK_DEADLOCK FALSE
