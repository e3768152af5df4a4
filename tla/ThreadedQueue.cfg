\* Three consumers in every kind of pop, with spurious wake-ups.  It stops when
\* the last of the MaxPushes items is taken.
SPECIFICATION FairSpec
CONSTANTS
    Consumers = {c1, c2, c3}
    MaxPushes = 3
INVARIANTS FrontOfEmptyOnlyIfOvertaken NoItemSleptOver EachOnceInOrder
PROPERTY EveryItemTaken
CHECK_DEADLOCK FALSE
