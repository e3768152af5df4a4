\* The way the program uses the latch: a count of one, as in Updatable and Camera.
SPECIFICATION FairSpec
CONSTANTS
    Callers = {t1, t2, t3}
    Counts = {1}
INVARIANT ReleasedAtZero
PROPERTY ZeroReleases
