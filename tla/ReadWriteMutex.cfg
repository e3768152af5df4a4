SPECIFICATION FairSpec
CONSTANT Threads = {t1, t2, t3, t4}
INVARIANTS Exclusion NoLostWakeup
PROPERTIES ImplementsLock WaitersServed
