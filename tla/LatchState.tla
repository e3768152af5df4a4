----------------------------- MODULE LatchState -----------------------------
(***************************************************************************)
(* The state of packages/core/src/CountDownLatch.cpp and what is to be     *)
(* true of it.  CountDownLatch has the steps.                              *)
(***************************************************************************)
EXTENDS Naturals

CONSTANTS
    Callers,
    Counts              \* the counts a latch is given, by its constructor or resetCount

ASSUME CountsAssumption == Counts \subseteq Nat

VARIABLES
    count,      \* m_count
    blocked,    \* threads blocked on m_countAtZero
    call,       \* what each thread is doing: no call, await(), await(timeout)
    sawZero,    \* history: threads whose last await has seen the count at zero
    spurious,   \* history: threads whose last await was woken by nobody
    returned    \* history: what the last await of each thread told its caller

-----------------------------------------------------------------------------
(* Properties *)

\* "Calling threads waits till the count on the latch is zero"
\* (CountDownLatch.h:31): a caller let go has seen a zero since it called.
\* The one exception is a wake-up by nobody, which await() does not notice.
ReleasedAtZero ==
    \A t \in Callers : returned[t] = "released" => t \in sawZero \cup spurious

\* A thread stays blocked only while there is something left to count down:
\* the countDown that reaches zero is never missed, not even by a thread whose
\* test of the count came just before it.
BlockedAboveZero == blocked # {} => count > 0
=============================================================================
