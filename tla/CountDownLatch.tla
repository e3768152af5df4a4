--------------------------- MODULE CountDownLatch ---------------------------
(***************************************************************************)
(* packages/core/src/CountDownLatch.cpp.  As in ReadWriteMutex, a stretch  *)
(* of code between two waits runs with m_mutex held and is one step, and   *)
(* the condition variable m_countAtZero is the set of threads blocked on   *)
(* it.  The clock is left out: a timed wait may give up at any moment.     *)
(***************************************************************************)
EXTENDS LatchState

vars == <<count, blocked, call, sawZero, spurious, returned>>

Calls == {"none", "await", "timedAwait"}

\* "released" is a return of await() or a true of the timed one.
Results == {"nothing", "released", "timedOut"}

\* The count never goes below zero; a thread is blocked in at most one call.
TypeOK ==
    /\ count \in Nat
    /\ blocked \in SUBSET Callers
    /\ call \in [Callers -> Calls]
    /\ sawZero \in SUBSET Callers
    /\ spurious \in SUBSET Callers
    /\ returned \in [Callers -> Results]

Init ==
    /\ count \in Counts
    /\ blocked = {}
    /\ call = [t \in Callers |-> "none"]
    /\ sawZero = {}
    /\ spurious = {}
    /\ returned = [t \in Callers |-> "nothing"]

Return(t, result) ==
    /\ call' = [call EXCEPT ![t] = "none"]
    /\ returned' = [returned EXCEPT ![t] = result]

\* Mutant: the count is not tested before waiting.
AwaitAlwaysWaits(t, kind) ==
    /\ call[t] = "none"
    /\ blocked' = blocked \cup {t}
    /\ sawZero' = sawZero \ {t}
    /\ call' = [call EXCEPT ![t] = kind]
    /\ returned' = [returned EXCEPT ![t] = "nothing"]
    /\ spurious' = spurious \ {t}
    /\ UNCHANGED count

\* Both awaits test the count once and then wait once.
Await(t, kind) ==
    /\ call[t] = "none"
    /\ spurious' = spurious \ {t}
    /\ UNCHANGED count
    /\ \/ /\ count = 0
          /\ sawZero' = sawZero \cup {t}
          /\ returned' = [returned EXCEPT ![t] = "released"]
          /\ UNCHANGED <<blocked, call>>
       \/ /\ count # 0
          /\ sawZero' = sawZero \ {t}
          /\ blocked' = blocked \cup {t}
          /\ call' = [call EXCEPT ![t] = kind]
          /\ returned' = [returned EXCEPT ![t] = "nothing"]

\* A thread that has been woken returns without testing the count again.
Woken(t) ==
    /\ call[t] # "none"
    /\ t \notin blocked
    /\ Return(t, "released")
    /\ UNCHANGED <<count, blocked, sawZero, spurious>>

\* Mutant: the result of timed_wait is not passed on.
TimeOutIgnored(t) ==
    /\ call[t] = "timedAwait"
    /\ t \in blocked
    /\ blocked' = blocked \ {t}
    /\ Return(t, "released")
    /\ UNCHANGED <<count, sawZero, spurious>>

\* timed_wait gives up: it returns false whatever the count has become.
TimeOut(t) ==
    /\ call[t] = "timedAwait"
    /\ t \in blocked
    /\ blocked' = blocked \ {t}
    /\ Return(t, "timedOut")
    /\ UNCHANGED <<count, sawZero, spurious>>

\* boost::condition::wait may return without a notification.
SpuriousWakeup(t) ==
    /\ t \in blocked
    /\ blocked' = blocked \ {t}
    /\ spurious' = spurious \cup {t}
    /\ UNCHANGED <<count, call, sawZero, returned>>

InAwait == {t \in Callers : call[t] # "none"}

\* Mutant: only one of the waiting threads is notified.
CountDownNotifyOne ==
    /\ count' = IF count > 0 THEN count - 1 ELSE count
    /\ \/ \E t \in blocked : blocked' = blocked \ {t}
       \/ blocked = {} /\ blocked' = {}
    /\ sawZero' = IF count' = 0 THEN sawZero \cup InAwait ELSE sawZero
    /\ UNCHANGED <<call, spurious, returned>>

\* Mutant: the count is lowered without looking whether it is at zero.
CountDownUnguarded ==
    /\ count' = count - 1
    /\ blocked' = {}
    /\ sawZero' = IF count' = 0 THEN sawZero \cup InAwait ELSE sawZero
    /\ UNCHANGED <<call, spurious, returned>>

\* countDown notifies everybody at every call, not only at zero.
CountDown ==
    /\ count' = IF count > 0 THEN count - 1 ELSE count
    /\ blocked' = {}
    /\ sawZero' = IF count' = 0 THEN sawZero \cup InAwait ELSE sawZero
    /\ UNCHANGED <<call, spurious, returned>>

\* The caller is bound by the assertion on m_count; the reset may overtake
\* threads that have been woken and have not run yet.
ResetCount(n) ==
    /\ count = 0
    /\ count' = n
    /\ UNCHANGED <<blocked, call, sawZero, spurious, returned>>

Next ==
    \/ \E t \in Callers :
        \/ \E kind \in {"await", "timedAwait"} : Await(t, kind)
        \/ Woken(t)
        \/ TimeOut(t)
        \/ SpuriousWakeup(t)
    \/ CountDown
    \/ \E n \in Counts : ResetCount(n)

Spec == Init /\ [][Next]_vars

\* A woken thread gets m_mutex sooner or later.  Nobody is obliged to count down.
FairSpec == Spec /\ \A t \in Callers : WF_vars(Woken(t))

-----------------------------------------------------------------------------
(* Properties *)

\* Once a thread has seen zero its await() ends, even when resetCount raises
\* the count again before it runs (Updatable::background does so).
ZeroReleases ==
    \A t \in Callers : (call[t] = "await" /\ t \in sawZero) ~> call[t] = "none"
=============================================================================
