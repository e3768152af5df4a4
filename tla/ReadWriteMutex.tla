--------------------------- MODULE ReadWriteMutex ---------------------------
(***************************************************************************)
(* packages/core/src/ReadWriteMutex.cpp: a monitor of one boost::mutex,    *)
(* two condition variables and three counters.                             *)
(*                                                                         *)
(* Every function runs with m_mutex held from its first line to its last,  *)
(* except inside a wait, so the stretch between two waits is one step.  A  *)
(* condition variable is the set of threads blocked on it; a thread that   *)
(* has been woken (by a notify_all or spuriously) is outside the set and   *)
(* competes again for m_mutex before it re-tests its loop condition.       *)
(***************************************************************************)
EXTENDS Naturals, FiniteSets

CONSTANT Threads

ASSUME ThreadsAssumption == IsFiniteSet(Threads)

VARIABLES
    readers,         \* m_readers
    pendingWriters,  \* m_pendingWriters
    currentWriter,   \* m_currentWriter
    noReaders,       \* threads blocked on m_noReaders
    writerFinished,  \* threads blocked on m_writerFinished
    pc               \* where each thread is

vars == <<readers, pendingWriters, currentWriter, noReaders, writerFinished, pc>>

\* "pending" is the first loop of acquireWriteLock, "nextInLine" the second.
Locations == {"idle", "wantRead", "reading", "pending", "nextInLine", "writing"}

At(l) == {t \in Threads : pc[t] = l}

Goto(t, l) == pc' = [pc EXCEPT ![t] = l]

\* The counters are unsigned in the code: none is ever lowered below zero.
TypeOK ==
    /\ readers \in Nat
    /\ pendingWriters \in Nat
    /\ currentWriter \in BOOLEAN
    /\ noReaders \in SUBSET Threads
    /\ writerFinished \in SUBSET Threads
    /\ pc \in [Threads -> Locations]

Init ==
    /\ readers = 0
    /\ pendingWriters = 0
    /\ currentWriter = FALSE
    /\ noReaders = {}
    /\ writerFinished = {}
    /\ pc = [t \in Threads |-> "idle"]

-----------------------------------------------------------------------------
(* Readers *)

\* Mutant: the loop looks at the current writer only.
ReaderIgnoresPending == currentWriter

\* The loop condition of acquireReadLock.
ReaderMustWait == pendingWriters # 0 \/ currentWriter

ReadLoop(t) ==
    \/ /\ ReaderMustWait
       /\ writerFinished' = writerFinished \cup {t}
       /\ Goto(t, "wantRead")
       /\ UNCHANGED <<readers, pendingWriters, currentWriter, noReaders>>
    \/ /\ ~ReaderMustWait
       /\ readers' = readers + 1
       /\ Goto(t, "reading")
       /\ UNCHANGED <<pendingWriters, currentWriter, noReaders, writerFinished>>

AcquireReadLock(t) == pc[t] = "idle" /\ ReadLoop(t)

ReaderResumes(t) == pc[t] = "wantRead" /\ t \notin writerFinished /\ ReadLoop(t)

\* Mutant: the last reader leaves without notifying m_noReaders.
ReleaseReadSilently(t) ==
    /\ pc[t] = "reading"
    /\ readers' = readers - 1
    /\ Goto(t, "idle")
    /\ UNCHANGED <<pendingWriters, currentWriter, noReaders, writerFinished>>

ReleaseReadLock(t) ==
    /\ pc[t] = "reading"
    /\ readers' = readers - 1
    /\ noReaders' = IF readers' = 0 THEN {} ELSE noReaders
    /\ Goto(t, "idle")
    /\ UNCHANGED <<pendingWriters, currentWriter, writerFinished>>

-----------------------------------------------------------------------------
(* Writers *)

\* The second loop of acquireWriteLock, entered with pw writers announced.
WriterTurn(t, pw) ==
    \/ /\ currentWriter
       /\ pendingWriters' = pw
       /\ writerFinished' = writerFinished \cup {t}
       /\ Goto(t, "nextInLine")
       /\ UNCHANGED <<readers, currentWriter, noReaders>>
    \/ /\ ~currentWriter
       /\ pendingWriters' = pw - 1
       /\ currentWriter' = TRUE
       /\ Goto(t, "writing")
       /\ UNCHANGED <<readers, noReaders, writerFinished>>

\* The first loop, falling through to the second without giving m_mutex up.
WriteLoop(t, pw) ==
    \/ /\ readers > 0
       /\ pendingWriters' = pw
       /\ noReaders' = noReaders \cup {t}
       /\ Goto(t, "pending")
       /\ UNCHANGED <<readers, currentWriter, writerFinished>>
    \/ /\ readers = 0
       /\ WriterTurn(t, pw)

\* Mutant: a writer does not announce itself.
AcquireWriteUnannounced(t) == pc[t] = "idle" /\ WriteLoop(t, pendingWriters)

AcquireWriteLock(t) == pc[t] = "idle" /\ WriteLoop(t, pendingWriters + 1)

\* Mutant: the second loop is an if, so a woken writer does not look again.
WriterResumesUnchecked(t) ==
    \/ pc[t] = "pending" /\ t \notin noReaders /\ WriteLoop(t, pendingWriters)
    \/ /\ pc[t] = "nextInLine" /\ t \notin writerFinished
       /\ pendingWriters' = pendingWriters - 1
       /\ currentWriter' = TRUE
       /\ Goto(t, "writing")
       /\ UNCHANGED <<readers, noReaders, writerFinished>>

WriterResumes(t) ==
    \/ pc[t] = "pending" /\ t \notin noReaders /\ WriteLoop(t, pendingWriters)
    \/ pc[t] = "nextInLine" /\ t \notin writerFinished /\ WriterTurn(t, pendingWriters)

\* Mutant: notify_one instead of notify_all.
ReleaseWriteNotifyOne(t) ==
    /\ pc[t] = "writing"
    /\ currentWriter' = FALSE
    /\ \/ \E u \in writerFinished : writerFinished' = writerFinished \ {u}
       \/ writerFinished = {} /\ writerFinished' = {}
    /\ Goto(t, "idle")
    /\ UNCHANGED <<readers, pendingWriters, noReaders>>

ReleaseWriteLock(t) ==
    /\ pc[t] = "writing"
    /\ currentWriter' = FALSE
    /\ writerFinished' = {}
    /\ Goto(t, "idle")
    /\ UNCHANGED <<readers, pendingWriters, noReaders>>

-----------------------------------------------------------------------------

\* boost::condition::wait may return without a notification.
SpuriousWakeup(t) ==
    /\ t \in noReaders \cup writerFinished
    /\ noReaders' = noReaders \ {t}
    /\ writerFinished' = writerFinished \ {t}
    /\ UNCHANGED <<readers, pendingWriters, currentWriter, pc>>

Resume(t) == ReaderResumes(t) \/ WriterResumes(t)
Release(t) == ReleaseReadLock(t) \/ ReleaseWriteLock(t)

Next ==
    \E t \in Threads :
        \/ AcquireReadLock(t)
        \/ ReaderResumes(t)
        \/ ReleaseReadLock(t)
        \/ AcquireWriteLock(t)
        \/ WriterResumes(t)
        \/ ReleaseWriteLock(t)
        \/ SpuriousWakeup(t)

Spec == Init /\ [][Next]_vars

\* A woken thread gets m_mutex sooner or later, and the scoped locks of the
\* program end: no thread is obliged to ask for the lock.
FairSpec ==
    /\ Spec
    /\ \A t \in Threads : WF_vars(Resume(t)) /\ WF_vars(Release(t))

-----------------------------------------------------------------------------
(* Properties *)

\* Multiple readers or one writer, never both: the counters can only give
\* this if no reader slips in between the two loops of acquireWriteLock,
\* because the second loop does not look at m_readers again.
Exclusion ==
    /\ At("writing") # {} => At("reading") = {}
    /\ \A t, u \in At("writing") : t = u

\* No lost wake-up: whoever is blocked on a condition variable still has
\* somebody whose release will notify it, even though releaseReadLock only
\* notifies m_noReaders and acquireWriteLock lowers m_pendingWriters without
\* notifying anybody.
NoLostWakeup ==
    /\ noReaders # {} => At("reading") # {}
    /\ \A t \in writerFinished :
          \/ At("writing") # {}
          \/ pc[t] = "wantRead" /\ At("pending") \cup At("nextInLine") # {}

\* Once a writer has announced itself no reader is let in before it
\* (the "ensure subsequent readers block" of acquireWriteLock).
WritersFirst ==
    [][At("pending") \cup At("nextInLine") # {} => At("reading")' \subseteq At("reading")]_vars

\* The refinement: a thread between the two loops still only waits to write.
Lock == INSTANCE ReadersWriters WITH
    phase <- [t \in Threads |->
                CASE pc[t] \in {"pending", "nextInLine"} -> "wantWrite"
                  [] OTHER -> pc[t]]

\* The monitor implements the writer-preferring readers-writers lock, with its
\* promise that some waiting writer is eventually served.
ImplementsLock == Lock!FairSpec

\* A thread that waits alone is served: with no other thread asking again
\* for the lock for ever, everybody who waits gets it.
WaitersServed ==
    (<>[][\A t \in Threads : pc[t] = "idle" => pc'[t] = "idle"]_vars)
        => \A t \in Threads :
             /\ pc[t] = "wantRead" ~> pc[t] = "reading"
             /\ pc[t] \in {"pending", "nextInLine"} ~> pc[t] = "writing"

-----------------------------------------------------------------------------
(* The inductive invariant of Exclusion: what the three counters count, and  *)
(* that a writer past the first loop keeps readers out by still being counted *)
(* in pendingWriters.                                                         *)

\* What m_readers, m_pendingWriters and m_currentWriter count.
CountersExact ==
    /\ readers = Cardinality(At("reading"))
    /\ pendingWriters = Cardinality(At("pending") \cup At("nextInLine"))
    /\ currentWriter <=> At("writing") # {}

\* Nobody reads once a writer is past the first loop.
LineIsEmptyOfReaders == At("nextInLine") # {} => At("reading") = {}

\* The inductive invariant proved in MonitorProofs.
IInv == TypeOK /\ CountersExact /\ LineIsEmptyOfReaders /\ Exclusion
=============================================================================
