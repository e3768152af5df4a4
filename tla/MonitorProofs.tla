------------------------ MODULE MonitorProofs ------------------------
(* Two of the monitors.  The readers-writers mutex: type correctness, mutual *)
(* exclusion, the absence of lost wake-ups and the preference of writers, for *)
(* any finite set of threads.  The latch, from "Latch" on: that no countDown  *)
(* is missed, and that nobody is let go early.                                *)
EXTENDS ReadWriteMutex, LatchState, FiniteSetTheorems, TLAPS

Waiting == At("pending") \cup At("nextInLine")

-----------------------------------------------------------------------------
(* What a change of one thread's location does to the sets At(l) *)

\* Moving a thread to l adds it to At(l) and takes it out of every other set.
LEMMA GotoMoves ==
    ASSUME NEW t \in Threads, NEW l \in Locations,
           pc \in [Threads -> Locations], Goto(t, l)
    PROVE  /\ pc' \in [Threads -> Locations]
           /\ At(l)' = At(l) \cup {t}
           /\ \A k \in Locations \ {l} : At(k)' = At(k) \ {t}
  BY DEF Goto, At, Locations

\* The sets At(l) are finite, since Threads is.
LEMMA AtFinite ==
    ASSUME NEW l \in Locations
    PROVE  IsFiniteSet(At(l))
  BY ThreadsAssumption, FS_Subset DEF At

\* So is the set of the threads inside acquireWriteLock.
LEMMA WaitingFinite == IsFiniteSet(Waiting)
  BY AtFinite, FS_Union DEF Waiting, Locations

-----------------------------------------------------------------------------
(* The inductive invariant *)

\* It holds initially: nobody is anywhere but idle.
LEMMA InitIInv == Init => IInv
  <1> SUFFICES ASSUME Init PROVE IInv
    OBVIOUS
  <1>1. TypeOK
    BY DEF Init, TypeOK, Locations
  <1>2. \A l \in Locations \ {"idle"} : At(l) = {}
    BY DEF Init, At
  <1>3. CountersExact
    BY <1>2, FS_EmptySet DEF Init, CountersExact, Locations
  <1> QED
    BY <1>1, <1>2, <1>3 DEF IInv, LineIsEmptyOfReaders, Exclusion, Locations

\* A reader let in by the loop of acquireReadLock, first time or after a wait.
LEMMA ReadLoopIInv ==
    ASSUME NEW t \in Threads, IInv, pc[t] \in {"idle", "wantRead"}, ReadLoop(t)
    PROVE  IInv'
  <1> USE DEF IInv, TypeOK
  <1>1. CASE ReaderMustWait
    <2>1. /\ Goto(t, "wantRead")
          /\ writerFinished' = writerFinished \cup {t}
          /\ UNCHANGED <<readers, pendingWriters, currentWriter, noReaders>>
      BY <1>1 DEF ReadLoop
    <2>2. \A l \in {"reading", "pending", "nextInLine", "writing"} : At(l)' = At(l)
      BY <2>1 DEF At, Goto
    <2> QED
      BY <2>1, <2>2, GotoMoves
         DEF CountersExact, LineIsEmptyOfReaders, Exclusion, Locations
  <1>2. CASE ~ReaderMustWait
    <2>1. /\ Goto(t, "reading")
          /\ readers' = readers + 1
          /\ UNCHANGED <<pendingWriters, currentWriter, noReaders, writerFinished>>
      BY <1>2 DEF ReadLoop
    <2>2. \A l \in {"pending", "nextInLine", "writing"} : At(l)' = At(l)
      BY <2>1 DEF At, Goto
    <2>3. At("reading")' = At("reading") \cup {t} /\ t \notin At("reading")
      BY <2>1, GotoMoves DEF At, Locations
    <2>4. Cardinality(At("reading")') = Cardinality(At("reading")) + 1
      BY <2>3, AtFinite, FS_AddElement DEF Locations
    <2>5. Waiting = {} /\ At("writing") = {}
      <3>1. pendingWriters = 0 /\ ~currentWriter
        BY <1>2 DEF ReaderMustWait
      <3> QED
        BY <3>1, WaitingFinite, FS_EmptySet DEF CountersExact, Waiting
    <2>6. TypeOK'
      BY <2>1, GotoMoves DEF Locations
    <2>7. CountersExact'
      BY <2>1, <2>2, <2>4 DEF CountersExact
    <2> QED
      BY <2>2, <2>5, <2>6, <2>7 DEF LineIsEmptyOfReaders, Exclusion, Waiting
  <1> QED
    BY <1>1, <1>2

\* The second loop of acquireWriteLock: entered only when nobody reads, with pw
\* the number of waiting writers, t included.
LEMMA WriterTurnIInv ==
    ASSUME NEW t \in Threads, NEW pw \in Nat, IInv,
           pc[t] \in {"idle", "pending", "nextInLine"},
           pw = Cardinality(Waiting \cup {t}),
           At("reading") = {},
           WriterTurn(t, pw)
    PROVE  IInv'
  <1> USE DEF IInv, TypeOK
  <1>1. CASE currentWriter
    <2>1. /\ Goto(t, "nextInLine")
          /\ pendingWriters' = pw
          /\ writerFinished' = writerFinished \cup {t}
          /\ UNCHANGED <<readers, currentWriter, noReaders>>
      BY <1>1 DEF WriterTurn
    <2>2. At("reading")' = At("reading") /\ At("writing")' = At("writing")
      BY <2>1 DEF At, Goto
    <2>3. Waiting' = Waiting \cup {t}
      BY <2>1 DEF At, Goto, Waiting
    <2> QED
      BY <2>1, <2>2, <2>3, GotoMoves
         DEF CountersExact, LineIsEmptyOfReaders, Exclusion, Locations, Waiting
  <1>2. CASE ~currentWriter
    <2>1. /\ Goto(t, "writing")
          /\ pendingWriters' = pw - 1
          /\ currentWriter' = TRUE
          /\ UNCHANGED <<readers, noReaders, writerFinished>>
      BY <1>2 DEF WriterTurn
    <2>2. At("writing") = {}
      BY <1>2 DEF CountersExact
    <2>3. At("writing")' = {t} /\ At("reading")' = {}
      BY <2>1, <2>2, GotoMoves DEF Locations
    <2>4. Waiting' = (Waiting \cup {t}) \ {t}
      BY <2>1 DEF At, Goto, Waiting
    <2>5. pw - 1 \in Nat /\ Cardinality(Waiting') = pw - 1
      <3>1. IsFiniteSet(Waiting \cup {t})
        BY WaitingFinite, FS_AddElement
      <3>2. Cardinality((Waiting \cup {t}) \ {t}) = Cardinality(Waiting \cup {t}) - 1
        BY <3>1, FS_RemoveElement
      <3>3. IsFiniteSet(Waiting') /\ Cardinality(Waiting') \in Nat
        BY <3>1, <2>4, FS_RemoveElement, FS_CardinalityType
      <3> QED
        BY <2>4, <3>2, <3>3
    <2> QED
      BY <2>1, <2>3, <2>5, GotoMoves
         DEF CountersExact, LineIsEmptyOfReaders, Exclusion, Locations, Waiting
  <1> QED
    BY <1>1, <1>2

\* The whole of acquireWriteLock, from its first line or from a wait in the first loop.
LEMMA WriteLoopIInv ==
    ASSUME NEW t \in Threads, NEW pw \in Nat, IInv,
           pc[t] \in {"idle", "pending"},
           pw = Cardinality(Waiting \cup {t}),
           WriteLoop(t, pw)
    PROVE  IInv'
  <1> USE DEF IInv, TypeOK
  <1>1. CASE readers > 0
    <2>1. /\ Goto(t, "pending")
          /\ pendingWriters' = pw
          /\ noReaders' = noReaders \cup {t}
          /\ UNCHANGED <<readers, currentWriter, writerFinished>>
      BY <1>1 DEF WriteLoop, WriterTurn
    <2>2. /\ At("reading")' = At("reading")
          /\ At("writing")' = At("writing")
          /\ At("nextInLine")' = At("nextInLine")
      BY <2>1 DEF At, Goto
    <2>3. Waiting' = Waiting \cup {t}
      BY <2>1 DEF At, Goto, Waiting
    <2> QED
      BY <2>1, <2>2, <2>3, GotoMoves
         DEF CountersExact, LineIsEmptyOfReaders, Exclusion, Locations, Waiting
  <1>2. CASE readers = 0
    <2>1. At("reading") = {}
      BY <1>2, AtFinite, FS_EmptySet DEF CountersExact, Locations
    <2>2. WriterTurn(t, pw)
      BY <1>2 DEF WriteLoop
    <2> QED
      BY <2>1, <2>2, WriterTurnIInv
  <1> QED
    BY <1>1, <1>2

\* releaseReadLock takes its caller out of the readers and lowers m_readers.
LEMMA ReleaseReadIInv ==
    ASSUME NEW t \in Threads, IInv, ReleaseReadLock(t)
    PROVE  IInv'
  <1> USE DEF IInv, TypeOK
  <1>1. /\ pc[t] = "reading"
        /\ Goto(t, "idle")
        /\ readers' = readers - 1
        /\ noReaders' \in SUBSET Threads
        /\ UNCHANGED <<pendingWriters, currentWriter, writerFinished>>
    BY DEF ReleaseReadLock
  <1>2. At("reading")' = At("reading") \ {t} /\ t \in At("reading")
    BY <1>1, GotoMoves DEF At, Locations
  <1>3. Cardinality(At("reading")') = Cardinality(At("reading")) - 1
    BY <1>2, AtFinite, FS_RemoveElement DEF Locations
  <1>4. Cardinality(At("reading")') \in Nat
    BY <1>2, AtFinite, FS_RemoveElement, FS_CardinalityType DEF Locations
  <1>5. \A l \in {"pending", "nextInLine", "writing"} : At(l)' = At(l)
    BY <1>1 DEF At, Goto
  <1>6. TypeOK'
    BY <1>1, <1>3, <1>4, GotoMoves DEF CountersExact, Locations
  <1>7. CountersExact'
    BY <1>1, <1>3, <1>5 DEF CountersExact
  <1> QED
    BY <1>2, <1>5, <1>6, <1>7 DEF LineIsEmptyOfReaders, Exclusion

\* releaseWriteLock: its caller was the only writer.
LEMMA ReleaseWriteIInv ==
    ASSUME NEW t \in Threads, IInv, ReleaseWriteLock(t)
    PROVE  IInv'
  <1> USE DEF IInv, TypeOK
  <1>1. /\ pc[t] = "writing"
        /\ Goto(t, "idle")
        /\ currentWriter' = FALSE
        /\ writerFinished' = {}
        /\ UNCHANGED <<readers, pendingWriters, noReaders>>
    BY DEF ReleaseWriteLock
  <1>2. At("writing")' = {}
    <2>1. At("writing") = {t}
      BY <1>1 DEF Exclusion, At
    <2> QED
      BY <1>1, <2>1, GotoMoves DEF Locations
  <1>3. \A l \in {"pending", "nextInLine", "reading"} : At(l)' = At(l)
    BY <1>1 DEF At, Goto
  <1> QED
    BY <1>1, <1>2, <1>3, GotoMoves
       DEF CountersExact, LineIsEmptyOfReaders, Exclusion, Locations

\* A wake-up changes no counter and moves no thread.
LEMMA SpuriousIInv ==
    ASSUME NEW t \in Threads, IInv, SpuriousWakeup(t)
    PROVE  IInv'
  BY DEF SpuriousWakeup, IInv, TypeOK, CountersExact, LineIsEmptyOfReaders, Exclusion, At

\* The number of waiting writers, once t is counted among them.
LEMMA AnnouncedCount ==
    ASSUME NEW t \in Threads, IInv
    PROVE  /\ pc[t] = "idle" =>
                 /\ pendingWriters + 1 \in Nat
                 /\ pendingWriters + 1 = Cardinality(Waiting \cup {t})
           /\ pc[t] \in {"pending", "nextInLine"} =>
                 /\ pendingWriters \in Nat
                 /\ pendingWriters = Cardinality(Waiting \cup {t})
  <1>1. pendingWriters \in Nat /\ pendingWriters = Cardinality(Waiting)
    BY DEF IInv, TypeOK, CountersExact, Waiting
  <1>2. ASSUME pc[t] = "idle" PROVE t \notin Waiting
    BY <1>2 DEF Waiting, At
  <1>3. ASSUME pc[t] \in {"pending", "nextInLine"} PROVE Waiting \cup {t} = Waiting
    BY <1>3 DEF Waiting, At
  <1> QED
    BY <1>1, <1>2, <1>3, WaitingFinite, FS_AddElement

\* A writer past the first loop knows that nobody reads.
LEMMA NextInLineAlone ==
    ASSUME NEW t \in Threads, IInv, pc[t] = "nextInLine"
    PROVE  At("reading") = {}
  BY DEF IInv, LineIsEmptyOfReaders, At

\* Every step of the monitor preserves the inductive invariant.
LEMMA NextIInv == IInv /\ [Next]_vars => IInv'
  <1> SUFFICES ASSUME IInv, [Next]_vars PROVE IInv'
    OBVIOUS
  <1>1. ASSUME NEW t \in Threads, AcquireReadLock(t) PROVE IInv'
    BY <1>1, ReadLoopIInv DEF AcquireReadLock
  <1>2. ASSUME NEW t \in Threads, ReaderResumes(t) PROVE IInv'
    BY <1>2, ReadLoopIInv DEF ReaderResumes
  <1>3. ASSUME NEW t \in Threads, ReleaseReadLock(t) PROVE IInv'
    BY <1>3, ReleaseReadIInv
  <1>4. ASSUME NEW t \in Threads, AcquireWriteLock(t) PROVE IInv'
    BY <1>4, WriteLoopIInv, AnnouncedCount DEF AcquireWriteLock
  <1>5. ASSUME NEW t \in Threads, WriterResumes(t) PROVE IInv'
    <2>1. CASE pc[t] = "pending" /\ WriteLoop(t, pendingWriters)
      BY <2>1, WriteLoopIInv, AnnouncedCount
    <2>2. CASE pc[t] = "nextInLine" /\ WriterTurn(t, pendingWriters)
      BY <2>2, WriterTurnIInv, AnnouncedCount, NextInLineAlone
    <2> QED
      BY <1>5, <2>1, <2>2 DEF WriterResumes
  <1>6. ASSUME NEW t \in Threads, ReleaseWriteLock(t) PROVE IInv'
    BY <1>6, ReleaseWriteIInv
  <1>7. ASSUME NEW t \in Threads, SpuriousWakeup(t) PROVE IInv'
    BY <1>7, SpuriousIInv
  <1>8. CASE UNCHANGED vars
    BY <1>8 DEF vars, IInv, TypeOK, CountersExact, LineIsEmptyOfReaders, Exclusion, At
  <1> QED
    BY <1>1, <1>2, <1>3, <1>4, <1>5, <1>6, <1>7, <1>8 DEF Next

\* The inductive invariant holds in every reachable state.
THEOREM SpecIInv == Spec => []IInv
  BY InitIInv, NextIInv, PTL DEF Spec

\* Type correctness of the monitor's counters and wait sets.
THEOREM SpecTypeOK == Spec => []TypeOK
  <1>1. IInv => TypeOK
    BY DEF IInv
  <1> QED
    BY <1>1, SpecIInv, PTL

\* One writer alone, or readers only, whatever the number of threads.
THEOREM SpecExclusion == Spec => []Exclusion
  <1>1. IInv => Exclusion
    BY DEF IInv
  <1> QED
    BY <1>1, SpecIInv, PTL

-----------------------------------------------------------------------------
(* Lost wake-ups *)

\* The counters as tests on the sets of threads, in the state before a step.
LEMMA CountersAsSets ==
    ASSUME IInv
    PROVE  /\ currentWriter <=> At("writing") # {}
           /\ readers > 0 <=> At("reading") # {}
           /\ pendingWriters # 0 <=> Waiting # {}
  <1>1. Cardinality(At("reading")) = 0 <=> At("reading") = {}
    BY AtFinite, FS_EmptySet DEF Locations
  <1>2. Cardinality(Waiting) = 0 <=> Waiting = {}
    BY WaitingFinite, FS_EmptySet
  <1> QED
    BY <1>1, <1>2 DEF IInv, TypeOK, CountersExact, Waiting

\* A reader that has to wait leaves a writer behind that will notify it; one
\* that gets in finds nobody blocked on m_writerFinished.
LEMMA ReadLoopNoLostWakeup ==
    ASSUME NEW t \in Threads, IInv, NoLostWakeup,
           pc[t] \in {"idle", "wantRead"}, ReadLoop(t)
    PROVE  NoLostWakeup'
  <1> USE CountersAsSets DEF IInv, TypeOK
  <1>1. CASE ReaderMustWait
    <2>1. /\ Goto(t, "wantRead")
          /\ writerFinished' = writerFinished \cup {t}
          /\ noReaders' = noReaders
      BY <1>1 DEF ReadLoop
    <2>2. /\ pc'[t] = "wantRead"
          /\ \A u \in Threads \ {t} : pc'[u] = pc[u]
          /\ \A l \in {"reading", "pending", "nextInLine", "writing"} : At(l)' = At(l)
      BY <2>1 DEF At, Goto
    <2>3. At("writing") # {} \/ Waiting # {}
      BY <1>1 DEF ReaderMustWait
    <2> QED
      BY <2>1, <2>2, <2>3 DEF NoLostWakeup, Waiting
  <1>2. CASE ~ReaderMustWait
    <2>1. Goto(t, "reading") /\ UNCHANGED <<noReaders, writerFinished>>
      BY <1>2 DEF ReadLoop
    <2>2. At("writing") = {} /\ Waiting = {}
      BY <1>2 DEF ReaderMustWait
    <2>3. writerFinished = {}
      BY <2>2 DEF NoLostWakeup, Waiting
    <2>4. t \in At("reading")'
      BY <2>1 DEF At, Goto
    <2> QED
      BY <2>1, <2>3, <2>4 DEF NoLostWakeup
  <1> QED
    BY <1>1, <1>2

\* A writer waits in the second loop only for the current writer, and becomes
\* the one the others wait for when it does not.
LEMMA WriterTurnNoLostWakeup ==
    ASSUME NEW t \in Threads, NEW pw \in Nat, IInv, NoLostWakeup,
           pc[t] \in {"idle", "pending", "nextInLine"}, WriterTurn(t, pw)
    PROVE  NoLostWakeup'
  <1> USE CountersAsSets DEF IInv, TypeOK
  <1>1. At("reading")' = At("reading") /\ noReaders' = noReaders
    BY DEF WriterTurn, Goto, At
  <1>2. CASE currentWriter
    <2>1. At("writing")' = At("writing") /\ At("writing") # {}
      BY <1>2 DEF WriterTurn, Goto, At
    <2> QED
      BY <1>1, <2>1 DEF NoLostWakeup
  <1>3. CASE ~currentWriter
    <2>1. t \in At("writing")'
      BY <1>3 DEF WriterTurn, Goto, At
    <2> QED
      BY <1>1, <2>1 DEF NoLostWakeup
  <1> QED
    BY <1>2, <1>3

\* A writer waits in the first loop only while somebody reads.
LEMMA WriteLoopNoLostWakeup ==
    ASSUME NEW t \in Threads, NEW pw \in Nat, IInv, NoLostWakeup,
           pc[t] \in {"idle", "pending"}, WriteLoop(t, pw)
    PROVE  NoLostWakeup'
  <1> USE CountersAsSets DEF IInv, TypeOK
  <1>1. CASE readers > 0
    <2>1. Goto(t, "pending") /\ writerFinished' = writerFinished
      BY <1>1 DEF WriteLoop, WriterTurn
    <2>2. /\ At("reading")' = At("reading")
          /\ At("writing")' = At("writing")
          /\ t \in At("pending")'
          /\ \A u \in Threads \ {t} : pc'[u] = pc[u]
      BY <2>1 DEF At, Goto
    <2>3. \A u \in writerFinished : u # t \/ At("writing") # {}
      BY DEF NoLostWakeup
    <2> QED
      BY <1>1, <2>1, <2>2, <2>3 DEF NoLostWakeup
  <1>2. CASE readers = 0
    BY <1>2, WriterTurnNoLostWakeup DEF WriteLoop
  <1> QED
    BY <1>1, <1>2

\* The last reader wakes everybody blocked on m_noReaders.
LEMMA ReleaseReadNoLostWakeup ==
    ASSUME NEW t \in Threads, IInv, NoLostWakeup, ReleaseReadLock(t)
    PROVE  NoLostWakeup'
  <1> USE DEF IInv, TypeOK
  <1>1. /\ \A l \in {"pending", "nextInLine", "writing"} : At(l)' = At(l)
        /\ writerFinished' = writerFinished
    BY DEF ReleaseReadLock, Goto, At
  <1>2. \A u \in writerFinished : pc'[u] = pc[u] \/ At("writing") # {}
    BY DEF ReleaseReadLock, Goto, NoLostWakeup
  <1>3. noReaders' # {} => At("reading")' # {}
    <2>1. IInv'
      BY ReleaseReadIInv
    <2>2. readers' = 0 => noReaders' = {}
      BY DEF ReleaseReadLock
    <2>3. readers' = Cardinality(At("reading")')
      BY <2>1 DEF CountersExact
    <2> QED
      BY <2>2, <2>3, FS_EmptySet
  <1> QED
    BY <1>1, <1>2, <1>3 DEF NoLostWakeup

\* No step of the monitor leaves a thread blocked with nobody to notify it.
LEMMA NextNoLostWakeup == IInv /\ NoLostWakeup /\ [Next]_vars => NoLostWakeup'
  <1> SUFFICES ASSUME IInv, NoLostWakeup, [Next]_vars PROVE NoLostWakeup'
    OBVIOUS
  <1>1. ASSUME NEW t \in Threads, AcquireReadLock(t) \/ ReaderResumes(t)
        PROVE  NoLostWakeup'
    BY <1>1, ReadLoopNoLostWakeup DEF AcquireReadLock, ReaderResumes
  <1>2. ASSUME NEW t \in Threads, ReleaseReadLock(t) PROVE NoLostWakeup'
    BY <1>2, ReleaseReadNoLostWakeup
  <1>3. ASSUME NEW t \in Threads, AcquireWriteLock(t) \/ WriterResumes(t)
        PROVE  NoLostWakeup'
    <2>1. pendingWriters \in Nat /\ pendingWriters + 1 \in Nat
      BY DEF IInv, TypeOK
    <2> QED
      BY <1>3, <2>1, WriteLoopNoLostWakeup, WriterTurnNoLostWakeup
         DEF AcquireWriteLock, WriterResumes
  <1>4. ASSUME NEW t \in Threads, ReleaseWriteLock(t) PROVE NoLostWakeup'
    <2>1. /\ At("reading")' = At("reading")
          /\ noReaders' = noReaders
          /\ writerFinished' = {}
      BY <1>4 DEF ReleaseWriteLock, Goto, At, IInv, TypeOK
    <2> QED
      BY <2>1 DEF NoLostWakeup
  <1>5. ASSUME NEW t \in Threads, SpuriousWakeup(t) PROVE NoLostWakeup'
    BY <1>5 DEF SpuriousWakeup, NoLostWakeup, At
  <1>6. CASE UNCHANGED vars
    BY <1>6 DEF vars, NoLostWakeup, At
  <1> QED
    BY <1>1, <1>2, <1>3, <1>4, <1>5, <1>6 DEF Next

\* Whoever is blocked on a condition variable has somebody to wake it.
THEOREM SpecNoLostWakeup == Spec => []NoLostWakeup
  <1>1. Init => NoLostWakeup
    BY DEF Init, NoLostWakeup
  <1> QED
    BY <1>1, SpecIInv, NextNoLostWakeup, PTL DEF Spec

-----------------------------------------------------------------------------
(* Writers first *)

\* A step taken while a writer waits lets no reader in.
LEMMA NextWritersFirst ==
    IInv /\ [Next]_vars =>
        [Waiting # {} => At("reading")' \subseteq At("reading")]_vars
  <1> SUFFICES ASSUME IInv, Next, Waiting # {}
               PROVE  At("reading")' \subseteq At("reading")
    OBVIOUS
  <1>1. ReaderMustWait
    BY CountersAsSets DEF ReaderMustWait
  <1>2. PICK t \in Threads :
            \/ AcquireReadLock(t) \/ ReaderResumes(t) \/ ReleaseReadLock(t)
            \/ AcquireWriteLock(t) \/ WriterResumes(t) \/ ReleaseWriteLock(t)
            \/ SpuriousWakeup(t)
    BY DEF Next
  <1>3. \/ \E l \in Locations \ {"reading"} : Goto(t, l)
        \/ pc' = pc
    BY <1>1, <1>2
       DEF AcquireReadLock, ReaderResumes, ReleaseReadLock, AcquireWriteLock,
           WriterResumes, ReleaseWriteLock, SpuriousWakeup, ReadLoop, WriteLoop,
           WriterTurn, Locations
  <1> QED
    BY <1>3 DEF At, Goto, IInv, TypeOK

\* acquireWriteLock keeps later readers out, for any number of threads.
THEOREM SpecWritersFirst == Spec => WritersFirst
  BY SpecIInv, NextWritersFirst, PTL DEF Spec, WritersFirst, Waiting

-----------------------------------------------------------------------------
(* Refinement *)

\* The threads of each phase of the abstract lock, in terms of locations.
LEMMA MappedPhases ==
    ASSUME TypeOK
    PROVE  /\ Lock!In("reading") = At("reading")
           /\ Lock!In("writing") = At("writing")
           /\ Lock!In("wantWrite") = Waiting
  BY DEF Lock!In, At, Waiting, TypeOK, Locations

\* The monitor implements the abstract lock: every step of the code is a step
\* of ReadersWriters or changes nothing a caller of the lock can see.
THEOREM SpecImplementsLock == Spec => Lock!Spec
  <1> DEFINE Phase(l) == IF l \in {"pending", "nextInLine"} THEN "wantWrite" ELSE l
             Map == [t \in Threads |-> CASE pc[t] \in {"pending", "nextInLine"} -> "wantWrite"
                                         [] OTHER -> pc[t]]
  <1>1. Init => Lock!Init
    BY DEF Init, Lock!Init
  <1>2. IInv /\ [Next]_vars => [Lock!Next]_Map
    <2> SUFFICES ASSUME IInv, [Next]_vars PROVE [Lock!Next]_Map
      OBVIOUS
    <2> USE DEF IInv, TypeOK
    <2>1. \A t \in Threads : Map[t] = Phase(pc[t])
      BY DEF Locations
    <2>2. ASSUME NEW t \in Threads, NEW l \in Locations, Goto(t, l)
          PROVE  Map' = [Map EXCEPT ![t] = Phase(l)]
      BY <2>2 DEF Goto, Locations
    <2>3. ASSUME NEW t \in Threads, pc[t] \in {"idle", "wantRead"}, ReadLoop(t)
          PROVE  [Lock!Step(t)]_Map
      <3>1. CASE ReaderMustWait
        <4>1. Goto(t, "wantRead")
          BY <2>3, <3>1 DEF ReadLoop
        <4>2. Map' = [Map EXCEPT ![t] = "wantRead"]
          BY <4>1, <2>2 DEF Locations
        <4> QED
          BY <2>1, <2>3, <4>2 DEF Lock!Step, Lock!AskRead, Lock!Become
      <3>2. CASE ~ReaderMustWait
        <4>1. Goto(t, "reading") /\ At("writing") = {} /\ Waiting = {}
          BY <2>3, <3>2, CountersAsSets DEF ReadLoop, ReaderMustWait
        <4>2. Map' = [Map EXCEPT ![t] = "reading"]
          BY <4>1, <2>2 DEF Locations
        <4> QED
          BY <2>1, <2>3, <4>1, <4>2, MappedPhases DEF Lock!Step, Lock!StartRead, Lock!Become
      <3> QED
        BY <3>1, <3>2
    <2>4. ASSUME NEW t \in Threads, NEW pw \in Nat,
                 pc[t] \in {"idle", "pending", "nextInLine"},
                 At("reading") = {}, WriterTurn(t, pw)
          PROVE  [Lock!Step(t)]_Map
      <3>1. CASE currentWriter
        <4>1. Goto(t, "nextInLine")
          BY <2>4, <3>1 DEF WriterTurn
        <4>2. Map' = [Map EXCEPT ![t] = "wantWrite"]
          BY <4>1, <2>2 DEF Locations
        <4> QED
          BY <2>1, <2>4, <4>2 DEF Lock!Step, Lock!AskWrite, Lock!Become
      <3>2. CASE ~currentWriter
        <4>1. Goto(t, "writing") /\ At("writing") = {}
          BY <2>4, <3>2, CountersAsSets DEF WriterTurn
        <4>2. Map' = [Map EXCEPT ![t] = "writing"]
          BY <4>1, <2>2 DEF Locations
        <4> QED
          BY <2>1, <2>4, <4>1, <4>2, MappedPhases DEF Lock!Step, Lock!StartWrite, Lock!Become
      <3> QED
        BY <3>1, <3>2
    <2>5. ASSUME NEW t \in Threads, NEW pw \in Nat,
                 pc[t] \in {"idle", "pending"}, WriteLoop(t, pw)
          PROVE  [Lock!Step(t)]_Map
      <3>1. CASE readers > 0
        <4>1. Goto(t, "pending")
          BY <2>5, <3>1 DEF WriteLoop, WriterTurn
        <4>2. Map' = [Map EXCEPT ![t] = "wantWrite"]
          BY <4>1, <2>2 DEF Locations
        <4> QED
          BY <2>1, <2>5, <4>2 DEF Lock!Step, Lock!AskWrite, Lock!Become
      <3>2. CASE readers = 0
        BY <2>4, <2>5, <3>2, CountersAsSets DEF WriteLoop
      <3> QED
        BY <3>1, <3>2
    <2>6. ASSUME NEW t \in Threads, ReleaseReadLock(t) \/ ReleaseWriteLock(t)
          PROVE  [Lock!Step(t)]_Map
      <3>1. Goto(t, "idle") /\ pc[t] \in {"reading", "writing"}
        BY <2>6 DEF ReleaseReadLock, ReleaseWriteLock
      <3>2. Map' = [Map EXCEPT ![t] = "idle"]
        BY <3>1, <2>2 DEF Locations
      <3> QED
        BY <2>1, <3>1, <3>2 DEF Lock!Step, Lock!Finish, Lock!Become
    <2>7. ASSUME NEW t \in Threads, AcquireWriteLock(t) \/ WriterResumes(t)
          PROVE  [Lock!Step(t)]_Map
      <3>1. pendingWriters \in Nat /\ pendingWriters + 1 \in Nat
        OBVIOUS
      <3>2. CASE AcquireWriteLock(t)
        BY <3>1, <3>2, <2>5 DEF AcquireWriteLock
      <3>3. CASE WriterResumes(t)
        BY <3>1, <3>3, <2>4, <2>5, NextInLineAlone DEF WriterResumes
      <3> QED
        BY <2>7, <3>2, <3>3
    <2>8. ASSUME pc' = pc PROVE Map' = Map
      BY <2>8
    <2> QED
      BY <2>3, <2>6, <2>7, <2>8
         DEF Next, vars, AcquireReadLock, ReaderResumes, SpuriousWakeup, Lock!Next
  <1> QED
    BY <1>1, <1>2, SpecIInv, PTL DEF Spec, Lock!Spec

-----------------------------------------------------------------------------
(* The countdown latch: for any counts, that no countDown is missed; for      *)
(* counts of at most one, as the program uses them, that nobody is let go      *)
(* before the count was zero.                                                 *)

Latch == INSTANCE CountDownLatch

\* Only threads inside a wait are blocked, and only above zero.
BlockedInv ==
    /\ Latch!TypeOK
    /\ blocked \subseteq Latch!InAwait
    /\ BlockedAboveZero

\* With a count of at most one a countDown that wakes somebody reaches zero:
\* whoever was woken saw zero or was woken by nobody, and has not been told yet.
ReleaseInv ==
    /\ count \in {0, 1}
    /\ \A t \in Callers : call[t] # "none" /\ t \notin blocked => t \in sawZero \cup spurious
    /\ ReleasedAtZero

-----------------------------------------------------------------------------

\* A thread that returns keeps call and returned in their types.
LEMMA ReturnType ==
    ASSUME Latch!TypeOK, NEW t \in Callers, NEW r \in Latch!Results, Latch!Return(t, r)
    PROVE  /\ call' \in [Callers -> Latch!Calls]
           /\ returned' \in [Callers -> Latch!Results]
           /\ \A u \in Callers : call'[u] = IF u = t THEN "none" ELSE call[u]
           /\ \A u \in Callers : returned'[u] = IF u = t THEN r ELSE returned[u]
  BY DEF Latch!TypeOK, Latch!Return, Latch!Calls, Latch!Results

\* Initially nobody waits.
LEMMA InitBlockedInv == Latch!Init => BlockedInv
  BY CountsAssumption DEF Latch!Init, BlockedInv, Latch!TypeOK, Latch!InAwait, BlockedAboveZero, Latch!Calls, Latch!Results

\* Every step preserves the first invariant.
LEMMA NextBlockedInv == BlockedInv /\ [Latch!Next]_(Latch!vars) => BlockedInv'
  <1> SUFFICES ASSUME BlockedInv, [Latch!Next]_(Latch!vars) PROVE BlockedInv'
    OBVIOUS
  <1> USE DEF BlockedInv, Latch!InAwait, BlockedAboveZero
  <1>1. ASSUME NEW t \in Callers, NEW kind \in {"await", "timedAwait"}, Latch!Await(t, kind)
        PROVE  BlockedInv'
    <2>1. CASE count = 0
      BY <1>1, <2>1 DEF Latch!Await, Latch!TypeOK, Latch!Results
    <2>2. CASE count # 0
      <3>1. Latch!TypeOK'
        BY <1>1, <2>2 DEF Latch!Await, Latch!TypeOK, Latch!Calls, Latch!Results
      <3>2. blocked' \subseteq Latch!InAwait'
        BY <1>1, <2>2 DEF Latch!Await, Latch!TypeOK
      <3>3. BlockedAboveZero'
        BY <1>1, <2>2 DEF Latch!Await, Latch!TypeOK
      <3> QED BY <3>1, <3>2, <3>3
    <2> QED BY <2>1, <2>2
  <1>2. ASSUME NEW t \in Callers, Latch!Woken(t) PROVE BlockedInv'
    <2>1. Latch!Return(t, "released") /\ "released" \in Latch!Results
      BY <1>2 DEF Latch!Woken, Latch!Results
    <2> QED BY <1>2, <2>1, ReturnType DEF Latch!Woken, Latch!TypeOK
  <1>3. ASSUME NEW t \in Callers, Latch!TimeOut(t) PROVE BlockedInv'
    <2>1. Latch!Return(t, "timedOut") /\ "timedOut" \in Latch!Results
      BY <1>3 DEF Latch!TimeOut, Latch!Results
    <2> QED BY <1>3, <2>1, ReturnType DEF Latch!TimeOut, Latch!TypeOK
  <1>4. ASSUME NEW t \in Callers, Latch!SpuriousWakeup(t) PROVE BlockedInv'
    BY <1>4 DEF Latch!SpuriousWakeup, Latch!TypeOK
  <1>5. ASSUME Latch!CountDown PROVE BlockedInv'
    BY <1>5 DEF Latch!CountDown, Latch!TypeOK
  <1>6. ASSUME NEW n \in Counts, Latch!ResetCount(n) PROVE BlockedInv'
    BY <1>6, CountsAssumption DEF Latch!ResetCount, Latch!TypeOK
  <1>7. ASSUME UNCHANGED Latch!vars PROVE BlockedInv'
    BY <1>7 DEF Latch!vars, Latch!TypeOK
  <1> QED BY <1>1, <1>2, <1>3, <1>4, <1>5, <1>6, <1>7 DEF Latch!Next

\* The first invariant holds throughout.
THEOREM LatchBlockedInv == Latch!Spec => []BlockedInv
  BY InitBlockedInv, NextBlockedInv, PTL DEF Latch!Spec

\* Type correctness; the count never goes below zero.
THEOREM LatchTypeOK == Latch!Spec => []Latch!TypeOK
  BY LatchBlockedInv, PTL DEF BlockedInv

\* Whatever the counts: nobody is blocked when the count is at zero.
THEOREM LatchBlockedAboveZero == Latch!Spec => []BlockedAboveZero
  BY LatchBlockedInv, PTL DEF BlockedInv

-----------------------------------------------------------------------------

\* Initially nobody has been let go.
LEMMA InitReleaseInv == ASSUME Counts \subseteq {0, 1} PROVE Latch!Init => ReleaseInv
  BY DEF Latch!Init, ReleaseInv, ReleasedAtZero

\* With counts of at most one every step preserves the second invariant.
LEMMA NextReleaseInv ==
    ASSUME Counts \subseteq {0, 1}
    PROVE  BlockedInv /\ ReleaseInv /\ [Latch!Next]_(Latch!vars) => ReleaseInv'
  <1> SUFFICES ASSUME BlockedInv, ReleaseInv, [Latch!Next]_(Latch!vars) PROVE ReleaseInv'
    OBVIOUS
  <1> USE DEF ReleaseInv, ReleasedAtZero
  <1>0. Latch!TypeOK /\ (blocked # {} => count > 0)
    BY DEF BlockedInv, BlockedAboveZero
  <1>1. ASSUME NEW t \in Callers, NEW kind \in {"await", "timedAwait"}, Latch!Await(t, kind)
        PROVE  ReleaseInv'
    <2>1. CASE count = 0
      BY <1>0, <1>1, <2>1 DEF Latch!Await, Latch!TypeOK
    <2>2. CASE count # 0
      BY <1>0, <1>1, <2>2 DEF Latch!Await, Latch!TypeOK
    <2> QED BY <2>1, <2>2
  <1>2. ASSUME NEW t \in Callers, Latch!Woken(t) PROVE ReleaseInv'
    <2>1. Latch!Return(t, "released") /\ "released" \in Latch!Results
      BY <1>2 DEF Latch!Woken, Latch!Results
    <2> QED BY <1>0, <1>2, <2>1, ReturnType DEF Latch!Woken
  <1>3. ASSUME NEW t \in Callers, Latch!TimeOut(t) PROVE ReleaseInv'
    <2>1. Latch!Return(t, "timedOut") /\ "timedOut" \in Latch!Results
      BY <1>3 DEF Latch!TimeOut, Latch!Results
    <2> QED BY <1>0, <1>3, <2>1, ReturnType DEF Latch!TimeOut
  <1>4. ASSUME NEW t \in Callers, Latch!SpuriousWakeup(t) PROVE ReleaseInv'
    BY <1>4 DEF Latch!SpuriousWakeup
  <1>5. ASSUME Latch!CountDown PROVE ReleaseInv'
    BY <1>0, <1>5 DEF Latch!CountDown, Latch!InAwait
  <1>6. ASSUME NEW n \in Counts, Latch!ResetCount(n) PROVE ReleaseInv'
    BY <1>6 DEF Latch!ResetCount
  <1>7. ASSUME UNCHANGED Latch!vars PROVE ReleaseInv'
    BY <1>7 DEF Latch!vars
  <1> QED BY <1>1, <1>2, <1>3, <1>4, <1>5, <1>6, <1>7 DEF Latch!Next

\* With counts of at most one nobody is let go before the count was zero, but
\* for a wake-up by nobody.  A count of two breaks it.
THEOREM LatchReleasedAtZero ==
    ASSUME Counts \subseteq {0, 1}
    PROVE  Latch!Spec => []ReleasedAtZero
  <1>1. Latch!Init => ReleaseInv
    BY InitReleaseInv
  <1>2. BlockedInv /\ ReleaseInv /\ [Latch!Next]_(Latch!vars) => ReleaseInv'
    BY NextReleaseInv
  <1>3. ReleaseInv => ReleasedAtZero
    BY DEF ReleaseInv
  <1>4. Latch!Spec => []BlockedInv
    BY LatchBlockedInv
  <1> QED BY <1>1, <1>2, <1>3, <1>4, PTL DEF Latch!Spec
=============================================================================
