--------------------------- MODULE ReadersWriters ---------------------------
(***************************************************************************)
(* What a readers-writers lock that favours writers promises to its        *)
(* threads: any number of readers or one writer, and no reader let in      *)
(* while a writer is waiting (packages/core/include/ReadWriteMutex.h,      *)
(* the class comment).  Nothing is said of counters, condition variables   *)
(* or wake-ups: ReadWriteMutex implements this specification.              *)
(***************************************************************************)
CONSTANT Threads

VARIABLE phase     \* what each thread is doing with the lock

Phases == {"idle", "wantRead", "reading", "wantWrite", "writing"}

In(p) == {t \in Threads : phase[t] = p}

TypeOK == phase \in [Threads -> Phases]

Init == phase = [t \in Threads |-> "idle"]

Become(t, p) == phase' = [phase EXCEPT ![t] = p]

AskRead(t)  == phase[t] = "idle" /\ Become(t, "wantRead")
AskWrite(t) == phase[t] = "idle" /\ Become(t, "wantWrite")

\* A reader is let in only when nobody writes and nobody waits to write.
StartRead(t) ==
    /\ phase[t] \in {"idle", "wantRead"}
    /\ In("writing") = {}
    /\ In("wantWrite") = {}
    /\ Become(t, "reading")

\* A writer is let in only when it will be alone.
StartWrite(t) ==
    /\ phase[t] \in {"idle", "wantWrite"}
    /\ In("writing") = {}
    /\ In("reading") = {}
    /\ Become(t, "writing")

Finish(t) == phase[t] \in {"reading", "writing"} /\ Become(t, "idle")

Step(t) == AskRead(t) \/ AskWrite(t) \/ StartRead(t) \/ StartWrite(t) \/ Finish(t)

Next == \E t \in Threads : Step(t)

Spec == Init /\ [][Next]_phase

\* Some waiting writer is always served, provided holders let go.
FairSpec ==
    /\ Spec
    /\ WF_phase(\E t \in Threads : phase[t] = "wantWrite" /\ StartWrite(t))
    /\ \A t \in Threads : WF_phase(Finish(t))
=============================================================================
