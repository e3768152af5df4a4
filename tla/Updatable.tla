------------------------------ MODULE Updatable ------------------------------
(***************************************************************************)
(* packages/core/src/Updatable.cpp: an object whose update() is called in  *)
(* a loop by a background thread.  Controllers are the threads that call   *)
(* background(), unbackground() and the destructor; Loops are the threads  *)
(* these calls create to run loop().                                       *)
(*                                                                         *)
(* m_upStateMutex only guards short assignments, so what it covers is one  *)
(* step.  m_threadStateMutex is held while its owner waits for the latch   *)
(* m_threadStopped and joins the thread, so its owner is part of the       *)
(* state.  The latch is the module CountDownLatch.                         *)
(*                                                                         *)
(* Left out: m_interval, which only decides whether and how long the loop  *)
(* sleeps between two updates (here it may or may not sleep), and the      *)
(* profile event.                                                          *)
(***************************************************************************)
EXTENDS Naturals, FiniteSets

CONSTANTS
    Controllers,
    Loops,          \* bound: background threads alive at a time
    JoinArgs,       \* the arguments unbackground() is called with
    UpdateStops,    \* whether update() may call unbackground(false), as IUpdatable.h allows
    Settings,       \* the values of each kind of thread setting
    RealTime        \* the priorities that are real time ones

ASSUME JoinArgsAssumption == JoinArgs \subseteq BOOLEAN
ASSUME UpdateStopsAssumption == UpdateStops \in BOOLEAN
ASSUME RealTimeAssumption == RealTime \subseteq Settings

Kinds == {"PRIORITY", "AFFINITY"}

\* NORMAL_PRIORITY and an affinity of -1: what a thread gets from its creator.
Default == "default"
ASSUME DefaultAssumption == Default \in Settings

NoThread == "none"
Nobody == "nobody"
ASSUME NoThreadAssumption == NoThread \notin Loops
ASSUME NobodyAssumption == Nobody \notin Controllers

VARIABLES
    backgrounded,   \* m_backgrounded
    setting,        \* m_priority and m_affinity
    settingChange,  \* m_settingChange, as a set of kinds
    owner,          \* who holds m_threadStateMutex
    thread,         \* m_backgroundThread
    latchCount, latchBlocked, latchCall,            \* m_threadStopped
    latchSawZero, latchSpurious, latchReturned,     \* its history variables
    cpc,            \* where each controller is
    onClean,        \* what the controller does after cleanUpBackgroundThread
    lpc,            \* where each background thread is
    inBackground,   \* its local in_background
    applied,        \* the settings the operating system has for it
    destroyed,      \* the object is gone
    quiet,          \* history: an unbackground(true) has returned, no background() since
    overlapped      \* history: background() was called while the stopped loop was still running

Latch == INSTANCE CountDownLatch WITH
            Callers <- Controllers, Counts <- {1},
            count <- latchCount, blocked <- latchBlocked, call <- latchCall,
            sawZero <- latchSawZero, spurious <- latchSpurious, returned <- latchReturned

latchVars == <<latchCount, latchBlocked, latchCall, latchSawZero, latchSpurious, latchReturned>>
stateVars == <<backgrounded, setting, settingChange>>
loopVars == <<lpc, inBackground, applied>>
callVars == <<owner, thread, cpc, onClean, destroyed, quiet, overlapped>>
vars == <<stateVars, latchVars, loopVars, callVars>>

ControllerLocations == {"idle", "clean", "await", "awaiting", "create"}
LoopLocations == {"none", "top", "settings", "update", "sleep", "exit", "exiting", "finished"}

\* Background threads that still use the object: countDown is the last thing they do to it.
Running == {l \in Loops : lpc[l] \notin {"none", "exiting", "finished"}}

\* What the controller does once the old thread is cleaned up.
Continuations == {"start", "return", "destructor", "base"}

\* m_threadStateMutex is kept only across the wait and the join.
TypeOK ==
    /\ backgrounded \in BOOLEAN
    /\ setting \in [Kinds -> Settings]
    /\ settingChange \in SUBSET Kinds
    /\ owner \in {Nobody} \cup {c \in Controllers : cpc[c] \in {"await", "awaiting"}}
    /\ thread \in Loops \cup {NoThread}
    /\ Latch!TypeOK
    /\ latchCount \in {0, 1}
    /\ cpc \in [Controllers -> ControllerLocations]
    /\ onClean \in [Controllers -> Continuations]
    /\ lpc \in [Loops -> LoopLocations]
    /\ inBackground \in [Loops -> BOOLEAN]
    /\ applied \in [Loops -> [Kinds -> Settings]]
    /\ destroyed \in BOOLEAN
    /\ quiet \in BOOLEAN
    /\ overlapped \in BOOLEAN

Init ==
    /\ backgrounded = FALSE
    /\ setting = [k \in Kinds |-> Default]
    /\ settingChange = {}
    /\ owner = Nobody
    /\ thread = NoThread
    /\ Latch!Init
    /\ cpc = [c \in Controllers |-> "idle"]
    /\ onClean = [c \in Controllers |-> "return"]
    /\ lpc = [l \in Loops |-> "none"]
    /\ inBackground = [l \in Loops |-> FALSE]
    /\ applied = [l \in Loops |-> [k \in Kinds |-> Default]]
    /\ destroyed = FALSE
    /\ quiet = TRUE
    /\ overlapped = FALSE

Move(c, loc) == cpc' = [cpc EXCEPT ![c] = loc]

Ready(c) == cpc[c] = "idle" /\ ~destroyed

\* No call of background() is under way, other than one of c.
NoOtherStart(c) ==
    \A d \in Controllers \ {c} :
        cpc[d] # "idle" => onClean[d] # "start"

-----------------------------------------------------------------------------
(* Settings *)

\* setPriority does nothing for the value it already has, setAffinity always
\* flags the change for the loop.
Set(c, kind, value) ==
    /\ Ready(c)
    /\ kind = "PRIORITY" => value # setting[kind]
    /\ setting' = [setting EXCEPT ![kind] = value]
    /\ settingChange' = settingChange \cup {kind}
    /\ UNCHANGED <<backgrounded, latchVars, loopVars, callVars>>

-----------------------------------------------------------------------------
(* Calls of the controllers *)

\* background(): a second call on a running object starts nothing.
Background(c) ==
    /\ Ready(c)
    /\ ~backgrounded
    /\ backgrounded' = TRUE
    /\ quiet' = FALSE
    /\ overlapped' = (overlapped \/ Running # {})
    /\ Move(c, "clean")
    /\ onClean' = [onClean EXCEPT ![c] = "start"]
    /\ UNCHANGED <<setting, settingChange, latchVars, loopVars, owner, thread, destroyed>>

\* Mutant: unbackground(true) returns early too when the flag is already down.
UnbackgroundLeavesEarly(c, join) ==
    /\ Ready(c)
    /\ backgrounded \/ join
    /\ IF backgrounded /\ join THEN Move(c, "clean") ELSE UNCHANGED cpc
    /\ backgrounded' = FALSE
    /\ onClean' = [onClean EXCEPT ![c] = "return"]
    /\ quiet' = (quiet \/ ~backgrounded)
    /\ UNCHANGED <<setting, settingChange, latchVars, loopVars, owner, thread, destroyed,
                   overlapped>>

\* unbackground(): takes the flag down for the loop to see.  Without join a call
\* on a stopped object does nothing; with join the thread is waited for even then.
Unbackground(c, join) ==
    /\ Ready(c)
    /\ backgrounded \/ join
    /\ backgrounded' = FALSE
    /\ IF join THEN Move(c, "clean") ELSE UNCHANGED cpc
    /\ onClean' = [onClean EXCEPT ![c] = "return"]
    /\ UNCHANGED <<setting, settingChange, latchVars, loopVars, owner, thread, destroyed,
                   quiet, overlapped>>

\* The destructor of a derived class calls unbackground(true), then ~Updatable
\* cleans up once more.  Nobody else is calling the object any longer.
Destroy(c) ==
    /\ Ready(c)
    /\ \A d \in Controllers : cpc[d] = "idle"
    /\ backgrounded' = FALSE
    /\ Move(c, "clean")
    /\ onClean' = [onClean EXCEPT ![c] = "destructor"]
    /\ UNCHANGED <<setting, settingChange, latchVars, loopVars, owner, thread, destroyed,
                   quiet, overlapped>>

-----------------------------------------------------------------------------
(* cleanUpBackgroundThread *)

\* The caller goes on with what it wanted the old thread out of the way for.
Cleaned(c) ==
    /\ Move(c, CASE onClean[c] = "start" -> "create"
                 [] onClean[c] = "destructor" -> "clean"
                 [] OTHER -> "idle")
    /\ onClean' = IF onClean[c] = "destructor" THEN [onClean EXCEPT ![c] = "base"] ELSE onClean
    /\ destroyed' = (destroyed \/ onClean[c] = "base")
    /\ quiet' = (quiet \/ (onClean[c] = "return" /\ NoOtherStart(c) /\ ~backgrounded))
    /\ UNCHANGED overlapped

\* Mutant: the thread is deleted without looking whether it has stopped.
CleanUpUnconditionally(c) ==
    /\ cpc[c] = "clean"
    /\ owner = Nobody
    /\ thread' = NoThread
    /\ Cleaned(c)
    /\ UNCHANGED <<stateVars, latchVars, loopVars, owner>>

\* With no thread, or one whose latch is at zero, nothing is waited for; a
\* stopped thread is deleted without being joined.
CleanUp(c) ==
    /\ cpc[c] = "clean"
    /\ owner = Nobody
    /\ UNCHANGED <<stateVars, latchVars, loopVars>>
    /\ \/ /\ thread = NoThread \/ latchCount = 0
          /\ thread' = NoThread
          /\ Cleaned(c)
          /\ UNCHANGED owner
       \/ /\ thread # NoThread /\ latchCount # 0
          /\ owner' = c
          /\ Move(c, "await")
          /\ UNCHANGED <<thread, onClean, destroyed, quiet, overlapped>>

\* m_threadStopped.await(), with m_threadStateMutex held.
AwaitStopped(c) ==
    /\ cpc[c] = "await"
    /\ Latch!Await(c, "await")
    /\ Move(c, "awaiting")
    /\ UNCHANGED <<stateVars, loopVars, owner, thread, onClean, destroyed, quiet, overlapped>>

Woken(c) == Latch!Woken(c) /\ UNCHANGED <<stateVars, loopVars, callVars>>

\* The latch lets go early; the join still waits for the thread.
SpuriousWakeup(c) == Latch!SpuriousWakeup(c) /\ UNCHANGED <<stateVars, loopVars, callVars>>

\* Mutant: m_threadStateMutex is not released after the join.
JoinKeepsMutex(c) ==
    /\ cpc[c] = "awaiting"
    /\ latchCall[c] = "none"
    /\ lpc[thread] = "finished"
    /\ thread' = NoThread
    /\ Cleaned(c)
    /\ UNCHANGED <<stateVars, latchVars, loopVars, owner>>

\* join() and delete.
Join(c) ==
    /\ cpc[c] = "awaiting"
    /\ latchCall[c] = "none"
    /\ lpc[thread] = "finished"
    /\ thread' = NoThread
    /\ owner' = Nobody
    /\ Cleaned(c)
    /\ UNCHANGED <<stateVars, latchVars, loopVars>>

\* Mutant: the latch is not reset for the new thread.
CreateKeepsLatch(c) ==
    /\ cpc[c] = "create"
    /\ owner = Nobody
    /\ \E l \in Loops :
          /\ lpc[l] \in {"none", "finished"}
          /\ thread' = l
          /\ lpc' = [lpc EXCEPT ![l] = "top"]
          /\ applied' = [applied EXCEPT ![l] = [k \in Kinds |-> Default]]
    /\ Move(c, "idle")
    /\ UNCHANGED <<stateVars, latchVars, inBackground, owner, onClean, destroyed, quiet,
                   overlapped>>

\* The second half of background(): reset the latch, create the thread.  The new
\* thread gets its nice value and affinity from the controller.  A thread
\* that is finished is out of sight, so its name may be used again.
Create(c) ==
    /\ cpc[c] = "create"
    /\ owner = Nobody
    /\ IF latchCount = 0 THEN Latch!ResetCount(1) ELSE UNCHANGED latchVars
    /\ \E l \in Loops \ {thread} :
          /\ lpc[l] \in {"none", "finished"}
          /\ thread' = l
          /\ lpc' = [lpc EXCEPT ![l] = "top"]
          /\ applied' = [applied EXCEPT ![l] = [k \in Kinds |-> Default]]
    /\ Move(c, "idle")
    /\ UNCHANGED <<stateVars, inBackground, owner, onClean, destroyed, quiet, overlapped>>

-----------------------------------------------------------------------------
(* The background thread *)

Step(l, from, to) == lpc[l] = from /\ lpc' = [lpc EXCEPT ![l] = to]

\* Mutant: the local copy of the flag is never refreshed.
ReadNothing(l) ==
    /\ Step(l, "top", "settings")
    /\ UNCHANGED <<stateVars, latchVars, inBackground, applied, callVars>>

\* getState
ReadState(l) ==
    /\ Step(l, "top", "settings")
    /\ inBackground' = [inBackground EXCEPT ![l] = backgrounded]
    /\ UNCHANGED <<stateVars, latchVars, applied, callVars>>

\* What setThreadPriority and setThreadAffinity make of a change: the branch for
\* real time priorities is commented out.
Reaches(k) == k \in settingChange /\ ~(k = "PRIORITY" /\ setting[k] \in RealTime)

\* The changed settings are applied to the calling thread and the flags
\* cleared, also by a loop that is about to stop.
ApplySettings(l) ==
    /\ Step(l, "settings", IF inBackground[l] THEN "update" ELSE "exit")
    /\ applied' = [applied EXCEPT ![l] =
            [k \in Kinds |-> IF Reaches(k) THEN setting[k] ELSE @[k]]]
    /\ settingChange' = {}
    /\ UNCHANGED <<backgrounded, setting, latchVars, inBackground, callVars>>

\* update() may stop its own loop with unbackground(false).
StopSelf(l) ==
    /\ UpdateStops
    /\ lpc[l] = "update"
    /\ backgrounded
    /\ backgrounded' = FALSE
    /\ UNCHANGED <<setting, settingChange, latchVars, loopVars, callVars>>

\* update() returns; the loop sleeps until the next round or goes straight on.
UpdateDone(l) ==
    /\ \E next \in {"sleep", "top"} : Step(l, "update", next)
    /\ UNCHANGED <<stateVars, latchVars, inBackground, applied, callVars>>

Awakes(l) ==
    /\ Step(l, "sleep", "top")
    /\ UNCHANGED <<stateVars, latchVars, inBackground, applied, callVars>>

\* Mutant: the loop ends without releasing the latch.
EndsSilently(l) ==
    /\ Step(l, "exit", "exiting")
    /\ UNCHANGED <<stateVars, latchVars, inBackground, applied, callVars>>

\* m_threadStopped.countDown()
SignalStopped(l) ==
    /\ Step(l, "exit", "exiting")
    /\ Latch!CountDown
    /\ UNCHANGED <<stateVars, inBackground, applied, callVars>>

\* loop() returns and the thread ends.
Finish(l) ==
    /\ Step(l, "exiting", "finished")
    /\ UNCHANGED <<stateVars, latchVars, inBackground, applied, callVars>>

-----------------------------------------------------------------------------

CleanUpStep(c) == CleanUp(c) \/ AwaitStopped(c) \/ Woken(c) \/ Join(c) \/ Create(c)

LoopStep(l) ==
    ReadState(l) \/ ApplySettings(l) \/ UpdateDone(l) \/ Awakes(l) \/ SignalStopped(l) \/ Finish(l)

Next ==
    \/ \E c \in Controllers :
        \/ \E k \in Kinds, v \in Settings : Set(c, k, v)
        \/ Background(c)
        \/ \E join \in JoinArgs : Unbackground(c, join)
        \/ Destroy(c)
        \/ CleanUp(c)
        \/ AwaitStopped(c)
        \/ Woken(c)
        \/ SpuriousWakeup(c)
        \/ Join(c)
        \/ Create(c)
    \/ \E l \in Loops :
        \/ ReadState(l)
        \/ ApplySettings(l)
        \/ StopSelf(l)
        \/ UpdateDone(l)
        \/ Awakes(l)
        \/ SignalStopped(l)
        \/ Finish(l)

Spec == Init /\ [][Next]_vars

\* Threads are scheduled, update() returns and a sleep ends; a call that was
\* made goes on.  Nobody is obliged to make a call.
FairSpec ==
    /\ Spec
    /\ \A c \in Controllers : WF_vars(CleanUpStep(c))
    /\ \A l \in Loops : WF_vars(LoopStep(l))

-----------------------------------------------------------------------------
(* Properties *)

\* background() "only start[s] up the background thread if we aren't already
\* running" (Updatable.cpp:257): update() is never called by two threads.
OneLoop == Cardinality(Running) <= 1

\* "If true the function won't return until the background thread has stopped
\* and been joined" (IUpdatable.h, unbackground): from then on, until the next
\* background(), no thread is inside loop().
StoppedWhenJoined == quiet => Running = {}

\* No background thread outlives the object it runs on.
NoLoopAfterDestruction == destroyed => Running = {}

\* The life of the background thread: one at a time, none after a join or after
\* the destructor, whatever order the calls come in.
LoopLifetime == TypeOK /\ OneLoop /\ StoppedWhenJoined /\ NoLoopAfterDestruction

\* Every call returns, since the loop a caller waits for sees its flag down.  The one
\* exception is an object started again after unbackground(false), before its
\* loop has ended: the loop may find the flag up again.
CallsReturnUnlessOverlapped ==
    \A c \in Controllers : cpc[c] # "idle" ~> cpc[c] = "idle" \/ overlapped

\* After background() has returned, update() is called until somebody stops it.
KeepsUpdating ==
    (backgrounded /\ \A c \in Controllers : cpc[c] = "idle")
        ~> (~backgrounded \/ \E l \in Loops : lpc[l] = "update")
=============================================================================
