---------------------------- MODULE VisionRunner ----------------------------
(***************************************************************************)
(* packages/vision/src/VisionRunner.cpp and the Recorder it derives from:  *)
(* an Updatable whose loop gives each new frame of a camera to a set of    *)
(* detectors.  It runs only while it has detectors: the thread that adds   *)
(* the first one starts the loop, and the loop that sees the last one go   *)
(* stops itself.  Loops are therefore among the Controllers here; the      *)
(* other controllers, the Clients, add and remove detectors.               *)
(*                                                                         *)
(* The module extends Updatable as the class does: a call of background()  *)
(* or unbackground() is the action of that name and is over when cpc is    *)
(* back at "idle".  push() and popNoWait() of the change queue are single  *)
(* steps and the queue is a sequence.                                      *)
(*                                                                         *)
(* m_detectors has no lock.  A conflicting access is a data race, and the  *)
(* model stops there (Conflict).                                           *)
(***************************************************************************)
EXTENDS Updatable, Sequences

CONSTANTS
    Detectors,
    MaxCalls            \* bound: calls the clients make

ASSUME LoopsAreControllers == Loops \subseteq Controllers
ASSUME MaxCallsAssumption == MaxCalls \in Nat

Clients == Controllers \ Loops

VARIABLES
    changes,    \* m_detectorChanges
    detectors,  \* m_detectors
    newFrame,   \* m_newFrame
    at,         \* where each thread is in the runner's code
    hadSome,    \* startSize > 0 of its processDetectorChanges
    joining,    \* the join argument of the client's call
    toggle,     \* toggleBackground of the loop's update()
    calls,      \* client calls made so far
    overtaken,  \* history: a change was pushed after a loop had decided to stop
    forgotten,  \* history: a frame arrived while one was being recorded
    fresh       \* history: the camera has a frame that nobody has recorded

runnerVars == <<changes, detectors, newFrame, at, hadSome, joining, toggle, calls, overtaken,
                forgotten, fresh>>

Changes == ({"ADD", "REMOVE"} \X Detectors) \cup {<<"REMOVE_ALL", "all">>}

\* "sync" is processDetectorChanges(false) in update(), "apply" the same function
\* with its default argument, which "called" the Updatable.
Locations == {"idle", "pushed", "sync", "apply", "called", "frame", "detect", "clear", "toggle",
              "leaving"}

RunnerTypeOK ==
    /\ TypeOK
    /\ changes \in Seq(Changes)
    /\ detectors \in SUBSET Detectors
    /\ at \in [Controllers -> Locations]
    /\ hadSome \in [Controllers -> BOOLEAN]
    /\ joining \in [Clients -> BOOLEAN]
    /\ toggle \in [Loops -> BOOLEAN]
    /\ calls \in 0..MaxCalls
    /\ {newFrame, overtaken, forgotten, fresh} \subseteq BOOLEAN
    /\ \A l \in Loops : at[l] # "idle" => lpc[l] = "update"

RunnerInit ==
    /\ Init
    /\ changes = <<>>
    /\ detectors = {}
    /\ newFrame = FALSE
    /\ at = [t \in Controllers |-> "idle"]
    /\ hadSome = [t \in Controllers |-> FALSE]
    /\ joining = [c \in Clients |-> FALSE]
    /\ toggle = [l \in Loops |-> FALSE]
    /\ calls = 0
    /\ overtaken = FALSE
    /\ forgotten = FALSE
    /\ fresh = FALSE

Go(t, from, to) == at[t] = from /\ at' = [at EXCEPT ![t] = to]

\* The destructor disconnects from the camera before it stops the loop.
Leaving == destroyed \/ \E c \in Clients : onClean[c] \in {"destructor", "base"}

-----------------------------------------------------------------------------
(* Calls of the inherited Updatable, each a step of the runner *)

\* Recorder::background() forgets a frame that came before the start.
Start(t) ==
    /\ \/ Background(t)
       \/ backgrounded /\ UNCHANGED vars
    /\ newFrame' = FALSE
    /\ fresh' = FALSE

Stop(t, join) ==
    /\ \/ Unbackground(t, join)
       \/ ~backgrounded /\ ~join /\ UNCHANGED vars
    /\ UNCHANGED <<newFrame, fresh>>

-----------------------------------------------------------------------------
(* processDetectorChanges *)

\* Mutant: only a removal is told from the rest.
ResultOfTwoKinds(change) ==
    IF change[1] = "REMOVE" THEN detectors \ {change[2]} ELSE detectors \cup {change[2]}

Result(change) ==
    CASE change[1] = "ADD" -> detectors \cup {change[2]}
      [] change[1] = "REMOVE" -> detectors \ {change[2]}
      [] change[1] = "REMOVE_ALL" -> {}

Processing(t) == at[t] \in {"sync", "apply"}

\* popNoWait() gives a change and m_detectors follows it.
Apply(t) ==
    /\ Processing(t)
    /\ changes # <<>>
    /\ detectors' = Result(Head(changes))
    /\ changes' = Tail(changes)
    /\ UNCHANGED <<vars, newFrame, at, hadSome, joining, toggle, calls, overtaken, forgotten, fresh>>

Changed(t) == hadSome[t] # (detectors # {})

\* The queue is empty: update() only notes that the loop is to be toggled.
Synced(l) ==
    /\ changes = <<>>
    /\ Go(l, "sync", "frame")
    /\ toggle' = [toggle EXCEPT ![l] = Changed(l)]
    /\ UNCHANGED <<vars, changes, detectors, newFrame, hadSome, joining, calls, overtaken, forgotten,
                   fresh>>

\* The queue is empty: the first detector starts the loop, the last one to go
\* stops it and waits for it.  recordFrame() goes on only if nothing changed.
Applied(t) ==
    /\ changes = <<>>
    /\ \/ /\ Changed(t)
          /\ Go(t, "apply", "called")
          /\ IF detectors # {} THEN Start(t) ELSE Stop(t, TRUE)
       \/ /\ ~Changed(t)
          /\ Go(t, "apply", IF t \in Clients THEN "idle"
                            ELSE IF detectors # {} THEN "detect" ELSE "clear")
          /\ UNCHANGED <<vars, newFrame, fresh>>
    /\ UNCHANGED <<changes, detectors, hadSome, joining, toggle, calls, overtaken, forgotten>>

\* background() or unbackground() has returned.
Returned(t) ==
    /\ cpc[t] = "idle"
    /\ Go(t, "called", IF t \in Clients THEN "idle" ELSE "clear")
    /\ UNCHANGED <<vars, changes, detectors, newFrame, hadSome, joining, toggle, calls, overtaken,
                   forgotten, fresh>>

-----------------------------------------------------------------------------
(* Clients *)

\* addDetector, removeDetector and removeAllDetectors push a change ...
Push(c, change, join) ==
    /\ ~Leaving
    /\ calls < MaxCalls
    /\ calls' = calls + 1
    /\ change[1] = "ADD" => ~join
    /\ Go(c, "idle", "pushed")
    /\ changes' = Append(changes, change)
    /\ joining' = [joining EXCEPT ![c] = join]
    /\ overtaken' = (overtaken \/ \E l \in Loops : toggle[l])
    /\ UNCHANGED <<vars, detectors, newFrame, hadSome, toggle, forgotten, fresh>>

\* Mutant: the change is always left for the loop.
AskNobody(c) ==
    /\ Go(c, "pushed", IF joining[c] THEN "apply" ELSE "idle")
    /\ hadSome' = [hadSome EXCEPT ![c] = detectors # {}]
    /\ UNCHANGED <<vars, changes, detectors, newFrame, joining, toggle, calls, overtaken, forgotten,
                   fresh>>

\* Mutant: the client always applies the change itself.
AskNever(c) ==
    /\ Go(c, "pushed", "apply")
    /\ hadSome' = [hadSome EXCEPT ![c] = detectors # {}]
    /\ UNCHANGED <<vars, changes, detectors, newFrame, joining, toggle, calls, overtaken, forgotten,
                   fresh>>

\* ... and then look whether a loop is there to apply it.
Ask(c) ==
    /\ Go(c, "pushed", IF ~backgrounded \/ joining[c] THEN "apply" ELSE "idle")
    /\ hadSome' = [hadSome EXCEPT ![c] = detectors # {}]
    /\ UNCHANGED <<vars, changes, detectors, newFrame, joining, toggle, calls, overtaken, forgotten,
                   fresh>>

\* Mutant: the destructor asks the loop to end and does not wait.
DestroyAtOnce(c) ==
    /\ ~Leaving
    /\ \A d \in Clients : at[d] = "idle" /\ cpc[d] = "idle"
    /\ backgrounded' = FALSE
    /\ destroyed' = TRUE
    /\ UNCHANGED <<setting, settingChange, latchVars, loopVars, owner, thread, cpc, onClean, quiet,
                   overlapped, runnerVars>>

\* The destructor: unbackground(true), whatever the loop is doing.
DestroyRunner(c) ==
    /\ ~Leaving
    /\ \A d \in Clients : at[d] = "idle" /\ cpc[d] = "idle"
    /\ backgrounded' = FALSE
    /\ Move(c, "clean")
    /\ onClean' = [onClean EXCEPT ![c] = "destructor"]
    /\ UNCHANGED <<setting, settingChange, latchVars, loopVars, owner, thread, destroyed, quiet,
                   overlapped, runnerVars>>

-----------------------------------------------------------------------------
(* update(), on the thread of the loop *)

\* Mutant: the changes are left to recordFrame().
EnterUpdateUnsynced(l) ==
    /\ lpc[l] = "update"
    /\ Go(l, "idle", "frame")
    /\ UNCHANGED <<vars, changes, detectors, newFrame, hadSome, joining, toggle, calls, overtaken,
                   forgotten, fresh>>

\* processDetectorChanges(false) begins.
EnterUpdate(l) ==
    /\ lpc[l] = "update"
    /\ Go(l, "idle", "sync")
    /\ hadSome' = [hadSome EXCEPT ![l] = detectors # {}]
    /\ UNCHANGED <<vars, changes, detectors, newFrame, joining, toggle, calls, overtaken, forgotten,
                   fresh>>

\* Recorder::update: a new frame is fetched and recorded; without one the loop
\* waits for it for a while, then its update() is over.
LookForFrame(l) ==
    /\ Go(l, "frame", IF newFrame THEN "apply" ELSE "toggle")
    /\ fresh' = (fresh /\ ~newFrame)
    /\ hadSome' = [hadSome EXCEPT ![l] = detectors # {}]
    /\ UNCHANGED <<vars, changes, detectors, newFrame, joining, toggle, calls, overtaken, forgotten>>

\* Every detector has seen the image; the flag is taken down only now.
Detected(l) ==
    /\ Go(l, "detect", "clear")
    /\ UNCHANGED <<vars, changes, detectors, newFrame, hadSome, joining, toggle, calls, overtaken,
                   forgotten, fresh>>

ClearFrame(l) ==
    /\ Go(l, "clear", "toggle")
    /\ newFrame' = FALSE
    /\ UNCHANGED <<vars, changes, detectors, hadSome, joining, toggle, calls, overtaken, forgotten,
                   fresh>>

\* Mutant: the flag is cleared at the end, frame recorded or not.
ToggleClears(l) ==
    /\ Go(l, "toggle", "leaving")
    /\ \/ toggle[l] /\ backgrounded /\ Unbackground(l, FALSE)
       \/ toggle[l] /\ ~backgrounded /\ Background(l)
       \/ ~toggle[l] /\ UNCHANGED vars
    /\ newFrame' = FALSE
    /\ toggle' = [toggle EXCEPT ![l] = FALSE]
    /\ UNCHANGED <<changes, detectors, hadSome, joining, calls, overtaken, forgotten, fresh>>

\* The toggle asks backgrounded(), not what the change was.
Toggle(l) ==
    /\ Go(l, "toggle", "leaving")
    /\ \/ toggle[l] /\ backgrounded /\ Stop(l, FALSE)
       \/ toggle[l] /\ ~backgrounded /\ Start(l)
       \/ ~toggle[l] /\ UNCHANGED <<vars, newFrame, fresh>>
    /\ toggle' = [toggle EXCEPT ![l] = FALSE]
    /\ UNCHANGED <<changes, detectors, hadSome, joining, calls, overtaken, forgotten>>

LeaveUpdate(l) ==
    /\ cpc[l] = "idle"
    /\ Go(l, "leaving", "idle")
    /\ UpdateDone(l)
    /\ UNCHANGED <<changes, detectors, newFrame, hadSome, joining, toggle, calls, overtaken, forgotten,
                   fresh>>

\* The rest of the inherited code.
Inherited ==
    /\ \/ \E t \in Controllers : CleanUpStep(t) \/ SpuriousWakeup(t)
       \/ \E l \in Loops :
            ReadState(l) \/ ApplySettings(l) \/ Awakes(l) \/ SignalStopped(l) \/ Finish(l)
    /\ UNCHANGED runnerVars

\* newImageCapture(), on the camera's thread.
FrameArrives ==
    /\ ~Leaving
    /\ ~fresh
    /\ newFrame' = TRUE
    /\ fresh' = TRUE
    /\ forgotten' = (forgotten \/ \E l \in Loops : at[l] \in {"apply", "called", "detect", "clear"})
    /\ UNCHANGED <<vars, changes, detectors, at, hadSome, joining, toggle, calls, overtaken>>

-----------------------------------------------------------------------------

\* One thread changes m_detectors while another is between two uses of it.
Conflict ==
    \E t, u \in Controllers :
        t # u /\ Processing(t) /\ changes # <<>> /\ (Processing(u) \/ at[u] = "detect")

LoopCode(l) ==
    EnterUpdate(l) \/ Apply(l) \/ Synced(l) \/ LookForFrame(l) \/ Applied(l) \/ Returned(l)
    \/ Detected(l) \/ ClearFrame(l) \/ Toggle(l) \/ LeaveUpdate(l)

ClientCode(c) == Ask(c) \/ Apply(c) \/ Applied(c) \/ Returned(c)

RunnerNext ==
    /\ ~Conflict
    /\ \/ \E c \in Clients :
            \/ \E change \in Changes, join \in JoinArgs : Push(c, change, join)
            \/ DestroyRunner(c)
            \/ ClientCode(c)
       \/ \E l \in Loops : LoopCode(l)
       \/ Inherited
       \/ FrameArrives

allVars == <<vars, runnerVars>>

RunnerSpec == RunnerInit /\ [][RunnerNext]_allVars

\* Threads are scheduled and detectors return; nobody has to make a call and
\* the camera need not capture anything.
RunnerFairSpec ==
    /\ RunnerSpec
    /\ \A c \in Clients : WF_allVars(~Conflict /\ ClientCode(c))
    /\ \A t \in Controllers : WF_allVars(~Conflict /\ CleanUpStep(t) /\ UNCHANGED runnerVars)
    /\ \A l \in Loops :
        /\ WF_allVars(~Conflict /\ LoopCode(l))
        /\ WF_allVars(~Conflict /\ LoopStep(l) /\ lpc[l] # "update" /\ UNCHANGED runnerVars)

-----------------------------------------------------------------------------
(* Properties *)

\* A loop that is in a call which waits for the thread it is made on: "You will get
\* a deadlock." (IUpdatable.h, update())
JoinsItself == \E l \in Loops : cpc[l] # "idle" /\ thread = l

\* Only a removal that asks to join may meet the loop in m_detectors: the other
\* calls leave the change to the loop while there is one.
RacesOnlyWhenJoining ==
    Conflict => \E c \in Clients : Processing(c) /\ joining[c]

\* One loop at a time, none on a destroyed runner, although loops start and stop
\* themselves; and only such a removal meets one.
RunnerLifetime == RunnerTypeOK /\ OneLoop /\ NoLoopAfterDestruction /\ RacesOnlyWhenJoining

\* "If the runner has detecctors, and the given camera is caputring images the
\* detectors will be running." (VisionRunner.h): with no loop about and no call under way
\* no detector is left and no change is left over, unless a change was pushed
\* while a loop was making up its mind to stop.
StoppedMeansEmpty ==
    (Running = {} /\ ~Leaving /\ \A t \in Controllers : at[t] = "idle" /\ cpc[t] = "idle")
        => (detectors = {} /\ changes = <<>>) \/ overtaken

\* A call returns, the destructor's too, unless a loop waits for itself or is
\* started again before it has ended.
ClientReturns ==
    \A c \in Clients :
        at[c] # "idle" \/ cpc[c] # "idle"
            ~> (at[c] = "idle" /\ cpc[c] = "idle") \/ overlapped \/ JoinsItself \/ Conflict

\* A frame is recorded, or the runner stops, unless it comes while another is
\* being recorded or the loop waits for itself.
FramesRecorded == fresh ~> ~fresh \/ forgotten \/ ~backgrounded \/ JoinsItself \/ Conflict
=============================================================================
