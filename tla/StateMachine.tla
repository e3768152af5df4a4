---------------------------- MODULE StateMachine ----------------------------
(***************************************************************************)
(* The state machine of the AI: packages/python/ram/ai/state.py (Machine), *)
(* ai/task.py (Task) and ram/timer.py (Timer).                             *)
(*                                                                         *)
(* A state is an object that lives for one visit.  While the machine is in *)
(* it, the machine is subscribed to the events of its table; the queued    *)
(* event hub calls injectEvent() on the thread that runs the AI.  A task   *)
(* starts a timer and a branch, which is a machine of its own beside the   *)
(* main one, and stops both when it is left, but for some states that      *)
(* forget their timers.  Each timer is a thread.                           *)
(*                                                                         *)
(* Machines know an event by its Python object.  One that C++ publishes is *)
(* given a new object at each call of a handler (EventFunctor and Event-   *)
(* Converter), so that it is never the previous one.                       *)
(*                                                                         *)
(* Main is the machine of the AI; a branch goes by the state it begins in, *)
(* its key in _branches.  Only states of Main have branches.  STATE_ENTERED*)
(* and the other events a machine publishes about itself change nothing.   *)
(***************************************************************************)
EXTENDS Naturals, Sequences, FiniteSets

CONSTANTS
    Main, None,
    Begin,          \* the state Main is started with
    Table,          \* transitions(): a function from types to states, for each state
    Branching,      \* <<state, type>>: the entry is a Branch(...)
    Vetoes,         \* <<state, type>>: the transition function may return False
    BranchOf,       \* the branch enter() starts and exit() stops, or None
    TimerOf,        \* the type of the timer of a state, or None
    Forgetful,      \* the states whose exit() does not stop their timer
    Announces,      \* the type of event enter() publishes, or None
    External,       \* types published by others: detectors and motions
    Foreign,        \* types published by C++: detectors
    MaxSent,        \* bound: events of the others
    MaxStarts       \* bound: calls of start()

States == DOMAIN Table

ASSUME TableAssumption ==
    /\ Begin \in States
    /\ \A s \in States : \A t \in DOMAIN Table[s] : Table[s][t] \in States
    /\ \A f \in {BranchOf, TimerOf, Announces} : DOMAIN f = States
    /\ \A s \in States : BranchOf[s] \in States \cup {None}
    /\ \A b \in Branching : b[1] \in States /\ b[2] \in DOMAIN Table[b[1]]
    /\ Forgetful \subseteq States /\ Foreign \subseteq External

\* A state that starts a timer has a transition for its time-out.
ASSUME TimersAwaited == \A s \in States : TimerOf[s] # None => TimerOf[s] \in DOMAIN Table[s]

Branches ==
    {BranchOf[s] : s \in {r \in States : BranchOf[r] # None}} \cup {Table[b[1]][b[2]] : b \in Branching}
Machines == {Main} \cup Branches

\* States without branches of their own, out of which there is no way but to each other.
Flat(set) == \A s \in set :
    /\ BranchOf[s] = None
    /\ \A t \in DOMAIN Table[s] : Table[s][t] \in set /\ <<s, t>> \notin Branching

\* There are no branches within branches.
ASSUME BranchesAreFlat == \E set \in SUBSET States : Branches \subseteq set /\ Flat(set)

Types == (UNION {DOMAIN Table[s] : s \in States}) \cup External \cup {Announces[s] : s \in States}
Events == [type : Types, visit : Nat, late : BOOLEAN, from : States \cup {None}]

ASSUME NoneAssumption == None \notin States /\ Main \notin States /\ None \notin Events

VARIABLES
    ai,             \* the machines, the hub, its queue and the timers
    delivering,     \* the event the hub is publishing, or None
    due, done,      \* the subscriptions that were there when it began, those that were called
    sent, starts,
    moved,          \* history: how often each machine, since it exists, has left a state for this event
    acted           \* history: whose time-out the event is that was last acted on

vars == <<ai, delivering, due, done, sent, starts, moved, acted>>

\* A time-out: the visit and the state of its timer.  late is a history: the timer had
\* fired when its state was left.
TimeOut(t) == [type |-> TimerOf[t.state], visit |-> t.visit, late |-> t.late, from |-> t.state]

\* Any other event.
Event(type) == [type |-> type, visit |-> 0, late |-> FALSE, from |-> None]

TypeOK ==
    /\ ai.current \in [Machines -> States \cup {None}]
    /\ ai.visit \in [Machines -> Nat] /\ ai.visits \in Nat
    /\ ai.started \in [Machines -> BOOLEAN] /\ ai.complete \in [Machines -> BOOLEAN]
    /\ ai.branches \subseteq Branches /\ ai.seen \subseteq Machines
    /\ \A m \in Machines : ai.complete[m] => ai.started[m] /\ ai.current[m] = None
    /\ \A m \in Branches : ai.started[m] <=> m \in ai.branches
    /\ ai.hub \subseteq [type : Types, machine : Machines, visit : 1..ai.visits]
    /\ ai.queue \in Seq(Events) /\ delivering \in Events \cup {None}
    /\ \A t \in ai.timers : t.visit \in 1..ai.visits /\ t.at \in {"asleep", "awake"}
    /\ due \subseteq [type : {e.type : e \in {delivering} \ {None}}, machine : Machines, visit : 1..ai.visits]
    /\ moved \in [Machines -> Nat] /\ acted \in {"none", "own", "shared", "late", "forgotten", "stale"}

Init ==
    /\ ai = [current |-> [m \in Machines |-> None],     \* _currentState
             visit |-> [m \in Machines |-> 0],          \* which object that is
             visits |-> 0,
             started |-> [m \in Machines |-> FALSE],
             complete |-> [m \in Machines |-> FALSE],
             branches |-> {},                           \* of Main
             seen |-> {},                               \* whose _previousEvent is the one in hand
             hub |-> {},                                \* the connections
             queue |-> <<>>,
             timers |-> {},                             \* the threads of the timers
             raised |-> "nothing"]                      \* the exception of the last call
    /\ delivering = None /\ due = {} /\ done = {}
    /\ sent = 0 /\ starts = 0
    /\ moved = [m \in Machines |-> 0] /\ acted = "none"

-----------------------------------------------------------------------------
(* What the AI's thread does, as functions of what it finds *)

Raise(w, what) == [w EXCEPT !.raised = what]

\* Mutant: the connections are kept.
DropConnected(w, ms) ==
    LET left == {w.visit[m] : m \in ms} IN
    [w EXCEPT !.current = [m \in Machines |-> IF m \in ms THEN None ELSE @[m]],
              !.timers = {[t EXCEPT !.running = @ /\ (t.visit \in left => t.state \in Forgetful),
                                    !.late = @ \/ (t.at = "awake" /\ t.visit \in left)] : t \in w.timers},
              !.queue = [i \in DOMAIN w.queue |-> [w.queue[i] EXCEPT !.late = @ \/ w.queue[i].visit \in left]]]

\* Mutant: the timer is left running.
DropTimed(w, ms) ==
    [w EXCEPT !.current = [m \in Machines |-> IF m \in ms THEN None ELSE @[m]],
              !.hub = {c \in @ : c.machine \notin ms}]

\* The states of some machines are left: the timers are stopped if exit() does so, and
\* the machines no longer subscribed.
Drop(w, ms) ==
    LET left == {w.visit[m] : m \in ms} IN
    [w EXCEPT !.current = [m \in Machines |-> IF m \in ms THEN None ELSE @[m]],
              !.timers = {[t EXCEPT !.running = @ /\ (t.visit \in left => t.state \in Forgetful),
                                    !.late = @ \/ (t.at = "awake" /\ t.visit \in left)] : t \in w.timers},
              !.queue = [i \in DOMAIN w.queue |-> [w.queue[i] EXCEPT !.late = @ \/ w.queue[i].visit \in left]],
              !.hub = {c \in @ : c.machine \notin ms}]

\* Machine.stop() of machines without branches.
Halt(w, ms) ==
    [Drop(w, ms) EXCEPT !.started = [m \in Machines |-> @[m] /\ m \notin ms],
                        !.complete = [m \in Machines |-> @[m] /\ m \notin ms],
                        !.seen = @ \ ms,
                        !.branches = @ \ ms]

\* Machine.stopBranch()
StopBranch(w, b) == IF b \in w.branches THEN Halt(w, {b}) ELSE Raise(w, "no such branch")

\* Mutant: the branch goes on.
ExitStateAlone(w, m) == Drop(w, {m})

\* _exitState(), with the exit() of the state.
ExitState(w, m) ==
    LET b == BranchOf[w.current[m]]
        x == IF b = None THEN w ELSE StopBranch(w, b)
    IN IF x.raised # "nothing" THEN x ELSE Drop(x, {m})

\* The first half of _enterState(): a new object, its subscriptions, and what
\* enter() does for itself.
Arrive(w, m, s) ==
    LET n == w.visits + 1
        timer == IF TimerOf[s] = None THEN {}
                 ELSE {[visit |-> n, state |-> s, at |-> "asleep", running |-> TRUE, late |-> FALSE]}
        news == IF Announces[s] = None THEN <<>> ELSE <<Event(Announces[s])>>
    IN [w EXCEPT !.visits = n,
                 !.current[m] = s,
                 !.visit[m] = n,
                 !.hub = @ \cup {[type |-> t, machine |-> m, visit |-> n] : t \in DOMAIN Table[s]},
                 !.timers = @ \cup timer,
                 !.queue = @ \o news]

\* Mutant: the machine stays in the state it has no way out of.
SettleIn(w, m) ==
    IF DOMAIN Table[w.current[m]] = {} THEN [w EXCEPT !.complete[m] = TRUE] ELSE w

\* "If we are in a state with no way out, exit the state and mark ourself complete"
Settle(w, m) ==
    IF DOMAIN Table[w.current[m]] = {} THEN [ExitState(w, m) EXCEPT !.complete[m] = TRUE] ELSE w

\* _branchToState(): told is whether it is given the event it is for.
BranchToState(w, b, told) ==
    IF b \in w.branches THEN Raise(w, "already branched")
    ELSE Settle(Arrive([w EXCEPT !.started[b] = TRUE,
                                 !.branches = @ \cup {b},
                                 !.seen = IF told THEN @ \cup {b} ELSE @ \ {b}], b, b), b)

\* _enterState().  A task starts its branch from enter(), without the event.
EnterState(w, m, s) ==
    LET a == Arrive(w, m, s)
        x == IF BranchOf[s] = None THEN a ELSE BranchToState(a, BranchOf[s], FALSE)
    IN IF x.raised # "nothing" THEN x ELSE Settle(x, m)

\* Machine.start() of Main
StartMachine(w) ==
    EnterState([w EXCEPT !.started[Main] = TRUE, !.complete[Main] = FALSE], Main, Begin)

\* Mutant: the branches are forgotten.
StopForgets(w) ==
    LET x == IF w.current[Main] = None THEN w ELSE ExitState(w, Main)
    IN IF x.raised # "nothing" THEN x ELSE Halt(x, {Main})

\* Machine.stop() of Main, which stops all branches
StopMachine(w) ==
    LET x == IF w.current[Main] = None THEN w ELSE ExitState(w, Main)
    IN IF x.raised # "nothing" THEN x ELSE Halt(x, x.branches \cup {Main})

Record(w, m) == IF w.raised = "nothing" THEN [w EXCEPT !.seen = @ \cup {m}] ELSE w

\* What the table makes of an event that is new to the machine.
React(w, m, type, veto) ==
    LET s == w.current[m] IN
    IF veto \/ type \notin DOMAIN Table[s] THEN w
    ELSE IF <<s, type>> \in Branching THEN BranchToState(w, Table[s][type], TRUE)
    ELSE IF Table[s][type] = s THEN w
    ELSE LET x == ExitState(w, m)
         IN IF x.raised # "nothing" THEN x ELSE EnterState(x, m, Table[s][type])

\* Mutant: the previous event is not compared with.
InjectAgain(w, m, type, veto) ==
    IF ~w.started[m] THEN Raise(w, "must be started")
    ELSE IF w.current[m] = None THEN Raise(w, "no state")
    ELSE Record(React(w, m, type, veto), m)

\* injectEvent(): "event == self._previousEvent" is about objects.
InjectEvent(w, m, type, veto) ==
    IF m \in w.seen /\ type \notin Foreign THEN w
    ELSE IF ~w.started[m] THEN Raise(w, "must be started")
    ELSE IF w.current[m] = None THEN Raise(w, "no state")
    ELSE Record(React(w, m, type, veto), m)

-----------------------------------------------------------------------------
(* The AI's thread *)

Start ==
    /\ delivering = None
    /\ ai.current[Main] = None
    /\ starts < MaxStarts
    /\ starts' = starts + 1
    /\ ai' = StartMachine(Raise(ai, "nothing"))
    /\ UNCHANGED <<delivering, due, done, sent, moved, acted>>

Stop ==
    /\ delivering = None
    /\ ai.started[Main]
    /\ ai' = StopMachine(Raise(ai, "nothing"))
    /\ UNCHANGED <<delivering, due, done, sent, starts, moved, acted>>

\* Mutant: events are compared by value, and the plain ones are all equal.
FreshByValue(e) == [ai EXCEPT !.queue = Tail(@), !.raised = "nothing"]

\* Another event is not the previous one.
Fresh(e) == [ai EXCEPT !.queue = Tail(@), !.seen = {}, !.raised = "nothing"]

NothingMoved == moved' = [m \in Machines |-> 0] /\ acted' = "none"

\* publishEvents() takes the next event.
Pop ==
    /\ delivering = None
    /\ ai.queue # <<>>
    /\ LET e == Head(ai.queue) IN
        /\ delivering' = e
        /\ due' = {c \in ai.hub : c.type = e.type}
        /\ ai' = Fresh(e)
    /\ done' = {}
    /\ NothingMoved
    /\ UNCHANGED <<sent, starts>>

Waiting == {c \in ai.hub : c.type = delivering.type /\ c \notin done}

\* The subscriptions are called in the order they were made.  Whether those made
\* meanwhile are called is left open by the signal.  An exception ends it all.
Call ==
    /\ delivering # None
    /\ \E c \in Waiting, veto \in BOOLEAN :
        LET m == c.machine
            s == ai.current[m]
            e == delivering
            w == InjectEvent(ai, m, e.type, veto)
            left == s # None /\ w.visit[m] # ai.visit[m]
        IN
        /\ \A d \in Waiting : d.visit >= c.visit
        /\ veto => <<s, e.type>> \in Vetoes
        /\ ai' = w
        /\ IF w.raised = "nothing"
           THEN done' = done \cup {c} /\ UNCHANGED <<delivering, due>>
           ELSE done' = {} /\ delivering' = None /\ due' = {}
        /\ moved' = [n \in Machines |-> IF n = m THEN moved[m] + IF left THEN 1 ELSE 0
                                       ELSE IF w.visit[n] # ai.visit[n] THEN 0 ELSE moved[n]]
        /\ acted' = IF ~left \/ e.visit = 0 THEN acted
                    ELSE IF e.visit = ai.visit[m] THEN "own"
                    ELSE IF \E d \in due : d.visit = e.visit THEN "shared"
                    ELSE IF e.late THEN "late"
                    ELSE IF e.from \in Forgetful THEN "forgotten" ELSE "stale"
    /\ UNCHANGED <<sent, starts>>

Published ==
    /\ delivering # None
    /\ due \cap Waiting = {}
    /\ delivering' = None
    /\ due' = {}
    /\ done' = {}
    /\ NothingMoved
    /\ UNCHANGED <<ai, sent, starts>>

-----------------------------------------------------------------------------
(* Other threads *)

\* Mutant: stop() is not looked at any more.
WakeUpBlind(t) ==
    /\ t \in ai.timers /\ t.at = "asleep"
    /\ ai' = [ai EXCEPT !.timers = (@ \ {t}) \cup {[t EXCEPT !.at = "awake"]}]
    /\ UNCHANGED <<delivering, due, done, sent, starts, moved, acted>>

\* Timer.run(): after the sleep, whether it was stopped.
WakeUp(t) ==
    /\ t \in ai.timers /\ t.at = "asleep"
    /\ ai' = [ai EXCEPT !.timers = (@ \ {t}) \cup {u \in {[t EXCEPT !.at = "awake"]} : t.running}]
    /\ UNCHANGED <<delivering, due, done, sent, starts, moved, acted>>

\* ... and then the event, even if it has been stopped in between.
Fire(t) ==
    /\ t \in ai.timers /\ t.at = "awake"
    /\ ai' = [ai EXCEPT !.timers = @ \ {t}, !.queue = Append(@, TimeOut(t))]
    /\ UNCHANGED <<delivering, due, done, sent, starts, moved, acted>>

Send(type) ==
    /\ sent < MaxSent
    /\ sent' = sent + 1
    /\ ai' = [ai EXCEPT !.queue = Append(@, Event(type))]
    /\ UNCHANGED <<delivering, due, done, starts, moved, acted>>

Next ==
    \/ Start
    \/ Stop
    \/ Pop
    \/ Call
    \/ Published
    \/ \E t \in ai.timers : WakeUp(t) \/ Fire(t)
    \/ \E type \in External : Send(type)

Spec == Init /\ [][Next]_vars

Publishing == Pop \/ Call \/ Published
Timers == \E t \in ai.timers : WakeUp(t) \/ Fire(t)

\* The hub is updated again and again, and every timer wakes up.  The first is
\* WF_vars(Publishing) written out: Publishing is enabled when the hub has work.
HubBusy == delivering # None \/ ai.queue # <<>>
FairSpec == Spec /\ ([]<>~HubBusy \/ []<><<Publishing>>_vars) /\ WF_vars(Timers)

-----------------------------------------------------------------------------
(* Properties *)

\* A machine hears exactly the events its state has a transition for, whichever
\* way it got there, was stopped or came to its end: no subscription outlives its
\* state ("_connections: The list of event connections for current state").
SubscribedToCurrent ==
    ai.hub = UNION {{[type |-> t, machine |-> m, visit |-> ai.visit[m]] : t \in DOMAIN Table[ai.current[m]]}
                        : m \in {n \in Machines : ai.current[n] # None}}

\* A timer that is going to fire belongs to a state some machine is in, or was started by
\* one that forgets it.
TimersBelongToStates ==
    \A t \in ai.timers : t.running /\ t.state \notin Forgetful =>
        \E m \in Machines : ai.visit[m] = t.visit /\ ai.current[m] = t.state

\* The branch of a task runs while the task does: it is there as long as Main is
\* in the task, a second one is never there, and a stopped machine has none.
BranchesFollowTask ==
    LET s == ai.current[Main]
        mine == IF s = None THEN {} ELSE {BranchOf[s]} \ {None}
        extra == {Table[b[1]][b[2]] : b \in Branching}
    IN /\ ai.raised = "nothing" => mine \subseteq ai.branches
       /\ ai.branches \ extra \subseteq mine
       /\ ~ai.started[Main] => ai.branches = {}

\* An event of a Python publisher takes a machine one step, although the state it enters
\* subscribes while the event is being published and may be called with it again ("This
\* check here prevents that event from causing an unwanted transition").  For those of
\* C++ the check prevents nothing.
OneStep == \A m \in Machines : delivering # None /\ delivering.type \notin Foreign => moved'[m] <= 1
OneStepPerEvent == [][OneStep]_vars

\* A time-out that leads out of a state is its own, unless another machine waits for
\* one of the same type (all FindAttempts share theirs), that of an earlier state was on
\* its way when that state was left, or the earlier state is one that forgets its timer.
TimeoutIsOwn == acted # "stale"

\* The hub never calls a machine that is stopped or complete, and no state that is
\* left misses its branch.  Only a Branch in a table may find itself there already.
NothingRaised == ai.raised \in {"nothing", "already branched"}

\* However a state is left, nothing of it stays behind but a timer it forgets, and
\* nothing of the next one is missing.
NothingOutlivesState ==
    TypeOK /\ SubscribedToCurrent /\ TimersBelongToStates /\ BranchesFollowTask /\ NothingRaised

Timed(s) == TimerOf[s] # None /\ Table[s][TimerOf[s]] # s

\* A state with a timer that leads out of it is left in the end, and what it published is
\* heard: no event is taken for one that was handled before.
TimedStatesEnd == \A m \in Machines : []<>(ai.current[m] = None \/ ~Timed(ai.current[m]))
=============================================================================
