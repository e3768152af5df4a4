------------------------- MODULE StateMachineProofs -------------------------
(***************************************************************************)
(* Proofs about the state machine of the AI, for every table of states,    *)
(* any set of event types and any number of events, starts and time-outs:  *)
(* nothing outlives its state but a timer it forgets, an event of a Python *)
(* publisher takes a machine one step, and a time-out is acted on by the   *)
(* state it belongs to.                                                    *)
(*                                                                         *)
(* The calls of Machine are functions of what the AI's thread finds, so    *)
(* most of the proof is about them: each lemma says what one of them makes *)
(* of a World in which Core holds.  In the middle of a transition Main is  *)
(* without a state and its branch not yet there, so that BranchesFollow-   *)
(* Task is no part of Core: Follows is carried beside it and holds again   *)
(* when the call is over.                                                  *)
(***************************************************************************)
EXTENDS StateMachine, SequenceTheorems, TLAPS

\* What the hub and the timers are made of.
Connections == [type : Types, machine : Machines, visit : Nat]
Sleepers == [visit : Nat, state : {s \in States : TimerOf[s] # None}, at : {"asleep", "awake"}, running : BOOLEAN, late : BOOLEAN]

\* What the AI's thread can find, and the calls it makes can leave.
World ==
    [current : [Machines -> States \cup {None}],
     visit : [Machines -> Nat],
     visits : Nat,
     started : [Machines -> BOOLEAN],
     complete : [Machines -> BOOLEAN],
     branches : SUBSET Branches,
     seen : SUBSET Machines,
     hub : SUBSET Connections,
     queue : Seq(Events),
     timers : SUBSET Sleepers,
     raised : {"nothing", "already branched", "no such branch", "must be started", "no state"}]

\* The states a branch can be in.
FlatStates == CHOOSE set \in SUBSET States : Branches \subseteq set /\ Flat(set)

\* Some machine is in the state of this visit, and that state has a transition for the type.
InForce(w, type, visit) == \E m \in Machines :
    w.current[m] # None /\ w.visit[m] = visit /\ type \in DOMAIN Table[w.current[m]]

\* Some machine is in this state, on this visit.
InState(w, s, visit) == \E m \in Machines : w.current[m] = s /\ w.visit[m] = visit

\* An event in the queue: a time-out only for a state some machine is in, unless the timer had
\* fired when that state was left or the state forgets its timer.
Accounted(w, e) == e.visit = 0 \/ e.late \/ e.from \in Forgetful \/ InForce(w, e.type, e.visit)

\* A machine in a state is started and not complete, and every visit has its number.
Placed(w) == \A m \in Machines :
    /\ w.visit[m] <= w.visits
    /\ w.current[m] # None => w.started[m] /\ w.visit[m] >= 1
    /\ w.complete[m] => w.started[m] /\ w.current[m] = None

\* _branches has the branches that are started, and these stay among the flat states.
Rooted(w) == \A b \in Branches :
    /\ w.started[b] <=> b \in w.branches
    /\ w.current[b] \in FlatStates \cup {None}

\* The subscriptions are those of the states the machines are in, all of them and no others.
Hears(w) ==
    /\ \A c \in w.hub : /\ w.current[c.machine] # None
                        /\ w.visit[c.machine] = c.visit
                        /\ c.type \in DOMAIN Table[w.current[c.machine]]
    /\ \A m \in Machines : w.current[m] # None =>
        \A t \in DOMAIN Table[w.current[m]] : [type |-> t, machine |-> m, visit |-> w.visit[m]] \in w.hub

\* A timer that is to fire is that of a state some machine is in, or its state forgot it; one that has
\* fired was stopped too late, if at all; and the events in the queue are accounted for.
Timely(w) ==
    /\ \A t \in w.timers : /\ t.visit \in 1..w.visits
                           /\ t.running => t.state \in Forgetful \/ InState(w, t.state, t.visit)
                           /\ t.at = "awake" => t.running \/ t.late
    /\ \A i \in 1..Len(w.queue) : Accounted(w, w.queue[i])

\* What holds after every step of every call.
Core(w) == w \in World /\ Placed(w) /\ Rooted(w) /\ Hears(w) /\ Timely(w)

\* The branch of the task Main is in, and the branches the tables ask for.
Mine(w) == IF w.current[Main] = None THEN {} ELSE {BranchOf[w.current[Main]]} \ {None}
Extra == {Table[b[1]][b[2]] : b \in Branching}

\* The branch of a task is there with the task, as BranchesFollowTask has it.
Follows(w) ==
    /\ Mine(w) \subseteq w.branches
    /\ w.branches \ Extra \subseteq Mine(w)
    /\ ~w.started[Main] => w.branches = {}

\* A time-out in hand is late or of a state that forgets its timer, or among the subscriptions that were there when its delivery began
\* is one of its own visit.
DueInv ==
    /\ delivering \in Events \cup {None}
    /\ delivering = None => due = {}
    /\ delivering # None => due \subseteq [type : {delivering.type}, machine : Machines, visit : 1..ai.visits]
    /\ delivering # None => \/ delivering.visit = 0 \/ delivering.late \/ delivering.from \in Forgetful
                            \/ \E d \in due : d.visit = delivering.visit

\* Who has moved for the event in hand has seen it, or is in no state any more, unless C++ published it.
MoveInv ==
    /\ moved \in [Machines -> Nat]
    /\ delivering # None /\ delivering.type \notin Foreign =>
        \A m \in Machines : moved[m] <= 1 /\ (moved[m] = 1 => m \in ai.seen \/ ai.current[m] = None)

\* An exception ends the delivery of an event: while one is in hand there is none.
IInv ==
    /\ Core(ai) /\ Follows(ai) /\ ai.raised \in {"nothing", "already branched"}
    /\ DueInv /\ MoveInv
    /\ delivering # None => ai.raised = "nothing"
    /\ acted \in {"none", "own", "shared", "late", "forgotten"}

\* What no call of a machine does to another one: it does not take back that the other
\* has seen the event, unless it ends the visit.
Kept(w, x) ==
    /\ x.visits >= w.visits
    /\ \A n \in Machines :
        /\ x.visit[n] >= w.visit[n]
        /\ x.visit[n] = w.visit[n] /\ x.current[n] # None =>
               w.current[n] # None /\ (n \in w.seen => n \in x.seen)

\* What the calls of a branch leave alone.
Apart(w, x) ==
    /\ x.current[Main] = w.current[Main] /\ x.started[Main] = w.started[Main]
    /\ x.complete[Main] = w.complete[Main]

-----------------------------------------------------------------------------
(* The table *)

\* There is such a set of flat states, so that the one chosen is one.
LEMMA FlatFacts == FlatStates \subseteq States /\ Branches \subseteq FlatStates /\ Flat(FlatStates)
<1>1. PICK set \in SUBSET States : Branches \subseteq set /\ Flat(set)
    BY BranchesAreFlat
<1>2. FlatStates \in SUBSET States /\ Branches \subseteq FlatStates /\ Flat(FlatStates)
    BY <1>1 DEF FlatStates
<1>. QED
    BY <1>2

\* A machine is Main or a branch, never both, and a branch goes by a state.
LEMMA MachineFacts ==
    /\ Main \in Machines /\ Main \notin Branches /\ None \notin Branches
    /\ \A m \in Machines : m = Main \/ m \in Branches
    /\ Branches \subseteq Machines /\ Branches \subseteq States
    BY FlatFacts, NoneAssumption DEF Machines

\* Branches are what tasks and the tables begin, and the tables of no branch begin one.
LEMMA BranchFacts ==
    /\ \A s \in States : BranchOf[s] # None => BranchOf[s] \in Branches
    /\ \A s, t : <<s, t>> \in Branching =>
        s \in States \ FlatStates /\ t \in DOMAIN Table[s] /\ Table[s][t] \in Branches /\ Table[s][t] \in Extra
<1>1. \A s \in States : BranchOf[s] # None => BranchOf[s] \in Branches
    BY DEF Branches
<1>2. ASSUME NEW s, NEW t, <<s, t>> \in Branching
      PROVE  s \in States \ FlatStates /\ t \in DOMAIN Table[s] /\ Table[s][t] \in Branches /\ Table[s][t] \in Extra
    <2>1. <<s, t>>[1] = s /\ <<s, t>>[2] = t
        OBVIOUS
    <2>2. s \in States /\ t \in DOMAIN Table[s]
        BY <1>2, <2>1, TableAssumption
    <2>3. Table[s][t] \in Extra
        BY <1>2, <2>1 DEF Extra
    <2>4. Table[s][t] \in Branches
        BY <2>3 DEF Extra, Branches
    <2>5. s \notin FlatStates
        BY <1>2, <2>2, FlatFacts DEF Flat
    <2>. QED
        BY <2>2, <2>3, <2>4, <2>5
<1>. QED
    BY <1>1, <1>2

\* A branch moves among the flat states.
LEMMA FlatSteps ==
    ASSUME NEW s \in FlatStates
    PROVE  /\ s \in States /\ BranchOf[s] = None
           /\ \A t \in DOMAIN Table[s] : Table[s][t] \in FlatStates
    BY FlatFacts DEF Flat

\* The types that states hear, announce and set timers for are types of events.
LEMMA TypeFacts ==
    ASSUME NEW s \in States
    PROVE  /\ DOMAIN Table[s] \subseteq Types
           /\ Announces[s] \in Types /\ External \subseteq Types
           /\ TimerOf[s] # None => TimerOf[s] \in DOMAIN Table[s]
           /\ \A t \in DOMAIN Table[s] : Table[s][t] \in States
<1>1. DOMAIN Table[s] \in {DOMAIN Table[r] : r \in States}
    OBVIOUS
<1>2. DOMAIN Table[s] \subseteq UNION {DOMAIN Table[r] : r \in States}
    BY <1>1
<1>3. DOMAIN Table[s] \subseteq Types
    BY <1>2 DEF Types
<1>4. Announces[s] \in {Announces[r] : r \in States}
    OBVIOUS
<1>5. Announces[s] \in Types /\ External \subseteq Types
    BY <1>4 DEF Types
<1>. QED
    BY <1>3, <1>5, TableAssumption, TimersAwaited

-----------------------------------------------------------------------------
(* Leaving a state *)

\* Leaving states, field by field.
LEMMA DropFields ==
    ASSUME NEW w \in World, NEW ms \in SUBSET Machines
    PROVE  LET x == Drop(w, ms)
               left == {w.visit[m] : m \in ms}
           IN /\ x \in World
              /\ x.current = [m \in Machines |-> IF m \in ms THEN None ELSE w.current[m]]
              /\ x.visit = w.visit /\ x.visits = w.visits /\ x.started = w.started /\ x.complete = w.complete
              /\ x.branches = w.branches /\ x.seen = w.seen /\ x.raised = w.raised
              /\ x.hub = {c \in w.hub : c.machine \notin ms}
              /\ x.timers = {[t EXCEPT !.running = @ /\ (t.visit \in left => t.state \in Forgetful),
                                       !.late = @ \/ (t.at = "awake" /\ t.visit \in left)] : t \in w.timers}
              /\ x.queue = [i \in DOMAIN w.queue |-> [w.queue[i] EXCEPT !.late = @ \/ w.queue[i].visit \in left]]
<1>. DEFINE left == {w.visit[m] : m \in ms}
            timers == {[t EXCEPT !.running = @ /\ (t.visit \in left => t.state \in Forgetful),
                                 !.late = @ \/ (t.at = "awake" /\ t.visit \in left)] : t \in w.timers}
            queue == [i \in DOMAIN w.queue |-> [w.queue[i] EXCEPT !.late = @ \/ w.queue[i].visit \in left]]
            current == [m \in Machines |-> IF m \in ms THEN None ELSE w.current[m]]
            hub == {c \in w.hub : c.machine \notin ms}
<1>1. timers \in SUBSET Sleepers
    <2>1. ASSUME NEW t \in Sleepers
          PROVE  [t EXCEPT !.running = @ /\ (t.visit \in left => t.state \in Forgetful),
                           !.late = @ \/ (t.at = "awake" /\ t.visit \in left)] \in Sleepers
        BY DEF Sleepers
    <2>2. w.timers \subseteq Sleepers
        BY DEF World
    <2>. QED
        BY <2>1, <2>2
<1>2. queue \in Seq(Events)
    <2>1. w.queue \in Seq(Events)
        BY DEF World
    <2>2. /\ Len(w.queue) \in Nat /\ DOMAIN w.queue = 1..Len(w.queue)
          /\ \A i \in DOMAIN w.queue : w.queue[i] \in Events
        BY <2>1
    <2>3. \A i \in DOMAIN w.queue : queue[i] \in Events
        BY <2>2 DEF Events
    <2>4. queue = [i \in 1..Len(w.queue) |-> queue[i]]
        BY <2>2
    <2>. HIDE DEF queue
    <2>5. queue \in [1..Len(w.queue) -> Events]
        BY <2>2, <2>3, <2>4
    <2>. QED
        BY <2>2, <2>5, SeqDef
<1>3. current \in [Machines -> States \cup {None}] /\ hub \in SUBSET Connections
    BY DEF World
<1>4. Drop(w, ms) = [w EXCEPT !.current = current, !.timers = timers, !.queue = queue, !.hub = hub]
    BY DEF Drop, World
<1>. HIDE DEF left, timers, queue, current, hub
<1>5. LET x == Drop(w, ms)
      IN /\ x \in World
         /\ x.current = current /\ x.hub = hub /\ x.timers = timers /\ x.queue = queue
         /\ x.visit = w.visit /\ x.visits = w.visits /\ x.started = w.started /\ x.complete = w.complete
         /\ x.branches = w.branches /\ x.seen = w.seen /\ x.raised = w.raised
    BY <1>1, <1>2, <1>3, <1>4 DEF World
<1>. QED
    BY <1>5 DEF left, timers, queue, current, hub

\* The fields of the machines, each in its type.
LEMMA WorldType ==
    ASSUME NEW w \in World
    PROVE  /\ w.visits \in Nat
           /\ \A m \in Machines :
               /\ w.current[m] \in States \cup {None} /\ w.visit[m] \in Nat
               /\ w.started[m] \in BOOLEAN /\ w.complete[m] \in BOOLEAN
    BY DEF World

\* The connections and the timers do not depend on the rest.
LEMMA SameStates ==
    ASSUME NEW w, NEW x, x.current = w.current, x.visit = w.visit, x.visits = w.visits,
           x.hub = w.hub, x.timers = w.timers, x.queue = w.queue
    PROVE  (Hears(w) => Hears(x)) /\ (Timely(w) => Timely(x))
<1>1. /\ \A type, v : InForce(x, type, v) <=> InForce(w, type, v)
      /\ \A s, v : InState(x, s, v) <=> InState(w, s, v)
    BY DEF InForce, InState
<1>2. Hears(w) => Hears(x)
    BY DEF Hears
<1>3. Timely(w) => Timely(x)
    BY <1>1 DEF Timely, Accounted
<1>. QED
    BY <1>2, <1>3

\* Leaving the states of some machines takes away exactly what they had: their subscriptions,
\* and the claim of their timers to fire.
LEMMA DropCore ==
    ASSUME NEW w, Core(w), NEW ms \in SUBSET Machines
    PROVE  Core(Drop(w, ms)) /\ Kept(w, Drop(w, ms))
<1>. DEFINE x == Drop(w, ms)
            left == {w.visit[m] : m \in ms}
<1>1. w \in World /\ Placed(w) /\ Rooted(w) /\ Hears(w) /\ Timely(w)
    BY DEF Core
<1>2. /\ x \in World
      /\ x.current = [m \in Machines |-> IF m \in ms THEN None ELSE w.current[m]]
      /\ x.visit = w.visit /\ x.visits = w.visits /\ x.started = w.started /\ x.complete = w.complete
      /\ x.branches = w.branches /\ x.seen = w.seen
      /\ x.hub = {c \in w.hub : c.machine \notin ms}
    BY <1>1, DropFields
<1>0. /\ x.timers = {[t EXCEPT !.running = @ /\ (t.visit \in left => t.state \in Forgetful),
                               !.late = @ \/ (t.at = "awake" /\ t.visit \in left)] : t \in w.timers}
      /\ x.queue = [i \in DOMAIN w.queue |-> [w.queue[i] EXCEPT !.late = @ \/ w.queue[i].visit \in left]]
    BY <1>1, DropFields
<1>. HIDE DEF x
<1>3. Placed(x)
    BY <1>1, <1>2 DEF Placed
<1>4. Rooted(x)
    <2>1. \A b \in Branches : x.current[b] = w.current[b] \/ x.current[b] = None
        BY <1>2, MachineFacts
    <2>. QED
        BY <1>1, <1>2, <2>1 DEF Rooted
<1>5. Hears(x)
    BY <1>1, <1>2 DEF Hears, World, Connections
<1>6. ASSUME NEW type, NEW v, InForce(w, type, v), v \notin left
      PROVE  InForce(x, type, v)
    BY <1>2, <1>6 DEF InForce
<1>11. ASSUME NEW s, NEW v, InState(w, s, v), v \notin left
       PROVE  InState(x, s, v)
    BY <1>2, <1>11 DEF InState
<1>7. ASSUME NEW t \in x.timers
      PROVE  /\ t.visit \in 1..x.visits
             /\ t.running => t.state \in Forgetful \/ InState(x, t.state, t.visit)
             /\ t.at = "awake" => t.running \/ t.late
    <2>1. PICK u \in w.timers :
             t = [u EXCEPT !.running = @ /\ (u.visit \in left => u.state \in Forgetful),
                           !.late = @ \/ (u.at = "awake" /\ u.visit \in left)]
        BY <1>0, <1>7
    <2>2. u \in Sleepers
        BY <1>1 DEF World
    <2>3. /\ t.visit = u.visit /\ t.state = u.state /\ t.at = u.at
          /\ t.running <=> u.running /\ (u.visit \in left => u.state \in Forgetful)
          /\ t.late <=> u.late \/ (u.at = "awake" /\ u.visit \in left)
        BY <2>1, <2>2 DEF Sleepers
    <2>4. /\ u.visit \in 1..w.visits
          /\ u.running => u.state \in Forgetful \/ InState(w, u.state, u.visit)
          /\ u.at = "awake" => u.running \/ u.late
        BY <1>1 DEF Timely
    <2>. QED
        BY <1>2, <1>11, <2>3, <2>4
<1>8. ASSUME NEW i \in 1..Len(x.queue)
      PROVE  Accounted(x, x.queue[i])
    <2>1. w.queue \in Seq(Events) /\ x.queue \in Seq(Events)
        BY <1>1, <1>2 DEF World
    <2>2. DOMAIN x.queue = DOMAIN w.queue
        BY <1>0
    <2>3. i \in 1..Len(w.queue) /\ i \in DOMAIN w.queue /\ w.queue[i] \in Events
        BY <2>1, <2>2
    <2>. DEFINE e == w.queue[i]
    <2>4. x.queue[i] = [e EXCEPT !.late = @ \/ e.visit \in left]
        BY <1>0, <2>3
    <2>5. /\ x.queue[i].visit = e.visit /\ x.queue[i].type = e.type /\ x.queue[i].from = e.from
          /\ x.queue[i].late <=> e.late \/ e.visit \in left
        BY <2>3, <2>4 DEF Events
    <2>6. Accounted(w, e)
        BY <1>1, <2>3 DEF Timely
    <2>. QED
        BY <1>6, <2>5, <2>6 DEF Accounted
<1>9. Timely(x)
    BY <1>7, <1>8 DEF Timely
<1>10. Kept(w, x)
    BY <1>1, <1>2, WorldType DEF Kept
<1>. QED
    BY <1>2, <1>3, <1>4, <1>5, <1>9, <1>10 DEF Core, x

\* So does stopping them, which takes them out of _branches too.
LEMMA HaltCore ==
    ASSUME NEW w, Core(w), NEW ms \in SUBSET Machines
    PROVE  LET x == Halt(w, ms) IN
           /\ Core(x) /\ Kept(w, x)
           /\ x.raised = w.raised /\ x.branches = w.branches \ ms
           /\ x.current = [m \in Machines |-> IF m \in ms THEN None ELSE w.current[m]]
           /\ x.visit = w.visit /\ x.visits = w.visits
           /\ x.started = [m \in Machines |-> w.started[m] /\ m \notin ms]
           /\ x.complete = [m \in Machines |-> w.complete[m] /\ m \notin ms]
<1>. DEFINE d == Drop(w, ms)
            x == Halt(w, ms)
<1>1. Core(d) /\ Kept(w, d)
    BY DropCore
<1>2. w \in World /\ d \in World
    BY <1>1 DEF Core
<1>3. /\ d.current = [m \in Machines |-> IF m \in ms THEN None ELSE w.current[m]]
      /\ d.visit = w.visit /\ d.visits = w.visits /\ d.started = w.started /\ d.complete = w.complete
      /\ d.branches = w.branches /\ d.seen = w.seen /\ d.raised = w.raised
    BY <1>2, DropFields, ZenonT(60)
<1>4. x = [d EXCEPT !.started = [m \in Machines |-> @[m] /\ m \notin ms],
                    !.complete = [m \in Machines |-> @[m] /\ m \notin ms],
                    !.seen = @ \ ms,
                    !.branches = @ \ ms]
    BY DEF Halt
<1>. HIDE DEF d, x
<1>5. /\ x \in World
      /\ x.started = [m \in Machines |-> d.started[m] /\ m \notin ms]
      /\ x.complete = [m \in Machines |-> d.complete[m] /\ m \notin ms]
      /\ x.seen = d.seen \ ms /\ x.branches = d.branches \ ms
      /\ x.current = d.current /\ x.visit = d.visit /\ x.visits = d.visits /\ x.hub = d.hub
      /\ x.timers = d.timers /\ x.queue = d.queue /\ x.raised = d.raised
    BY <1>2, <1>4 DEF World
<1>6. Hears(x) /\ Timely(x)
    BY <1>1, <1>5, SameStates DEF Core
<1>7. Placed(x)
    <2>1. \A m \in Machines :
              /\ x.current[m] # None => m \notin ms
              /\ m \notin ms => (x.started[m] <=> d.started[m]) /\ (x.complete[m] <=> d.complete[m])
              /\ x.complete[m] => m \notin ms
        BY <1>3, <1>5
    <2>. QED
        BY <1>1, <1>5, <2>1 DEF Core, Placed
<1>8. Rooted(x)
    BY <1>1, <1>2, <1>5, MachineFacts DEF Core, Rooted, World
<1>9. Kept(w, x)
    BY <1>2, <1>3, <1>5, WorldType DEF Kept
<1>. QED
    BY <1>3, <1>5, <1>6, <1>7, <1>8, <1>9 DEF Core, x
-----------------------------------------------------------------------------
(* Entering a state *)

\* An event that is heard, is nobody's or is late can be put into the queue.
LEMMA QueueGrows ==
    ASSUME NEW w, NEW x, w.queue \in Seq(Events), Timely(w), NEW news \in Seq(Events),
           x.queue = w.queue \o news,
           \A type, v : InForce(w, type, v) => InForce(x, type, v),
           \A i \in 1..Len(news) : Accounted(x, news[i])
    PROVE  /\ x.queue \in Seq(Events)
           /\ \A i \in 1..Len(x.queue) : Accounted(x, x.queue[i])
<1>1. /\ x.queue \in Seq(Events) /\ Len(x.queue) = Len(w.queue) + Len(news)
      /\ Len(w.queue) \in Nat /\ Len(news) \in Nat
    OBVIOUS
<1>2. ASSUME NEW i \in 1..Len(x.queue)
      PROVE  Accounted(x, x.queue[i])
    <2>1. CASE i <= Len(w.queue)
        <3>1. i \in 1..Len(w.queue) /\ x.queue[i] = w.queue[i]
            BY <1>1, <2>1
        <3>. QED
            BY <3>1 DEF Timely, Accounted
    <2>2. CASE i > Len(w.queue)
        <3>1. i - Len(w.queue) \in 1..Len(news) /\ x.queue[i] = news[i - Len(w.queue)]
            BY <1>1, <2>2
        <3>. QED
            BY <3>1
    <2>. QED
        BY <1>1, <2>1, <2>2
<1>. QED
    BY <1>1, <1>2

\* A machine that is started and in no state arrives in one: it hears the events of that state,
\* and its timer is for the new visit, whose number nobody had before.
LEMMA ArriveCore ==
    ASSUME NEW w, Core(w), NEW m \in Machines, NEW s \in States,
           w.current[m] = None, w.started[m], ~w.complete[m], m \in Branches => s \in FlatStates
    PROVE  LET x == Arrive(w, m, s) IN
           /\ Core(x) /\ Kept(w, x)
           /\ x.current = [w.current EXCEPT ![m] = s]
           /\ x.visit = [w.visit EXCEPT ![m] = w.visits + 1]
           /\ x.started = w.started /\ x.complete = w.complete
           /\ x.branches = w.branches /\ x.seen = w.seen /\ x.raised = w.raised
<1>. DEFINE x == Arrive(w, m, s)
            n == w.visits + 1
            timer == IF TimerOf[s] = None THEN {}
                     ELSE {[visit |-> n, state |-> s, at |-> "asleep", running |-> TRUE, late |-> FALSE]}
            news == IF Announces[s] = None THEN <<>> ELSE <<Event(Announces[s])>>
            heard == {[type |-> t, machine |-> m, visit |-> n] : t \in DOMAIN Table[s]}
<1>1. w \in World /\ Placed(w) /\ Rooted(w) /\ Hears(w) /\ Timely(w)
    BY DEF Core
<1>2. n \in Nat /\ n >= 1 /\ n > w.visits /\ \A k \in Machines : w.visit[k] \in Nat /\ w.visit[k] < n
    BY <1>1, WorldType DEF Placed
<1>0. /\ DOMAIN Table[s] \subseteq Types /\ Announces[s] \in Types
    BY TypeFacts
<1>3. timer \subseteq Sleepers /\ heard \subseteq Connections
    <2>. DEFINE sleeper == [visit |-> n, state |-> s, at |-> "asleep", running |-> TRUE, late |-> FALSE]
    <2>0. TimerOf[s] # None => sleeper \in Sleepers
        BY <1>2 DEF Sleepers
    <2>1. timer \subseteq Sleepers
        BY <2>0
    <2>2. heard \subseteq Connections
        BY <1>0, <1>2 DEF Connections
    <2>. QED
        BY <2>1, <2>2
<1>4. news \in Seq(Events) /\ \A i \in 1..Len(news) : news[i].visit = 0
    <2>1. Event(Announces[s]) \in Events /\ Event(Announces[s]).visit = 0
        BY <1>0 DEF Event, Events
    <2>2. CASE Announces[s] = None
        <3>1. news = <<>>
            BY <2>2
        <3>. HIDE DEF news
        <3>2. <<>> \in Seq(Events) /\ Len(<<>>) = 0
            OBVIOUS
        <3>. QED
            BY <3>1, <3>2
    <2>3. CASE Announces[s] # None
        <3>. DEFINE e == Event(Announces[s])
        <3>1. news = <<e>> /\ e \in Events /\ e.visit = 0
            BY <2>1, <2>3
        <3>. HIDE DEF news, e
        <3>. QED
            BY <3>1
    <2>. QED
        BY <2>2, <2>3
<1>5. s # None
    BY NoneAssumption
<1>6. x = [w EXCEPT !.visits = n, !.current[m] = s, !.visit[m] = n, !.hub = @ \cup heard,
                    !.timers = @ \cup timer, !.queue = @ \o news]
    BY DEF Arrive
<1>. HIDE DEF x
<1>7. /\ x.visits = n /\ x.hub = w.hub \cup heard /\ x.timers = w.timers \cup timer /\ x.queue = w.queue \o news
      /\ x.current = [w.current EXCEPT ![m] = s] /\ x.visit = [w.visit EXCEPT ![m] = n]
      /\ x.started = w.started /\ x.complete = w.complete
      /\ x.branches = w.branches /\ x.seen = w.seen /\ x.raised = w.raised
    BY <1>1, <1>6 DEF World
<1>. HIDE DEF n, timer, news, heard
<1>8. /\ x.current[m] = s /\ x.visit[m] = n
      /\ \A k \in Machines \ {m} : x.current[k] = w.current[k] /\ x.visit[k] = w.visit[k]
    BY <1>1, <1>7 DEF World
<1>9. x \in World
    <2>0. w.queue \in Seq(Events)
        BY <1>1 DEF World
    <2>1. w.queue \o news \in Seq(Events)
        BY <1>4, <2>0
    <2>2. x.current \in [Machines -> States \cup {None}] /\ x.visit \in [Machines -> Nat]
        <3>1. w.current \in [Machines -> States \cup {None}] /\ w.visit \in [Machines -> Nat]
            BY <1>1 DEF World
        <3>2. x.current \in [Machines -> States \cup {None}]
            BY <1>7, <3>1
        <3>3. x.visit \in [Machines -> Nat]
            BY <1>2, <1>7, <3>1
        <3>. QED
            BY <3>2, <3>3
    <2>3. w.hub \cup heard \subseteq Connections /\ w.timers \cup timer \subseteq Sleepers
        BY <1>1, <1>3 DEF World
    <2>4. /\ x.visits \in Nat /\ x.queue \in Seq(Events) /\ x.hub \subseteq Connections
          /\ x.timers \subseteq Sleepers
        BY <1>2, <1>7, <2>1, <2>3
    <2>. QED
        BY <1>1, <1>6, <2>2, <2>4 DEF World
<1>10. Placed(x)
    BY <1>1, <1>2, <1>5, <1>7, <1>8 DEF Placed
<1>11. Rooted(x)
    BY <1>1, <1>7, <1>8, MachineFacts DEF Rooted
<1>12. Hears(x)
    <2>1. ASSUME NEW c \in x.hub
          PROVE  /\ x.current[c.machine] # None /\ x.visit[c.machine] = c.visit
                 /\ c.type \in DOMAIN Table[x.current[c.machine]]
        <3>1. CASE c \in w.hub
            <4>1. w.current[c.machine] # None /\ c.machine \in Machines
                BY <1>1, <3>1 DEF Hears, World, Connections
            <4>2. c.machine # m
                BY <4>1
            <4>. QED
                BY <1>1, <1>8, <3>1, <4>1, <4>2 DEF Hears
        <3>2. CASE c \in heard
            <4>1. c.machine = m /\ c.visit = n /\ c.type \in DOMAIN Table[s]
                BY <3>2 DEF heard
            <4>. QED
                BY <1>5, <1>8, <4>1
        <3>. QED
            BY <1>7, <3>1, <3>2
    <2>2. ASSUME NEW k \in Machines, x.current[k] # None, NEW t \in DOMAIN Table[x.current[k]]
          PROVE  [type |-> t, machine |-> k, visit |-> x.visit[k]] \in x.hub
        <3>1. CASE k = m
            BY <1>7, <1>8, <2>2, <3>1 DEF heard
        <3>2. CASE k # m
            BY <1>1, <1>7, <1>8, <2>2, <3>2 DEF Hears
        <3>. QED
            BY <3>1, <3>2
    <2>. QED
        BY <2>1, <2>2 DEF Hears
<1>13. \A type, v : InForce(w, type, v) => InForce(x, type, v)
    BY <1>8 DEF InForce
<1>18. \A r \in States : \A v : InState(w, r, v) => InState(x, r, v)
    BY <1>8, NoneAssumption DEF InState
<1>14. InState(x, s, n)
    BY <1>8 DEF InState
<1>15. ASSUME NEW t \in x.timers
       PROVE  /\ t.visit \in 1..x.visits
              /\ t.running => t.state \in Forgetful \/ InState(x, t.state, t.visit)
              /\ t.at = "awake" => t.running \/ t.late
    <2>1. CASE t \in w.timers
        <3>1. t.visit \in 1..w.visits /\ w.visits \in Nat
            BY <1>1, <2>1, WorldType DEF Timely
        <3>2. t.visit \in 1..x.visits
            BY <1>2, <1>7, <3>1
        <3>. QED
            BY <1>1, <1>18, <2>1, <3>2 DEF Timely, World, Sleepers
    <2>2. CASE t \in timer
        <3>1. t.visit = n /\ t.state = s /\ t.at = "asleep"
            BY <2>2 DEF timer
        <3>. QED
            BY <1>2, <1>7, <1>14, <3>1
    <2>. QED
        BY <1>7, <2>1, <2>2
<1>16. Timely(x)
    <2>1. w.queue \in Seq(Events)
        BY <1>1 DEF World
    <2>2. \A i \in 1..Len(news) : Accounted(x, news[i])
        BY <1>4 DEF Accounted
    <2>3. \A i \in 1..Len(x.queue) : Accounted(x, x.queue[i])
        BY <1>1, <1>4, <1>7, <1>13, <2>1, <2>2, QueueGrows
    <2>. QED
        BY <1>15, <2>3 DEF Timely
<1>17. Kept(w, x)
    BY <1>1, <1>2, <1>7, <1>8, WorldType DEF Kept
<1>. QED
    BY <1>7, <1>9, <1>10, <1>11, <1>12, <1>16, <1>17 DEF Core, x, n
-----------------------------------------------------------------------------
(* The calls of one machine *)

\* What two calls keep in turn is kept.
LEMMA KeptTrans ==
    ASSUME NEW w \in World, NEW x \in World, NEW y \in World, Kept(w, x), Kept(x, y)
    PROVE  Kept(w, y)
<1>1. y.visits >= w.visits
    BY WorldType DEF Kept
<1>2. ASSUME NEW n \in Machines
      PROVE  /\ y.visit[n] >= w.visit[n]
             /\ y.visit[n] = w.visit[n] /\ y.current[n] # None =>
                    w.current[n] # None /\ (n \in w.seen => n \in y.seen)
    <2>1. w.visit[n] \in Nat /\ x.visit[n] \in Nat /\ y.visit[n] \in Nat
        BY WorldType
    <2>2. x.visit[n] >= w.visit[n] /\ y.visit[n] >= x.visit[n]
        BY DEF Kept
    <2>3. y.visit[n] = w.visit[n] => x.visit[n] = w.visit[n] /\ y.visit[n] = x.visit[n]
        BY <2>1, <2>2
    <2>. QED
        BY <2>1, <2>2, <2>3 DEF Kept
<1>. QED
    BY <1>1, <1>2 DEF Kept

\* Who changes no visit and takes back no event seen keeps everything.
LEMMA KeptSame ==
    ASSUME NEW w \in World, NEW x, x.current = w.current, x.visit = w.visit, x.visits = w.visits,
           w.seen \subseteq x.seen
    PROVE  Kept(w, x)
    BY WorldType DEF Kept

\* _exitState(): a task's branch, which is there, is stopped with it; no exception.
LEMMA ExitCore ==
    ASSUME NEW w, Core(w), w.raised = "nothing", NEW m \in Machines, w.current[m] # None,
           m = Main => Mine(w) \subseteq w.branches
    PROVE  LET x == ExitState(w, m) IN
           /\ Core(x) /\ Kept(w, x) /\ x.raised = "nothing"
           /\ x.current[m] = None /\ x.started[m] /\ ~x.complete[m]
           /\ m = Main => x.branches = w.branches \ Mine(w)
           /\ m \in Branches => x.branches = w.branches /\ Apart(w, x)
<1>. DEFINE b == BranchOf[w.current[m]]
            y == IF b = None THEN w ELSE StopBranch(w, b)
            x == ExitState(w, m)
<1>1. w \in World /\ w.current[m] \in States /\ w.started[m] /\ ~w.complete[m]
    BY WorldType DEF Core, Placed
<1>2. m \in Branches => b = None
    BY FlatSteps DEF Core, Rooted
<1>3. /\ Core(y) /\ Kept(w, y) /\ y.raised = "nothing"
      /\ y.current[m] = w.current[m] /\ y.started[m] /\ ~y.complete[m]
      /\ m = Main => y.branches = w.branches \ Mine(w)
      /\ m \in Branches => y = w
    <2>1. CASE b = None
        <3>1. y = w /\ (m = Main => Mine(w) = {})
            BY <2>1 DEF Mine
        <3>2. Kept(w, w)
            BY <1>1, KeptSame
        <3>. HIDE DEF y
        <3>. QED
            BY <1>1, <3>1, <3>2
    <2>2. CASE b # None
        <3>1. m = Main /\ b \in Branches /\ b \in Machines /\ b # Main
            BY <1>1, <1>2, <2>2, BranchFacts, MachineFacts
        <3>2. Mine(w) = {b}
            BY <2>2, <3>1 DEF Mine
        <3>3. y = Halt(w, {b})
            BY <2>2, <3>1, <3>2 DEF StopBranch
        <3>4. /\ Core(y) /\ Kept(w, y) /\ y.raised = w.raised /\ y.branches = w.branches \ {b}
              /\ y.current = [k \in Machines |-> IF k \in {b} THEN None ELSE w.current[k]]
              /\ y.started = [k \in Machines |-> w.started[k] /\ k \notin {b}]
              /\ y.complete = [k \in Machines |-> w.complete[k] /\ k \notin {b}]
            BY <3>1, <3>3, HaltCore
        <3>. HIDE DEF y, b
        <3>. QED
            BY <1>1, <3>1, <3>2, <3>4, MachineFacts
    <2>. QED
        BY <2>1, <2>2
<1>4. x = Drop(y, {m})
    BY <1>3 DEF ExitState
<1>5. y \in World
    BY <1>3 DEF Core
<1>. HIDE DEF x, y, b
<1>6. Core(x) /\ Kept(y, x)
    BY <1>3, <1>4, DropCore
<1>7. /\ x.current = [k \in Machines |-> IF k \in {m} THEN None ELSE y.current[k]]
      /\ x.started = y.started /\ x.complete = y.complete /\ x.branches = y.branches /\ x.raised = y.raised
    <2>. DEFINE d == Drop(y, {m})
    <2>1. {m} \in SUBSET Machines
        OBVIOUS
    <2>2. /\ d.current = [k \in Machines |-> IF k \in {m} THEN None ELSE y.current[k]]
          /\ d.started = y.started /\ d.complete = y.complete /\ d.branches = y.branches /\ d.raised = y.raised
        BY <1>5, <2>1, DropFields
    <2>. QED
        BY <1>4, <2>2
<1>8. Kept(w, x)
    BY <1>1, <1>3, <1>5, <1>6, KeptTrans DEF Core
<1>9. m \in Branches => Apart(w, x)
    BY <1>3, <1>7, MachineFacts DEF Apart
<1>. QED
    BY <1>3, <1>6, <1>7, <1>8, <1>9 DEF x

\* A machine in a state with no way out leaves it and is complete; all else stays as it is.
LEMMA SettleCore ==
    ASSUME NEW w, Core(w), w.raised = "nothing", NEW m \in Machines, w.current[m] # None,
           m = Main => Mine(w) \subseteq w.branches
    PROVE  LET x == Settle(w, m) IN
           /\ Core(x) /\ Kept(w, x) /\ x.raised = "nothing"
           /\ m = Main => (Follows(w) => Follows(x))
           /\ m \in Branches => x.branches = w.branches /\ Apart(w, x)
<1>. DEFINE x == Settle(w, m)
            y == ExitState(w, m)
<1>1. w \in World
    BY DEF Core
<1>2. CASE DOMAIN Table[w.current[m]] # {}
    <2>1. x = w
        BY <1>2 DEF Settle
    <2>2. Kept(w, w)
        BY <1>1, KeptSame
    <2>. HIDE DEF x
    <2>. QED
        BY <2>1, <2>2 DEF Apart, x
<1>3. CASE DOMAIN Table[w.current[m]] = {}
    <2>1. /\ Core(y) /\ Kept(w, y) /\ y.raised = "nothing"
          /\ y.current[m] = None /\ y.started[m] /\ ~y.complete[m]
          /\ m = Main => y.branches = w.branches \ Mine(w)
          /\ m \in Branches => y.branches = w.branches /\ Apart(w, y)
        BY ExitCore
    <2>2. x = [y EXCEPT !.complete[m] = TRUE] /\ y \in World
        BY <1>3, <2>1 DEF Settle, Core
    <2>. HIDE DEF x, y
    <2>3. /\ x \in World /\ x.complete = [y.complete EXCEPT ![m] = TRUE]
          /\ x.current = y.current /\ x.visit = y.visit /\ x.visits = y.visits /\ x.hub = y.hub
          /\ x.timers = y.timers /\ x.queue = y.queue /\ x.raised = y.raised /\ x.seen = y.seen
          /\ x.started = y.started /\ x.branches = y.branches
        BY <2>2 DEF World
    <2>4. Hears(x) /\ Timely(x)
        BY <2>1, <2>3, SameStates DEF Core
    <2>5. /\ x.complete[m]
          /\ \A k \in Machines \ {m} : x.complete[k] = y.complete[k]
        BY <2>2, <2>3 DEF World
    <2>6. Placed(x) /\ Rooted(x)
        BY <2>1, <2>3, <2>5 DEF Core, Placed, Rooted
    <2>7. Kept(w, x)
        <3>1. Kept(y, x)
            BY <2>2, <2>3, KeptSame
        <3>. QED
            BY <1>1, <2>1, <2>2, <2>3, <3>1, KeptTrans
    <2>8. m = Main => (Follows(w) => Follows(x))
        BY <2>1, <2>3 DEF Follows, Mine
    <2>9. m \in Branches => Apart(w, x)
        BY <2>1, <2>3, <2>5, MachineFacts DEF Apart
    <2>. QED
        BY <2>1, <2>3, <2>4, <2>6, <2>7, <2>8, <2>9 DEF Core, x
<1>. QED
    BY <1>2, <1>3

\* _branchToState(): the branch is there afterwards, and Main is where it was.
LEMMA BranchCore ==
    ASSUME NEW w, Core(w), w.raised = "nothing", NEW b \in Branches, NEW told \in BOOLEAN
    PROVE  LET x == BranchToState(w, b, told) IN
           /\ Core(x) /\ Kept(w, x) /\ x.raised \in {"nothing", "already branched"}
           /\ x.branches = w.branches \cup {b} /\ Apart(w, x)
<1>. DEFINE x == BranchToState(w, b, told)
            v == [w EXCEPT !.started[b] = TRUE, !.branches = @ \cup {b},
                           !.seen = IF told THEN @ \cup {b} ELSE @ \ {b}]
            a == Arrive(v, b, b)
<1>1. w \in World /\ Placed(w) /\ Rooted(w)
    BY DEF Core
<1>2. b \in Machines /\ b # Main /\ b \in States /\ b \in FlatStates /\ Main \in Machines
    BY MachineFacts, FlatFacts
<1>3. CASE b \in w.branches
    <2>1. x = [w EXCEPT !.raised = "already branched"]
        BY <1>3 DEF BranchToState, Raise
    <2>. HIDE DEF x
    <2>2. /\ x \in World /\ x.complete = w.complete
          /\ x.current = w.current /\ x.visit = w.visit /\ x.visits = w.visits /\ x.hub = w.hub
          /\ x.timers = w.timers /\ x.queue = w.queue /\ x.seen = w.seen
          /\ x.started = w.started /\ x.branches = w.branches /\ x.raised = "already branched"
        BY <1>1, <2>1 DEF World
    <2>3. Hears(x) /\ Timely(x)
        BY <2>2, SameStates DEF Core
    <2>4. Placed(x) /\ Rooted(x)
        BY <1>1, <2>2 DEF Placed, Rooted
    <2>5. Kept(w, x)
        BY <1>1, <2>2, KeptSame
    <2>. QED
        BY <1>3, <2>2, <2>3, <2>4, <2>5 DEF Core, Apart, x
<1>4. CASE b \notin w.branches
    <2>1. w.current[b] = None /\ ~w.started[b] /\ ~w.complete[b]
        BY <1>1, <1>2, <1>4 DEF Placed, Rooted
    <2>2. x = Settle(a, b)
        BY <1>4 DEF BranchToState
    <2>3. /\ v \in World /\ v.complete = w.complete
          /\ v.current = w.current /\ v.visit = w.visit /\ v.visits = w.visits /\ v.hub = w.hub
          /\ v.timers = w.timers /\ v.queue = w.queue /\ v.raised = "nothing"
          /\ v.started = [w.started EXCEPT ![b] = TRUE] /\ v.branches = w.branches \cup {b}
          /\ \A n \in Machines \ {b} : n \in w.seen => n \in v.seen
        <3>1. v.seen = IF told THEN w.seen \cup {b} ELSE w.seen \ {b}
            BY <1>1 DEF World
        <3>2. v.seen \subseteq Machines
            BY <1>1, <1>2, <3>1 DEF World
        <3>3. v.seen \in SUBSET Machines /\ \A n \in Machines \ {b} : n \in w.seen => n \in v.seen
            BY <3>1, <3>2
        <3>4. /\ v.complete = w.complete
              /\ v.current = w.current /\ v.visit = w.visit /\ v.visits = w.visits /\ v.hub = w.hub
              /\ v.timers = w.timers /\ v.queue = w.queue /\ v.raised = w.raised
              /\ v.started = [w.started EXCEPT ![b] = TRUE] /\ v.branches = w.branches \cup {b}
            BY <1>1 DEF World
        <3>5. v.started \in [Machines -> BOOLEAN] /\ v.branches \in SUBSET Branches
            BY <1>1, <3>4 DEF World
        <3>6. v = [w EXCEPT !.started = v.started, !.branches = v.branches, !.seen = v.seen]
            BY <1>1, <3>1, <3>4 DEF World
        <3>7. v \in World
            <4>. HIDE DEF v
            <4>. QED
                BY <1>1, <3>3, <3>5, <3>6 DEF World
        <3>. QED
            BY <3>3, <3>4, <3>7
    <2>. HIDE DEF v, a, x
    <2>4. /\ v.started[b]
          /\ \A n \in Machines \ {b} : v.started[n] = w.started[n]
        BY <1>1, <1>2, <2>3 DEF World
    <2>5. Core(v)
        <3>1. Hears(v) /\ Timely(v)
            BY <2>3, SameStates DEF Core
        <3>2. Placed(v)
            BY <1>1, <2>1, <2>3, <2>4 DEF Placed
        <3>3. Rooted(v)
            BY <1>1, <2>3, <2>4, MachineFacts DEF Rooted
        <3>. QED
            BY <2>3, <3>1, <3>2, <3>3 DEF Core
    <2>6. /\ Core(a) /\ Kept(v, a)
          /\ a.current = [v.current EXCEPT ![b] = b]
          /\ a.visit = [v.visit EXCEPT ![b] = v.visits + 1]
          /\ a.started = v.started /\ a.complete = v.complete
          /\ a.branches = v.branches /\ a.raised = "nothing"
        <3>1. v.current[b] = None /\ v.started[b] /\ ~v.complete[b] /\ v.raised = "nothing"
            BY <2>1, <2>3, <2>4
        <3>2. LET y == Arrive(v, b, b) IN
              /\ Core(y) /\ Kept(v, y)
              /\ y.current = [v.current EXCEPT ![b] = b]
              /\ y.visit = [v.visit EXCEPT ![b] = v.visits + 1]
              /\ y.started = v.started /\ y.complete = v.complete
              /\ y.branches = v.branches /\ y.raised = v.raised
            BY <1>2, <2>5, <3>1, ArriveCore
        <3>. QED
            BY <3>1, <3>2 DEF a
    <2>7. a.current[b] # None /\ Apart(w, a)
        <3>1. w.current \in [Machines -> States \cup {None}]
            BY <1>1 DEF World
        <3>2. a.current[b] = b /\ a.current[Main] = w.current[Main]
            <4>1. v.current = w.current /\ a.current = [v.current EXCEPT ![b] = b]
                BY <2>3, <2>6
            <4>2. a.current = [w.current EXCEPT ![b] = b]
                BY <4>1
            <4>. HIDE DEF a, v
            <4>. QED
                BY <1>2, <3>1, <4>2
        <3>3. a.started[Main] = w.started[Main] /\ a.complete[Main] = w.complete[Main]
            <4>1. a.started = v.started /\ a.complete = v.complete
                BY <2>6
            <4>2. v.started[Main] = w.started[Main] /\ v.complete[Main] = w.complete[Main]
                BY <1>2, <2>3, <2>4
            <4>. QED
                BY <4>1, <4>2
        <3>. QED
            BY <1>2, <3>2, <3>3, NoneAssumption DEF Apart
    <2>8. /\ Core(x) /\ Kept(a, x) /\ x.raised = "nothing"
          /\ x.branches = a.branches /\ Apart(a, x)
        BY <1>2, <2>2, <2>6, <2>7, SettleCore
    <2>9. Kept(w, v)
        BY <1>1, <2>1, <2>3, WorldType DEF Kept
    <2>10. Kept(w, x)
        <3>1. a \in World /\ x \in World
            BY <2>6, <2>8 DEF Core
        <3>. QED
            BY <1>1, <2>3, <2>6, <2>8, <2>9, <3>1, KeptTrans
    <2>. QED
        BY <2>3, <2>6, <2>7, <2>8, <2>10 DEF Apart, x
<1>. QED
    BY <1>3, <1>4

\* What leaves Main alone disturbs nothing of the task, nor does one more branch of a table.
LEMMA FollowsApart ==
    ASSUME NEW w, NEW x, Follows(w), Apart(w, x),
           \/ x.branches = w.branches
           \/ w.started[Main] /\ \E b \in Extra : x.branches = w.branches \cup {b}
    PROVE  Follows(x)
<1>1. Mine(x) = Mine(w)
    BY DEF Apart, Mine
<1>. HIDE DEF Mine, Extra
<1>. QED
    BY <1>1 DEF Apart, Follows

\* _enterState(): after it the branch of the new state is there.
LEMMA EnterCore ==
    ASSUME NEW w, Core(w), Follows(w), w.raised = "nothing", NEW m \in Machines, NEW s \in States,
           w.current[m] = None, w.started[m], ~w.complete[m], m \in Branches => s \in FlatStates
    PROVE  LET x == EnterState(w, m, s) IN
           Core(x) /\ Kept(w, x) /\ Follows(x) /\ x.raised \in {"nothing", "already branched"}
<1>. DEFINE a == Arrive(w, m, s)
            b == BranchOf[s]
            y == IF b = None THEN a ELSE BranchToState(a, b, FALSE)
            x == EnterState(w, m, s)
<1>1. w \in World /\ w.current \in [Machines -> States \cup {None}]
    BY DEF Core, World
<1>2. /\ Core(a) /\ Kept(w, a)
      /\ a.current = [w.current EXCEPT ![m] = s]
      /\ a.started = w.started /\ a.complete = w.complete
      /\ a.branches = w.branches /\ a.raised = "nothing"
    <2>1. LET z == Arrive(w, m, s) IN
          /\ Core(z) /\ Kept(w, z)
          /\ z.current = [w.current EXCEPT ![m] = s]
          /\ z.visit = [w.visit EXCEPT ![m] = w.visits + 1]
          /\ z.started = w.started /\ z.complete = w.complete
          /\ z.branches = w.branches /\ z.raised = w.raised
        BY ArriveCore
    <2>. QED
        BY <2>1
<1>3. x = IF y.raised # "nothing" THEN y ELSE Settle(y, m)
    BY DEF EnterState
<1>4. /\ s # None /\ a.current[m] = s /\ (m # Main => Apart(w, a))
      /\ m \in Branches => b = None
    BY <1>1, <1>2, FlatSteps, MachineFacts, NoneAssumption DEF Apart
<1>. HIDE DEF a, b, x
<1>5. CASE b = None
    <2>1. y = a
        BY <1>5
    <2>2. x = Settle(a, m)
        BY <1>2, <1>3, <2>1
    <2>3. m = Main => Mine(w) = {} /\ Mine(a) = {}
        BY <1>4, <1>5 DEF Mine, b
    <2>4. Follows(a)
        <3>1. CASE m = Main
            BY <1>2, <2>3, <3>1 DEF Follows
        <3>2. CASE m # Main
            BY <1>2, <1>4, <3>2, FollowsApart
        <3>. QED
            BY <3>1, <3>2
    <2>5. /\ Core(x) /\ Kept(a, x) /\ x.raised = "nothing"
          /\ m = Main => (Follows(a) => Follows(x))
          /\ m \in Branches => x.branches = a.branches /\ Apart(a, x)
        BY <1>2, <1>4, <2>2, <2>3, SettleCore
    <2>6. Follows(x)
        <3>1. CASE m = Main
            BY <2>4, <2>5, <3>1
        <3>2. CASE m # Main
            BY <2>4, <2>5, <3>2, MachineFacts, FollowsApart
        <3>. QED
            BY <3>1, <3>2
    <2>7. Kept(w, x)
        BY <1>1, <1>2, <2>5, KeptTrans DEF Core
    <2>. QED
        BY <2>5, <2>6, <2>7 DEF x
<1>6. CASE b # None
    <2>1. m = Main /\ b \in Branches
        BY <1>4, <1>6, MachineFacts, BranchFacts DEF b
    <2>2. y = BranchToState(a, b, FALSE)
        BY <1>6
    <2>. HIDE DEF y
    <2>3. /\ Core(y) /\ Kept(a, y) /\ y.raised \in {"nothing", "already branched"}
          /\ y.branches = a.branches \cup {b} /\ Apart(a, y)
        BY <1>2, <2>1, <2>2, BranchCore
    <2>4. y.current[Main] = s /\ y.started[Main] /\ Mine(y) = {b} /\ Mine(w) = {}
        BY <1>2, <1>4, <1>6, <2>1, <2>3 DEF Apart, Mine, b
    <2>5. Follows(y) /\ Mine(y) \subseteq y.branches
        BY <1>2, <2>3, <2>4 DEF Follows
    <2>6. CASE y.raised # "nothing"
        <3>1. x = y
            BY <1>3, <2>6
        <3>2. Kept(w, x)
            BY <1>1, <1>2, <2>3, <3>1, KeptTrans DEF Core
        <3>. QED
            BY <2>3, <2>5, <3>1, <3>2 DEF x
    <2>7. CASE y.raised = "nothing"
        <3>1. x = Settle(y, Main)
            BY <1>3, <2>1, <2>7
        <3>2. Core(x) /\ Kept(y, x) /\ x.raised = "nothing" /\ Follows(x)
            BY <1>4, <2>1, <2>3, <2>4, <2>5, <2>7, <3>1, SettleCore
        <3>3. Kept(w, x)
            BY <1>1, <1>2, <2>3, <3>2, KeptTrans DEF Core
        <3>. QED
            BY <3>2, <3>3 DEF x
    <2>. QED
        BY <2>6, <2>7
<1>. QED
    BY <1>5, <1>6

\* The exception of the last call is none of the state.
LEMMA RaiseCore ==
    ASSUME NEW w, Core(w), Follows(w),
           NEW what \in {"nothing", "already branched", "no such branch", "must be started", "no state"}
    PROVE  LET x == Raise(w, what) IN
           /\ Core(x) /\ Follows(x) /\ Kept(w, x) /\ x.raised = what
           /\ x.current = w.current /\ x.visit = w.visit /\ x.visits = w.visits
           /\ x.started = w.started /\ x.complete = w.complete /\ x.seen = w.seen
<1>. DEFINE x == Raise(w, what)
<1>1. w \in World
    BY DEF Core
<1>2. /\ x \in World /\ x.complete = w.complete /\ x.raised = what
      /\ x.current = w.current /\ x.visit = w.visit /\ x.visits = w.visits /\ x.hub = w.hub
      /\ x.timers = w.timers /\ x.queue = w.queue /\ x.seen = w.seen
      /\ x.started = w.started /\ x.branches = w.branches
    BY <1>1 DEF World, Raise
<1>. HIDE DEF x
<1>3. Hears(x) /\ Timely(x)
    BY <1>2, SameStates DEF Core
<1>4. Placed(x) /\ Rooted(x) /\ Follows(x)
    BY <1>2 DEF Core, Placed, Rooted, Follows, Mine
<1>5. Kept(w, x)
    BY <1>1, <1>2, KeptSame
<1>. QED
    BY <1>2, <1>3, <1>4, <1>5 DEF Core, x

\* start() of Main,
LEMMA StartCore ==
    ASSUME NEW w, Core(w), Follows(w), w.raised = "nothing", w.current[Main] = None
    PROVE  LET x == StartMachine(w) IN
           Core(x) /\ Follows(x) /\ x.raised \in {"nothing", "already branched"}
<1>. DEFINE y == [w EXCEPT !.started[Main] = TRUE, !.complete[Main] = FALSE]
<1>1. w \in World /\ Main \in Machines /\ Main \notin Branches
    BY MachineFacts DEF Core
<1>2. /\ y \in World /\ y.complete = [w.complete EXCEPT ![Main] = FALSE]
      /\ y.current = w.current /\ y.visit = w.visit /\ y.visits = w.visits /\ y.hub = w.hub
      /\ y.timers = w.timers /\ y.queue = w.queue /\ y.raised = w.raised
      /\ y.started = [w.started EXCEPT ![Main] = TRUE] /\ y.branches = w.branches
    BY <1>1 DEF World
<1>3. /\ y.started[Main] /\ ~y.complete[Main]
      /\ \A n \in Machines \ {Main} : y.started[n] = w.started[n] /\ y.complete[n] = w.complete[n]
    BY <1>1, <1>2 DEF World
<1>. HIDE DEF y
<1>4. Hears(y) /\ Timely(y)
    BY <1>2, SameStates DEF Core
<1>5. Placed(y)
    BY <1>2, <1>3 DEF Core, Placed
<1>6. Rooted(y)
    BY <1>2, <1>3, MachineFacts DEF Core, Rooted
<1>7. Follows(y)
    BY <1>2, <1>3 DEF Follows, Mine
<1>8. Core(y)
    BY <1>2, <1>4, <1>5, <1>6 DEF Core
<1>9. StartMachine(w) = EnterState(y, Main, Begin)
    BY DEF StartMachine, y
<1>10. Begin \in States /\ y.current[Main] = None /\ y.raised = "nothing"
    BY <1>2, TableAssumption
<1>11. LET z == EnterState(y, Main, Begin) IN
       Core(z) /\ Kept(y, z) /\ Follows(z) /\ z.raised \in {"nothing", "already branched"}
    BY <1>1, <1>3, <1>7, <1>8, <1>10, EnterCore
<1>. QED
    BY <1>9, <1>11

\* and stop(): all branches go, and nothing is raised.
LEMMA StopCore ==
    ASSUME NEW w, Core(w), Follows(w), w.raised = "nothing"
    PROVE  LET x == StopMachine(w) IN
           Core(x) /\ Follows(x) /\ x.raised = "nothing"
<1>. DEFINE y == IF w.current[Main] = None THEN w ELSE ExitState(w, Main)
            ms == y.branches \cup {Main}
            x == StopMachine(w)
<1>1. Core(y) /\ y.raised = "nothing"
    <2>1. w.current[Main] # None => Core(ExitState(w, Main)) /\ ExitState(w, Main).raised = "nothing"
        BY MachineFacts, ExitCore DEF Follows
    <2>. QED
        BY <2>1
<1>2. x = Halt(y, ms)
    BY <1>1 DEF StopMachine
<1>. HIDE DEF y, x
<1>3. y \in World /\ y.branches \subseteq Branches
    BY <1>1 DEF Core, World
<1>4. ms \in SUBSET Machines /\ Main \in Machines
    BY <1>3, MachineFacts
<1>. HIDE DEF ms
<1>5. /\ Core(x) /\ x.raised = y.raised /\ x.branches = y.branches \ ms
      /\ x.current = [m \in Machines |-> IF m \in ms THEN None ELSE y.current[m]]
    <2>1. LET z == Halt(y, ms) IN
          /\ Core(z) /\ Kept(y, z)
          /\ z.raised = y.raised /\ z.branches = y.branches \ ms
          /\ z.current = [m \in Machines |-> IF m \in ms THEN None ELSE y.current[m]]
          /\ z.visit = y.visit /\ z.visits = y.visits
          /\ z.started = [m \in Machines |-> y.started[m] /\ m \notin ms]
          /\ z.complete = [m \in Machines |-> y.complete[m] /\ m \notin ms]
        BY <1>1, <1>4, HaltCore
    <2>. QED
        BY <1>2, <2>1
<1>6. x.branches = {} /\ x.current[Main] = None
    BY <1>4, <1>5 DEF ms
<1>. QED
    BY <1>1, <1>5, <1>6 DEF Follows, Mine, x

\* A transition, a branch or nothing: whatever the table makes of an event.
LEMMA ReactCore ==
    ASSUME NEW w, Core(w), Follows(w), w.raised = "nothing", NEW m \in Machines, w.current[m] # None,
           NEW type, NEW veto \in BOOLEAN
    PROVE  LET x == React(w, m, type, veto) IN
           Core(x) /\ Follows(x) /\ Kept(w, x) /\ x.raised \in {"nothing", "already branched"}
<1>. DEFINE s == w.current[m]
            x == React(w, m, type, veto)
            e == ExitState(w, m)
            y == EnterState(e, m, Table[s][type])
<1>1. w \in World /\ s \in States /\ w.started[m]
    BY WorldType DEF Core, Placed
<1>2. m \in Branches => s \in FlatStates
    BY DEF Core, Rooted
<1>3. CASE x = w
    BY <1>1, <1>3, KeptSame
<1>4. CASE <<s, type>> \in Branching /\ x = BranchToState(w, Table[s][type], TRUE)
    <2>. DEFINE b == Table[s][type]
    <2>1. s \notin FlatStates /\ b \in Branches /\ b \in Extra
        BY <1>4, BranchFacts
    <2>2. m = Main
        BY <1>2, <2>1, MachineFacts
    <2>3. x = BranchToState(w, b, TRUE)
        BY <1>4
    <2>. HIDE DEF x, b
    <2>4. /\ Core(x) /\ Kept(w, x) /\ x.raised \in {"nothing", "already branched"}
          /\ x.branches = w.branches \cup {b} /\ Apart(w, x)
        BY <2>1, <2>3, BranchCore
    <2>5. Follows(x)
        BY <1>1, <2>1, <2>2, <2>4, FollowsApart
    <2>. QED
        BY <2>4, <2>5 DEF x
<1>5. CASE type \in DOMAIN Table[s] /\ x = IF e.raised # "nothing" THEN e ELSE y
    <2>1. m = Main => Mine(w) \subseteq w.branches
        BY DEF Follows
    <2>2. /\ Core(e) /\ Kept(w, e) /\ e.raised = "nothing"
          /\ e.current[m] = None /\ e.started[m] /\ ~e.complete[m]
          /\ m = Main => e.branches = w.branches \ Mine(w)
          /\ m \in Branches => e.branches = w.branches /\ Apart(w, e)
        BY <2>1, ExitCore
    <2>3. x = y
        BY <1>5, <2>2
    <2>4. Table[s][type] \in States /\ (m \in Branches => Table[s][type] \in FlatStates)
        BY <1>1, <1>2, <1>5, FlatSteps, TableAssumption
    <2>. HIDE DEF e, x
    <2>5. Follows(e)
        <3>1. CASE m = Main
            BY <2>2, <3>1 DEF Follows, Mine
        <3>2. CASE m # Main
            BY <2>2, <3>2, MachineFacts, FollowsApart
        <3>. QED
            BY <3>1, <3>2
    <2>6. Core(y) /\ Kept(e, y) /\ Follows(y) /\ y.raised \in {"nothing", "already branched"}
        BY <2>2, <2>4, <2>5, EnterCore
    <2>7. Kept(w, y)
        BY <1>1, <2>2, <2>6, KeptTrans DEF Core
    <2>. QED
        BY <2>3, <2>6, <2>7 DEF x
<1>6. CASE veto \/ type \notin DOMAIN Table[s]
    <2>1. x = w
        BY <1>6 DEF React
    <2>. QED
        BY <1>3, <2>1
<1>7. CASE ~veto /\ type \in DOMAIN Table[s] /\ <<s, type>> \in Branching
    <2>1. x = BranchToState(w, Table[s][type], TRUE)
        BY <1>7 DEF React
    <2>. QED
        BY <1>4, <1>7, <2>1
<1>8. CASE ~veto /\ type \in DOMAIN Table[s] /\ <<s, type>> \notin Branching
    <2>1. CASE Table[s][type] = s
        <3>1. x = w
            BY <1>8, <2>1 DEF React
        <3>. QED
            BY <1>3, <3>1
    <2>2. CASE Table[s][type] # s
        <3>1. x = IF e.raised # "nothing" THEN e ELSE y
            BY <1>8, <2>2 DEF React
        <3>. QED
            BY <1>5, <1>8, <3>1
    <2>. QED
        BY <2>1, <2>2
<1>. QED
    BY <1>6, <1>7, <1>8

\* injectEvent(): the machine has seen the event afterwards, and if it had before, no machine
\* enters a state, unless the event is one of C++.
LEMMA InjectCore ==
    ASSUME NEW w, Core(w), Follows(w), w.raised = "nothing", NEW m \in Machines, w.current[m] # None,
           NEW type, NEW veto \in BOOLEAN
    PROVE  LET x == InjectEvent(w, m, type, veto) IN
           /\ Core(x) /\ Follows(x) /\ Kept(w, x) /\ x.raised \in {"nothing", "already branched"}
           /\ x.raised = "nothing" => m \in x.seen
           /\ m \in w.seen /\ type \notin Foreign => x.visit = w.visit
<1>. DEFINE x == InjectEvent(w, m, type, veto)
            y == React(w, m, type, veto)
<1>1. w \in World /\ w.started[m]
    BY DEF Core, Placed
<1>2. CASE m \in w.seen /\ type \notin Foreign
    <2>1. x = w
        BY <1>2 DEF InjectEvent
    <2>. HIDE DEF x
    <2>. QED
        BY <1>1, <1>2, <2>1, KeptSame DEF x
<1>3. CASE ~(m \in w.seen /\ type \notin Foreign)
    <2>1. x = Record(y, m)
        BY <1>1, <1>3 DEF InjectEvent
    <2>2. Core(y) /\ Follows(y) /\ Kept(w, y) /\ y.raised \in {"nothing", "already branched"}
        BY ReactCore
    <2>3. y \in World
        BY <2>2 DEF Core
    <2>. HIDE DEF x, y
    <2>4. CASE y.raised # "nothing"
        BY <1>3, <2>1, <2>2, <2>4 DEF Record, x
    <2>5. CASE y.raised = "nothing"
        <3>1. x = [y EXCEPT !.seen = @ \cup {m}]
            BY <2>1, <2>5 DEF Record
        <3>2. /\ x \in World /\ x.complete = y.complete /\ x.seen = y.seen \cup {m}
              /\ x.current = y.current /\ x.visit = y.visit /\ x.visits = y.visits /\ x.hub = y.hub
              /\ x.timers = y.timers /\ x.queue = y.queue /\ x.raised = y.raised
              /\ x.started = y.started /\ x.branches = y.branches
            BY <2>3, <3>1 DEF World
        <3>3. Hears(x) /\ Timely(x)
            BY <2>2, <3>2, SameStates DEF Core
        <3>4. Placed(x) /\ Rooted(x) /\ Follows(x)
            <4>1. Placed(x)
                BY <2>2, <3>2 DEF Core, Placed
            <4>2. Rooted(x)
                BY <2>2, <3>2 DEF Core, Rooted
            <4>3. Follows(x)
                BY <2>2, <3>2 DEF Follows, Mine
            <4>. QED
                BY <4>1, <4>2, <4>3
        <3>5. Kept(w, x)
            <4>1. Kept(y, x)
                BY <2>3, <3>2, KeptSame
            <4>. QED
                BY <1>1, <2>2, <2>3, <3>2, <4>1, KeptTrans
        <3>. QED
            BY <1>3, <2>2, <3>2, <3>3, <3>4, <3>5 DEF Core, x
    <2>. QED
        BY <2>4, <2>5
<1>. QED
    BY <1>2, <1>3
-----------------------------------------------------------------------------
(* The steps of the threads *)

\* At first there is one machine, in no state.
LEMMA InitInv == Init => IInv
<1>. SUFFICES ASSUME Init PROVE IInv
    OBVIOUS
<1>1. /\ ai.current = [m \in Machines |-> None] /\ ai.visit = [m \in Machines |-> 0] /\ ai.visits = 0
      /\ ai.started = [m \in Machines |-> FALSE] /\ ai.complete = [m \in Machines |-> FALSE]
      /\ ai.branches = {} /\ ai.hub = {} /\ ai.timers = {} /\ ai.queue = <<>> /\ ai.raised = "nothing"
    BY DEF Init
<1>2. ai \in World
    BY DEF Init, World
<1>3. Placed(ai) /\ Hears(ai)
    BY <1>1 DEF Placed, Hears
<1>4. Rooted(ai)
    BY <1>1, MachineFacts DEF Rooted
<1>5. Timely(ai)
    <2>1. Len(ai.queue) = 0
        BY <1>1
    <2>. QED
        BY <1>1, <2>1 DEF Timely
<1>6. Follows(ai)
    BY <1>1, MachineFacts DEF Follows, Mine
<1>7. DueInv /\ MoveInv /\ delivering = None /\ acted = "none"
    BY DEF Init, DueInv, MoveInv
<1>. QED
    BY <1>1, <1>2, <1>3, <1>4, <1>5, <1>6, <1>7 DEF IInv, Core

\* Steps of the AI's thread: Main is started
LEMMA StartStep == IInv /\ Start => IInv'
<1>. SUFFICES ASSUME IInv, Start PROVE IInv'
    OBVIOUS
<1>. DEFINE w == Raise(ai, "nothing")
<1>1. Core(w) /\ Follows(w) /\ w.raised = "nothing" /\ w.current = ai.current
    BY RaiseCore DEF IInv
<1>2. ai' = StartMachine(w) /\ w.current[Main] = None
    BY <1>1 DEF Start
<1>. HIDE DEF w
<1>3. Core(ai') /\ Follows(ai') /\ ai'.raised \in {"nothing", "already branched"}
    BY <1>1, <1>2, StartCore
<1>4. DueInv' /\ MoveInv' /\ delivering' = None /\ acted' = acted
    BY DEF IInv, Start, DueInv, MoveInv
<1>. QED
    BY <1>3, <1>4 DEF IInv

\* or stopped between two events,
LEMMA StopStep == IInv /\ Stop => IInv'
<1>. SUFFICES ASSUME IInv, Stop PROVE IInv'
    OBVIOUS
<1>. DEFINE w == Raise(ai, "nothing")
<1>1. Core(w) /\ Follows(w) /\ w.raised = "nothing"
    BY RaiseCore DEF IInv
<1>2. ai' = StopMachine(w)
    BY DEF Stop
<1>. HIDE DEF w
<1>3. Core(ai') /\ Follows(ai') /\ ai'.raised = "nothing"
    BY <1>1, <1>2, StopCore
<1>4. DueInv' /\ MoveInv' /\ delivering' = None /\ acted' = acted
    BY DEF IInv, Stop, DueInv, MoveInv
<1>. QED
    BY <1>3, <1>4 DEF IInv

\* the next event is taken from the queue, whose time-out, if it is one, is heard by the state
\* that is in force,
LEMMA PopStep == IInv /\ Pop => IInv'
<1>. SUFFICES ASSUME IInv, Pop PROVE IInv'
    OBVIOUS
<1>. DEFINE e == Head(ai.queue)
            x == Fresh(e)
<1>1. ai \in World /\ Core(ai) /\ Follows(ai) /\ ai.queue \in Seq(Events) /\ ai.queue # <<>>
    BY DEF IInv, Core, World, Pop
<1>2. e \in Events /\ e = ai.queue[1] /\ 1 \in 1..Len(ai.queue) /\ e # None
    BY <1>1, NoneAssumption
<1>3. /\ Tail(ai.queue) \in Seq(Events)
      /\ \A i \in 1..Len(Tail(ai.queue)) : i + 1 \in 1..Len(ai.queue) /\ Tail(ai.queue)[i] = ai.queue[i + 1]
    BY <1>1
<1>4. x = [ai EXCEPT !.queue = Tail(@), !.seen = {}, !.raised = "nothing"]
    BY DEF Fresh
<1>5. ai' = x /\ delivering' = e /\ due' = {c \in ai.hub : c.type = e.type} /\ moved' = [m \in Machines |-> 0] /\ acted' = "none"
    BY DEF Pop, NothingMoved
<1>. HIDE DEF e, x
<1>6. /\ x \in World /\ x.complete = ai.complete /\ x.queue = Tail(ai.queue)
      /\ x.current = ai.current /\ x.visit = ai.visit /\ x.visits = ai.visits /\ x.hub = ai.hub
      /\ x.timers = ai.timers /\ x.raised = "nothing"
      /\ x.started = ai.started /\ x.branches = ai.branches
    BY <1>1, <1>3, <1>4 DEF World
<1>7. Placed(x) /\ Rooted(x) /\ Hears(x) /\ Follows(x)
    BY <1>1, <1>6 DEF Core, Placed, Rooted, Hears, Follows, Mine
<1>8. Timely(x)
    <2>1. \A type, v : InForce(x, type, v) <=> InForce(ai, type, v)
        BY <1>6 DEF InForce
    <2>2. \A s, v : InState(x, s, v) <=> InState(ai, s, v)
        BY <1>6 DEF InState
    <2>. QED
        BY <1>1, <1>3, <1>6, <2>1, <2>2 DEF Core, Timely, Accounted
<1>9. e.visit = 0 \/ e.late \/ e.from \in Forgetful \/ \E d \in due' : d.visit = e.visit
    <2>1. CASE InForce(ai, e.type, e.visit)
        <3>1. PICK m \in Machines : /\ ai.current[m] # None /\ ai.visit[m] = e.visit
                                    /\ e.type \in DOMAIN Table[ai.current[m]]
            BY <2>1 DEF InForce
        <3>2. [type |-> e.type, machine |-> m, visit |-> e.visit] \in ai.hub
            BY <1>1, <3>1 DEF Core, Hears
        <3>3. [type |-> e.type, machine |-> m, visit |-> e.visit] \in due'
            BY <1>5, <3>2
        <3>. QED
            BY <3>3
    <2>. QED
        BY <1>1, <1>2, <2>1 DEF Core, Timely, Accounted
<1>10. due' \subseteq [type : {e.type}, machine : Machines, visit : 1..ai.visits]
    <2>1. ASSUME NEW c \in ai.hub, c.type = e.type
          PROVE  c \in [type : {e.type}, machine : Machines, visit : 1..ai.visits]
        <3>1. c \in Connections /\ ai.current[c.machine] # None /\ ai.visit[c.machine] = c.visit
            BY <1>1, <2>1 DEF Core, Hears, World
        <3>2. c.machine \in Machines /\ c.visit \in 1..ai.visits
            BY <1>1, <3>1, WorldType DEF Core, Placed, Connections
        <3>. QED
            BY <2>1, <3>1, <3>2 DEF Connections
    <2>. QED
        BY <1>5, <2>1
<1>11. DueInv'
    BY <1>2, <1>5, <1>6, <1>9, <1>10 DEF DueInv
<1>12. MoveInv'
    BY <1>5 DEF MoveInv
<1>. QED
    BY <1>5, <1>6, <1>7, <1>8, <1>11, <1>12 DEF IInv, Core

\* a subscription is called: its machine is in a state, has not moved for this event unless it has
\* seen it, and a time-out that moves it is its own, shared, late or forgotten,
LEMMA CallStep == IInv /\ Call => IInv' /\ OneStep
<1>. SUFFICES ASSUME IInv, Call PROVE IInv' /\ OneStep
    OBVIOUS
<1>1. PICK c \in Waiting, veto \in BOOLEAN :
        LET m == c.machine
            s == ai.current[m]
            e == delivering
            w == InjectEvent(ai, m, e.type, veto)
            left == s # None /\ w.visit[m] # ai.visit[m]
        IN
        /\ ai' = w
        /\ IF w.raised = "nothing"
           THEN done' = done \cup {c} /\ UNCHANGED <<delivering, due>>
           ELSE done' = {} /\ delivering' = None /\ due' = {}
        /\ moved' = [n \in Machines |-> IF n = m THEN moved[m] + IF left THEN 1 ELSE 0
                                       ELSE IF w.visit[n] # ai.visit[n] THEN 0 ELSE moved[n]]
        /\ acted' = IF ~left \/ e.visit = 0 THEN acted
                    ELSE IF e.visit = ai.visit[m] THEN "own"
                    ELSE IF \E d \in due : d.visit = e.visit THEN "shared"
                    ELSE IF e.late THEN "late"
                    ELSE IF e.from \in Forgetful THEN "forgotten" ELSE "stale"
    BY DEF Call
<1>. DEFINE m == c.machine
            e == delivering
            w == InjectEvent(ai, m, e.type, veto)
            left == w.visit[m] # ai.visit[m]
<1>2. delivering # None /\ Core(ai) /\ Follows(ai) /\ ai.raised = "nothing" /\ DueInv /\ MoveInv
    BY DEF Call, IInv
<1>0. veto \in BOOLEAN
    BY <1>1
<1>3. m \in Machines /\ ai.current[m] # None
    BY <1>1, <1>2 DEF Waiting, Core, Hears, World, Connections
<1>4. /\ Core(w) /\ Follows(w) /\ Kept(ai, w) /\ w.raised \in {"nothing", "already branched"}
      /\ w.raised = "nothing" => m \in w.seen
      /\ m \in ai.seen /\ e.type \notin Foreign => w.visit = ai.visit
    <2>. HIDE DEF m, e
    <2>1. LET x == InjectEvent(ai, m, e.type, veto) IN
          /\ Core(x) /\ Follows(x) /\ Kept(ai, x) /\ x.raised \in {"nothing", "already branched"}
          /\ x.raised = "nothing" => m \in x.seen
          /\ m \in ai.seen /\ e.type \notin Foreign => x.visit = ai.visit
        BY <1>0, <1>2, <1>3, InjectCore
    <2>. QED
        BY <2>1
<1>5. /\ ai' = w
      /\ IF w.raised = "nothing" THEN UNCHANGED <<delivering, due>> ELSE delivering' = None /\ due' = {}
    BY <1>1
<1>6. moved' = [n \in Machines |-> IF n = m THEN moved[m] + IF left THEN 1 ELSE 0
                                  ELSE IF w.visit[n] # ai.visit[n] THEN 0 ELSE moved[n]]
    BY <1>1, <1>3
<1>7. acted' \in {acted, "own", "shared", "late", "forgotten"}
    <2>1. e.visit = 0 \/ e.late \/ e.from \in Forgetful \/ \E d \in due : d.visit = e.visit
        BY <1>2 DEF DueInv
    <2>2. \/ acted' \in {acted, "own", "shared", "late", "forgotten"}
          \/ ~(e.visit = 0) /\ ~(\E d \in due : d.visit = e.visit) /\ ~e.late /\ e.from \notin Forgetful
        BY <1>1
    <2>. QED
        BY <2>1, <2>2
<1>8. ai \in World /\ w \in World
    BY <1>2, <1>4 DEF Core
<1>. HIDE DEF w, m
<1>9. DueInv'
    <2>1. CASE w.raised # "nothing"
        BY <1>5, <2>1 DEF DueInv
    <2>2. CASE w.raised = "nothing"
        <3>1. w.visits >= ai.visits /\ w.visits \in Nat /\ ai.visits \in Nat
            BY <1>4, <1>8, WorldType DEF Kept
        <3>2. due' \subseteq [type : {delivering.type}, machine : Machines, visit : 1..ai'.visits]
            BY <1>2, <1>5, <2>2, <3>1 DEF DueInv
        <3>. QED
            BY <1>2, <1>5, <2>2, <3>2 DEF DueInv
    <2>. QED
        BY <2>1, <2>2
<1>13. moved' \in [Machines -> Nat]
    <2>. HIDE DEF left
    <2>. QED
        BY <1>2, <1>3, <1>6 DEF MoveInv
<1>10. ASSUME NEW n \in Machines, e.type \notin Foreign
       PROVE  /\ moved'[n] \in Nat /\ moved'[n] <= 1
              /\ w.raised = "nothing" /\ moved'[n] = 1 => n \in w.seen \/ w.current[n] = None
    <2>1. moved[n] \in Nat /\ moved[n] <= 1 /\ (moved[n] = 1 => n \in ai.seen \/ ai.current[n] = None)
        BY <1>2, <1>10 DEF MoveInv
    <2>2. CASE n = m
        <3>1. moved'[n] = moved[n] + IF left THEN 1 ELSE 0
            BY <1>6, <2>2
        <3>2. left => m \notin ai.seen
            BY <1>4, <1>10
        <3>3. left => moved[n] # 1
            BY <1>3, <2>1, <2>2, <3>2
        <3>4. left => moved[n] = 0
            <4>. HIDE DEF left
            <4>. QED
                BY <2>1, <3>3
        <3>5. moved'[n] \in Nat /\ moved'[n] <= 1
            <4>. HIDE DEF left
            <4>. QED
                BY <2>1, <3>1, <3>4
        <3>6. w.raised = "nothing" => n \in w.seen
            BY <1>4, <2>2
        <3>. QED
            BY <3>5, <3>6
    <2>3. CASE n # m
        <3>1. moved'[n] = IF w.visit[n] # ai.visit[n] THEN 0 ELSE moved[n]
            BY <1>6, <2>3
        <3>2. w.visit[n] = ai.visit[n] /\ w.current[n] # None => ai.current[n] # None /\ (n \in ai.seen => n \in w.seen)
            BY <1>4 DEF Kept
        <3>3. CASE w.visit[n] # ai.visit[n]
            BY <3>1, <3>3
        <3>4. CASE w.visit[n] = ai.visit[n]
            <4>1. moved'[n] = moved[n]
                BY <3>1, <3>4
            <4>. QED
                BY <2>1, <3>2, <3>4, <4>1
        <3>. QED
            BY <3>3, <3>4
    <2>. QED
        BY <2>2, <2>3
<1>11. MoveInv'
    <2>1. delivering' # None => w.raised = "nothing" /\ delivering' = e
        BY <1>5
    <2>. QED
        BY <1>5, <1>10, <1>13, <2>1 DEF MoveInv
<1>12. acted' \in {"none", "own", "shared", "late", "forgotten"}
    BY <1>7 DEF IInv
<1>14. OneStep
    BY <1>10 DEF OneStep
<1>. QED
    BY <1>4, <1>5, <1>9, <1>11, <1>12, <1>14 DEF IInv

\* and all have been called.
LEMMA PublishedStep == IInv /\ Published => IInv'
<1>. SUFFICES ASSUME IInv, Published PROVE IInv'
    OBVIOUS
<1>1. ai' = ai /\ delivering' = None /\ due' = {} /\ moved' = [m \in Machines |-> 0] /\ acted' = "none"
    BY DEF Published, NothingMoved
<1>2. DueInv' /\ MoveInv'
    BY <1>1 DEF IInv, DueInv, MoveInv
<1>3. Core(ai') /\ Follows(ai')
    BY <1>1 DEF IInv
<1>. QED
    BY <1>1, <1>2, <1>3 DEF IInv

\* The other threads change nothing but the timers and the queue.
LEMMA OtherStep ==
    ASSUME IInv, NEW timers \in SUBSET Sleepers, NEW queue \in Seq(Events),
           ai' = [ai EXCEPT !.timers = timers, !.queue = queue],
           \A t \in timers : /\ t.visit \in 1..ai.visits
                             /\ t.running => t.state \in Forgetful \/ InState(ai, t.state, t.visit)
                             /\ t.at = "awake" => t.running \/ t.late,
           \A i \in 1..Len(queue) : Accounted(ai, queue[i]),
           UNCHANGED <<delivering, due, moved, acted>>
    PROVE  IInv'
<1>. DEFINE x == [ai EXCEPT !.timers = timers, !.queue = queue]
<1>1. ai \in World /\ Core(ai) /\ Follows(ai)
    BY DEF IInv, Core
<1>2. /\ x \in World /\ x.complete = ai.complete /\ x.queue = queue
      /\ x.current = ai.current /\ x.visit = ai.visit /\ x.visits = ai.visits /\ x.hub = ai.hub
      /\ x.timers = timers /\ x.raised = ai.raised /\ x.seen = ai.seen
      /\ x.started = ai.started /\ x.branches = ai.branches
    BY <1>1 DEF World
<1>3. ai' = x
    OBVIOUS
<1>. HIDE DEF x
<1>4. Placed(x) /\ Rooted(x) /\ Hears(x) /\ Follows(x)
    BY <1>1, <1>2 DEF Core, Placed, Rooted, Hears, Follows, Mine
<1>5. Timely(x)
    <2>1. \A type, v : InForce(x, type, v) <=> InForce(ai, type, v)
        BY <1>2 DEF InForce
    <2>2. \A s, v : InState(x, s, v) <=> InState(ai, s, v)
        BY <1>2 DEF InState
    <2>. QED
        BY <1>2, <2>1, <2>2 DEF Timely, Accounted
<1>6. ai'.visits = ai.visits /\ ai'.seen = ai.seen /\ ai'.current = ai.current /\ ai'.raised = ai.raised
    BY <1>2, <1>3
<1>7. DueInv'
    BY <1>6 DEF IInv, DueInv
<1>8. MoveInv'
    BY <1>6 DEF IInv, MoveInv
<1>. QED
    BY <1>2, <1>3, <1>4, <1>5, <1>6, <1>7, <1>8 DEF IInv, Core

\* A timer wakes up, or fires.
LEMMA TimerStep ==
    ASSUME IInv, NEW t \in ai.timers, WakeUp(t) \/ Fire(t)
    PROVE  IInv'
<1>1. ai \in World /\ Timely(ai) /\ ai.timers \subseteq Sleepers /\ ai.queue \in Seq(Events)
    BY DEF IInv, Core, World
<1>2. /\ t \in Sleepers /\ t.visit \in 1..ai.visits /\ ai.visits \in Nat
      /\ t.running => t.state \in Forgetful \/ InState(ai, t.state, t.visit)
      /\ t.at = "awake" => t.running \/ t.late
    BY <1>1, WorldType DEF Timely
<1>3. CASE WakeUp(t)
    <2>. DEFINE u == [t EXCEPT !.at = "awake"]
                timers == (ai.timers \ {t}) \cup {v \in {u} : t.running}
    <2>1. u \in Sleepers /\ u.visit = t.visit /\ u.state = t.state /\ u.running = t.running
        BY <1>2 DEF Sleepers
    <2>2. timers \in SUBSET Sleepers
        BY <1>1, <2>1
    <2>3. ai' = [ai EXCEPT !.timers = timers, !.queue = ai.queue]
        <3>1. ai' = [ai EXCEPT !.timers = timers]
            BY <1>3 DEF WakeUp
        <3>. HIDE DEF timers
        <3>. QED
            BY <1>1, <3>1 DEF World
    <2>. HIDE DEF u
    <2>4. \A v \in timers : /\ v.visit \in 1..ai.visits
                            /\ v.running => v.state \in Forgetful \/ InState(ai, v.state, v.visit)
                            /\ v.at = "awake" => v.running \/ v.late
        BY <1>1, <1>2, <2>1 DEF Timely
    <2>5. UNCHANGED <<delivering, due, moved, acted>>
        BY <1>3 DEF WakeUp
    <2>. HIDE DEF timers
    <2>. QED
        BY <1>1, <2>2, <2>3, <2>4, <2>5, OtherStep DEF Timely
<1>4. CASE Fire(t)
    <2>. DEFINE e == TimeOut(t)
                timers == ai.timers \ {t}
                queue == Append(ai.queue, e)
    <2>0. /\ t.state \in States /\ TimerOf[t.state] \in DOMAIN Table[t.state]
          /\ DOMAIN Table[t.state] \subseteq Types
        BY <1>2, TypeFacts DEF Sleepers
    <2>1. /\ e \in Events /\ e.visit = t.visit /\ e.type = TimerOf[t.state]
          /\ e.late = t.late /\ e.from = t.state
        BY <1>2, <2>0 DEF Sleepers, TimeOut, Events
    <2>2. Accounted(ai, e)
        <3>1. InState(ai, t.state, t.visit) => InForce(ai, TimerOf[t.state], t.visit)
            BY <2>0, NoneAssumption DEF InState, InForce
        <3>. QED
            BY <1>2, <1>4, <2>1, <3>1 DEF Fire, Accounted
    <2>3. ai' = [ai EXCEPT !.timers = timers, !.queue = queue]
        BY <1>4 DEF Fire
    <2>. HIDE DEF e
    <2>4. timers \in SUBSET Sleepers /\ queue \in Seq(Events)
        BY <1>1, <2>1
    <2>5. \A i \in 1..Len(queue) : Accounted(ai, queue[i])
        <3>1. ASSUME NEW i \in 1..Len(queue)
              PROVE  queue[i] = e \/ (i \in 1..Len(ai.queue) /\ queue[i] = ai.queue[i])
            BY <1>1, <2>1
        <3>. HIDE DEF queue
        <3>. QED
            BY <1>1, <2>2, <3>1 DEF Timely
    <2>6. \A v \in timers : /\ v.visit \in 1..ai.visits
                            /\ v.running => v.state \in Forgetful \/ InState(ai, v.state, v.visit)
                            /\ v.at = "awake" => v.running \/ v.late
        BY <1>1 DEF Timely
    <2>7. UNCHANGED <<delivering, due, moved, acted>>
        BY <1>4 DEF Fire
    <2>. HIDE DEF timers, queue
    <2>. QED
        BY <2>3, <2>4, <2>5, <2>6, <2>7, OtherStep
<1>. QED
    BY <1>3, <1>4

\* Somebody else publishes an event.
LEMMA SendStep ==
    ASSUME IInv, NEW type \in External, Send(type)
    PROVE  IInv'
<1>. DEFINE e == Event(type)
            queue == Append(ai.queue, e)
<1>1. ai \in World /\ Timely(ai) /\ ai.timers \in SUBSET Sleepers /\ ai.queue \in Seq(Events)
    BY DEF IInv, Core, World
<1>2. type \in Types
    BY DEF Types
<1>3. e \in Events /\ e.visit = 0
    BY <1>2 DEF Event, Events
<1>4. ai' = [ai EXCEPT !.timers = ai.timers, !.queue = queue]
    <2>1. ai' = [ai EXCEPT !.queue = queue]
        BY DEF Send
    <2>. HIDE DEF queue
    <2>. QED
        BY <1>1, <2>1 DEF World
<1>. HIDE DEF e
<1>5. queue \in Seq(Events)
    BY <1>1, <1>3
<1>6. \A i \in 1..Len(queue) : Accounted(ai, queue[i])
    <2>1. ASSUME NEW i \in 1..Len(queue)
          PROVE  queue[i] = e \/ (i \in 1..Len(ai.queue) /\ queue[i] = ai.queue[i])
        BY <1>1, <1>3
    <2>. HIDE DEF queue
    <2>. QED
        BY <1>1, <1>3, <2>1 DEF Timely, Accounted
<1>7. UNCHANGED <<delivering, due, moved, acted>>
    BY DEF Send
<1>. HIDE DEF queue
<1>. QED
    BY <1>1, <1>4, <1>5, <1>6, <1>7, OtherStep DEF Timely

-----------------------------------------------------------------------------
(* The theorems *)

\* The inductive invariant: machines, subscriptions, timers, queue and branches fit together between
\* any two steps, and the event in hand is accounted for.
THEOREM SpecIInv == Spec => []IInv
<1>1. IInv /\ [Next]_vars => IInv'
    <2>. SUFFICES ASSUME IInv, [Next]_vars PROVE IInv'
        OBVIOUS
    <2>1. CASE Start
        BY <2>1, StartStep
    <2>2. CASE Stop
        BY <2>2, StopStep
    <2>3. CASE Pop
        BY <2>3, PopStep
    <2>4. CASE Call
        BY <2>4, CallStep
    <2>5. CASE Published
        BY <2>5, PublishedStep
    <2>6. CASE \E t \in ai.timers : WakeUp(t) \/ Fire(t)
        BY <2>6, TimerStep
    <2>7. CASE \E type \in External : Send(type)
        BY <2>7, SendStep
    <2>8. CASE UNCHANGED vars
        BY <2>8 DEF vars, IInv, DueInv, MoveInv
    <2>. QED
        BY <2>1, <2>2, <2>3, <2>4, <2>5, <2>6, <2>7, <2>8 DEF Next
<1>. QED
    BY <1>1, InitInv, PTL DEF Spec

\* What the invariant means in the words of StateMachine: the types,
LEMMA TypeCorrect == IInv => TypeOK
<1>. SUFFICES ASSUME IInv PROVE TypeOK
    OBVIOUS
<1>1. ai \in World /\ Placed(ai) /\ Rooted(ai) /\ Hears(ai) /\ Timely(ai) /\ DueInv /\ MoveInv
    BY DEF IInv, Core
<1>2. /\ ai.current \in [Machines -> States \cup {None}]
      /\ ai.visit \in [Machines -> Nat] /\ ai.visits \in Nat
      /\ ai.started \in [Machines -> BOOLEAN] /\ ai.complete \in [Machines -> BOOLEAN]
      /\ ai.branches \subseteq Branches /\ ai.seen \subseteq Machines /\ ai.queue \in Seq(Events)
      /\ ai.hub \subseteq Connections /\ ai.timers \subseteq Sleepers
    BY <1>1 DEF World
<1>3. ai.hub \subseteq [type : Types, machine : Machines, visit : 1..ai.visits]
    <2>1. ASSUME NEW c \in ai.hub
          PROVE  c \in [type : Types, machine : Machines, visit : 1..ai.visits]
        <3>1. c \in Connections /\ ai.current[c.machine] # None /\ ai.visit[c.machine] = c.visit
            BY <1>1, <1>2 DEF Hears
        <3>2. c.machine \in Machines /\ c.visit \in 1..ai.visits
            BY <1>1, <1>2, <3>1 DEF Placed, Connections
        <3>. QED
            BY <3>1, <3>2 DEF Connections
    <2>. QED
        BY <2>1
<1>4. \A t \in ai.timers : t.visit \in 1..ai.visits /\ t.at \in {"asleep", "awake"}
    BY <1>1, <1>2 DEF Timely, Sleepers
<1>5. due \subseteq [type : {e.type : e \in {delivering} \ {None}}, machine : Machines, visit : 1..ai.visits]
    BY <1>1 DEF DueInv
<1>6. /\ \A m \in Machines : ai.complete[m] => ai.started[m] /\ ai.current[m] = None
      /\ \A m \in Branches : ai.started[m] <=> m \in ai.branches
      /\ delivering \in Events \cup {None} /\ moved \in [Machines -> Nat]
      /\ acted \in {"none", "own", "shared", "late", "forgotten", "stale"}
    BY <1>1 DEF Placed, Rooted, DueInv, MoveInv, IInv
<1>. QED
    BY <1>2, <1>3, <1>4, <1>5, <1>6 DEF TypeOK

\* the subscriptions,
LEMMA Subscribed == IInv => SubscribedToCurrent
<1>. SUFFICES ASSUME IInv PROVE SubscribedToCurrent
    OBVIOUS
<1>. DEFINE own(m) == {[type |-> t, machine |-> m, visit |-> ai.visit[m]] : t \in DOMAIN Table[ai.current[m]]}
            inState == {n \in Machines : ai.current[n] # None}
<1>1. Hears(ai) /\ ai.hub \subseteq Connections
    BY DEF IInv, Core, World
<1>2. ASSUME NEW c \in ai.hub
      PROVE  c.machine \in inState /\ c \in own(c.machine)
    <2>1. /\ c.machine \in Machines /\ ai.current[c.machine] # None /\ ai.visit[c.machine] = c.visit
          /\ c.type \in DOMAIN Table[ai.current[c.machine]]
          /\ c = [type |-> c.type, machine |-> c.machine, visit |-> c.visit]
        BY <1>1 DEF Hears, Connections
    <2>. QED
        BY <2>1
<1>3. ASSUME NEW m \in inState, NEW c \in own(m)
      PROVE  c \in ai.hub
    BY <1>1, <1>3 DEF Hears
<1>4. ai.hub = UNION {own(m) : m \in inState}
    <2>. HIDE DEF own, inState
    <2>. QED
        BY <1>2, <1>3
<1>. QED
    BY <1>4 DEF SubscribedToCurrent

\* and everything that is to go with its state.
LEMMA Outlived == IInv => NothingOutlivesState
<1>. SUFFICES ASSUME IInv PROVE NothingOutlivesState
    OBVIOUS
<1>1. TimersBelongToStates
    BY DEF IInv, Core, Timely, InState, TimersBelongToStates
<1>2. BranchesFollowTask
    BY DEF IInv, Follows, Mine, Extra, BranchesFollowTask
<1>3. NothingRaised
    BY DEF IInv, NothingRaised
<1>. QED
    BY <1>1, <1>2, <1>3, TypeCorrect, Subscribed DEF NothingOutlivesState

\* However a state is left, by a transition, a stop or its end: its subscriptions, its branch and, if its
\* exit() stops it, its timer go with it, those of the next are there, and no call raises more than
\* "already branched".
THEOREM SpecNothingOutlivesState == Spec => []NothingOutlivesState
    BY SpecIInv, Outlived, PTL

\* injectEvent() of Machine compares the event with the previous one: an event of a Python publisher takes
\* a machine at most one step, even when the state entered subscribes while it is being published.
THEOREM SpecOneStepPerEvent == Spec => OneStepPerEvent
<1>1. IInv /\ [Next]_vars => [OneStep]_vars
    <2>. SUFFICES ASSUME IInv, Next PROVE OneStep \/ UNCHANGED vars
        OBVIOUS
    <2>1. CASE Call
        BY <2>1, CallStep
    <2>2. CASE Start \/ Stop \/ Pop
        BY <2>2 DEF Start, Stop, Pop, OneStep
    <2>3. CASE Published
        BY <2>3 DEF Published, NothingMoved, OneStep
    <2>4. CASE \/ \E t \in ai.timers : WakeUp(t) \/ Fire(t)
               \/ \E type \in External : Send(type)
        <3>1. moved' = moved
            BY <2>4 DEF WakeUp, Fire, Send
        <3>. QED
            BY <3>1 DEF IInv, MoveInv, OneStep
    <2>. QED
        BY <2>1, <2>2, <2>3, <2>4 DEF Next
<1>. QED
    BY <1>1, SpecIInv, PTL DEF Spec, OneStepPerEvent

\* Timer.run() looks at stop() before it publishes: a time-out leads only out of its own state, unless
\* another machine waited for the same type, the timer had fired when its state was left, or the exit()
\* of that state does not stop it.
THEOREM SpecTimeoutIsOwn == Spec => []TimeoutIsOwn
<1>1. IInv => TimeoutIsOwn
    BY DEF IInv, TimeoutIsOwn
<1>. QED
    BY <1>1, SpecIInv, PTL
=============================================================================
