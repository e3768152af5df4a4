------------------------ MODULE QueuedEventPublisher ------------------------
(***************************************************************************)
(* packages/core/include/QueuedEventPublisherBase.h: a publisher that      *)
(* subscribes to its parent once for each type it has handlers for, puts   *)
(* what the parent publishes on a ThreadedQueue, and calls its handlers    *)
(* when the thread that owns it asks for the queued events.                *)
(*                                                                         *)
(* Both the parent and the internal publisher are EventPublishers.  What   *)
(* matters of them here is the mutex of a type: the parent's is held while *)
(* it publishes and asked for by connection->disconnect(), the internal    *)
(* one is held while the handlers of an event run.  Their data races are   *)
(* the subject of EventPublisher, spurious wake-ups and several consumers  *)
(* the subject of ThreadedQueue.                                           *)
(***************************************************************************)
EXTENDS Naturals, Sequences, FiniteSets

CONSTANTS
    Users,          \* threads that subscribe and disconnect
    Dispatcher,     \* the thread that publishes the queued events; its handlers do so too
    Publishers,     \* threads that publish on the parent
    Types,
    Handlers,       \* subscriptions, each made and disconnected at most once
    TypeOf,         \* the type each of them is for
    MaxPushes       \* bound: events queued

ASSUME DispatcherAssumption == Dispatcher \notin Users
ASSUME TypeOfAssumption == TypeOf \in [Handlers -> Types]

Threads == Users \cup {Dispatcher}

Nobody == "nobody"
NoHandler == "none"
NoType == "none"

ASSUME NobodyAssumption == Nobody \notin Threads
ASSUME HandlersAssumption == IsFiniteSet(Handlers) /\ NoHandler \notin Handlers
ASSUME MaxPushesAssumption == MaxPushes \in Nat

VARIABLES
    queue, pushes, blocked, call, taken, excused, undefined,    \* m_eventQueue
    kind,           \* the type of every event pushed
    publishing,     \* the type each publisher of the parent holds the mutex of
    parentConnected,    \* the types this publisher is connected to in its parent
    owner,          \* who holds m_connectionsMutex, a readers-writers mutex only ever written
    refs,           \* m_connectionTypes, 0 where it has no record
    slots,          \* handlers connected to the internal publisher
    at,             \* where each thread is in subscribe() or disconnect()
    subject,        \* the handler that call is about
    dispatching,    \* whether an event is being published internally
    uncalled,       \* the handlers still to be called for it
    inside,         \* the handler that runs
    live,           \* history: subscribe() returned, disconnect() not called
    left,           \* history: disconnect() returned
    since,          \* history: how many events were queued when subscribe() returned
    missed,         \* history: handlers live at an event of theirs that was not queued
    received        \* history: the events each handler was called with

queueVars == <<queue, pushes, blocked, call, taken, excused, undefined, kind>>
connectVars == <<parentConnected, owner, refs, slots, at, subject>>
dispatchVars == <<dispatching, uncalled, inside, received>>
historyVars == <<live, left, since, missed>>
vars == <<queueVars, connectVars, dispatchVars, historyVars, publishing>>

Queue == INSTANCE ThreadedQueue WITH Consumers <- {Dispatcher}

Locations == {"idle", "subscribe", "connectParent", "connect",
              "disconnect", "release", "disconnectParent", "takeOff"}

\* The event last popped, and its type.
Current == Len(taken[Dispatcher])
Event == taken[Dispatcher][Current]
EventType == kind[Event]

Of(type) == {h \in Handlers : TypeOf[h] = type}

TypeOK ==
    /\ Queue!TypeOK
    /\ kind \in Seq(Types) /\ Len(kind) = pushes
    /\ publishing \in [Publishers -> Types \cup {NoType}]
    /\ parentConnected \in SUBSET Types
    /\ owner \in {Nobody} \cup {t \in Threads :
            at[t] \in {"connectParent", "connect", "release", "disconnectParent"}}
    /\ refs \in [Types -> 0..Cardinality(Handlers)]
    /\ slots \in SUBSET Handlers
    /\ at \in [Threads -> Locations]
    /\ subject \in [Threads -> Handlers \cup {NoHandler}]
    /\ dispatching \in BOOLEAN
    /\ uncalled \in SUBSET Handlers
    /\ inside \in Handlers \cup {NoHandler}
    /\ live \in SUBSET Handlers
    /\ left \in SUBSET Handlers
    /\ since \in [Handlers -> 0..MaxPushes]
    /\ missed \in SUBSET Handlers
    /\ received \in [Handlers -> Seq(1..MaxPushes)]

Init ==
    /\ Queue!Init
    /\ kind = <<>>
    /\ publishing = [p \in Publishers |-> NoType]
    /\ parentConnected = {}
    /\ owner = Nobody
    /\ refs = [type \in Types |-> 0]
    /\ slots = {}
    /\ at = [t \in Threads |-> "idle"]
    /\ subject = [t \in Threads |-> NoHandler]
    /\ dispatching = FALSE
    /\ uncalled = {}
    /\ inside = NoHandler
    /\ live = {}
    /\ left = {}
    /\ since = [h \in Handlers |-> 0]
    /\ missed = {}
    /\ received = [h \in Handlers |-> <<>>]

\* The dispatcher makes calls from inside its handlers and between two events, not
\* while it waits for one.
MayCall(t) ==
    /\ at[t] = "idle"
    /\ t = Dispatcher => call[t] = "none" /\ (inside # NoHandler \/ ~dispatching)

Step(t, from, to) == at[t] = from /\ at' = [at EXCEPT ![t] = to]

-----------------------------------------------------------------------------
(* The parent, and publish() *)

\* The bound on events leaves room for those the parent has begun to publish.
RoomForOne ==
    pushes + Cardinality({p \in Publishers : publishing[p] # NoType}) < MaxPushes

\* queueEvent
Enqueue(type) == Queue!Push /\ kind' = Append(kind, type)

\* The parent takes the mutex of the type.
ParentPublish(p, type) ==
    /\ RoomForOne
    /\ publishing[p] = NoType
    /\ \A q \in Publishers : publishing[q] # type
    /\ publishing' = [publishing EXCEPT ![p] = type]
    /\ UNCHANGED <<queueVars, connectVars, dispatchVars, historyVars>>

\* It calls queueEvent if this publisher is connected, and lets go of the mutex.
ParentCalls(p) ==
    /\ publishing[p] # NoType
    /\ IF publishing[p] \in parentConnected
         THEN Enqueue(publishing[p]) /\ UNCHANGED missed
         ELSE /\ missed' = missed \cup (live \cap Of(publishing[p]))
              /\ UNCHANGED queueVars
    /\ publishing' = [publishing EXCEPT ![p] = NoType]
    /\ UNCHANGED <<connectVars, dispatchVars, live, left, since>>

\* publish() queues the event whoever is subscribed.
Publish(type) ==
    /\ RoomForOne
    /\ Enqueue(type)
    /\ UNCHANGED <<connectVars, dispatchVars, historyVars, publishing>>

-----------------------------------------------------------------------------
(* subscribe: m_connectionsMutex is held to the end *)

Subscribe(t, h) ==
    /\ MayCall(t)
    /\ \A u \in Threads : subject[u] # h
    /\ h \notin slots \cup live \cup left
    /\ at' = [at EXCEPT ![t] = "subscribe"]
    /\ subject' = [subject EXCEPT ![t] = h]
    /\ UNCHANGED <<queueVars, parentConnected, owner, refs, slots, dispatchVars,
                   historyVars, publishing>>

LockForSubscribe(t) ==
    /\ Step(t, "subscribe", "connectParent")
    /\ owner = Nobody
    /\ owner' = t
    /\ UNCHANGED <<queueVars, parentConnected, refs, slots, subject, dispatchVars,
                   historyVars, publishing>>

\* Mutant: handlers after the first are not counted.
ConnectParentOnce(t) ==
    LET type == TypeOf[subject[t]] IN
    /\ Step(t, "connectParent", "connect")
    /\ parentConnected' = parentConnected \cup {type}
    /\ refs' = [refs EXCEPT ![type] = 1]
    /\ UNCHANGED <<queueVars, owner, slots, subject, dispatchVars, historyVars, publishing>>

\* The first handler of a type connects this publisher to the parent.
ConnectParent(t) ==
    LET type == TypeOf[subject[t]] IN
    /\ Step(t, "connectParent", "connect")
    /\ parentConnected' = parentConnected \cup {type}
    /\ refs' = [refs EXCEPT ![type] = @ + 1]
    /\ UNCHANGED <<queueVars, owner, slots, subject, dispatchVars, historyVars, publishing>>

\* Connects the handler to the internal publisher, and subscribe() returns.
Connect(t) ==
    LET h == subject[t] IN
    /\ Step(t, "connect", "idle")
    /\ slots' = slots \cup {h}
    /\ owner' = Nobody
    /\ subject' = [subject EXCEPT ![t] = NoHandler]
    /\ live' = live \cup {h}
    /\ since' = [since EXCEPT ![h] = pushes]
    /\ UNCHANGED <<queueVars, parentConnected, refs, dispatchVars, left, missed, publishing>>

-----------------------------------------------------------------------------
(* Connection::disconnect: unSubscribe, then the internal connection *)

Disconnect(t, h) ==
    /\ MayCall(t)
    /\ h \in live
    /\ at' = [at EXCEPT ![t] = "disconnect"]
    /\ subject' = [subject EXCEPT ![t] = h]
    /\ live' = live \ {h}
    /\ UNCHANGED <<queueVars, parentConnected, owner, refs, slots, dispatchVars,
                   left, since, missed, publishing>>

LockForDisconnect(t) ==
    /\ Step(t, "disconnect", "release")
    /\ owner = Nobody
    /\ owner' = t
    /\ UNCHANGED <<queueVars, parentConnected, refs, slots, subject, dispatchVars,
                   historyVars, publishing>>

\* Mutant: the connection to the parent is given up by the first to leave.
ReleaseAll(t) ==
    LET type == TypeOf[subject[t]] IN
    /\ at[t] = "release"
    /\ refs' = [refs EXCEPT ![type] = @ - 1]
    /\ at' = [at EXCEPT ![t] = "disconnectParent"]
    /\ UNCHANGED <<queueVars, parentConnected, owner, slots, subject, dispatchVars,
                   historyVars, publishing>>

\* Mutant: m_connectionsMutex is not released by all but the last to leave.
ReleaseKeepsMutex(t) ==
    LET type == TypeOf[subject[t]] IN
    /\ at[t] = "release"
    /\ refs' = [refs EXCEPT ![type] = @ - 1]
    /\ at' = [at EXCEPT ![t] = IF refs[type] = 1 THEN "disconnectParent" ELSE "takeOff"]
    /\ UNCHANGED <<queueVars, parentConnected, owner, slots, subject, dispatchVars,
                   historyVars, publishing>>

\* The last handler of a type goes on to the parent, the others are done with
\* the mutex.
Release(t) ==
    LET type == TypeOf[subject[t]] IN
    /\ at[t] = "release"
    /\ refs' = [refs EXCEPT ![type] = @ - 1]
    /\ \/ /\ refs[type] = 1
          /\ at' = [at EXCEPT ![t] = "disconnectParent"]
          /\ UNCHANGED owner
       \/ /\ refs[type] # 1
          /\ at' = [at EXCEPT ![t] = "takeOff"]
          /\ owner' = Nobody
    /\ UNCHANGED <<queueVars, parentConnected, slots, subject, dispatchVars,
                   historyVars, publishing>>

\* Mutant: m_connectionsMutex is kept.
DisconnectParentKeepsMutex(t) ==
    LET type == TypeOf[subject[t]] IN
    /\ Step(t, "disconnectParent", "takeOff")
    /\ \A p \in Publishers : publishing[p] # type
    /\ parentConnected' = parentConnected \ {type}
    /\ UNCHANGED <<queueVars, owner, refs, slots, subject, dispatchVars, historyVars, publishing>>

\* Waits, with m_connectionsMutex held, for the parent to end its publish().
DisconnectParent(t) ==
    LET type == TypeOf[subject[t]] IN
    /\ Step(t, "disconnectParent", "takeOff")
    /\ \A p \in Publishers : publishing[p] # type
    /\ parentConnected' = parentConnected \ {type}
    /\ owner' = Nobody
    /\ UNCHANGED <<queueVars, refs, slots, subject, dispatchVars, historyVars, publishing>>

\* Mutant: the handlers of the event that is being published are not waited for.
TakeOffAtOnce(t) ==
    LET h == subject[t] IN
    /\ Step(t, "takeOff", "idle")
    /\ slots' = slots \ {h}
    /\ subject' = [subject EXCEPT ![t] = NoHandler]
    /\ left' = left \cup {h}
    /\ uncalled' = uncalled \ {h}
    /\ UNCHANGED <<queueVars, parentConnected, owner, refs, dispatching, inside, received,
                   live, since, missed, publishing>>

\* Asks for the mutex of the type, which the dispatcher has when it is in a handler.
TakeOff(t) ==
    LET h == subject[t] IN
    /\ Step(t, "takeOff", "idle")
    /\ t # Dispatcher => ~(dispatching /\ EventType = TypeOf[h])
    /\ slots' = slots \ {h}
    /\ subject' = [subject EXCEPT ![t] = NoHandler]
    /\ left' = left \cup {h}
    /\ uncalled' = uncalled \ {h}
    /\ UNCHANGED <<queueVars, parentConnected, owner, refs, dispatching, inside, received,
                   live, since, missed, publishing>>

-----------------------------------------------------------------------------
(* publishEvents and waitAndPublishEvents *)

\* The event just popped is published internally.
Dispatch ==
    /\ dispatching' = TRUE
    /\ uncalled' = slots \cap Of(kind[queue[1]])
    /\ UNCHANGED <<kind, connectVars, inside, received, historyVars, publishing>>

Pop ==
    /\ MayCall(Dispatcher) /\ ~dispatching
    /\ Queue!Pop(Dispatcher)
    /\ Dispatch

Wait ==
    /\ MayCall(Dispatcher) /\ ~dispatching
    /\ Queue!Wait(Dispatcher, "popWait")
    /\ UNCHANGED <<kind, connectVars, dispatchVars, historyVars, publishing>>

\* Mutant: waitAndPublishEvents goes on with the next event.
WokenForgets ==
    /\ Queue!Woken(Dispatcher)
    /\ UNCHANGED <<kind, connectVars, dispatchVars, historyVars, publishing>>

Woken == Queue!Woken(Dispatcher) /\ Dispatch

Got(h, n) == \E i \in DOMAIN received[h] : received[h][i] = n

\* A handler connected in the meantime may be called too.
CallHandler(h) ==
    /\ dispatching /\ inside = NoHandler
    /\ h \in slots
    /\ h \in uncalled \/ (TypeOf[h] = EventType /\ ~Got(h, Event))
    /\ inside' = h
    /\ received' = [received EXCEPT ![h] = Append(@, Event)]
    /\ uncalled' = uncalled \ {h}
    /\ UNCHANGED <<queueVars, connectVars, dispatching, historyVars, publishing>>

HandlerReturns ==
    /\ inside # NoHandler
    /\ at[Dispatcher] = "idle"
    /\ inside' = NoHandler
    /\ UNCHANGED <<queueVars, connectVars, dispatching, uncalled, received, historyVars,
                   publishing>>

\* Mutant: one handler is enough.
DispatchedAfterOne ==
    /\ dispatching /\ inside = NoHandler
    /\ uncalled = {} \/ \E h \in Of(EventType) : h \in slots \ uncalled
    /\ dispatching' = FALSE
    /\ uncalled' = {}
    /\ UNCHANGED <<queueVars, connectVars, inside, received, historyVars, publishing>>

Dispatched ==
    /\ dispatching /\ inside = NoHandler
    /\ uncalled = {}
    /\ dispatching' = FALSE
    /\ UNCHANGED <<queueVars, connectVars, uncalled, inside, received, historyVars, publishing>>

-----------------------------------------------------------------------------

CallStep(t) ==
    \/ LockForSubscribe(t) \/ ConnectParent(t) \/ Connect(t)
    \/ LockForDisconnect(t) \/ Release(t) \/ DisconnectParent(t) \/ TakeOff(t)

DispatchStep ==
    Pop \/ Wait \/ Woken \/ (\E h \in uncalled : CallHandler(h)) \/ HandlerReturns \/ Dispatched

Next ==
    \/ \E p \in Publishers, type \in Types : ParentPublish(p, type)
    \/ \E p \in Publishers : ParentCalls(p)
    \/ \E type \in Types : Publish(type)
    \/ \E t \in Threads :
        \/ \E h \in Handlers : Subscribe(t, h)
        \/ LockForSubscribe(t)
        \/ ConnectParent(t)
        \/ Connect(t)
        \/ \E h \in Handlers : Disconnect(t, h)
        \/ LockForDisconnect(t)
        \/ Release(t)
        \/ DisconnectParent(t)
        \/ TakeOff(t)
    \/ Pop
    \/ Wait
    \/ Woken
    \/ \E h \in Handlers : CallHandler(h)
    \/ HandlerReturns
    \/ Dispatched

Spec == Init /\ [][Next]_vars

\* Threads are scheduled, handlers return and the dispatcher comes back for
\* more.  Nobody is obliged to publish, subscribe or disconnect.
FairSpec ==
    /\ Spec
    /\ \A p \in Publishers : WF_vars(ParentCalls(p))
    /\ \A t \in Threads : WF_vars(CallStep(t))
    /\ WF_vars(DispatchStep)

-----------------------------------------------------------------------------
(* Properties *)

\* "Makes sure we only subscribe once for each event type"
\* (QueuedEventPublisherBase.h:94): when m_connectionsMutex is free the records
\* count the handlers, and the parent is subscribed to exactly for those types.
ParentFollowsHandlers ==
    owner = Nobody => \A type \in Types :
        /\ refs[type] = Cardinality(
               {h \in Of(type) \cap slots : \A t \in Threads :
                    subject[t] = h => at[t] \in {"disconnect", "release"}})
        /\ type \in parentConnected <=> refs[type] > 0

\* No event of its type passes a handler by while it is subscribed, also when
\* others of the type come and go at that moment.
NothingMissed == missed = {}

\* A handler gets the events queued since it was subscribed in the order they
\* were queued, each once and without gaps.
InOrderWithoutGaps ==
    \A h \in Handlers :
        /\ \A i, j \in DOMAIN received[h] : i < j => received[h][i] < received[h][j]
        /\ h \in live /\ ~dispatching =>
               \A i \in 1..Current :
                   LET n == taken[Dispatcher][i] IN
                   n > since[h] /\ kind[n] = TypeOf[h] => Got(h, n)

\* What subscribing promises: while a handler is subscribed the parent is, and every
\* event of its type reaches it, once and in its turn.
Delivery == TypeOK /\ ParentFollowsHandlers /\ NothingMissed /\ InOrderWithoutGaps

\* "The handler function will not be called" once disconnect() has returned
\* (EventConnection.h:35), also for the events still in the queue; nor is it
\* running then, unless it is the one that made the call.
NoCallOnceLeft ==
    [][\A h \in left' : inside' = h =>
           inside = h /\ (h \in left \/ subject[Dispatcher] = h)]_vars

\* Every call of subscribe() and disconnect() returns, although disconnect()
\* waits for the parent and for the handlers of this publisher.
CallsReturn == \A t \in Threads : at[t] # "idle" ~> at[t] = "idle"

\* What is queued reaches every handler subscribed for it that does not leave.
QueuedIsReceived ==
    \A h \in Handlers, n \in 1..MaxPushes :
        (h \in live /\ n <= pushes /\ n > since[h] /\ kind[n] = TypeOf[h])
            ~> (h \notin live \/ Got(h, n))
=============================================================================
