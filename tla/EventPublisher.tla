--------------------------- MODULE EventPublisher ---------------------------
(***************************************************************************)
(* packages/core/include/EventPublisherBase.h: threads subscribe handlers  *)
(* to types of event, publish events and disconnect handlers.  A handler   *)
(* runs on the publishing thread and may itself subscribe, publish and     *)
(* disconnect, so a thread has a stack of calls.                           *)
(*                                                                         *)
(* m_signalMapMutex is the lock of ReadersWriters, which ReadWriteMutex    *)
(* implements.  The recursive mutex of a type is held by the thread that   *)
(* has a call at a location between its lock and its release, so it needs  *)
(* no variable.                                                            *)
(*                                                                         *)
(* Two threads inside the same container or signal, one of them writing,   *)
(* are a data race.  The model says so (Racing) and goes no further.       *)
(* What publish() does with m_hub is left out: it holds nothing then.      *)
(***************************************************************************)
EXTENDS Naturals, Sequences, FiniteSets, SequencesExt

CONSTANTS
    Threads,
    Types,
    Handlers,       \* subscriptions, each made at most once
    TypeOf,         \* the type each of them is for
    Uses,           \* the types whose events and handlers the handlers of a type deal with
    MaxCalls        \* bound: calls each thread makes, those of its handlers included

ASSUME TypeOfAssumption == TypeOf \in [Handlers -> Types]
ASSUME UsesAssumption == Uses \in [Types -> SUBSET Types]
ASSUME MaxCallsAssumption == MaxCalls \in Nat

NoHandler == "none"
Nobody == "nobody"

ASSUME NobodyAssumption == Nobody \notin Threads

VARIABLES
    mapPhase,       \* m_signalMapMutex: what each thread is doing with it
    mutexes,        \* the keys of m_signalMutexes
    signals,        \* the keys of m_signals
    slots,          \* the handlers connected to each signal, in order
    stack,          \* the calls each thread is in, the innermost first
    calls,          \* how many calls each thread has made
    connected,      \* handlers whose subscribe() has returned (Connection::m_connected)
    disconnector    \* history: the thread that took each handler off its signal

vars == <<mapPhase, mutexes, signals, slots, stack, calls, connected, disconnector>>

Lock == INSTANCE ReadersWriters WITH phase <- mapPhase

Operations == {"subscribe", "publish", "unSubscribe"}

\* map: before or inside the map lock.  sig: asking for the mutex of the type.
\* lookup, call, running: holding it, looking the signal up, working on the
\* signal, inside one of its handlers.
Locations == {"map", "sig", "lookup", "call", "running"}

\* A publish call carries the handlers it owes a call to and those it has called.
Frames == [op : Operations, type : Types, handler : Handlers \cup {NoHandler},
           at : Locations, due : SUBSET Handlers, done : SUBSET Handlers]

Busy == {t \in Threads : stack[t] # <<>>}
Top(t) == stack[t][1]
IsAt(t, op, loc) == t \in Busy /\ Top(t).op = op /\ Top(t).at = loc

Holds(t, type) ==
    \E i \in DOMAIN stack[t] :
        stack[t][i].type = type /\ stack[t][i].at \in {"lookup", "call", "running"}

Inside(t, h) ==
    \E i \in DOMAIN stack[t] : stack[t][i].at = "running" /\ stack[t][i].handler = h

-----------------------------------------------------------------------------
(* Data races *)

\* What a thread is reading or writing.  operator[] of a map writes when the
\* key is new; calling a signal also updates its bookkeeping.
Accesses(t) ==
    IF t \notin Busy THEN {} ELSE
    CASE mapPhase[t] = "reading" -> {[object |-> "mutexes", writes |-> Top(t).type \notin mutexes]}
      [] mapPhase[t] = "writing" -> {[object |-> "signals", writes |-> Top(t).type \notin signals],
                                     [object |-> Top(t).type, writes |-> TRUE]}
      [] Top(t).at = "lookup" -> {[object |-> "signals", writes |-> Top(t).type \notin signals]}
      [] Top(t).at = "call" -> {[object |-> Top(t).type, writes |-> TRUE]}
      [] OTHER -> {}

Collide(t, u) ==
    /\ t # u
    /\ \E a \in Accesses(t), b \in Accesses(u) :
           a.object = b.object /\ (a.writes \/ b.writes)

Racing == \E t, u \in Threads : Collide(t, u)

-----------------------------------------------------------------------------

TypeOK ==
    /\ Lock!TypeOK
    /\ mutexes \in SUBSET Types
    /\ signals \in SUBSET Types
    /\ slots \in [Types -> Seq(Handlers)]
    /\ \A type \in Types : \A h \in ToSet(slots[type]) : TypeOf[h] = type
    /\ stack \in [Threads -> Seq(Frames)]
    /\ calls \in [Threads -> 0..MaxCalls]
    /\ connected \in SUBSET Handlers
    /\ disconnector \in [Handlers -> Threads \cup {Nobody}]
    /\ \A t \in Threads : mapPhase[t] # "idle" => t \in Busy /\ Top(t).at = "map"

Init ==
    /\ Lock!Init
    /\ mutexes = {}
    /\ signals = {}
    /\ slots = [type \in Types |-> <<>>]
    /\ stack = [t \in Threads |-> <<>>]
    /\ calls = [t \in Threads |-> 0]
    /\ connected = {}
    /\ disconnector = [h \in Handlers |-> Nobody]

SetTop(t, frame) == stack' = [stack EXCEPT ![t] = <<frame>> \o Tail(@)]
Goto(t, loc) == SetTop(t, [Top(t) EXCEPT !.at = loc])
Return(t) == stack' = [stack EXCEPT ![t] = Tail(@)]

\* A call is made from outside, or by the handler the thread is in.
Call(t, op, type, h) ==
    /\ calls[t] < MaxCalls
    /\ t \in Busy => Top(t).at = "running" /\ type \in Uses[Top(t).type]
    /\ calls' = [calls EXCEPT ![t] = @ + 1]
    /\ stack' = [stack EXCEPT ![t] = <<[op |-> op, type |-> type, handler |-> h,
                                        at |-> "map", due |-> {}, done |-> {}]>> \o @]
    /\ UNCHANGED <<mapPhase, mutexes, signals, slots, connected, disconnector>>

-----------------------------------------------------------------------------
(* subscribe *)

Subscribe(t, h) ==
    /\ h \notin connected
    /\ disconnector[h] = Nobody
    /\ \A u \in Busy : \A i \in DOMAIN stack[u] :
           ~(stack[u][i].op = "subscribe" /\ stack[u][i].handler = h)
    /\ Call(t, "subscribe", TypeOf[h], h)

AskMap(t) ==
    /\ IsAt(t, "subscribe", "map")
    /\ Lock!AskWrite(t)
    /\ UNCHANGED <<mutexes, signals, slots, stack, calls, connected, disconnector>>

EnterMap(t) ==
    /\ IsAt(t, "subscribe", "map")
    /\ Lock!StartWrite(t)
    /\ UNCHANGED <<mutexes, signals, slots, stack, calls, connected, disconnector>>

\* m_signals[type].connect(handler), with the map lock and without the mutex
\* of the type.
Connect(t) ==
    LET f == Top(t) IN
    /\ IsAt(t, "subscribe", "map")
    /\ mapPhase[t] = "writing"
    /\ Lock!Finish(t)
    /\ signals' = signals \cup {f.type}
    /\ slots' = [slots EXCEPT ![f.type] = Append(@, f.handler)]
    /\ connected' = connected \cup {f.handler}
    /\ Return(t)
    /\ UNCHANGED <<mutexes, calls, disconnector>>

-----------------------------------------------------------------------------
(* The mutex of a type: publish and unSubscribe *)

Publish(t, type) == Call(t, "publish", type, NoHandler)

\* Connection::disconnect, on the connection subscribe() returned.
Disconnect(t, h) == h \in connected /\ Call(t, "unSubscribe", TypeOf[h], h)

ReadMap(t) ==
    /\ IsAt(t, "publish", "map") \/ IsAt(t, "unSubscribe", "map")
    /\ Lock!StartRead(t)
    /\ UNCHANGED <<mutexes, signals, slots, stack, calls, connected, disconnector>>

\* Mutant: the read lock is kept until the call returns.
FindKeepsMap(t) ==
    /\ mapPhase[t] = "reading"
    /\ mutexes' = mutexes \cup {Top(t).type}
    /\ Goto(t, "sig")
    /\ UNCHANGED <<mapPhase, signals, slots, calls, connected, disconnector>>

\* m_signalMutexes[type] creates the mutex at its first use, under a read lock.
FindMutex(t) ==
    /\ mapPhase[t] = "reading"
    /\ Lock!Finish(t)
    /\ mutexes' = mutexes \cup {Top(t).type}
    /\ Goto(t, "sig")
    /\ UNCHANGED <<signals, slots, calls, connected, disconnector>>

\* Mutant: the mutex of the type is not asked for.
LockNothing(t) ==
    /\ t \in Busy /\ Top(t).at = "sig"
    /\ Goto(t, IF Top(t).op = "publish" THEN "lookup" ELSE "call")
    /\ UNCHANGED <<mapPhase, mutexes, signals, slots, calls, connected, disconnector>>

\* Mutant: the mutex is not recursive.
LockOnce(t) ==
    /\ t \in Busy /\ Top(t).at = "sig"
    /\ \A u \in Threads : ~Holds(u, Top(t).type)
    /\ Goto(t, IF Top(t).op = "publish" THEN "lookup" ELSE "call")
    /\ UNCHANGED <<mapPhase, mutexes, signals, slots, calls, connected, disconnector>>

\* The mutex is recursive: a handler may deal with its own type.
LockSignal(t) ==
    /\ t \in Busy /\ Top(t).at = "sig"
    /\ \A u \in Threads \ {t} : ~Holds(u, Top(t).type)
    /\ Goto(t, IF Top(t).op = "publish" THEN "lookup" ELSE "call")
    /\ UNCHANGED <<mapPhase, mutexes, signals, slots, calls, connected, disconnector>>

-----------------------------------------------------------------------------
(* publish *)

\* m_signals[subscribeType], without the map lock.
LookUp(t) ==
    LET f == Top(t) IN
    /\ IsAt(t, "publish", "lookup")
    /\ signals' = signals \cup {f.type}
    /\ SetTop(t, [f EXCEPT !.at = "call", !.due = ToSet(slots[f.type])])
    /\ UNCHANGED <<mapPhase, mutexes, slots, calls, connected, disconnector>>

\* The signal calls its handlers in the order they were connected.
CallHandler(t) ==
    LET f == Top(t) IN
    /\ IsAt(t, "publish", "call")
    /\ \E i \in DOMAIN slots[f.type] :
        /\ slots[f.type][i] \notin f.done
        /\ \A j \in 1..(i - 1) : slots[f.type][j] \in f.done
        /\ SetTop(t, [f EXCEPT !.at = "running", !.handler = slots[f.type][i]])
    /\ UNCHANGED <<mapPhase, mutexes, signals, slots, calls, connected, disconnector>>

HandlerReturns(t) ==
    LET f == Top(t) IN
    /\ IsAt(t, "publish", "running")
    /\ SetTop(t, [f EXCEPT !.at = "call", !.handler = NoHandler, !.done = @ \cup {f.handler}])
    /\ UNCHANGED <<mapPhase, mutexes, signals, slots, calls, connected, disconnector>>

\* Whether handlers connected in the meantime are called is left open by the signal.
PublishReturns(t) ==
    LET f == Top(t) IN
    /\ IsAt(t, "publish", "call")
    /\ f.due \cap ToSet(slots[f.type]) \subseteq f.done
    /\ Return(t)
    /\ UNCHANGED <<mapPhase, mutexes, signals, slots, calls, connected, disconnector>>

-----------------------------------------------------------------------------
(* unSubscribe *)

\* Mutant: the flag is lowered and the handler left on the signal.
TakeOffNothing(t) ==
    LET f == Top(t) IN
    /\ IsAt(t, "unSubscribe", "call")
    /\ disconnector' = [disconnector EXCEPT ![f.handler] = IF @ = Nobody THEN t ELSE @]
    /\ connected' = connected \ {f.handler}
    /\ Return(t)
    /\ UNCHANGED <<mapPhase, mutexes, signals, slots, calls>>

Without(s, h) == IF h \in ToSet(s) THEN RemoveAt(s, CHOOSE i \in DOMAIN s : s[i] = h) ELSE s

\* connection.disconnect(), which does nothing the second time, and m_connected.
TakeOff(t) ==
    LET f == Top(t) IN
    /\ IsAt(t, "unSubscribe", "call")
    /\ slots' = [slots EXCEPT ![f.type] = Without(@, f.handler)]
    /\ disconnector' = [disconnector EXCEPT ![f.handler] = IF @ = Nobody THEN t ELSE @]
    /\ connected' = connected \ {f.handler}
    /\ Return(t)
    /\ UNCHANGED <<mapPhase, mutexes, signals, calls>>

-----------------------------------------------------------------------------

\* What a thread does inside a call.
Step(t) ==
    \/ AskMap(t) \/ EnterMap(t) \/ Connect(t)
    \/ ReadMap(t) \/ FindMutex(t) \/ LockSignal(t)
    \/ LookUp(t) \/ CallHandler(t) \/ HandlerReturns(t) \/ PublishReturns(t)
    \/ TakeOff(t)

Next ==
    /\ ~Racing
    /\ \E t \in Threads :
        \/ \E h \in Handlers : Subscribe(t, h)
        \/ \E type \in Types : Publish(t, type)
        \/ \E h \in Handlers : Disconnect(t, h)
        \/ AskMap(t)
        \/ EnterMap(t)
        \/ Connect(t)
        \/ ReadMap(t)
        \/ FindMutex(t)
        \/ LockSignal(t)
        \/ LookUp(t)
        \/ CallHandler(t)
        \/ HandlerReturns(t)
        \/ PublishReturns(t)
        \/ TakeOff(t)

Spec == Init /\ [][Next]_vars

\* Threads are scheduled and handlers return.  Nobody is obliged to make a call.
FairSpec == Spec /\ \A t \in Threads : WF_vars(~Racing /\ Step(t))

-----------------------------------------------------------------------------
(* Properties *)

\* What the locks do protect ("Protects access to map of types->signals" and
\* "Protects access to each signal (they are not thread safe)",
\* EventPublisherBase.h:102, 105): of two threads that collide, one is in
\* subscribe() or uses its type for the first time.  Publishing and
\* disconnecting never collide otherwise.
RacesOnlyWithNewcomers ==
    \A t, u \in Threads : Collide(t, u) =>
        \E v \in {t, u} : Top(v).op = "subscribe" \/ Top(v).at \in {"map", "lookup"}

\* Handlers of one type never run on two threads at once.
HandlersSerialised ==
    \A t, u \in Threads : \A h, k \in Handlers :
        Inside(t, h) /\ Inside(u, k) /\ TypeOf[h] = TypeOf[k] => t = u

\* Once disconnect() has returned the handler is not running and never runs
\* again, so what it points to may be deleted (Recorder::cleanUp relies on it).
\* Only a handler that took itself off may still be on its way out.
NoCallAfterDisconnect ==
    \A h \in Handlers, t \in Threads :
        disconnector[h] # Nobody /\ Inside(t, h) => t = disconnector[h]

\* What a handler may rely on, however publishers, handlers that call back and
\* disconnecting threads interleave.
HandlersGuarded == TypeOK /\ HandlersSerialised /\ NoCallAfterDisconnect

\* Every call returns, as long as the handlers of different types do not wait
\* for each other in a circle (Uses has none but a type using itself).
CallsReturn == \A t \in Threads : stack[t] # <<>> ~> stack[t] = <<>> \/ Racing
=============================================================================
