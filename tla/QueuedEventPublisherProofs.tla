---------------------- MODULE QueuedEventPublisherProofs ----------------------
(***************************************************************************)
(* What subscribing to a QueuedEventPublisher promises, for any number of  *)
(* users, publishers, types, handlers and events: while a handler is       *)
(* subscribed the parent is, no event passes it by, and it gets each one   *)
(* once and in its turn.  What the queue does is taken from                *)
(* ThreadedQueueProofs.                                                    *)
(***************************************************************************)
EXTENDS QueuedEventPublisher, FiniteSetTheorems, SequenceTheorems, TLAPS

Q == INSTANCE ThreadedQueueProofs WITH Consumers <- {Dispatcher}

T == taken[Dispatcher]

\* The queue has one consumer, whom nobody overtakes and who waits for an item
\* between two events only.
QueueInv ==
    /\ Q!OrderInv /\ Q!WokenInv /\ excused = {}
    /\ kind \in Seq(Types) /\ Len(kind) = pushes
    /\ call[Dispatcher] # "none" => ~dispatching
    /\ dispatching => Len(T) > 0

\* The places where m_connectionsMutex is held.
Owning == {"connectParent", "connect", "release", "disconnectParent"}

\* The types of what is not the queue's.
OwnTypes ==
    /\ publishing \in [Publishers -> Types \cup {NoType}]
    /\ parentConnected \subseteq Types
    /\ owner \in Threads \cup {Nobody}
    /\ refs \in [Types -> 0..Cardinality(Handlers)]
    /\ slots \subseteq Handlers /\ live \subseteq Handlers /\ left \subseteq Handlers
    /\ missed \subseteq Handlers /\ uncalled \subseteq Handlers
    /\ at \in [Threads -> Locations]
    /\ subject \in [Threads -> Handlers \cup {NoHandler}]
    /\ dispatching \in BOOLEAN
    /\ inside \in Handlers \cup {NoHandler}
    /\ since \in [Handlers -> 0..MaxPushes]
    /\ received \in [Handlers -> Seq(1..MaxPushes)]

\* The handler a call is about, and that it is in no other call.
CallInv ==
    /\ owner # Nobody => at[owner] \in Owning
    /\ \A t \in Threads :
        /\ at[t] = "idle" <=> subject[t] = NoHandler
        /\ at[t] \in Owning => owner = t
        /\ at[t] \in {"subscribe", "connectParent", "connect"} => subject[t] \notin slots \cup live
        /\ at[t] \in {"disconnect", "release", "disconnectParent", "takeOff"} => subject[t] \in slots \ live
    /\ \A t, u \in Threads : subject[t] = subject[u] /\ subject[t] # NoHandler => t = u
    /\ live \subseteq slots

\* The handlers that have been counted in the record of their type.
Counts(h) ==
    \/ h \in slots /\ \A t \in Threads : subject[t] = h => at[t] \in {"disconnect", "release"}
    \/ \E t \in Threads : subject[t] = h /\ at[t] = "connect"

Counted(type) == {h \in Of(type) : Counts(h)}

\* The records count them, and the parent is connected for the types that have
\* any, or had until now.
CountInv ==
    /\ \A type \in Types :
        /\ refs[type] = Cardinality(Counted(type))
        /\ type \in parentConnected <=>
               \/ Counted(type) # {}
               \/ \E t \in Threads : at[t] = "disconnectParent" /\ TypeOf[subject[t]] = type
    /\ \A t \in Threads : at[t] = "disconnectParent" => Counted(TypeOf[subject[t]]) = {}

\* Each handler has got all that was popped since it subscribed, in order, but for
\* the event that is being dispatched.
ReceiveInv ==
    /\ missed = {}
    /\ \A h \in Handlers :
        /\ \A i \in 1..Len(received[h]) : Len(T) > 0 /\ received[h][i] <= T[Len(T)]
        /\ \A i, j \in 1..Len(received[h]) : i < j => received[h][i] < received[h][j]
        /\ dispatching /\ h \in uncalled => \A i \in 1..Len(received[h]) : received[h][i] # T[Len(T)]
        /\ h \in live => \A i \in 1..Len(T) :
               T[i] > since[h] /\ kind[T[i]] = TypeOf[h] =>
                   \/ \E j \in 1..Len(received[h]) : received[h][j] = T[i]
                   \/ dispatching /\ i = Len(T) /\ h \in uncalled

IInv == OwnTypes /\ QueueInv /\ CallInv /\ CountInv /\ ReceiveInv

-----------------------------------------------------------------------------
(* The queue *)

\* What ThreadedQueue assumes is so here.
LEMMA QueueAssumptions == Q!ConsumersAssumption /\ Q!MaxPushesAssumption
<1>1. Q!ConsumersAssumption
  BY FS_Singleton DEF Q!ConsumersAssumption, Q!IsFiniteSet, IsFiniteSet
<1>2. Q!MaxPushesAssumption
  BY MaxPushesAssumption DEF Q!MaxPushesAssumption
<1>. QED BY <1>1, <1>2

\* The queue takes one of its steps or none.
LEMMA QueueStep ==
    ASSUME Q!OrderInv, Q!WokenInv,
           \/ Queue!Push \/ Queue!Pop(Dispatcher) \/ Queue!Wait(Dispatcher, "popWait")
           \/ Queue!Woken(Dispatcher) \/ UNCHANGED <<queue, pushes, blocked, call, taken, excused, undefined>>
    PROVE  Q!OrderInv' /\ Q!WokenInv'
<1>1. [Q!Next]_(Q!vars)
  BY DEF Q!Next, Q!vars, Q!Push, Queue!Push, Q!Pop, Queue!Pop, Q!Wait, Queue!Wait, Q!Woken, Queue!Woken,
         Q!Take, Queue!Take, Q!Ready, Queue!Ready, Q!Awake, Queue!Awake, Q!Waiting, Queue!Waiting
<1>. QED BY <1>1, QueueAssumptions, Q!NextOrderInv, Q!NextWokenInv

\* The types of the queue.
LEMMA QueueTypes == Q!OrderInv => Queue!TypeOK
BY DEF Q!OrderInv, Q!TypeOK, Queue!TypeOK, Q!Waiting, Queue!Waiting, Q!Calls, Queue!Calls

\* The dispatcher that is woken finds an item.
LEMMA WokenFindsItem ==
    ASSUME QueueInv, Queue!Woken(Dispatcher)
    PROVE  queue # <<>> /\ Queue!Take(Dispatcher)
<1>1. Dispatcher \in Q!Awake
  BY DEF Queue!Woken, Queue!Awake, Queue!Waiting, Q!Awake, Q!Waiting
<1>2. queue # <<>>
  BY <1>1 DEF QueueInv, Q!WokenInv
<1>. QED BY <1>2 DEF Queue!Woken

\* A pop leaves nobody excused.
LEMMA TakeExcuses == ASSUME QueueInv, Queue!Take(Dispatcher) PROVE excused' = {}
BY DEF QueueInv, Queue!Take, Queue!Waiting

\* What the queue, and what was taken from it, consist of.
LEMMA QueueFacts ==
    ASSUME QueueInv
    PROVE  /\ queue \in Seq(1..MaxPushes) /\ T \in Seq(1..MaxPushes)
           /\ taken \in [{Dispatcher} -> Seq(1..MaxPushes)] /\ pushes \in 0..MaxPushes
           /\ pushes \in Nat /\ Len(queue) \in Nat /\ Len(queue) <= pushes /\ Len(T) \in Nat
           /\ \A i \in 1..Len(T) : T[i] \in 1..MaxPushes /\ T[i] \in Nat /\ T[i] <= pushes - Len(queue)
<1>1. /\ queue \in Seq(1..MaxPushes) /\ taken \in [{Dispatcher} -> Seq(1..MaxPushes)]
      /\ pushes \in 0..MaxPushes
  BY DEF QueueInv, Q!OrderInv, Q!TypeOK
<1>2. T \in Seq(1..MaxPushes)
  BY <1>1 DEF T
<1>3. pushes \in Nat /\ Len(queue) \in Nat /\ Len(T) \in Nat
  BY <1>1, <1>2
<1>4. Len(queue) <= pushes /\ \A i \in 1..Len(T) : T[i] <= pushes - Len(queue)
  BY DEF QueueInv, Q!OrderInv, T
<1>5. \A i \in 1..Len(T) : T[i] \in 1..MaxPushes
  BY <1>2, ElementOfSeq
<1>6. \A i \in 1..Len(T) : T[i] \in Nat
  BY <1>5
<1>. QED BY <1>1, <1>2, <1>3, <1>4, <1>5, <1>6

\* The item popped is greater than all before.
LEMMA TakeInOrder ==
    ASSUME QueueInv, Queue!Take(Dispatcher)
    PROVE  /\ Head(queue) \in 1..MaxPushes /\ Head(queue) \in 1..pushes
           /\ T' = Append(T, Head(queue)) /\ T' \in Seq(1..MaxPushes)
           /\ T \in Seq(1..MaxPushes)
           /\ \A i \in 1..Len(T) : T[i] < Head(queue)
<1>1. queue # <<>> /\ taken' = [taken EXCEPT ![Dispatcher] = Append(@, Head(queue))]
  BY DEF Queue!Take
<1>2. Head(queue) = queue[1] /\ Len(queue) >= 1
  BY <1>1, QueueFacts, EmptySeq
<1>3. T' = Append(T, Head(queue))
  BY <1>1, QueueFacts DEF T
<1>4. queue[1] = pushes - Len(queue) + 1
  BY <1>2, QueueFacts DEF QueueInv, Q!OrderInv
<1>5. queue[1] \in 1..MaxPushes
  <2>1. queue \in Seq(1..MaxPushes) /\ 1 \in 1..Len(queue)
    BY <1>2, QueueFacts
  <2>. QED BY <2>1, ElementOfSeq
<1>6. T' \in Seq(1..MaxPushes)
  BY <1>2, <1>3, <1>5, QueueFacts
<1>7. \A i \in 1..Len(T) : T[i] < Head(queue)
  <2>. TAKE i \in 1..Len(T)
  <2>1. T[i] \in Nat /\ T[i] <= pushes - Len(queue) /\ pushes \in Nat /\ Len(queue) \in Nat
    BY QueueFacts
  <2>. QED BY <1>2, <1>4, <2>1
<1>8. Head(queue) \in 1..pushes
  <2>1. pushes \in Nat /\ Len(queue) \in Nat /\ Len(queue) <= pushes
    BY QueueFacts
  <2>. QED BY <1>2, <1>4, <2>1
<1>. QED BY <1>2, <1>3, <1>5, <1>6, <1>7, <1>8, QueueFacts

\* A step that leaves the queue alone.
LEMMA KeepQueue ==
    ASSUME QueueInv, UNCHANGED queueVars, dispatching' => dispatching
    PROVE  QueueInv'
<1>1. Q!OrderInv' /\ Q!WokenInv'
  BY QueueStep DEF QueueInv, queueVars
<1>2. UNCHANGED <<pushes, call, excused, kind>> /\ T' = T
  BY DEF queueVars, T
<1>3. /\ excused' = {}
      /\ kind' \in Seq(Types) /\ Len(kind') = pushes'
      /\ call'[Dispatcher] # "none" => ~dispatching'
  BY <1>2 DEF QueueInv
<1>4. dispatching' => Len(T') > 0
  BY <1>2 DEF QueueInv
<1>. QED BY <1>1, <1>3, <1>4 DEF QueueInv

\* A step that leaves the records alone.
LEMMA KeepCount ==
    ASSUME CountInv, UNCHANGED <<refs, parentConnected, slots, at, subject>>
    PROVE  CountInv'
BY DEF CountInv, Counted, Counts, Of

\* A step of a call that changes no count.
LEMMA KeepCounted ==
    ASSUME \A h \in Handlers : Counts(h)' <=> Counts(h)
    PROVE  \A type : Counted(type)' = Counted(type)
BY DEF Counted, Of

\* A step that dispatches nothing.
LEMMA KeepReceive ==
    ASSUME ReceiveInv, UNCHANGED <<queueVars, dispatchVars, since, missed>>, live' \subseteq live
    PROVE  ReceiveInv'
BY DEF ReceiveInv, queueVars, dispatchVars, T

\* Sets of handlers are finite.
LEMMA SubsetFinite ==
    ASSUME NEW S, S \subseteq Handlers
    PROVE  IsFiniteSet(S) /\ Cardinality(S) \in Nat /\ Cardinality(S) \in 0..Cardinality(Handlers)
<1>1. IsFiniteSet(S) /\ Cardinality(S) <= Cardinality(Handlers)
  BY HandlersAssumption, FS_Subset
<1>2. Cardinality(S) \in Nat /\ Cardinality(Handlers) \in Nat
  BY <1>1, HandlersAssumption, FS_CardinalityType
<1>. QED BY <1>1, <1>2

\* So is what is counted.
LEMMA CountedFinite ==
    \A type : IsFiniteSet(Counted(type)) /\ Cardinality(Counted(type)) \in Nat
<1>. TAKE type
<1>1. Counted(type) \subseteq Handlers
  BY DEF Counted, Of
<1>. QED BY <1>1, SubsetFinite

-----------------------------------------------------------------------------
(* The invariant says what is wanted *)

\* With m_connectionsMutex free the counted are those the property speaks of.
LEMMA IInvImplies == IInv => Delivery
<1>. SUFFICES ASSUME IInv PROVE Delivery
  OBVIOUS
<1>1. ParentFollowsHandlers
  <2>. SUFFICES ASSUME owner = Nobody, NEW type \in Types
                PROVE  /\ refs[type] = Cardinality({h \in Of(type) \cap slots : \A t \in Threads :
                              subject[t] = h => at[t] \in {"disconnect", "release"}})
                       /\ type \in parentConnected <=> refs[type] > 0
    BY DEF ParentFollowsHandlers
  <2>1. \A t \in Threads : at[t] \notin Owning
    BY NobodyAssumption DEF IInv, CallInv
  <2>2. Counted(type) = {h \in Of(type) \cap slots : \A t \in Threads :
                             subject[t] = h => at[t] \in {"disconnect", "release"}}
    BY <2>1 DEF Counted, Counts, Owning
  <2>3. type \in parentConnected <=> Counted(type) # {}
    BY <2>1 DEF IInv, CountInv, Owning
  <2>4. Counted(type) # {} <=> Cardinality(Counted(type)) # 0
    BY CountedFinite, FS_EmptySet
  <2>5. refs[type] = Cardinality(Counted(type)) /\ Cardinality(Counted(type)) \in Nat
    BY CountedFinite, HandlersAssumption, FS_CardinalityType DEF IInv, CountInv
  <2>. QED BY <2>2, <2>3, <2>4, <2>5
<1>2. NothingMissed
  BY DEF IInv, ReceiveInv, NothingMissed
<1>3. InOrderWithoutGaps
  <2>1. \A h \in Handlers : received[h] \in Seq(1..MaxPushes) /\ DOMAIN received[h] = 1..Len(received[h])
    BY DEF IInv, OwnTypes
  <2>2. ASSUME NEW h \in Handlers
        PROVE  \A i, j \in DOMAIN received[h] : i < j => received[h][i] < received[h][j]
    BY <2>1 DEF IInv, ReceiveInv
  <2>3. ASSUME NEW h \in Handlers, h \in live, ~dispatching, NEW i \in 1..Current,
               taken[Dispatcher][i] > since[h], kind[taken[Dispatcher][i]] = TypeOf[h]
        PROVE  Got(h, taken[Dispatcher][i])
    BY <2>1, <2>3 DEF IInv, ReceiveInv, Got, Current, T
  <2>. QED BY <2>2, <2>3 DEF InOrderWithoutGaps
<1>4. TypeOK
  <2>1. Queue!TypeOK /\ kind \in Seq(Types) /\ Len(kind) = pushes
    BY QueueTypes DEF IInv, QueueInv
  <2>2. owner \in {Nobody} \cup {t \in Threads : at[t] \in Owning}
    BY DEF IInv, OwnTypes, CallInv
  <2>. QED BY <2>1, <2>2 DEF IInv, OwnTypes, TypeOK, Owning
<1>. QED BY <1>1, <1>2, <1>3, <1>4 DEF Delivery

\* At first there is nothing of anything.
LEMMA InitIInv == Init => IInv
<1>. SUFFICES ASSUME Init PROVE IInv
  OBVIOUS
<1>1. Q!Init
  BY DEF Init, Queue!Init, Q!Init
<1>2. Q!OrderInv /\ Q!WokenInv
  BY <1>1, QueueAssumptions, Q!InitOrderInv, Q!InitWokenInv
<1>3. QueueInv
  BY <1>1, <1>2 DEF Init, Q!Init, QueueInv
<1>4. Cardinality(Handlers) \in Nat
  BY HandlersAssumption, FS_CardinalityType
<1>5. OwnTypes
  <2>1. refs \in [Types -> 0..Cardinality(Handlers)] /\ since \in [Handlers -> 0..MaxPushes]
    BY <1>4, MaxPushesAssumption DEF Init
  <2>2. received \in [Handlers -> Seq(1..MaxPushes)]
    BY DEF Init
  <2>3. at \in [Threads -> Locations]
    BY DEF Init, Locations
  <2>. QED BY <2>1, <2>2, <2>3 DEF Init, OwnTypes
<1>6. CallInv
  BY DEF Init, CallInv, Owning
<1>7. \A type \in Types : Counted(type) = {}
  BY DEF Init, Counted, Counts
<1>8. CountInv
  BY <1>7, FS_EmptySet DEF Init, CountInv
<1>9. ReceiveInv
  BY <1>1 DEF Init, ReceiveInv, T, Q!Init
<1>. QED BY <1>3, <1>5, <1>6, <1>8, <1>9 DEF IInv

-----------------------------------------------------------------------------
(* The parent *)

\* An event that is queued,
LEMMA PushQueue ==
    ASSUME QueueInv, NEW type \in Types, Enqueue(type), dispatching' = dispatching
    PROVE  QueueInv'
<1>1. Q!OrderInv' /\ Q!WokenInv'
  BY QueueStep DEF QueueInv, Enqueue
<1>2. UNCHANGED <<call, excused, taken>> /\ pushes' = pushes + 1 /\ kind' = Append(kind, type)
  BY DEF Enqueue, Queue!Push
<1>3. kind' \in Seq(Types) /\ Len(kind') = pushes'
  BY <1>2 DEF QueueInv
<1>4. T' = T
  BY <1>2 DEF T
<1>5. excused' = {} /\ (call'[Dispatcher] # "none" => ~dispatching')
  BY <1>2 DEF QueueInv
<1>6. dispatching' => Len(T') > 0
  BY <1>4 DEF QueueInv
<1>. QED BY <1>1, <1>3, <1>5, <1>6 DEF QueueInv

\* changes nothing for those that are popped.
LEMMA PushReceive ==
    ASSUME IInv, NEW type \in Types, Enqueue(type), UNCHANGED <<dispatchVars, live, since, missed>>
    PROVE  ReceiveInv'
<1>1. T' = T
  BY DEF Enqueue, Queue!Push, T
<1>2. \A i \in 1..Len(T) : kind'[T[i]] = kind[T[i]]
  <2>. TAKE i \in 1..Len(T)
  <2>1. T[i] <= pushes - Len(queue) /\ T[i] \in 1..MaxPushes /\ Len(queue) \in Nat /\ pushes \in Nat
    BY QueueFacts DEF IInv
  <2>2. kind \in Seq(Types) /\ Len(kind) = pushes
    BY DEF IInv, QueueInv
  <2>3. T[i] \in 1..Len(kind)
    BY <2>1, <2>2
  <2>. QED BY <2>2, <2>3 DEF Enqueue
<1>. QED BY <1>1, <1>2 DEF IInv, ReceiveInv, dispatchVars

\* The parent takes the mutex of a type.
LEMMA ParentPublishIInv ==
    ASSUME IInv, NEW p \in Publishers, NEW type \in Types, ParentPublish(p, type)
    PROVE  IInv'
<1>. USE DEF ParentPublish, queueVars, connectVars, dispatchVars, historyVars
<1>1. QueueInv'
  BY KeepQueue DEF IInv
<1>2. OwnTypes'
  BY DEF IInv, OwnTypes, Locations
<1>3. CallInv'
  BY DEF IInv, OwnTypes, CallInv, Owning
<1>4. CountInv'
  BY KeepCount DEF IInv
<1>5. ReceiveInv'
  BY KeepReceive DEF IInv
<1>. QED BY <1>1, <1>2, <1>3, <1>4, <1>5 DEF IInv

\* It calls queueEvent or not.
LEMMA ParentCallsIInv ==
    ASSUME IInv, NEW p \in Publishers, ParentCalls(p)
    PROVE  IInv'
<1>. USE DEF ParentCalls, queueVars, connectVars, dispatchVars, historyVars
<1>m. missed' = missed /\ UNCHANGED <<dispatchVars, live, since, connectVars>> /\ missed = {}
  <2>1. ASSUME publishing[p] \notin parentConnected PROVE live \cap Of(publishing[p]) = {}
    <3>1. publishing[p] \in Types
      BY DEF IInv, OwnTypes
    <3>2. Counted(publishing[p]) = {}
      BY <2>1, <3>1 DEF IInv, CountInv
    <3>3. ASSUME NEW h \in live PROVE Counts(h)
      <4>1. h \in slots /\ h # NoHandler
        BY HandlersAssumption DEF IInv, CallInv, OwnTypes
      <4>2. ASSUME NEW t \in Threads, subject[t] = h PROVE FALSE
        BY <4>1, <4>2 DEF IInv, CallInv, OwnTypes, Locations
      <4>. QED BY <4>1, <4>2 DEF Counts
    <3>. QED BY <3>2, <3>3 DEF Counted, Of
  <2>. QED BY <2>1 DEF IInv, ReceiveInv
<1>1. QueueInv'
  <2>1. CASE publishing[p] \in parentConnected
    <3>1. publishing[p] \in Types
      BY <2>1 DEF IInv, OwnTypes
    <3>2. Enqueue(publishing[p]) /\ dispatching' = dispatching
      BY <2>1 DEF Enqueue
    <3>. QED BY <3>1, <3>2, PushQueue DEF IInv
  <2>2. CASE publishing[p] \notin parentConnected
    BY <2>2, KeepQueue DEF IInv
  <2>. QED BY <2>1, <2>2
<1>2. OwnTypes'
  BY <1>m DEF IInv, OwnTypes
<1>3. CallInv'
  BY DEF IInv, OwnTypes, CallInv, Owning
<1>4. CountInv'
  BY KeepCount DEF IInv
<1>5. ReceiveInv'
  <2>1. CASE publishing[p] \in parentConnected
    BY <1>m, <2>1, PushReceive DEF IInv, OwnTypes
  <2>2. CASE publishing[p] \notin parentConnected
    BY <1>m, <2>2, KeepReceive DEF IInv
  <2>. QED BY <2>1, <2>2
<1>. QED BY <1>1, <1>2, <1>3, <1>4, <1>5 DEF IInv

\* publish() of this publisher.
LEMMA PublishIInv ==
    ASSUME IInv, NEW type \in Types, Publish(type)
    PROVE  IInv'
<1>. USE DEF Publish, queueVars, connectVars, dispatchVars, historyVars
<1>1. QueueInv'
  BY PushQueue DEF IInv
<1>2. OwnTypes'
  BY DEF IInv, OwnTypes, Locations
<1>3. CallInv'
  BY DEF IInv, OwnTypes, CallInv, Owning
<1>4. CountInv'
  BY KeepCount DEF IInv
<1>5. ReceiveInv'
  BY PushReceive DEF IInv
<1>. QED BY <1>1, <1>2, <1>3, <1>4, <1>5 DEF IInv

-----------------------------------------------------------------------------
(* subscribe and disconnect *)

\* subscribe() is called
LEMMA SubscribeIInv ==
    ASSUME IInv, NEW t \in Threads, NEW h \in Handlers, Subscribe(t, h)
    PROVE  IInv'
<1>. USE DEF Subscribe, MayCall, queueVars, connectVars, dispatchVars, historyVars
<1>1. QueueInv'
  BY KeepQueue DEF IInv
<1>2. OwnTypes'
  BY DEF IInv, OwnTypes, Locations
<1>3. CallInv'
  BY HandlersAssumption DEF IInv, OwnTypes, CallInv, Owning
<1>4. CountInv'
  <2>1. ASSUME NEW k \in Handlers PROVE Counts(k)' <=> Counts(k)
    <3>1. k # NoHandler
      BY HandlersAssumption
    <3>. QED BY <3>1 DEF IInv, OwnTypes, CallInv, Owning, Counts
  <2>2. \A type : Counted(type)' = Counted(type)
    BY <2>1, KeepCounted
  <2>3. \A u \in Threads : at'[u] = "disconnectParent" <=> at[u] = "disconnectParent"
    BY DEF IInv, OwnTypes
  <2>4. \A u \in Threads : at[u] = "disconnectParent" => subject'[u] = subject[u]
    BY DEF IInv, OwnTypes
  <2>. QED BY <2>2, <2>3, <2>4 DEF IInv, CountInv
<1>5. ReceiveInv'
  BY KeepReceive DEF IInv
<1>. QED BY <1>1, <1>2, <1>3, <1>4, <1>5 DEF IInv

\* and gets the mutex.
LEMMA LockForSubscribeIInv ==
    ASSUME IInv, NEW t \in Threads, LockForSubscribe(t)
    PROVE  IInv'
<1>. USE DEF LockForSubscribe, Step, queueVars, connectVars, dispatchVars, historyVars
<1>1. QueueInv'
  BY KeepQueue DEF IInv
<1>2. OwnTypes'
  BY DEF IInv, OwnTypes, Locations
<1>3. CallInv'
  BY NobodyAssumption DEF IInv, OwnTypes, CallInv, Owning
<1>4. CountInv'
  <2>1. ASSUME NEW k \in Handlers PROVE Counts(k)' <=> Counts(k)
    <3>1. k # NoHandler
      BY HandlersAssumption
    <3>. QED BY <3>1 DEF IInv, OwnTypes, CallInv, Owning, Counts
  <2>2. \A type : Counted(type)' = Counted(type)
    BY <2>1, KeepCounted
  <2>3. \A u \in Threads : at'[u] = "disconnectParent" <=> at[u] = "disconnectParent"
    BY DEF IInv, OwnTypes
  <2>4. \A u \in Threads : at[u] = "disconnectParent" => subject'[u] = subject[u]
    BY DEF IInv, OwnTypes
  <2>. QED BY <2>2, <2>3, <2>4 DEF IInv, CountInv
<1>5. ReceiveInv'
  BY KeepReceive DEF IInv
<1>. QED BY <1>1, <1>2, <1>3, <1>4, <1>5 DEF IInv

\* The handler is counted,
LEMMA ConnectParentIInv ==
    ASSUME IInv, NEW t \in Threads, ConnectParent(t)
    PROVE  IInv'
<1>. USE DEF ConnectParent, Step, queueVars, connectVars, dispatchVars, historyVars
<1>h. PICK h \in Handlers, ty \in Types : h = subject[t] /\ ty = TypeOf[h]
  BY HandlersAssumption, TypeOfAssumption DEF IInv, OwnTypes, CallInv
<1>k. \A k \in Handlers : Counts(k)' <=> Counts(k) \/ k = h
  BY <1>h DEF IInv, OwnTypes, CallInv, Owning, Counts
<1>u. refs' = [refs EXCEPT ![ty] = @ + 1] /\ parentConnected' = parentConnected \cup {ty}
  BY <1>h
<1>n. ~Counts(h)
  BY <1>h DEF IInv, OwnTypes, CallInv, Owning, Counts
<1>c. /\ \A type \in Types \ {ty} : Counted(type)' = Counted(type)
      /\ Counted(ty)' = Counted(ty) \cup {h}
      /\ refs'[ty] = Cardinality(Counted(ty)')
  <2>1. /\ \A type \in Types \ {ty} : Counted(type)' = Counted(type)
        /\ Counted(ty)' = Counted(ty) \cup {h} /\ h \notin Counted(ty)
    BY <1>h, <1>k, <1>n DEF Counted, Of
  <2>2. Cardinality(Counted(ty) \cup {h}) = Cardinality(Counted(ty)) + 1
    BY <2>1, CountedFinite, FS_AddElement
  <2>3. refs'[ty] = refs[ty] + 1
    BY <1>h DEF IInv, OwnTypes
  <2>. QED BY <1>h, <2>1, <2>2, <2>3 DEF IInv, CountInv
<1>1. QueueInv'
  BY KeepQueue DEF IInv
<1>2. OwnTypes'
  <2>1. refs'[ty] \in 0..Cardinality(Handlers)
    <3>1. Counted(ty)' \subseteq Handlers
      BY DEF Counted, Of
    <3>. QED BY <1>c, <3>1, SubsetFinite
  <2>2. refs' \in [Types -> 0..Cardinality(Handlers)]
    BY <1>h, <1>u, <2>1 DEF IInv, OwnTypes
  <2>. QED BY <1>h, <2>2 DEF IInv, OwnTypes, Locations
<1>3. CallInv'
  BY DEF IInv, OwnTypes, CallInv, Owning
<1>4. CountInv'
  <2>1. \A type \in Types \ {ty} : refs'[type] = refs[type] /\ (type \in parentConnected' <=> type \in parentConnected)
    BY <1>h, <1>u DEF IInv, OwnTypes
  <2>2. ty \in parentConnected' /\ h \in Counted(ty)'
    BY <1>u, <1>c
  <2>3. \A u \in Threads : at'[u] # "disconnectParent" /\ at[u] # "disconnectParent"
    BY DEF IInv, OwnTypes, CallInv, Owning
  <2>4. ASSUME NEW type \in Types
        PROVE  refs'[type] = Cardinality(Counted(type)') /\ (type \in parentConnected' <=> Counted(type)' # {})
    <3>1. CASE type = ty
      BY <1>c, <2>2, <3>1
    <3>2. CASE type # ty
      BY <1>c, <2>1, <2>3, <3>2 DEF IInv, CountInv
    <3>. QED BY <3>1, <3>2
  <2>. QED BY <2>3, <2>4 DEF CountInv
<1>5. ReceiveInv'
  BY KeepReceive DEF IInv
<1>. QED BY <1>1, <1>2, <1>3, <1>4, <1>5 DEF IInv

\* connected, and subscribe() returns.
LEMMA ConnectIInv ==
    ASSUME IInv, NEW t \in Threads, Connect(t)
    PROVE  IInv'
<1>. USE DEF Connect, Step, queueVars, connectVars, dispatchVars, historyVars
<1>1. QueueInv'
  BY KeepQueue DEF IInv
<1>2. OwnTypes'
  BY QueueFacts, HandlersAssumption DEF IInv, OwnTypes, Locations, CallInv
<1>3. CallInv'
  BY NobodyAssumption DEF IInv, OwnTypes, CallInv, Owning
<1>4. CountInv'
  <2>1. ASSUME NEW k \in Handlers PROVE Counts(k)' <=> Counts(k)
    <3>1. k # NoHandler
      BY HandlersAssumption
    <3>. QED BY <3>1 DEF IInv, OwnTypes, CallInv, Owning, Counts
  <2>2. \A type : Counted(type)' = Counted(type)
    BY <2>1, KeepCounted
  <2>3. \A u \in Threads : at'[u] = "disconnectParent" <=> at[u] = "disconnectParent"
    BY DEF IInv, OwnTypes
  <2>4. \A u \in Threads : at[u] = "disconnectParent" => subject'[u] = subject[u]
    BY DEF IInv, OwnTypes
  <2>. QED BY <2>2, <2>3, <2>4 DEF IInv, CountInv
<1>5. ReceiveInv'
  <2>1. subject[t] \in Handlers /\ since' = [since EXCEPT ![subject[t]] = pushes] /\ since \in [Handlers -> 0..MaxPushes]
    BY HandlersAssumption DEF IInv, OwnTypes, CallInv
  <2>2. \A i \in 1..Len(T) : ~(T[i] > pushes)
    <3>. TAKE i \in 1..Len(T)
    <3>1. T[i] <= pushes - Len(queue) /\ T[i] \in Nat /\ Len(queue) \in Nat /\ pushes \in Nat
      BY QueueFacts DEF IInv
    <3>. QED BY <3>1
  <2>3. T' = T /\ live' = live \cup {subject[t]} /\ UNCHANGED <<dispatching, uncalled, received, missed, kind>>
    BY DEF T
  <2>4. \A h \in Handlers \ {subject[t]} : since'[h] = since[h] /\ (h \in live' <=> h \in live)
    BY <2>1, <2>3
  <2>5. since'[subject[t]] = pushes
    BY <2>1
  <2>6. ASSUME NEW h \in Handlers, h \in live', NEW i \in 1..Len(T), T[i] > since'[h], kind[T[i]] = TypeOf[h]
        PROVE  (\E j \in 1..Len(received[h]) : received[h][j] = T[i]) \/ (dispatching /\ i = Len(T) /\ h \in uncalled)
    <3>1. h # subject[t]
      BY <2>2, <2>5, <2>6
    <3>. QED BY <2>4, <2>6, <3>1 DEF IInv, ReceiveInv
  <2>. QED BY <2>3, <2>6 DEF IInv, ReceiveInv
<1>. QED BY <1>1, <1>2, <1>3, <1>4, <1>5 DEF IInv

\* disconnect() is called
LEMMA DisconnectIInv ==
    ASSUME IInv, NEW t \in Threads, NEW h \in Handlers, Disconnect(t, h)
    PROVE  IInv'
<1>. USE DEF Disconnect, MayCall, queueVars, connectVars, dispatchVars, historyVars
<1>1. QueueInv'
  BY KeepQueue DEF IInv
<1>2. OwnTypes'
  BY DEF IInv, OwnTypes, Locations
<1>3. CallInv'
  <2>1. h # NoHandler /\ h \in slots /\ h \in live
    BY HandlersAssumption DEF IInv, CallInv
  <2>2. ASSUME NEW u \in Threads, subject[u] = h PROVE FALSE
    BY <2>1, <2>2 DEF IInv, CallInv, OwnTypes, Locations
  <2>3. /\ at \in [Threads -> Locations] /\ at' = [at EXCEPT ![t] = "disconnect"] /\ at[t] = "idle"
        /\ subject \in [Threads -> Handlers \cup {NoHandler}] /\ subject' = [subject EXCEPT ![t] = h]
    BY DEF IInv, OwnTypes
  <2>4. owner' # Nobody => at'[owner'] \in Owning
    BY <2>3 DEF IInv, CallInv, OwnTypes, Owning
  <2>. QED BY <2>1, <2>2, <2>3, <2>4 DEF IInv, CallInv, Owning
<1>4. CountInv'
  <2>1. ASSUME NEW k \in Handlers PROVE Counts(k)' <=> Counts(k)
    <3>1. k # NoHandler
      BY HandlersAssumption
    <3>. QED BY <3>1 DEF IInv, OwnTypes, CallInv, Owning, Counts
  <2>2. \A type : Counted(type)' = Counted(type)
    BY <2>1, KeepCounted
  <2>3. \A u \in Threads : at'[u] = "disconnectParent" <=> at[u] = "disconnectParent"
    BY DEF IInv, OwnTypes
  <2>4. \A u \in Threads : at[u] = "disconnectParent" => subject'[u] = subject[u]
    BY DEF IInv, OwnTypes
  <2>. QED BY <2>2, <2>3, <2>4 DEF IInv, CountInv
<1>5. ReceiveInv'
  BY KeepReceive DEF IInv
<1>. QED BY <1>1, <1>2, <1>3, <1>4, <1>5 DEF IInv

\* and gets the mutex.
LEMMA LockForDisconnectIInv ==
    ASSUME IInv, NEW t \in Threads, LockForDisconnect(t)
    PROVE  IInv'
<1>. USE DEF LockForDisconnect, Step, queueVars, connectVars, dispatchVars, historyVars
<1>1. QueueInv'
  BY KeepQueue DEF IInv
<1>2. OwnTypes'
  BY DEF IInv, OwnTypes, Locations
<1>3. CallInv'
  BY NobodyAssumption DEF IInv, OwnTypes, CallInv, Owning
<1>4. CountInv'
  <2>1. ASSUME NEW k \in Handlers PROVE Counts(k)' <=> Counts(k)
    <3>1. k # NoHandler
      BY HandlersAssumption
    <3>. QED BY <3>1 DEF IInv, OwnTypes, CallInv, Owning, Counts
  <2>2. \A type : Counted(type)' = Counted(type)
    BY <2>1, KeepCounted
  <2>3. \A u \in Threads : at'[u] = "disconnectParent" <=> at[u] = "disconnectParent"
    BY DEF IInv, OwnTypes
  <2>4. \A u \in Threads : at[u] = "disconnectParent" => subject'[u] = subject[u]
    BY DEF IInv, OwnTypes
  <2>. QED BY <2>2, <2>3, <2>4 DEF IInv, CountInv
<1>5. ReceiveInv'
  BY KeepReceive DEF IInv
<1>. QED BY <1>1, <1>2, <1>3, <1>4, <1>5 DEF IInv

\* The handler is not counted any more,
LEMMA ReleaseIInv ==
    ASSUME IInv, NEW t \in Threads, Release(t)
    PROVE  IInv'
<1>. USE DEF Release, queueVars, connectVars, dispatchVars, historyVars
<1>h. PICK h \in Handlers, ty \in Types : h = subject[t] /\ ty = TypeOf[h]
  BY HandlersAssumption, TypeOfAssumption DEF IInv, OwnTypes, CallInv
<1>k. \A k \in Handlers : Counts(k)' <=> Counts(k) /\ k # h
  BY <1>h DEF IInv, OwnTypes, CallInv, Owning, Counts
<1>u. refs' = [refs EXCEPT ![ty] = @ - 1] /\ TypeOf[subject[t]] = ty /\ (at'[t] = "disconnectParent" <=> refs[ty] = 1)
  BY <1>h DEF IInv, OwnTypes
<1>n. Counts(h)
  BY <1>h DEF IInv, OwnTypes, CallInv, Owning, Counts
<1>c. /\ \A type \in Types \ {ty} : Counted(type)' = Counted(type)
      /\ h \in Counted(ty)
      /\ refs'[ty] = Cardinality(Counted(ty)')
      /\ Counted(ty)' = {} <=> refs[ty] = 1
  <2>1. /\ \A type \in Types \ {ty} : Counted(type)' = Counted(type)
        /\ Counted(ty)' = Counted(ty) \ {h} /\ h \in Counted(ty)
    BY <1>h, <1>k, <1>n DEF Counted, Of
  <2>2. /\ Cardinality(Counted(ty) \ {h}) = Cardinality(Counted(ty)) - 1
        /\ IsFiniteSet(Counted(ty) \ {h})
    BY <2>1, CountedFinite, FS_RemoveElement
  <2>3. refs'[ty] = refs[ty] - 1 /\ refs[ty] = Cardinality(Counted(ty)) /\ refs[ty] \in Nat
    BY <1>h DEF IInv, OwnTypes, CountInv
  <2>4. Counted(ty) \ {h} = {} <=> Cardinality(Counted(ty) \ {h}) = 0
    BY <2>2, FS_EmptySet
  <2>. QED BY <2>1, <2>2, <2>3, <2>4
<1>1. QueueInv'
  BY KeepQueue DEF IInv
<1>2. OwnTypes'
  <2>1. refs'[ty] \in 0..Cardinality(Handlers)
    <3>1. Counted(ty)' \subseteq Handlers
      BY DEF Counted, Of
    <3>. QED BY <1>c, <3>1, SubsetFinite
  <2>2. refs' \in [Types -> 0..Cardinality(Handlers)]
    BY <1>h, <1>u, <2>1 DEF IInv, OwnTypes
  <2>. QED BY <2>2 DEF IInv, OwnTypes, Locations
<1>3. CallInv'
  BY NobodyAssumption DEF IInv, OwnTypes, CallInv, Owning
<1>4. CountInv'
  <2>1. \A type \in Types \ {ty} : refs'[type] = refs[type]
    BY <1>h, <1>u DEF IInv, OwnTypes
  <2>2. \A u \in Threads : u # t => at'[u] # "disconnectParent" /\ at[u] # "disconnectParent"
    BY DEF IInv, OwnTypes, CallInv, Owning
  <2>3. at[t] = "release" /\ subject' = subject /\ parentConnected' = parentConnected
        /\ at'[t] \in {"disconnectParent", "takeOff"} /\ (at'[t] = "disconnectParent" <=> refs[ty] = 1)
    BY <1>u DEF IInv, OwnTypes
  <2>4. \A type \in Types \ {ty} : type \in parentConnected <=> Counted(type) # {}
    BY <2>2, <2>3 DEF IInv, CountInv
  <2>5. ty \in parentConnected
    BY <1>h, <1>c DEF IInv, CountInv
  <2>6. TypeOf[subject[t]] = ty
    BY <1>u
  <2>7. ASSUME NEW type \in Types \ {ty}
        PROVE  refs'[type] = Cardinality(Counted(type)') /\ (type \in parentConnected' <=> Counted(type)' # {})
    BY <1>c, <2>1, <2>3, <2>4 DEF IInv, CountInv
  <2>8. /\ refs'[ty] = Cardinality(Counted(ty)') /\ ty \in parentConnected'
        /\ Counted(ty)' = {} <=> at'[t] = "disconnectParent"
    BY <1>c, <2>3, <2>5
  <2>9. \A u \in Threads : at'[u] = "disconnectParent" <=> u = t /\ Counted(ty)' = {}
    BY <2>2, <2>8
  <2>10. \A type \in Types : (\E u \in Threads : at'[u] = "disconnectParent" /\ TypeOf[subject'[u]] = type)
                              <=> type = ty /\ Counted(ty)' = {}
    BY <2>3, <2>6, <2>9
  <2>11. \A u \in Threads : at'[u] = "disconnectParent" => Counted(TypeOf[subject[u]])' = {}
    BY <2>3, <2>6, <2>9
  <2>. QED BY <2>7, <2>8, <2>10, <2>11 DEF CountInv
<1>5. ReceiveInv'
  BY KeepReceive DEF IInv
<1>. QED BY <1>1, <1>2, <1>3, <1>4, <1>5 DEF IInv

\* the parent is left,
LEMMA DisconnectParentIInv ==
    ASSUME IInv, NEW t \in Threads, DisconnectParent(t)
    PROVE  IInv'
<1>. USE DEF DisconnectParent, Step, queueVars, connectVars, dispatchVars, historyVars
<1>1. QueueInv'
  BY KeepQueue DEF IInv
<1>2. OwnTypes'
  BY DEF IInv, OwnTypes, Locations
<1>3. CallInv'
  BY NobodyAssumption DEF IInv, OwnTypes, CallInv, Owning
<1>4. CountInv'
  <2>1. ASSUME NEW k \in Handlers PROVE Counts(k)' <=> Counts(k)
    <3>1. k # NoHandler
      BY HandlersAssumption
    <3>. QED BY <3>1 DEF IInv, OwnTypes, CallInv, Owning, Counts
  <2>2. \A type : Counted(type)' = Counted(type)
    BY <2>1, KeepCounted
  <2>3. \A u \in Threads : at'[u] # "disconnectParent" /\ (at[u] = "disconnectParent" => u = t)
    BY DEF IInv, OwnTypes, CallInv, Owning
  <2>4. Counted(TypeOf[subject[t]]) = {}
    BY DEF IInv, CountInv
  <2>5. parentConnected' = parentConnected \ {TypeOf[subject[t]]} /\ refs' = refs
    OBVIOUS
  <2>. QED BY <2>2, <2>3, <2>4, <2>5 DEF IInv, CountInv
<1>5. ReceiveInv'
  BY KeepReceive DEF IInv
<1>. QED BY <1>1, <1>2, <1>3, <1>4, <1>5 DEF IInv

\* and the handler is taken off.
LEMMA TakeOffIInv ==
    ASSUME IInv, NEW t \in Threads, TakeOff(t)
    PROVE  IInv'
<1>. USE DEF TakeOff, Step, queueVars, connectVars, dispatchVars, historyVars
<1>1. QueueInv'
  BY KeepQueue DEF IInv
<1>2. OwnTypes'
  BY HandlersAssumption DEF IInv, OwnTypes, Locations, CallInv
<1>3. CallInv'
  BY DEF IInv, OwnTypes, CallInv, Owning
<1>4. CountInv'
  <2>1. ASSUME NEW k \in Handlers PROVE Counts(k)' <=> Counts(k)
    <3>1. k # NoHandler
      BY HandlersAssumption
    <3>. QED BY <3>1 DEF IInv, OwnTypes, CallInv, Owning, Counts
  <2>2. \A type : Counted(type)' = Counted(type)
    BY <2>1, KeepCounted
  <2>3. \A u \in Threads : at'[u] = "disconnectParent" <=> at[u] = "disconnectParent"
    BY DEF IInv, OwnTypes
  <2>4. \A u \in Threads : at[u] = "disconnectParent" => subject'[u] = subject[u]
    BY DEF IInv, OwnTypes
  <2>. QED BY <2>2, <2>3, <2>4 DEF IInv, CountInv
<1>5. ReceiveInv'
  <2>1. subject[t] \notin live /\ uncalled' = uncalled \ {subject[t]}
    BY DEF IInv, CallInv
  <2>. QED BY <2>1 DEF IInv, ReceiveInv, T
<1>. QED BY <1>1, <1>2, <1>3, <1>4, <1>5 DEF IInv

-----------------------------------------------------------------------------
(* publishEvents and waitAndPublishEvents *)

\* An event is popped: everything before it has been received.
LEMMA TakeIInv ==
    ASSUME IInv, ~dispatching, Queue!Take(Dispatcher), Queue!Pop(Dispatcher) \/ Queue!Woken(Dispatcher), Dispatch
    PROVE  IInv'
<1>. USE DEF Dispatch, connectVars, historyVars
<1>1. QueueInv'
  <2>1. Q!OrderInv' /\ Q!WokenInv'
    BY QueueStep DEF IInv, QueueInv
  <2>2. excused' = {}
    BY TakeExcuses DEF IInv
  <2>3. call'[Dispatcher] = "none"
    <3>1. call \in [{Dispatcher} -> Queue!Calls]
      BY DEF IInv, QueueInv, Q!OrderInv, Q!TypeOK, Q!Calls, Queue!Calls
    <3>. QED BY <3>1 DEF Queue!Pop, Queue!Woken, Queue!Ready
  <2>4. Len(T') > 0
    <3>1. T \in Seq(1..MaxPushes) /\ T' = Append(T, Head(queue)) /\ Head(queue) \in 1..MaxPushes
      BY TakeInOrder DEF IInv
    <3>. QED BY <3>1
  <2>5. pushes' = pushes
    BY DEF Queue!Take
  <2>6. kind' = kind /\ kind \in Seq(Types) /\ Len(kind) = pushes
    BY DEF IInv, QueueInv
  <2>. QED BY <2>1, <2>2, <2>3, <2>4, <2>5, <2>6 DEF QueueInv
<1>2. OwnTypes'
  BY DEF IInv, OwnTypes
<1>3. CallInv'
  BY DEF IInv, CallInv
<1>4. CountInv'
  BY KeepCount DEF IInv
<1>5. ReceiveInv'
  <2>. DEFINE n == Head(queue)
  <2>1. /\ n \in 1..MaxPushes /\ T' = Append(T, n) /\ T \in Seq(1..MaxPushes)
        /\ \A i \in 1..Len(T) : T[i] < n
    BY TakeInOrder DEF IInv
  <2>3. n = queue[1]
    BY QueueFacts, EmptySeq DEF Queue!Take, IInv
  <2>. HIDE DEF n
  <2>2. /\ Len(T') = Len(T) + 1 /\ T'[Len(T')] = n /\ \A i \in 1..Len(T) : T'[i] = T[i]
        /\ Len(T) \in Nat
    BY <2>1
  <2>4. uncalled' = slots \cap Of(kind[n]) /\ live \subseteq slots
    BY <2>3 DEF IInv, CallInv
  <2>5. \A h \in Handlers : received'[h] = received[h] /\ \A i \in 1..Len(received[h]) :
            received[h][i] \in Nat /\ received[h][i] < n
    <3>. SUFFICES ASSUME NEW h \in Handlers, NEW i \in 1..Len(received[h])
                  PROVE  received[h][i] \in Nat /\ received[h][i] < n
      OBVIOUS
    <3>1. received[h][i] \in 1..MaxPushes
      BY ElementOfSeq DEF IInv, OwnTypes
    <3>2. Len(T) > 0 /\ received[h][i] <= T[Len(T)]
      BY DEF IInv, ReceiveInv
    <3>3. Len(T) \in 1..Len(T)
      BY <2>2, <3>2
    <3>4. T[Len(T)] < n /\ T[Len(T)] \in 1..MaxPushes
      BY <2>1, <3>3, ElementOfSeq
    <3>. QED BY <2>1, <3>1, <3>2, <3>4
  <2>6. ASSUME NEW h \in Handlers
        PROVE  /\ \A i \in 1..Len(received'[h]) : Len(T') > 0 /\ received'[h][i] <= T'[Len(T')]
               /\ \A i, j \in 1..Len(received'[h]) : i < j => received'[h][i] < received'[h][j]
               /\ \A i \in 1..Len(received'[h]) : received'[h][i] # T'[Len(T')]
    <3>1. \A i, j \in 1..Len(received[h]) : i < j => received[h][i] < received[h][j]
      BY DEF IInv, ReceiveInv
    <3>. QED BY <2>1, <2>2, <2>5, <3>1
  <2>7. ASSUME NEW h \in Handlers, h \in live', NEW i \in 1..Len(T'), T'[i] > since'[h], kind'[T'[i]] = TypeOf[h]
        PROVE  \/ \E j \in 1..Len(received'[h]) : received'[h][j] = T'[i]
               \/ dispatching' /\ i = Len(T') /\ h \in uncalled'
    <3>1. CASE i \in 1..Len(T)
      BY <2>2, <2>7, <3>1 DEF IInv, ReceiveInv
    <3>2. CASE i = Len(T')
      BY <2>2, <2>4, <2>7, <3>2 DEF Of
    <3>. QED BY <2>2, <3>1, <3>2
  <2>8. missed' = {}
    BY DEF IInv, ReceiveInv
  <2>. QED BY <2>6, <2>7, <2>8 DEF ReceiveInv
<1>. QED BY <1>1, <1>2, <1>3, <1>4, <1>5 DEF IInv

\* An event is there,
LEMMA PopIInv == ASSUME IInv, Pop PROVE IInv'
BY TakeIInv DEF Pop, Queue!Pop

\* or the dispatcher was woken for one.
LEMMA WokenIInv == ASSUME IInv, Woken PROVE IInv'
<1>1. Queue!Woken(Dispatcher) /\ Dispatch
  BY DEF Woken
<1>2. Queue!Take(Dispatcher)
  BY <1>1, WokenFindsItem DEF IInv
<1>3. ~dispatching
  BY <1>1 DEF IInv, QueueInv, Queue!Woken, Queue!Awake, Queue!Waiting
<1>. QED BY <1>1, <1>2, <1>3, TakeIInv

\* There is none.
LEMMA WaitIInv ==
    ASSUME IInv, Wait
    PROVE  IInv'
<1>. USE DEF Wait, queueVars, connectVars, dispatchVars, historyVars
<1>1. QueueInv'
  <2>1. Q!OrderInv' /\ Q!WokenInv'
    BY QueueStep DEF IInv, QueueInv
  <2>2. UNCHANGED <<pushes, taken, kind>> /\ excused' = excused \ {Dispatcher} /\ T' = T
    BY DEF Queue!Wait, T
  <2>3. excused' = {} /\ kind' \in Seq(Types) /\ Len(kind') = pushes' /\ dispatching' = dispatching
    BY <2>2 DEF IInv, QueueInv
  <2>. QED BY <2>1, <2>2, <2>3 DEF QueueInv
<1>2. OwnTypes'
  BY DEF IInv, OwnTypes, Locations
<1>3. CallInv'
  BY DEF IInv, OwnTypes, CallInv, Owning
<1>4. CountInv'
  BY KeepCount DEF IInv
<1>5. ReceiveInv'
  BY DEF IInv, ReceiveInv, Queue!Wait, T
<1>. QED BY <1>1, <1>2, <1>3, <1>4, <1>5 DEF IInv

\* A handler is called with the event.
LEMMA CallHandlerIInv ==
    ASSUME IInv, NEW h \in Handlers, CallHandler(h)
    PROVE  IInv'
<1>. USE DEF CallHandler, queueVars, connectVars, dispatchVars, historyVars
<1>. DEFINE e == T[Len(T)]
<1>e. /\ e \in 1..MaxPushes /\ Len(T) > 0 /\ Len(T) \in Nat /\ Event = e /\ T[Len(T)] = e
      /\ received' = [received EXCEPT ![h] = Append(@, e)] /\ dispatching
  <2>1. Len(T) > 0 /\ dispatching
    BY DEF IInv, QueueInv
  <2>2. Len(T) \in 1..Len(T) /\ Len(T) \in Nat
    BY <2>1, QueueFacts DEF IInv
  <2>3. e \in 1..MaxPushes
    BY <2>2, QueueFacts DEF IInv
  <2>4. Event = e
    BY DEF Event, Current, T
  <2>. QED BY <2>1, <2>2, <2>3, <2>4
<1>. HIDE DEF e
<1>1. QueueInv'
  BY KeepQueue DEF IInv
<1>2. OwnTypes'
  <2>1. received' \in [Handlers -> Seq(1..MaxPushes)]
    BY <1>e DEF IInv, OwnTypes
  <2>. QED BY <2>1 DEF IInv, OwnTypes
<1>3. CallInv'
  BY DEF IInv, OwnTypes, CallInv, Owning
<1>4. CountInv'
  BY KeepCount DEF IInv
<1>5. ReceiveInv'
  <2>1. /\ received[h] \in Seq(1..MaxPushes) /\ received'[h] = Append(received[h], e)
        /\ \A k \in Handlers \ {h} : received'[k] = received[k]
    BY <1>e DEF IInv, OwnTypes
  <2>2. /\ Len(received'[h]) = Len(received[h]) + 1 /\ received'[h][Len(received[h]) + 1] = e
        /\ \A i \in 1..Len(received[h]) : received'[h][i] = received[h][i]
        /\ \A i \in 1..Len(received[h]) : received[h][i] \in Nat
        /\ Len(received[h]) \in Nat
    <3>1. \A i \in 1..Len(received[h]) : received[h][i] \in 1..MaxPushes
      BY <2>1, ElementOfSeq
    <3>. QED BY <1>e, <2>1, <3>1
  <2>3. \A i \in 1..Len(received[h]) : received[h][i] < e
    <3>1. \A i \in 1..Len(received[h]) : received[h][i] <= e
      BY <1>e DEF IInv, ReceiveInv
    <3>2. \A i \in 1..Len(received[h]) : received[h][i] # e
      <4>1. CASE h \in uncalled
        BY <1>e, <4>1 DEF IInv, ReceiveInv
      <4>2. CASE ~Got(h, Event)
        <5>1. DOMAIN received[h] = 1..Len(received[h]) /\ Event = e
          BY <1>e, <2>1
        <5>. QED BY <4>2, <5>1 DEF Got
      <4>. QED BY <4>1, <4>2
    <3>. QED BY <1>e, <2>2, <3>1, <3>2
  <2>4. T' = T /\ uncalled' = uncalled \ {h} /\ dispatching' = dispatching /\ UNCHANGED <<live, since, kind, missed>>
    BY DEF T
  <2>5. ASSUME NEW k \in Handlers \ {h}
        PROVE  /\ \A i \in 1..Len(received'[k]) : Len(T') > 0 /\ received'[k][i] <= T'[Len(T')]
               /\ \A i, j \in 1..Len(received'[k]) : i < j => received'[k][i] < received'[k][j]
               /\ dispatching' /\ k \in uncalled' => \A i \in 1..Len(received'[k]) : received'[k][i] # T'[Len(T')]
               /\ k \in live' => \A i \in 1..Len(T') :
                      T'[i] > since'[k] /\ kind'[T'[i]] = TypeOf[k] =>
                          \/ \E j \in 1..Len(received'[k]) : received'[k][j] = T'[i]
                          \/ dispatching' /\ i = Len(T') /\ k \in uncalled'
    BY <2>1, <2>4 DEF IInv, ReceiveInv
  <2>6. \A i \in 1..Len(received'[h]) : Len(T') > 0 /\ received'[h][i] <= T'[Len(T')]
    BY <1>e, <2>2, <2>3, <2>4
  <2>7. \A i, j \in 1..Len(received'[h]) : i < j => received'[h][i] < received'[h][j]
    <3>1. \A i, j \in 1..Len(received[h]) : i < j => received[h][i] < received[h][j]
      BY DEF IInv, ReceiveInv
    <3>. QED BY <2>2, <2>3, <3>1
  <2>8. ASSUME h \in live', NEW i \in 1..Len(T'), T'[i] > since'[h], kind'[T'[i]] = TypeOf[h]
        PROVE  \E j \in 1..Len(received'[h]) : received'[h][j] = T'[i]
    <3>1. CASE \E j \in 1..Len(received[h]) : received[h][j] = T[i]
      BY <2>2, <2>4, <3>1
    <3>2. CASE i = Len(T)
      BY <1>e, <2>2, <2>4, <3>2
    <3>. QED BY <2>4, <2>8, <3>1, <3>2 DEF IInv, ReceiveInv
  <2>9. h \notin uncalled' /\ missed' = {}
    BY <2>4 DEF IInv, ReceiveInv
  <2>. QED BY <2>5, <2>6, <2>7, <2>8, <2>9 DEF ReceiveInv
<1>. QED BY <1>1, <1>2, <1>3, <1>4, <1>5 DEF IInv

\* It returns.
LEMMA HandlerReturnsIInv ==
    ASSUME IInv, HandlerReturns
    PROVE  IInv'
<1>. USE DEF HandlerReturns, queueVars, connectVars, dispatchVars, historyVars
<1>1. QueueInv'
  BY KeepQueue DEF IInv
<1>2. OwnTypes'
  BY DEF IInv, OwnTypes, Locations
<1>3. CallInv'
  BY DEF IInv, OwnTypes, CallInv, Owning
<1>4. CountInv'
  BY KeepCount DEF IInv
<1>5. ReceiveInv'
  BY DEF IInv, ReceiveInv, T
<1>. QED BY <1>1, <1>2, <1>3, <1>4, <1>5 DEF IInv

\* All have been called.
LEMMA DispatchedIInv ==
    ASSUME IInv, Dispatched
    PROVE  IInv'
<1>. USE DEF Dispatched, queueVars, connectVars, dispatchVars, historyVars
<1>1. QueueInv'
  BY KeepQueue DEF IInv
<1>2. OwnTypes'
  BY DEF IInv, OwnTypes, Locations
<1>3. CallInv'
  BY DEF IInv, OwnTypes, CallInv, Owning
<1>4. CountInv'
  BY KeepCount DEF IInv
<1>5. ReceiveInv'
  BY DEF IInv, ReceiveInv, T
<1>. QED BY <1>1, <1>2, <1>3, <1>4, <1>5 DEF IInv

-----------------------------------------------------------------------------

\* A step in which nothing happens.
LEMMA StutterIInv == ASSUME IInv, UNCHANGED vars PROVE IInv'
<1>. USE DEF vars, queueVars, connectVars, dispatchVars, historyVars
<1>1. QueueInv'
  BY KeepQueue DEF IInv
<1>2. OwnTypes'
  BY DEF IInv, OwnTypes
<1>3. CallInv'
  BY DEF IInv, CallInv
<1>4. CountInv'
  BY KeepCount DEF IInv
<1>5. ReceiveInv'
  BY KeepReceive DEF IInv
<1>. QED BY <1>1, <1>2, <1>3, <1>4, <1>5 DEF IInv

\* Every step of every thread.
LEMMA NextIInv == IInv /\ [Next]_vars => IInv'
<1>. SUFFICES ASSUME IInv, [Next]_vars PROVE IInv'
  OBVIOUS
<1>1. CASE \E p \in Publishers, type \in Types : ParentPublish(p, type)
  BY <1>1, ParentPublishIInv
<1>2. CASE \E p \in Publishers : ParentCalls(p)
  BY <1>2, ParentCallsIInv
<1>3. CASE \E type \in Types : Publish(type)
  BY <1>3, PublishIInv
<1>4. ASSUME NEW t \in Threads, \E h \in Handlers : Subscribe(t, h) \/ Disconnect(t, h)
      PROVE  IInv'
  BY <1>4, SubscribeIInv, DisconnectIInv
<1>5. ASSUME NEW t \in Threads, CallStep(t) PROVE IInv'
  BY <1>5, LockForSubscribeIInv, ConnectParentIInv, ConnectIInv, LockForDisconnectIInv, ReleaseIInv,
     DisconnectParentIInv, TakeOffIInv DEF CallStep
<1>6. CASE Pop \/ Wait \/ Woken \/ HandlerReturns \/ Dispatched
  BY <1>6, PopIInv, WaitIInv, WokenIInv, HandlerReturnsIInv, DispatchedIInv
<1>7. CASE \E h \in Handlers : CallHandler(h)
  BY <1>7, CallHandlerIInv
<1>8. CASE UNCHANGED vars
  BY <1>8, StutterIInv
<1>. QED BY <1>1, <1>2, <1>3, <1>4, <1>5, <1>6, <1>7, <1>8 DEF Next, CallStep

\* While a handler is subscribed the parent is, no event of its type passes it by, and it
\* gets those that are queued once each, in the order they were queued.
THEOREM SpecDelivery == Spec => []Delivery
<1>1. Init => IInv
  BY InitIInv
<1>2. IInv /\ [Next]_vars => IInv'
  BY NextIInv
<1>3. IInv => Delivery
  BY IInvImplies
<1>. QED BY <1>1, <1>2, <1>3, PTL DEF Spec

-----------------------------------------------------------------------------
(* Who has left *)

\* A handler that has left is not on the signal and comes back in no call; a handler that is
\* running, or still to be called, is one for the event that is dispatched.
LeftInv ==
    /\ slots \cap left = {}
    /\ \A t \in Threads : at[t] \in {"subscribe", "connectParent", "connect"} => subject[t] \notin left
    /\ inside # NoHandler => dispatching /\ TypeOf[inside] = EventType
    /\ dispatching => \A h \in uncalled : TypeOf[h] = EventType

\* While an event is dispatched another may be queued.
LEMMA EventStays ==
    ASSUME IInv, dispatching, taken' = taken,
           kind' = kind \/ \E type \in Types : kind' = Append(kind, type)
    PROVE  EventType' = EventType
<1>1. T[Len(T)] = Event /\ Event' = Event
  BY DEF T, Event, Current
<1>2. Len(T) \in 1..Len(T)
  BY QueueFacts DEF IInv, QueueInv
<1>3. Event \in 1..pushes
  <2>1. /\ Event \in 1..MaxPushes /\ Event <= pushes - Len(queue)
        /\ pushes \in Nat /\ Len(queue) \in Nat
    BY <1>1, <1>2, QueueFacts DEF IInv
  <2>. QED BY <2>1
<1>4. kind \in Seq(Types) /\ Len(kind) = pushes
  BY DEF IInv, QueueInv
<1>5. kind'[Event] = kind[Event]
  BY <1>3, <1>4
<1>. QED BY <1>1, <1>5 DEF EventType

\* The calls of the users and of the parent.
LEMMA CallLeftInv ==
    ASSUME IInv, LeftInv, NEW t \in Threads,
           CallStep(t) \/ \E h \in Handlers : Subscribe(t, h) \/ Disconnect(t, h)
    PROVE  LeftInv'
<1>. USE DEF queueVars, connectVars, dispatchVars, historyVars
<1>1. UNCHANGED <<taken, kind, inside, dispatching>> /\ EventType' = EventType
  BY DEF CallStep, Subscribe, LockForSubscribe, ConnectParent, Connect, Disconnect, LockForDisconnect,
         Release, DisconnectParent, TakeOff, EventType, Event, Current
<1>2. uncalled' \subseteq uncalled
  BY DEF CallStep, Subscribe, LockForSubscribe, ConnectParent, Connect, Disconnect, LockForDisconnect,
         Release, DisconnectParent, TakeOff
<1>3. /\ inside' # NoHandler => dispatching' /\ TypeOf[inside'] = EventType'
      /\ dispatching' => \A h \in uncalled' : TypeOf[h] = EventType'
  BY <1>1, <1>2 DEF LeftInv
<1>. DEFINE Coming == {"subscribe", "connectParent", "connect"}
            Rest == /\ slots' \cap left' = {}
                    /\ \A u \in Threads : at'[u] \in Coming => subject'[u] \notin left'
<1>4. Rest
  <2>. USE DEF IInv, OwnTypes, LeftInv
  <2>1. ASSUME NEW h \in Handlers, Subscribe(t, h) PROVE Rest
    BY <2>1 DEF Subscribe
  <2>2. ASSUME NEW h \in Handlers, Disconnect(t, h) PROVE Rest
    BY <2>2 DEF Disconnect
  <2>3. CASE LockForSubscribe(t)
    BY <2>3 DEF LockForSubscribe, Step
  <2>4. CASE ConnectParent(t)
    BY <2>4 DEF ConnectParent, Step
  <2>5. CASE Connect(t)
    BY <2>5 DEF Connect, Step
  <2>6. CASE LockForDisconnect(t)
    BY <2>6 DEF LockForDisconnect, Step
  <2>7. CASE Release(t)
    BY <2>7 DEF Release
  <2>8. CASE DisconnectParent(t)
    BY <2>8 DEF DisconnectParent, Step
  <2>9. CASE TakeOff(t)
    BY <2>9 DEF TakeOff, Step, CallInv
  <2>. QED BY <2>1, <2>2, <2>3, <2>4, <2>5, <2>6, <2>7, <2>8, <2>9 DEF CallStep
<1>. QED BY <1>3, <1>4 DEF LeftInv

\* Every step of every thread.
LEMMA NextLeftInv == IInv /\ LeftInv /\ [Next]_vars => LeftInv'
<1>. SUFFICES ASSUME IInv, LeftInv, [Next]_vars PROVE LeftInv'
  OBVIOUS
<1>. USE DEF queueVars, connectVars, dispatchVars, historyVars
<1>1. ASSUME UNCHANGED <<taken, connectVars, dispatchVars, left>>,
             kind' = kind \/ \E type \in Types : kind' = Append(kind, type)
      PROVE  LeftInv'
  <2>1. dispatching => EventType' = EventType
    BY <1>1, EventStays
  <2>. QED BY <1>1, <2>1 DEF LeftInv
<1>2. ASSUME NEW p \in Publishers, NEW type \in Types, ParentPublish(p, type) PROVE LeftInv'
  BY <1>1, <1>2 DEF ParentPublish
<1>3. ASSUME NEW p \in Publishers, ParentCalls(p) PROVE LeftInv'
  <2>1. publishing[p] \in Types
    BY <1>3 DEF ParentCalls, IInv, OwnTypes
  <2>. QED BY <1>1, <1>3, <2>1 DEF ParentCalls, Enqueue, Queue!Push
<1>4. ASSUME NEW type \in Types, Publish(type) PROVE LeftInv'
  BY <1>1, <1>4 DEF Publish, Enqueue, Queue!Push
<1>5. ASSUME NEW t \in Threads, CallStep(t) \/ \E h \in Handlers : Subscribe(t, h) \/ Disconnect(t, h)
      PROVE  LeftInv'
  BY <1>5, CallLeftInv
<1>6. CASE Pop \/ Woken
  <2>1. Queue!Take(Dispatcher) /\ Dispatch /\ ~dispatching
    <3>1. CASE Pop
      BY <3>1 DEF Pop, Queue!Pop
    <3>2. CASE Woken
      BY <3>2, WokenFindsItem DEF Woken, IInv, QueueInv, Queue!Woken, Queue!Awake, Queue!Waiting
    <3>. QED BY <1>6, <3>1, <3>2
  <2>2. Event' = queue[1]
    <3>1. T \in Seq(1..MaxPushes) /\ T' = Append(T, Head(queue)) /\ Head(queue) \in 1..MaxPushes
      BY <2>1, TakeInOrder DEF IInv
    <3>2. Head(queue) = queue[1]
      BY <2>1, QueueFacts, EmptySeq DEF Queue!Take, IInv
    <3>3. T'[Len(T')] = Head(queue)
      BY <3>1
    <3>. QED BY <3>2, <3>3 DEF Event, Current, T
  <2>3. EventType' = kind[queue[1]]
    BY <2>1, <2>2 DEF EventType, Dispatch
  <2>4. uncalled' = slots \cap Of(EventType') /\ inside' = NoHandler
    BY <2>1, <2>3 DEF Dispatch, LeftInv
  <2>5. UNCHANGED <<slots, left, at, subject>>
    BY <2>1 DEF Dispatch
  <2>. QED BY <2>4, <2>5 DEF LeftInv, Of
<1>7. CASE Wait
  BY <1>1, <1>7 DEF Wait, Queue!Wait
<1>8. ASSUME NEW h \in Handlers, CallHandler(h) PROVE LeftInv'
  <2>1. EventType' = EventType /\ TypeOf[h] = EventType
    BY <1>8 DEF CallHandler, LeftInv, EventType, Event, Current
  <2>. QED BY <1>8, <2>1 DEF CallHandler, LeftInv
<1>9. CASE HandlerReturns \/ Dispatched
  BY <1>9 DEF HandlerReturns, Dispatched, LeftInv, EventType, Event, Current
<1>10. CASE UNCHANGED vars
  BY <1>1, <1>10 DEF vars
<1>. QED BY <1>2, <1>3, <1>4, <1>5, <1>6, <1>7, <1>8, <1>9, <1>10 DEF Next, CallStep

\* Nobody is called who has left, and nobody leaves while running but from inside.
LEMMA StepNoCall ==
    ASSUME IInv, LeftInv, [Next]_vars, NEW h \in left', inside' = h
    PROVE  inside = h /\ (h \in left \/ subject[Dispatcher] = h)
<1>. USE DEF queueVars, connectVars, dispatchVars, historyVars
<1>1. h \in Handlers /\ h # NoHandler
  <2>1. IInv'
    BY NextIInv
  <2>. QED BY <2>1, HandlersAssumption DEF IInv, OwnTypes
<1>2. LeftInv'
  BY NextLeftInv
<1>3. ASSUME NEW k \in Handlers, CallHandler(k) PROVE FALSE
  BY <1>2, <1>3 DEF CallHandler, LeftInv
<1>4. inside' = inside
  BY <1>1, <1>3 DEF Next, vars, ParentPublish, ParentCalls, Publish, Subscribe, LockForSubscribe, ConnectParent,
         Connect, Disconnect, LockForDisconnect, Release, DisconnectParent, TakeOff, Pop, Wait, Woken,
         Dispatch, HandlerReturns, Dispatched
<1>5. ASSUME NEW t \in Threads, TakeOff(t) PROVE h \in left \/ subject[Dispatcher] = h
  <2>1. dispatching /\ TypeOf[h] = EventType
    BY <1>1, <1>4 DEF LeftInv
  <2>2. CASE t = Dispatcher
    BY <1>5, <2>2 DEF TakeOff
  <2>3. CASE t # Dispatcher
    BY <1>5, <2>1, <2>3 DEF TakeOff
  <2>. QED BY <2>2, <2>3
<1>6. ASSUME \A t \in Threads : ~TakeOff(t) PROVE left' = left
  BY <1>3, <1>6 DEF Next, vars, ParentPublish, ParentCalls, Publish, Subscribe, LockForSubscribe, ConnectParent,
         Connect, Disconnect, LockForDisconnect, Release, DisconnectParent, Pop, Wait, Woken,
         Dispatch, HandlerReturns, Dispatched
<1>. QED BY <1>4, <1>5, <1>6

\* A handler is not called once its disconnect() has returned, nor is it running
\* then, unless it made the call itself.
THEOREM SpecNoCallOnceLeft == Spec => NoCallOnceLeft
<1>1. Init => IInv /\ LeftInv
  <2>1. Init => LeftInv
    BY DEF Init, LeftInv
  <2>. QED BY <2>1, InitIInv
<1>2. IInv /\ LeftInv /\ [Next]_vars => (IInv /\ LeftInv)'
  BY NextIInv, NextLeftInv
<1>3. IInv /\ LeftInv /\ [Next]_vars =>
          [\A h \in left' : inside' = h => inside = h /\ (h \in left \/ subject[Dispatcher] = h)]_vars
  BY StepNoCall
<1>. QED BY <1>1, <1>2, <1>3, PTL DEF Spec, NoCallOnceLeft

===============================================================================
