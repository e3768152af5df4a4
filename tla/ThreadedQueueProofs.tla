------------------------- MODULE ThreadedQueueProofs -------------------------
(* What the queue promises for any finite set of consumers and any number  *)
(* of items: where front() of an empty queue comes from, that no item is   *)
(* slept over, and that every item is popped once and in order.            *)
EXTENDS ThreadedQueue, FiniteSetTheorems, SequenceTheorems, TLAPS

\* A consumer that was woken and has not been overtaken finds an item.
WokenInv ==
    /\ TypeOK
    /\ undefined \cap Waiting = {}
    /\ queue = <<>> => Awake \subseteq excused
    /\ FrontOfEmptyOnlyIfOvertaken

\* What the consumers have taken, without looking at the queue.
OnceInOrder ==
    /\ \A c \in Consumers : \A i, j \in 1..Len(taken[c]) :
           i < j => taken[c][i] < taken[c][j]
    /\ \A c, d \in Consumers : \A i \in 1..Len(taken[c]), j \in 1..Len(taken[d]) :
           taken[c][i] = taken[d][j] => c = d

\* The queue holds the last numbers pushed, and the consumers have the others.
OrderInv ==
    /\ TypeOK
    /\ Len(queue) <= pushes
    /\ \A k \in 1..Len(queue) : queue[k] = pushes - Len(queue) + k
    /\ \A c \in Consumers : \A i \in 1..Len(taken[c]) : taken[c][i] <= pushes - Len(queue)
    /\ OnceInOrder

-----------------------------------------------------------------------------
(* Types *)

\* What a consumer in a call does to the sets of waiting and woken consumers.
LEMMA WaitingType == TypeOK => Waiting \subseteq Consumers /\ Awake \subseteq Waiting
  BY DEF Waiting, Awake

\* A pop moves one item from the queue to a consumer.
LEMMA TakeType ==
    ASSUME TypeOK, NEW c \in Consumers, Take(c)
    PROVE  /\ queue' \in Seq(1..MaxPushes)
           /\ Len(queue') = Len(queue) - 1
           /\ Len(queue) # 0
           /\ taken' \in [Consumers -> Seq(1..MaxPushes)]
           /\ excused' \in SUBSET Consumers
  <1>1. /\ Head(queue) \in 1..MaxPushes
        /\ Tail(queue) \in Seq(1..MaxPushes)
        /\ Len(Tail(queue)) = Len(queue) - 1
        /\ Len(queue) # 0
    BY HeadTailProperties, EmptySeq DEF TypeOK, Take
  <1>2. taken' \in [Consumers -> Seq(1..MaxPushes)]
    <2>1. Append(taken[c], Head(queue)) \in Seq(1..MaxPushes)
      BY <1>1 DEF TypeOK
    <2> QED BY <2>1 DEF TypeOK, Take
  <1>3. excused' \in SUBSET Consumers
    BY WaitingType DEF TypeOK, Take
  <1> QED BY <1>1, <1>2, <1>3 DEF Take

\* Initially all is empty.
LEMMA InitTypeOK == Init => TypeOK
  BY MaxPushesAssumption DEF Init, TypeOK, Waiting, Calls

\* Every step preserves the types.
LEMMA NextTypeOK == TypeOK /\ [Next]_vars => TypeOK'
  <1> SUFFICES ASSUME TypeOK, [Next]_vars PROVE TypeOK'
    OBVIOUS
  <1> USE DEF Waiting, Calls
  <1>1. ASSUME Push PROVE TypeOK'
    <2>1. pushes + 1 \in 1..MaxPushes
      BY <1>1, MaxPushesAssumption DEF Push, TypeOK
    <2>2. queue' \in Seq(1..MaxPushes)
      BY <1>1, <2>1 DEF Push, TypeOK
    <2> QED BY <1>1, <2>1, <2>2 DEF Push, TypeOK
  <1>2. ASSUME NEW c \in Consumers, Pop(c) PROVE TypeOK'
    <2>1. Take(c)
      BY <1>2 DEF Pop
    <2> QED BY <1>2, <2>1, TakeType DEF Pop, Take, TypeOK
  <1>3. ASSUME NEW c \in Consumers, NEW kind \in {"popWait", "popTimedWait"}, Wait(c, kind)
        PROVE  TypeOK'
    BY <1>3 DEF Wait, TypeOK
  <1>4. ASSUME NEW c \in Consumers, Woken(c) PROVE TypeOK'
    <2>1. CASE Take(c)
      BY <1>4, <2>1, TakeType DEF Woken, Take, TypeOK, Awake
    <2>2. CASE queue = <<>> /\ UNCHANGED <<queue, pushes, blocked, taken, excused>>
      BY <1>4, <2>2 DEF Woken, TypeOK, Awake, Take
    <2> QED BY <1>4, <2>1, <2>2 DEF Woken
  <1>5. ASSUME NEW c \in Consumers, TimeOut(c) PROVE TypeOK'
    BY <1>5 DEF TimeOut, TypeOK
  <1>6. ASSUME NEW c \in Consumers, SpuriousWakeup(c) PROVE TypeOK'
    BY <1>6 DEF SpuriousWakeup, TypeOK
  <1>7. ASSUME UNCHANGED vars PROVE TypeOK'
    BY <1>7 DEF vars, TypeOK
  <1> QED BY <1>1, <1>2, <1>3, <1>4, <1>5, <1>6, <1>7 DEF Next

\* Type correctness: in particular only a consumer inside a wait is blocked.
THEOREM SpecTypeOK == Spec => []TypeOK
  BY InitTypeOK, NextTypeOK, PTL DEF Spec

-----------------------------------------------------------------------------
(* front() of an empty queue *)

\* Nobody sleeps at first.
LEMMA InitWokenInv == Init => WokenInv
  BY InitTypeOK DEF Init, WokenInv, Waiting, Awake, FrontOfEmptyOnlyIfOvertaken

\* A pop leaves every other waiting consumer overtaken.
LEMMA TakeOvertakes ==
    ASSUME WokenInv, NEW c \in Consumers, c \notin undefined, Take(c),
           call' = call \/ call' = [call EXCEPT ![c] = "none"],
           TypeOK', c \notin Awake'
    PROVE  WokenInv'
  <1> USE DEF WokenInv, Waiting, Awake, FrontOfEmptyOnlyIfOvertaken
  <1>1. undefined' = undefined /\ blocked' = blocked
    BY DEF Take
  <1>2. Waiting' \subseteq Waiting
    BY DEF TypeOK
  <1>3. excused' = (excused \cup Waiting) \ {c}
    BY DEF Take
  <1>4. Awake' \subseteq excused'
    BY <1>1, <1>2, <1>3
  <1>5. undefined' \subseteq excused'
    BY <1>1, <1>3
  <1> QED BY <1>1, <1>2, <1>4, <1>5

\* Every step preserves the invariant.
LEMMA NextWokenInv == WokenInv /\ [Next]_vars => WokenInv'
  <1> SUFFICES ASSUME WokenInv, [Next]_vars PROVE WokenInv'
    OBVIOUS
  <1>0. TypeOK /\ TypeOK'
    BY NextTypeOK DEF WokenInv
  <1> USE DEF FrontOfEmptyOnlyIfOvertaken
  <1>1. ASSUME Push PROVE WokenInv'
    <2>1. queue' # <<>>
      BY <1>0, <1>1 DEF Push, TypeOK
    <2>2. undefined' = undefined /\ call' = call /\ excused' = excused
      BY <1>1 DEF Push
    <2> QED BY <1>0, <2>1, <2>2 DEF WokenInv, Waiting
  <1>2. ASSUME NEW c \in Consumers, Pop(c) PROVE WokenInv'
    <2>1. c \notin undefined /\ Take(c) /\ call' = call /\ call[c] = "none"
      BY <1>2 DEF Pop, Ready
    <2>2. c \notin Awake'
      BY <2>1 DEF Awake, Waiting
    <2> QED BY <1>0, <2>1, <2>2, TakeOvertakes
  <1>3. ASSUME NEW c \in Consumers, NEW kind \in {"popWait", "popTimedWait"}, Wait(c, kind)
        PROVE  WokenInv'
    <2>1. Waiting' = Waiting \cup {c} /\ Awake' = Awake \ {c}
      BY <1>0, <1>3 DEF Wait, Waiting, Awake, TypeOK
    <2>2. c \notin undefined
      BY <1>3 DEF Wait, Ready
    <2> QED BY <1>0, <1>3, <2>1, <2>2 DEF Wait, WokenInv
  <1>4. ASSUME NEW c \in Consumers, Woken(c) PROVE WokenInv'
    <2>1. c \in Awake /\ c \in Waiting /\ call' = [call EXCEPT ![c] = "none"]
      BY <1>4 DEF Woken, Awake
    <2>2. Waiting' = Waiting \ {c}
      BY <1>0, <2>1 DEF Waiting, TypeOK
    <2>3. CASE Take(c)
      <3>1. c \notin undefined /\ c \notin Awake'
        BY <2>1, <2>2 DEF WokenInv, Awake
      <3> QED BY <1>0, <2>1, <2>3, <3>1, TakeOvertakes
    <2>4. CASE queue = <<>> /\ undefined' = undefined \cup {c}
               /\ UNCHANGED <<queue, pushes, blocked, taken, excused>>
      <3>1. c \in excused
        BY <2>1, <2>4 DEF WokenInv
      <3> QED BY <1>0, <2>2, <2>4, <3>1 DEF WokenInv, Awake
    <2> QED BY <1>4, <2>3, <2>4 DEF Woken
  <1>5. ASSUME NEW c \in Consumers, TimeOut(c) PROVE WokenInv'
    <2>1. Waiting' = Waiting \ {c} /\ Awake' = Awake
      BY <1>0, <1>5 DEF TimeOut, Waiting, Awake, TypeOK
    <2> QED BY <1>0, <1>5, <2>1 DEF TimeOut, WokenInv
  <1>6. ASSUME NEW c \in Consumers, SpuriousWakeup(c) PROVE WokenInv'
    <2>1. Waiting' = Waiting /\ Awake' \subseteq Awake \cup {c}
      BY <1>6 DEF SpuriousWakeup, Waiting, Awake
    <2> QED BY <1>0, <1>6, <2>1 DEF SpuriousWakeup, WokenInv
  <1>7. ASSUME UNCHANGED vars PROVE WokenInv'
    BY <1>0, <1>7 DEF vars, WokenInv, Awake, Waiting
  <1> QED BY <1>1, <1>2, <1>3, <1>4, <1>5, <1>6, <1>7 DEF Next

\* A consumer reads the front of an empty queue only if another one popped
\* while it waited, or it was woken by nobody.
THEOREM SpecFrontOfEmpty == Spec => []FrontOfEmptyOnlyIfOvertaken
  BY InitWokenInv, NextWokenInv, PTL DEF Spec, WokenInv

-----------------------------------------------------------------------------
(* No item is slept over *)

\* The sets are finite, so their cardinalities are numbers.
LEMMA AwakeFinite ==
    ASSUME TypeOK
    PROVE  IsFiniteSet(Awake) /\ Cardinality(Awake) \in Nat
  <1>1. Awake \subseteq Consumers
    BY DEF Awake, Waiting
  <1> QED BY <1>1, ConsumersAssumption, FS_Subset, FS_CardinalityType

\* Initially nobody is blocked.
LEMMA InitNoItemSleptOver == Init => NoItemSleptOver
  BY DEF Init, NoItemSleptOver

\* Whoever leaves the set of woken consumers took an item or found none.
LEMMA NextNoItemSleptOver == TypeOK /\ NoItemSleptOver /\ [Next]_vars => NoItemSleptOver'
  <1> SUFFICES ASSUME TypeOK, NoItemSleptOver, [Next]_vars PROVE NoItemSleptOver'
    OBVIOUS
  <1>0. TypeOK'
    BY NextTypeOK
  <1>a. IsFiniteSet(Awake) /\ Cardinality(Awake) \in Nat
    BY AwakeFinite
  <1>b. IsFiniteSet(Awake') /\ Cardinality(Awake') \in Nat
    <2>1. Awake' \subseteq Consumers
      BY DEF Awake, Waiting
    <2> QED BY <2>1, ConsumersAssumption, FS_Subset, FS_CardinalityType
  <1>c. Len(queue) \in Nat
    BY LenProperties DEF TypeOK
  <1> USE DEF NoItemSleptOver
  <1>1. ASSUME Push PROVE NoItemSleptOver'
    <2>1. Len(queue') = Len(queue) + 1
      BY <1>0, <1>1 DEF Push, TypeOK
    <2>2. CASE blocked = {} /\ UNCHANGED blocked
      BY <2>2
    <2>3. ASSUME NEW c \in blocked, blocked' = blocked \ {c} PROVE NoItemSleptOver'
      <3>1. Awake' = Awake \cup {c} /\ c \notin Awake
        BY <1>1, <2>3 DEF Push, Awake, Waiting, TypeOK
      <3>2. Cardinality(Awake') = Cardinality(Awake) + 1
        BY <1>0, <1>a, <1>b, <1>c, <3>1, FS_AddElement
      <3> QED BY <1>0, <1>a, <1>b, <1>c, <2>1, <2>3, <3>2
    <2> QED BY <1>1, <2>2, <2>3 DEF Push
  <1>2. ASSUME NEW c \in Consumers, Pop(c) PROVE NoItemSleptOver'
    <2>1. blocked' = blocked /\ Awake' = Awake
      BY <1>2 DEF Pop, Take, Awake, Waiting
    <2>2. Len(queue') = Len(queue) - 1
      BY <1>2, TakeType DEF Pop
    <2> QED BY <1>0, <1>a, <1>b, <1>c, <2>1, <2>2
  <1>3. ASSUME NEW c \in Consumers, NEW kind \in {"popWait", "popTimedWait"}, Wait(c, kind)
        PROVE  NoItemSleptOver'
    <2>1. queue' = <<>>
      BY <1>3 DEF Wait
    <2>2. Len(queue') = 0
      BY <2>1, EmptySeq
    <2> QED BY <1>0, <1>a, <1>b, <1>c, <2>2
  <1>4. ASSUME NEW c \in Consumers, Woken(c) PROVE NoItemSleptOver'
    <2>1. Awake' = Awake \ {c} /\ c \in Awake /\ blocked' = blocked
      BY <1>4 DEF Woken, Take, Awake, Waiting, TypeOK
    <2>2. Cardinality(Awake') = Cardinality(Awake) - 1
      BY <1>0, <1>a, <1>b, <1>c, <2>1, FS_RemoveElement
    <2>3. CASE Take(c)
      <3>1. Len(queue') = Len(queue) - 1
        BY <2>3, TakeType
      <3> QED BY <1>0, <1>a, <1>b, <1>c, <2>1, <2>2, <3>1
    <2>4. CASE queue = <<>> /\ UNCHANGED <<queue, pushes, blocked, taken, excused>>
      <3>1. Len(queue') = 0
        BY <2>4, EmptySeq
      <3> QED BY <1>0, <1>a, <1>b, <1>c, <3>1
    <2> QED BY <1>4, <2>3, <2>4 DEF Woken
  <1>5. ASSUME NEW c \in Consumers, TimeOut(c) PROVE NoItemSleptOver'
    <2>1. Awake' = Awake /\ blocked' \subseteq blocked /\ queue' = queue
      BY <1>5 DEF TimeOut, Awake, Waiting, TypeOK
    <2> QED BY <1>0, <1>a, <1>b, <1>c, <2>1
  <1>6. ASSUME NEW c \in Consumers, SpuriousWakeup(c) PROVE NoItemSleptOver'
    <2>1. Awake \subseteq Awake' /\ blocked' \subseteq blocked /\ queue' = queue
      BY <1>6 DEF SpuriousWakeup, Awake, Waiting
    <2>2. Cardinality(Awake) <= Cardinality(Awake')
      BY <1>0, <1>a, <1>b, <1>c, <2>1, FS_Subset
    <2> QED BY <1>0, <1>a, <1>b, <1>c, <2>1, <2>2
  <1>7. ASSUME UNCHANGED vars PROVE NoItemSleptOver'
    BY <1>7 DEF vars, Awake, Waiting
  <1> QED BY <1>1, <1>2, <1>3, <1>4, <1>5, <1>6, <1>7 DEF Next

\* While a consumer is blocked every item in the queue has a consumer of its
\* own that was woken: one notification for each push is enough.
THEOREM SpecNoItemSleptOver == Spec => []NoItemSleptOver
  BY InitTypeOK, NextTypeOK, InitNoItemSleptOver, NextNoItemSleptOver, PTL DEF Spec

-----------------------------------------------------------------------------
(* Every item once and in order *)

\* What has been taken is exactly behind what is queued.
LEMMA InitOrderInv == Init => OrderInv
  <1> SUFFICES ASSUME Init PROVE OrderInv
    OBVIOUS
  <1>1. queue = <<>> /\ pushes = 0 /\ \A c \in Consumers : taken[c] = <<>>
    BY DEF Init
  <1>2. Len(queue) = 0 /\ \A c \in Consumers : Len(taken[c]) = 0
    BY <1>1, EmptySeq
  <1> QED BY <1>1, <1>2, InitTypeOK DEF OrderInv, OnceInOrder

\* A consumer that takes the front gets the number after all those taken.
LEMMA TakeOrderInv ==
    ASSUME OrderInv, TypeOK', NEW c \in Consumers, Take(c)
    PROVE  OrderInv'
  <1> DEFINE n == pushes - Len(queue) + 1
  <1>1. /\ queue \in Seq(Nat) /\ pushes \in Nat /\ Len(queue) \in Nat /\ queue # <<>>
        /\ \A d \in Consumers : taken[d] \in Seq(Nat) /\ Len(taken[d]) \in Nat
    BY MaxPushesAssumption, LenProperties DEF OrderInv, TypeOK, Take
  <1>2. Head(queue) = n /\ Len(queue) >= 1
    BY <1>1 DEF OrderInv
  <1>a. n \in Nat /\ \A d \in Consumers : \A i \in 1..Len(taken[d]) :
            taken[d][i] \in Nat /\ taken[d][i] < n
    <2> SUFFICES ASSUME NEW d \in Consumers, NEW i \in 1..Len(taken[d])
                 PROVE  n \in Nat /\ taken[d][i] \in Nat /\ taken[d][i] < n
      BY <1>1 DEF OrderInv
    <2>1. taken[d][i] \in Nat
      BY <1>1
    <2>2. taken[d][i] <= pushes - Len(queue)
      BY DEF OrderInv
    <2> QED BY <1>1, <2>1, <2>2 DEF OrderInv
  <1> HIDE DEF n
  <1>3. /\ pushes' = pushes /\ Len(queue') = Len(queue) - 1
        /\ \A k \in 1..Len(queue') : queue'[k] = queue[k + 1]
    BY <1>1, <1>2 DEF Take
  <1>4. Len(queue') <= pushes' /\ \A k \in 1..Len(queue') : queue'[k] = pushes' - Len(queue') + k
    BY <1>1, <1>3 DEF OrderInv
  <1>5. /\ taken'[c] = Append(taken[c], n)
        /\ \A d \in Consumers \ {c} : taken'[d] = taken[d]
    BY <1>2 DEF Take, OrderInv, TypeOK
  <1>6. /\ Len(taken'[c]) = Len(taken[c]) + 1
        /\ \A i \in 1..Len(taken'[c]) :
               taken'[c][i] = IF i <= Len(taken[c]) THEN taken[c][i] ELSE n
    BY <1>1, <1>5
  <1>b. \A i \in 1..Len(taken'[c]) :
            /\ i \in Nat /\ i <= Len(taken[c]) + 1
            /\ \/ i \in 1..Len(taken[c]) /\ taken'[c][i] = taken[c][i] /\ taken[c][i] < n
               \/ i = Len(taken[c]) + 1 /\ taken'[c][i] = n
    <2> SUFFICES ASSUME NEW i \in 1..Len(taken'[c])
                 PROVE  /\ i \in Nat /\ i <= Len(taken[c]) + 1
                        /\ \/ i \in 1..Len(taken[c]) /\ taken'[c][i] = taken[c][i] /\ taken[c][i] < n
                           \/ i = Len(taken[c]) + 1 /\ taken'[c][i] = n
      OBVIOUS
    <2>1. i \in Nat /\ i >= 1 /\ i <= Len(taken[c]) + 1
      BY <1>1, <1>6
    <2>2. CASE i <= Len(taken[c])
      <3>1. i \in 1..Len(taken[c])
        BY <1>1, <2>1, <2>2
      <3> QED BY <1>a, <1>6, <2>1, <2>2, <3>1
    <2>3. CASE ~(i <= Len(taken[c]))
      BY <1>1, <1>6, <2>1, <2>3
    <2> QED BY <2>2, <2>3
  <1>7. \A d \in Consumers : \A i \in 1..Len(taken'[d]) : taken'[d][i] <= n
    <2> SUFFICES ASSUME NEW d \in Consumers, NEW i \in 1..Len(taken'[d]) PROVE taken'[d][i] <= n
      OBVIOUS
    <2>1. CASE d = c
      BY <1>a, <1>b, <2>1
    <2>2. CASE d # c
      BY <1>1, <1>a, <1>5, <2>2, SMTT(60)
    <2> QED BY <2>1, <2>2
  <1>8. OnceInOrder'
    <2>1. ASSUME NEW d \in Consumers, NEW i \in 1..Len(taken'[d]), NEW j \in 1..Len(taken'[d]), i < j
          PROVE  taken'[d][i] < taken'[d][j]
      <3>1. CASE d = c
        <4>0. i \in 1..Len(taken'[c]) /\ j \in 1..Len(taken'[c])
          BY <3>1
        <4>1. i \in 1..Len(taken[c]) /\ taken'[c][i] = taken[c][i] /\ taken[c][i] < n
          <5>1. i \in Nat /\ j \in Nat /\ j <= Len(taken[c]) + 1
            BY <1>b, <4>0
          <5>2. Len(taken[c]) \in Nat
            BY <1>1
          <5>3. i # Len(taken[c]) + 1
            BY <2>1, <5>1, <5>2
          <5> QED BY <1>b, <4>0, <5>3
        <4>2. CASE j \in 1..Len(taken[c]) /\ taken'[c][j] = taken[c][j]
          BY <2>1, <3>1, <4>1, <4>2 DEF OrderInv, OnceInOrder
        <4>3. CASE taken'[c][j] = n
          BY <3>1, <4>1, <4>3
        <4> QED BY <1>b, <2>1, <3>1, <4>2, <4>3
      <3>2. CASE d # c
        BY <1>1, <1>5, <2>1, <3>2 DEF OrderInv, OnceInOrder
      <3> QED BY <3>1, <3>2
    <2>2. ASSUME NEW d \in Consumers, NEW e \in Consumers, NEW i \in 1..Len(taken'[d]),
                 NEW j \in 1..Len(taken'[e]), taken'[d][i] = taken'[e][j]
          PROVE  d = e
      <3> SUFFICES ASSUME d # e PROVE FALSE
        OBVIOUS
      <3>1. CASE d = c
        <4>1. j \in 1..Len(taken[e]) /\ taken'[e][j] = taken[e][j]
          BY <1>5, <2>2, <3>1
        <4>2. taken'[c][i] # n
          BY <1>a, <2>2, <3>1, <4>1
        <4>3. i \in 1..Len(taken[c]) /\ taken'[c][i] = taken[c][i]
          BY <1>b, <2>2, <3>1, <4>2
        <4> QED BY <2>2, <3>1, <4>1, <4>3 DEF OrderInv, OnceInOrder
      <3>2. CASE e = c
        <4>1. i \in 1..Len(taken[d]) /\ taken'[d][i] = taken[d][i]
          BY <1>5, <2>2, <3>2
        <4>2. taken'[c][j] # n
          BY <1>a, <2>2, <3>2, <4>1
        <4>3. j \in 1..Len(taken[c]) /\ taken'[c][j] = taken[c][j]
          BY <1>b, <2>2, <3>2, <4>2
        <4> QED BY <2>2, <3>2, <4>1, <4>3 DEF OrderInv, OnceInOrder
      <3>3. CASE d # c /\ e # c
        BY <1>5, <2>2, <3>3 DEF OrderInv, OnceInOrder
      <3> QED BY <3>1, <3>2, <3>3
    <2> QED BY <2>1, <2>2 DEF OnceInOrder
  <1>9. \A d \in Consumers : \A i \in 1..Len(taken'[d]) : taken'[d][i] <= pushes' - Len(queue')
    BY <1>1, <1>3, <1>7 DEF n
  <1> QED BY <1>4, <1>8, <1>9 DEF OrderInv

\* Every step preserves the invariant.
LEMMA NextOrderInv == OrderInv /\ [Next]_vars => OrderInv'
  <1> SUFFICES ASSUME OrderInv, [Next]_vars PROVE OrderInv'
    OBVIOUS
  <1>0. TypeOK'
    BY NextTypeOK DEF OrderInv
  <1>1. ASSUME Push PROVE OrderInv'
    <2>1. queue \in Seq(Nat) /\ pushes \in Nat /\ Len(queue) \in Nat
      BY MaxPushesAssumption, LenProperties DEF OrderInv, TypeOK
    <2>2. /\ Len(queue') = Len(queue) + 1 /\ pushes' = pushes + 1 /\ taken' = taken
          /\ \A k \in 1..Len(queue') :
                 queue'[k] = IF k <= Len(queue) THEN queue[k] ELSE pushes + 1
      BY <1>1, <2>1 DEF Push
    <2>3. Len(queue') <= pushes' /\ pushes' - Len(queue') = pushes - Len(queue)
      BY <2>1, <2>2 DEF OrderInv
    <2>4. ASSUME NEW k \in 1..Len(queue') PROVE queue'[k] = pushes' - Len(queue') + k
      <3>1. k \in Nat /\ k >= 1 /\ k <= Len(queue) + 1
        BY <2>1, <2>2
      <3>2. CASE k <= Len(queue)
        <4>1. queue[k] = pushes - Len(queue) + k
          BY <2>1, <3>1, <3>2 DEF OrderInv
        <4> QED BY <2>2, <2>3, <3>2, <4>1
      <3>3. CASE ~(k <= Len(queue))
        <4>1. k = Len(queue) + 1
          BY <2>1, <3>1, <3>3
        <4> QED BY <2>1, <2>2, <2>3, <3>3, <4>1
      <3> QED BY <3>2, <3>3
    <2>5. OnceInOrder'
      BY <2>2 DEF OrderInv, OnceInOrder
    <2>6. \A c \in Consumers : \A i \in 1..Len(taken'[c]) : taken'[c][i] <= pushes' - Len(queue')
      BY <2>2, <2>3 DEF OrderInv
    <2> QED BY <1>0, <2>3, <2>4, <2>5, <2>6 DEF OrderInv
  <1>2. ASSUME NEW c \in Consumers, Take(c) PROVE OrderInv'
    BY <1>0, <1>2, TakeOrderInv
  <1>3. ASSUME UNCHANGED <<queue, pushes, taken>> PROVE OrderInv'
    BY <1>0, <1>3 DEF OrderInv, OnceInOrder
  <1> QED BY <1>1, <1>2, <1>3
          DEF Next, Pop, Wait, Woken, TimeOut, SpuriousWakeup, vars

\* Every item goes to one consumer, each gets its items in the order of the
\* pushes, and what is queued comes after all that was taken.
THEOREM SpecEachOnceInOrder == Spec => []EachOnceInOrder
  <1>1. OrderInv => EachOnceInOrder
    <2> SUFFICES ASSUME OrderInv PROVE EachOnceInOrder
      OBVIOUS
    <2>1. /\ queue \in Seq(Nat) /\ pushes \in Nat /\ Len(queue) \in Nat
          /\ \A c \in Consumers : taken[c] \in Seq(Nat)
      BY MaxPushesAssumption, LenProperties DEF OrderInv, TypeOK
    <2>2. DOMAIN queue = 1..Len(queue) /\ \A c \in Consumers : DOMAIN taken[c] = 1..Len(taken[c])
      BY <2>1, LenProperties
    <2>3. \A c \in Consumers : \A i \in DOMAIN taken[c], k \in DOMAIN queue :
              taken[c][i] < queue[k]
      <3> SUFFICES ASSUME NEW c \in Consumers, NEW i \in DOMAIN taken[c], NEW k \in DOMAIN queue
                   PROVE  taken[c][i] < queue[k]
        OBVIOUS
      <3>1. taken[c][i] \in Nat /\ k \in Nat /\ k >= 1
        BY <2>1, <2>2
      <3>2. taken[c][i] <= pushes - Len(queue) /\ queue[k] = pushes - Len(queue) + k
        BY <2>2 DEF OrderInv
      <3>3. pushes - Len(queue) \in Int
        BY <2>1 DEF OrderInv, TypeOK
      <3> QED BY <2>1, <3>1, <3>2, <3>3
    <2>4. \A c \in Consumers : \A i, j \in DOMAIN taken[c] : i < j => taken[c][i] < taken[c][j]
      BY <2>2 DEF OrderInv, OnceInOrder
    <2>5. \A c, d \in Consumers : \A i \in DOMAIN taken[c], j \in DOMAIN taken[d] :
              taken[c][i] = taken[d][j] => c = d
      BY <2>2 DEF OrderInv, OnceInOrder
    <2> QED BY <2>3, <2>4, <2>5 DEF EachOnceInOrder
  <1> QED BY InitOrderInv, NextOrderInv, <1>1, PTL DEF Spec
=============================================================================
