----------------------- MODULE EventPublisherProofs -----------------------
(***************************************************************************)
(* Handlers are serialised and none runs after its disconnect(), for any   *)
(* threads, types, handlers and number of calls, nested calls included.    *)
(* Nothing here depends on m_signalMapMutex: the mutexes of the types and  *)
(* the order in which connections come and go are enough.                  *)
(***************************************************************************)
EXTENDS EventPublisher, TLAPS

\* The frames of a stack, and those under the first.
Called(t) == ToSet(stack[t])
Below(s) == {s[i] : i \in 2..Len(s)}

Holding == {"lookup", "call", "running"}

\* What each kind of call looks like; only publish() is ever interrupted by another
\* call of its thread, while it runs a handler.
FrameOK(f) ==
    /\ f.op # "publish" => f.handler \in Handlers /\ f.type = TypeOf[f.handler]
    /\ f.at = "running" => f.op = "publish" /\ f.handler \in Handlers /\ f.type = TypeOf[f.handler]
    /\ f.op = "subscribe" => f.at = "map"

FrameInv == \A t \in Threads :
    /\ \A f \in Called(t) : FrameOK(f)
    /\ \A f \in Below(stack[t]) : f.at = "running"
    /\ mapPhase[t] \in {"wantRead", "reading"} => Top(t).op # "subscribe"

\* The recursive mutex of a type has one owner.
MutexInv ==
    \A t, u \in Threads : \A f \in Called(t), g \in Called(u) :
        f.type = g.type /\ f.at \in Holding /\ g.at \in Holding => t = u

\* A handler is subscribed once, then on the signal and connected, then taken off for
\* good.
ConnectionInv ==
    /\ \A h \in connected : disconnector[h] = Nobody
    /\ \A type \in Types : \A h \in ToSet(slots[type]) : h \in connected
    /\ \A type \in Types : \A i, j \in DOMAIN slots[type] : slots[type][i] = slots[type][j] => i = j
    /\ \A t \in Threads : \A f \in Called(t) :
        /\ f.op = "subscribe" => f.handler \notin connected /\ disconnector[f.handler] = Nobody
        /\ f.op = "unSubscribe" => f.handler \in connected \/ disconnector[f.handler] # Nobody
    /\ \A t, u \in Threads : \A f \in Called(t), g \in Called(u) :
        f.op = "subscribe" /\ g.op = "subscribe" /\ f.handler = g.handler => t = u

\* Whoever still runs a handler that was taken off took it off.
OffInv == \A t \in Threads : \A f \in Called(t) :
    f.at = "running" /\ disconnector[f.handler] # Nobody => t = disconnector[f.handler]

IInv == TypeOK /\ FrameInv /\ MutexInv /\ ConnectionInv /\ OffInv

-----------------------------------------------------------------------------
(* Stacks *)

\* A call is made.
LEMMA PushStack ==
    ASSUME NEW s \in Seq(Frames), NEW f \in Frames
    PROVE  LET n == <<f>> \o s IN
           n \in Seq(Frames) /\ n # <<>> /\ n[1] = f /\ ToSet(n) = {f} \cup ToSet(s) /\ Below(n) = ToSet(s)
<1>. DEFINE n == <<f>> \o s
<1>1. n \in Seq(Frames) /\ Len(n) = Len(s) + 1 /\ n[1] = f /\ n # <<>>
  OBVIOUS
<1>2. \A i \in 1..Len(s) : n[i + 1] = s[i]
  OBVIOUS
<1>3. \A i \in 2..Len(n) : n[i] = s[i - 1] /\ i - 1 \in 1..Len(s)
  OBVIOUS
<1>4. Below(n) = ToSet(s)
  <2>1. \A x : x \in Below(n) => x \in ToSet(s) BY <1>3 DEF Below, ToSet
  <2>2. \A i \in 1..Len(s) : i + 1 \in 2..Len(n) BY <1>1
  <2>3. ASSUME NEW x \in ToSet(s) PROVE x \in Below(n)
    <3>1. PICK i \in 1..Len(s) : x = s[i] BY DEF ToSet
    <3>2. i + 1 \in 2..Len(n) /\ n[i + 1] = x BY <1>2, <2>2, <3>1
    <3>. QED BY <3>2 DEF Below
  <2>. QED BY <2>1, <2>3
<1>5. ToSet(n) = {n[1]} \cup Below(n)
  BY <1>1 DEF ToSet, Below
<1>. QED BY <1>1, <1>4, <1>5

\* The first frame of a stack and the others.
LEMMA SplitStack ==
    ASSUME NEW s \in Seq(Frames), s # <<>>
    PROVE  s[1] \in Frames /\ ToSet(s) = {s[1]} \cup Below(s)
BY DEF ToSet, Below

\* The innermost call returns.
LEMMA PopStack ==
    ASSUME NEW s \in Seq(Frames), s # <<>>
    PROVE  LET n == Tail(s) IN
           /\ n \in Seq(Frames) /\ ToSet(n) = Below(s) /\ Below(n) \subseteq Below(s)
           /\ n # <<>> => n[1] \in Below(s)
<1>. DEFINE n == Tail(s)
<1>1. n \in Seq(Frames) /\ Len(n) = Len(s) - 1 /\ Len(s) \in Nat \ {0}
  OBVIOUS
<1>2. \A i \in 1..Len(n) : n[i] = s[i + 1] /\ i + 1 \in 2..Len(s)
  BY <1>1
<1>3. \A i \in 2..Len(s) : i - 1 \in 1..Len(n) /\ n[i - 1] = s[i]
  BY <1>1
<1>4. ToSet(n) = Below(s)
  <2>1. \A x : x \in ToSet(n) => x \in Below(s) BY <1>1, <1>2 DEF Below, ToSet
  <2>2. ASSUME NEW x \in Below(s) PROVE x \in ToSet(n)
    <3>1. PICK i \in 2..Len(s) : x = s[i] BY DEF Below
    <3>2. i - 1 \in DOMAIN n /\ n[i - 1] = x BY <1>1, <1>3, <3>1
    <3>. QED BY <3>2 DEF ToSet
  <2>. QED BY <2>1, <2>2
<1>5. Below(n) \subseteq ToSet(n)
  <2>1. \A i \in 2..Len(n) : i \in DOMAIN n BY <1>1
  <2>. QED BY <2>1 DEF Below, ToSet
<1>6. n # <<>> => n[1] \in ToSet(n)
  BY <1>1 DEF ToSet
<1>. QED BY <1>1, <1>4, <1>5, <1>6

\* The innermost call goes on.
LEMMA ReplaceTop ==
    ASSUME NEW s \in Seq(Frames), s # <<>>, NEW f \in Frames
    PROVE  LET n == <<f>> \o Tail(s) IN
           n \in Seq(Frames) /\ n # <<>> /\ n[1] = f /\ ToSet(n) = {f} \cup Below(s) /\ Below(n) = Below(s)
BY PushStack, PopStack, Tail(s) \in Seq(Frames)

\* A handler that is on a signal once is not on it when it is taken off.
LEMMA TakenOff ==
    ASSUME NEW s \in Seq(Handlers), NEW h, \A i, j \in DOMAIN s : s[i] = s[j] => i = j
    PROVE  LET n == Without(s, h) IN
           /\ n \in Seq(Handlers) /\ ToSet(n) \subseteq ToSet(s) /\ h \notin ToSet(n)
           /\ \A i, j \in DOMAIN n : n[i] = n[j] => i = j
<1>1. CASE h \notin ToSet(s)
  BY <1>1 DEF Without
<1>2. CASE h \in ToSet(s)
  <2>. DEFINE k == CHOOSE i \in DOMAIN s : s[i] = h
              n == Without(s, h)
  <2>1. k \in 1..Len(s) /\ s[k] = h
    BY <1>2 DEF ToSet
  <2>2. n = SubSeq(s, 1, k - 1) \o SubSeq(s, k + 1, Len(s))
    BY <1>2 DEF Without, RemoveAt
  <2>. HIDE DEF k
  <2>3. /\ n \in Seq(Handlers) /\ Len(n) = Len(s) - 1
        /\ \A i \in 1..Len(n) : n[i] = s[IF i < k THEN i ELSE i + 1]
    <3>. DEFINE a == SubSeq(s, 1, k - 1)
                b == SubSeq(s, k + 1, Len(s))
    <3>1. a \in Seq(Handlers) /\ Len(a) = k - 1 /\ \A i \in 1..(k - 1) : a[i] = s[i]
      BY <2>1
    <3>2. b \in Seq(Handlers) /\ Len(b) = Len(s) - k /\ \A i \in 1..(Len(s) - k) : b[i] = s[i + k]
      BY <2>1
    <3>0. n = a \o b
      BY <2>2
    <3>. HIDE DEF a, b, n
    <3>3. n \in Seq(Handlers) /\ Len(n) = Len(s) - 1
      BY <2>1, <3>0, <3>1, <3>2
    <3>6. ASSUME NEW i \in 1..Len(n) PROVE n[i] = s[IF i < k THEN i ELSE i + 1]
      <4>1. CASE i < k
        <5>1. n[i] = a[i] BY <4>1, <2>1, <3>0, <3>1, <3>2, <3>3
        <5>. QED BY <4>1, <5>1, <2>1, <3>1
      <4>2. CASE i >= k
        <5>1. n[i] = b[i - (k - 1)] BY <4>2, <2>1, <3>0, <3>1, <3>2, <3>3
        <5>2. i - (k - 1) \in 1..(Len(s) - k) BY <4>2, <2>1, <3>3
        <5>. QED BY <4>2, <5>1, <5>2, <3>2, <2>1
      <4>. QED BY <4>1, <4>2, <2>1
    <3>. QED BY <3>3, <3>6
  <2>. HIDE DEF n
  <2>4. \A i \in 1..Len(n) : (IF i < k THEN i ELSE i + 1) \in DOMAIN s /\ (IF i < k THEN i ELSE i + 1) # k
    BY <2>1, <2>3
  <2>5. ToSet(n) \subseteq ToSet(s)
    BY <2>3, <2>4 DEF ToSet
  <2>6. h \notin ToSet(n)
    BY <2>1, <2>3, <2>4 DEF ToSet
  <2>7. ASSUME NEW i \in DOMAIN n, NEW j \in DOMAIN n, n[i] = n[j] PROVE i = j
    <3>1. i \in 1..Len(n) /\ j \in 1..Len(n) BY <2>3
    <3>2. (IF i < k THEN i ELSE i + 1) = (IF j < k THEN j ELSE j + 1) BY <2>3, <2>4, <2>7, <3>1
    <3>. QED BY <3>1, <3>2, <2>1, <2>3
  <2>. QED BY <2>3, <2>5, <2>6, <2>7 DEF n
<1>. QED BY <1>1, <1>2

-----------------------------------------------------------------------------
(* The invariant *)

\* It says what is wanted.
LEMMA IInvImplies == IInv => HandlersGuarded
<1>. SUFFICES ASSUME IInv PROVE HandlersGuarded
  OBVIOUS
<1>1. ASSUME NEW t \in Threads, NEW h, Inside(t, h)
      PROVE  \E f \in Called(t) : f.at = "running" /\ f.handler = h
  BY <1>1 DEF Inside, Called, ToSet
<1>2. HandlersSerialised
  BY <1>1 DEF HandlersSerialised, IInv, FrameInv, FrameOK, MutexInv, Holding
<1>3. NoCallAfterDisconnect
  BY <1>1 DEF NoCallAfterDisconnect, IInv, OffInv
<1>. QED BY <1>2, <1>3 DEF HandlersGuarded, IInv

\* Two threads past the maps, at work on the same signal, would both hold its mutex.
LEMMA IInvRaces == IInv => RacesOnlyWithNewcomers
<1>. SUFFICES ASSUME IInv, NEW t \in Threads, NEW u \in Threads, Collide(t, u),
                     Top(t).at \notin {"map", "lookup"}, Top(u).at \notin {"map", "lookup"}
              PROVE  FALSE
  BY DEF RacesOnlyWithNewcomers
<1>1. ASSUME NEW v \in Threads, NEW a \in Accesses(v), Top(v).at \notin {"map", "lookup"}
      PROVE  v \in Busy /\ Top(v).at = "call" /\ a.object = Top(v).type
  <2>1. v \in Busy
    BY <1>1 DEF Accesses
  <2>2. mapPhase[v] = "idle"
    BY <1>1 DEF IInv, TypeOK
  <2>3. Top(v).at = "call"
    BY <1>1, <2>1, <2>2 DEF Accesses
  <2>4. Accesses(v) = {[object |-> Top(v).type, writes |-> TRUE]}
    BY <2>1, <2>2, <2>3 DEF Accesses
  <2>. QED BY <1>1, <2>1, <2>3, <2>4
<1>2. PICK a \in Accesses(t), b \in Accesses(u) : a.object = b.object
  BY DEF Collide
<1>3. ASSUME NEW v \in Threads, v \in Busy PROVE Top(v) \in Called(v)
  BY <1>3, SplitStack DEF IInv, TypeOK, Busy, Top, Called
<1>4. Top(t) \in Called(t) /\ Top(u) \in Called(u) /\ Top(t).at = "call" /\ Top(u).at = "call"
      /\ Top(t).type = Top(u).type
  BY <1>1, <1>2, <1>3
<1>5. t = u
  BY <1>4 DEF IInv, MutexInv, Holding
<1>. QED BY <1>5 DEF Collide

\* Initially nothing is called and nothing connected.
LEMMA InitIInv == Init => IInv
<1>. SUFFICES ASSUME Init PROVE IInv
  OBVIOUS
<1>1. \A t \in Threads : Called(t) = {} /\ Below(stack[t]) = {}
  BY DEF Init, Called, Below, ToSet
<1>2. \A type \in Types : ToSet(slots[type]) = {} /\ DOMAIN slots[type] = {}
  BY DEF Init, ToSet
<1>3. TypeOK
  BY <1>2, MaxCallsAssumption DEF Init, TypeOK, Lock!Init, Lock!TypeOK, Lock!Phases
<1>. QED
  BY <1>1, <1>2, <1>3 DEF Init, IInv, FrameInv, MutexInv, ConnectionInv, OffInv, Lock!Init

\* Calls that hold no mutex they did not hold before leave each mutex one owner.
LEMMA KeepMutex ==
    ASSUME MutexInv,
           \A u \in Threads : \A f \in Called(u)' :
              f.at \in Holding => \E e \in Called(u) : e.type = f.type /\ e.at \in Holding
    PROVE  MutexInv'
BY DEF MutexInv

\* A step that connects and disconnects nothing, and starts neither.
LEMMA KeepConnection ==
    ASSUME ConnectionInv, UNCHANGED <<connected, disconnector, slots>>,
           \A u \in Threads : \A f \in Called(u)' :
              f.op # "publish" => \E e \in Called(u) : e.op = f.op /\ e.handler = f.handler
    PROVE  ConnectionInv'
<1>1. \A u \in Threads : \A f \in Called(u)' : f.op = "subscribe" =>
        \E e \in Called(u) : e.op = "subscribe" /\ e.handler = f.handler
  OBVIOUS
<1>2. \A u \in Threads : \A f \in Called(u)' : f.op = "unSubscribe" =>
        \E e \in Called(u) : e.op = "unSubscribe" /\ e.handler = f.handler
  OBVIOUS
<1>. QED BY <1>1, <1>2 DEF ConnectionInv

\* A step that takes off nothing and calls no handler.
LEMMA KeepOff ==
    ASSUME OffInv, UNCHANGED disconnector,
           \A u \in Threads : \A f \in Called(u)' : f.at = "running" => f \in Called(u)
    PROVE  OffInv'
BY DEF OffInv

-----------------------------------------------------------------------------
(* Steps that leave the calls alone *)

\* A writer is announced.
LEMMA AskMapIInv == ASSUME IInv, NEW t \in Threads, AskMap(t) PROVE IInv'
<1>. USE DEF AskMap, Lock!AskWrite, IsAt, Lock!Become
<1>a. \A u \in Threads : Called(u)' = Called(u) /\ Top(u)' = Top(u) /\ Below(stack[u])' = Below(stack[u])
  BY DEF Called, Top
<1>1. TypeOK'
  BY <1>a DEF IInv, TypeOK, Lock!TypeOK, Lock!Phases, Busy
<1>2. FrameInv'
  BY <1>a DEF IInv, TypeOK, FrameInv, Lock!TypeOK
<1>3. MutexInv'
  BY <1>a, KeepMutex DEF IInv
<1>4. ConnectionInv'
  BY <1>a, KeepConnection DEF IInv
<1>5. OffInv'
  BY <1>a, KeepOff DEF IInv
<1>. QED BY <1>1, <1>2, <1>3, <1>4, <1>5 DEF IInv

\* The map is write-locked.
LEMMA EnterMapIInv == ASSUME IInv, NEW t \in Threads, EnterMap(t) PROVE IInv'
<1>. USE DEF EnterMap, Lock!StartWrite, IsAt, Lock!Become
<1>a. \A u \in Threads : Called(u)' = Called(u) /\ Top(u)' = Top(u) /\ Below(stack[u])' = Below(stack[u])
  BY DEF Called, Top
<1>1. TypeOK'
  BY <1>a DEF IInv, TypeOK, Lock!TypeOK, Lock!Phases, Busy
<1>2. FrameInv'
  BY <1>a DEF IInv, TypeOK, FrameInv, Lock!TypeOK
<1>3. MutexInv'
  BY <1>a, KeepMutex DEF IInv
<1>4. ConnectionInv'
  BY <1>a, KeepConnection DEF IInv
<1>5. OffInv'
  BY <1>a, KeepOff DEF IInv
<1>. QED BY <1>1, <1>2, <1>3, <1>4, <1>5 DEF IInv

\* The map is read-locked.
LEMMA ReadMapIInv == ASSUME IInv, NEW t \in Threads, ReadMap(t) PROVE IInv'
<1>. USE DEF ReadMap, Lock!StartRead, IsAt, Lock!Become
<1>a. \A u \in Threads : Called(u)' = Called(u) /\ Top(u)' = Top(u) /\ Below(stack[u])' = Below(stack[u])
  BY DEF Called, Top
<1>1. TypeOK'
  BY <1>a DEF IInv, TypeOK, Lock!TypeOK, Lock!Phases, Busy
<1>2. FrameInv'
  BY <1>a DEF IInv, TypeOK, FrameInv, Lock!TypeOK
<1>3. MutexInv'
  BY <1>a, KeepMutex DEF IInv
<1>4. ConnectionInv'
  BY <1>a, KeepConnection DEF IInv
<1>5. OffInv'
  BY <1>a, KeepOff DEF IInv
<1>. QED BY <1>1, <1>2, <1>3, <1>4, <1>5 DEF IInv

-----------------------------------------------------------------------------
(* Steps of the innermost call *)

\* The mutex of the type is found, and the map lock released.
LEMMA FindMutexIInv == ASSUME IInv, NEW t \in Threads, FindMutex(t) PROVE IInv'
<1>. USE DEF FindMutex, IsAt, Lock!Finish, Lock!Become
<1>0. stack[t] \in Seq(Frames) /\ stack[t] # <<>>
  BY DEF IInv, TypeOK, Busy
<1>t. Top(t) \in Frames /\ Called(t) = {Top(t)} \cup Below(stack[t])
  BY <1>0, SplitStack DEF Top, Called
<1>. DEFINE g == [Top(t) EXCEPT !.at = "sig"]
<1>g. g \in Frames
  BY <1>t DEF Frames, Operations, Locations
<1>f. g.op = Top(t).op /\ g.type = Top(t).type /\ g.handler = Top(t).handler /\ g.at = "sig"
  BY <1>t DEF Frames
<1>. HIDE DEF g
<1>s. stack' = [stack EXCEPT ![t] = <<g>> \o Tail(stack[t])]
  BY <1>0 DEF IInv, TypeOK, SetTop, Goto, g
<1>a. \A u \in Threads \ {t} : Called(u)' = Called(u) /\ Top(u)' = Top(u) /\ Below(stack[u])' = Below(stack[u])
  BY <1>s DEF IInv, TypeOK, Called, Top
<1>b. /\ stack'[t] \in Seq(Frames) /\ stack'[t] # <<>>
      /\ Top(t)' = g /\ Called(t)' = {g} \cup Below(stack[t]) /\ Below(stack[t])' = Below(stack[t])
  <2>1. stack'[t] = <<g>> \o Tail(stack[t]) BY <1>s DEF IInv, TypeOK
  <2>. QED BY <1>0, <1>g, <2>1, ReplaceTop DEF Called, Top
<1>1. TypeOK'
  <2>1. stack' \in [Threads -> Seq(Frames)]
    BY <1>s, <1>b DEF IInv, TypeOK
  <2>2. \A u \in Threads : mapPhase'[u] # "idle" => u \in Busy' /\ Top(u)'.at = "map"
    BY <1>t, <1>s, <1>f, <1>a, <1>b DEF IInv, TypeOK, FrameInv, Busy, Lock!TypeOK
  <2>3. mapPhase' \in [Threads -> Lock!Phases]
    BY DEF IInv, TypeOK, Lock!TypeOK, Lock!Phases
  <2>. QED BY <1>t, <2>1, <2>2, <2>3 DEF IInv, TypeOK, Lock!TypeOK, Frames
<1>2. FrameInv'
  <2>1. FrameOK(g)
    BY <1>t, <1>f DEF IInv, FrameInv, FrameOK
  <2>2. mapPhase'[t] = "idle"
    BY <1>0, <1>t DEF IInv, TypeOK, Lock!TypeOK, Busy
  <2>3. \A u \in Threads \ {t} : mapPhase'[u] = mapPhase[u]
    BY DEF IInv, TypeOK, Lock!TypeOK
  <2>. QED BY <1>t, <1>a, <1>b, <2>1, <2>2, <2>3 DEF IInv, FrameInv
<1>3. MutexInv'
  BY <1>t, <1>f, <1>a, <1>b, KeepMutex DEF IInv, Holding
<1>4. ConnectionInv'
  BY <1>t, <1>f, <1>a, <1>b, KeepConnection DEF IInv
<1>5. OffInv'
  BY <1>t, <1>f, <1>a, <1>b, KeepOff DEF IInv
<1>. QED BY <1>1, <1>2, <1>3, <1>4, <1>5 DEF IInv

\* The mutex of the type is taken.
LEMMA LockSignalIInv == ASSUME IInv, NEW t \in Threads, LockSignal(t) PROVE IInv'
<1>. USE DEF LockSignal, IsAt
<1>0. stack[t] \in Seq(Frames) /\ stack[t] # <<>>
  BY DEF IInv, TypeOK, Busy
<1>t. Top(t) \in Frames /\ Called(t) = {Top(t)} \cup Below(stack[t])
  BY <1>0, SplitStack DEF Top, Called
<1>. DEFINE g == [Top(t) EXCEPT !.at = IF Top(t).op = "publish" THEN "lookup" ELSE "call"]
<1>g. g \in Frames
  BY <1>t DEF Frames, Operations, Locations
<1>f. g.op = Top(t).op /\ g.type = Top(t).type /\ g.handler = Top(t).handler /\ g.at = (IF Top(t).op = "publish" THEN "lookup" ELSE "call")
  BY <1>t DEF Frames
<1>. HIDE DEF g
<1>s. stack' = [stack EXCEPT ![t] = <<g>> \o Tail(stack[t])]
  BY <1>0 DEF IInv, TypeOK, SetTop, Goto, g
<1>a. \A u \in Threads \ {t} : Called(u)' = Called(u) /\ Top(u)' = Top(u) /\ Below(stack[u])' = Below(stack[u])
  BY <1>s DEF IInv, TypeOK, Called, Top
<1>b. /\ stack'[t] \in Seq(Frames) /\ stack'[t] # <<>>
      /\ Top(t)' = g /\ Called(t)' = {g} \cup Below(stack[t]) /\ Below(stack[t])' = Below(stack[t])
  <2>1. stack'[t] = <<g>> \o Tail(stack[t]) BY <1>s DEF IInv, TypeOK
  <2>. QED BY <1>0, <1>g, <2>1, ReplaceTop DEF Called, Top
<1>1. TypeOK'
  <2>1. stack' \in [Threads -> Seq(Frames)]
    BY <1>s, <1>b DEF IInv, TypeOK
  <2>2. \A u \in Threads : mapPhase'[u] # "idle" => u \in Busy' /\ Top(u)'.at = "map"
    BY <1>t, <1>s, <1>f, <1>a, <1>b DEF IInv, TypeOK, FrameInv, Busy, Lock!TypeOK
  <2>3. mapPhase' \in [Threads -> Lock!Phases]
    BY DEF IInv, TypeOK, Lock!TypeOK, Lock!Phases
  <2>. QED BY <1>t, <2>1, <2>2, <2>3 DEF IInv, TypeOK, Lock!TypeOK, Frames
<1>2. FrameInv'
  <2>1. FrameOK(g)
    BY <1>t, <1>f DEF IInv, FrameInv, FrameOK
  <2>2. mapPhase'[t] = "idle"
    BY <1>0, <1>t DEF IInv, TypeOK, Lock!TypeOK, Busy
  <2>3. \A u \in Threads \ {t} : mapPhase'[u] = mapPhase[u]
    BY DEF IInv, TypeOK, Lock!TypeOK
  <2>. QED BY <1>t, <1>a, <1>b, <2>1, <2>2, <2>3 DEF IInv, FrameInv
<1>3. MutexInv'
  <2>1. \A u \in Threads \ {t} : \A f \in Called(u) : f.at \in Holding => f.type # g.type
    BY <1>f DEF Holds, Called, ToSet, Holding
  <2>2. \A u \in Threads : \A f \in Called(u)' : f.at \in Holding => f \in Called(u) \/ (u = t /\ f = g)
    BY <1>t, <1>a, <1>b
  <2>. QED BY <2>1, <2>2, <1>a DEF IInv, MutexInv
<1>4. ConnectionInv'
  BY <1>t, <1>f, <1>a, <1>b, KeepConnection DEF IInv
<1>5. OffInv'
  BY <1>t, <1>f, <1>a, <1>b, KeepOff DEF IInv
<1>. QED BY <1>1, <1>2, <1>3, <1>4, <1>5 DEF IInv

\* The signal is looked up.
LEMMA LookUpIInv == ASSUME IInv, NEW t \in Threads, LookUp(t) PROVE IInv'
<1>. USE DEF LookUp, IsAt
<1>0. stack[t] \in Seq(Frames) /\ stack[t] # <<>>
  BY DEF IInv, TypeOK, Busy
<1>t. Top(t) \in Frames /\ Called(t) = {Top(t)} \cup Below(stack[t])
  BY <1>0, SplitStack DEF Top, Called
<1>p. ToSet(slots[Top(t).type]) \in SUBSET Handlers
  BY <1>t DEF IInv, TypeOK, ToSet, Frames
<1>. DEFINE g == [Top(t) EXCEPT !.at = "call", !.due = ToSet(slots[Top(t).type])]
<1>g. g \in Frames
  BY <1>p, <1>t DEF Frames, Operations, Locations
<1>f. g.op = Top(t).op /\ g.type = Top(t).type /\ g.handler = Top(t).handler /\ g.at = "call"
  BY <1>t DEF Frames
<1>. HIDE DEF g
<1>s. stack' = [stack EXCEPT ![t] = <<g>> \o Tail(stack[t])]
  BY <1>p, <1>0 DEF IInv, TypeOK, SetTop, Goto, g
<1>a. \A u \in Threads \ {t} : Called(u)' = Called(u) /\ Top(u)' = Top(u) /\ Below(stack[u])' = Below(stack[u])
  BY <1>s DEF IInv, TypeOK, Called, Top
<1>b. /\ stack'[t] \in Seq(Frames) /\ stack'[t] # <<>>
      /\ Top(t)' = g /\ Called(t)' = {g} \cup Below(stack[t]) /\ Below(stack[t])' = Below(stack[t])
  <2>1. stack'[t] = <<g>> \o Tail(stack[t]) BY <1>s DEF IInv, TypeOK
  <2>. QED BY <1>0, <1>g, <2>1, ReplaceTop DEF Called, Top
<1>1. TypeOK'
  <2>1. stack' \in [Threads -> Seq(Frames)]
    BY <1>s, <1>b DEF IInv, TypeOK
  <2>2. \A u \in Threads : mapPhase'[u] # "idle" => u \in Busy' /\ Top(u)'.at = "map"
    BY <1>t, <1>s, <1>f, <1>a, <1>b DEF IInv, TypeOK, FrameInv, Busy, Lock!TypeOK
  <2>3. mapPhase' \in [Threads -> Lock!Phases]
    BY DEF IInv, TypeOK, Lock!TypeOK, Lock!Phases
  <2>. QED BY <1>t, <2>1, <2>2, <2>3 DEF IInv, TypeOK, Lock!TypeOK, Frames
<1>2. FrameInv'
  <2>1. FrameOK(g)
    BY <1>p, <1>t, <1>f DEF IInv, FrameInv, FrameOK
  <2>2. mapPhase'[t] = "idle"
    BY <1>0, <1>t DEF IInv, TypeOK, Lock!TypeOK, Busy
  <2>3. \A u \in Threads \ {t} : mapPhase'[u] = mapPhase[u]
    BY DEF IInv, TypeOK, Lock!TypeOK
  <2>. QED BY <1>t, <1>a, <1>b, <2>1, <2>2, <2>3 DEF IInv, FrameInv
<1>3. MutexInv'
  BY <1>p, <1>t, <1>f, <1>a, <1>b, KeepMutex DEF IInv, Holding
<1>4. ConnectionInv'
  BY <1>p, <1>t, <1>f, <1>a, <1>b, KeepConnection DEF IInv
<1>5. OffInv'
  BY <1>p, <1>t, <1>f, <1>a, <1>b, KeepOff DEF IInv
<1>. QED BY <1>1, <1>2, <1>3, <1>4, <1>5 DEF IInv

\* A handler is called.
LEMMA CallHandlerIInv == ASSUME IInv, NEW t \in Threads, CallHandler(t) PROVE IInv'
<1>. USE DEF CallHandler, IsAt
<1>0. stack[t] \in Seq(Frames) /\ stack[t] # <<>>
  BY DEF IInv, TypeOK, Busy
<1>t. Top(t) \in Frames /\ Called(t) = {Top(t)} \cup Below(stack[t])
  BY <1>0, SplitStack DEF Top, Called
<1>p. PICK k \in ToSet(slots[Top(t).type]) : SetTop(t, [Top(t) EXCEPT !.at = "running", !.handler = k])
  BY DEF ToSet
<1>k. k \in Handlers /\ Top(t).type = TypeOf[k] /\ disconnector[k] = Nobody
  BY <1>p, <1>t DEF IInv, TypeOK, ConnectionInv, ToSet, Frames
<1>. DEFINE g == [Top(t) EXCEPT !.at = "running", !.handler = k]
<1>g. g \in Frames
  BY <1>k, <1>t DEF Frames, Operations, Locations
<1>f. g.op = Top(t).op /\ g.type = Top(t).type /\ g.handler = k /\ g.at = "running"
  BY <1>t DEF Frames
<1>. HIDE DEF g
<1>s. stack' = [stack EXCEPT ![t] = <<g>> \o Tail(stack[t])]
  BY <1>p, <1>0 DEF IInv, TypeOK, SetTop, Goto, g
<1>a. \A u \in Threads \ {t} : Called(u)' = Called(u) /\ Top(u)' = Top(u) /\ Below(stack[u])' = Below(stack[u])
  BY <1>s DEF IInv, TypeOK, Called, Top
<1>b. /\ stack'[t] \in Seq(Frames) /\ stack'[t] # <<>>
      /\ Top(t)' = g /\ Called(t)' = {g} \cup Below(stack[t]) /\ Below(stack[t])' = Below(stack[t])
  <2>1. stack'[t] = <<g>> \o Tail(stack[t]) BY <1>s DEF IInv, TypeOK
  <2>. QED BY <1>0, <1>g, <2>1, ReplaceTop DEF Called, Top
<1>1. TypeOK'
  <2>1. stack' \in [Threads -> Seq(Frames)]
    BY <1>s, <1>b DEF IInv, TypeOK
  <2>2. \A u \in Threads : mapPhase'[u] # "idle" => u \in Busy' /\ Top(u)'.at = "map"
    BY <1>t, <1>s, <1>f, <1>a, <1>b DEF IInv, TypeOK, FrameInv, Busy, Lock!TypeOK
  <2>3. mapPhase' \in [Threads -> Lock!Phases]
    BY DEF IInv, TypeOK, Lock!TypeOK, Lock!Phases
  <2>. QED BY <1>t, <2>1, <2>2, <2>3 DEF IInv, TypeOK, Lock!TypeOK, Frames
<1>2. FrameInv'
  <2>1. FrameOK(g)
    BY <1>k, <1>t, <1>f DEF IInv, FrameInv, FrameOK
  <2>2. mapPhase'[t] = "idle"
    BY <1>0, <1>t DEF IInv, TypeOK, Lock!TypeOK, Busy
  <2>3. \A u \in Threads \ {t} : mapPhase'[u] = mapPhase[u]
    BY DEF IInv, TypeOK, Lock!TypeOK
  <2>. QED BY <1>t, <1>a, <1>b, <2>1, <2>2, <2>3 DEF IInv, FrameInv
<1>3. MutexInv'
  BY <1>p, <1>t, <1>f, <1>a, <1>b, KeepMutex DEF IInv, Holding
<1>4. ConnectionInv'
  BY <1>p, <1>t, <1>f, <1>a, <1>b, KeepConnection DEF IInv
<1>5. OffInv'
  BY <1>k, <1>t, <1>f, <1>a, <1>b DEF IInv, OffInv
<1>. QED BY <1>1, <1>2, <1>3, <1>4, <1>5 DEF IInv

\* A handler returns.
LEMMA HandlerReturnsIInv == ASSUME IInv, NEW t \in Threads, HandlerReturns(t) PROVE IInv'
<1>. USE DEF HandlerReturns, IsAt
<1>0. stack[t] \in Seq(Frames) /\ stack[t] # <<>>
  BY DEF IInv, TypeOK, Busy
<1>t. Top(t) \in Frames /\ Called(t) = {Top(t)} \cup Below(stack[t])
  BY <1>0, SplitStack DEF Top, Called
<1>p. Top(t).handler \in Handlers /\ Top(t).op = "publish"
  BY <1>t DEF IInv, FrameInv, FrameOK
<1>. DEFINE g == [Top(t) EXCEPT !.at = "call", !.handler = NoHandler, !.done = @ \cup {Top(t).handler}]
<1>g. g \in Frames
  BY <1>p, <1>t DEF Frames, Operations, Locations
<1>f. g.op = Top(t).op /\ g.type = Top(t).type /\ g.at = "call"
  BY <1>t DEF Frames
<1>. HIDE DEF g
<1>s. stack' = [stack EXCEPT ![t] = <<g>> \o Tail(stack[t])]
  BY <1>p, <1>0 DEF IInv, TypeOK, SetTop, Goto, g
<1>a. \A u \in Threads \ {t} : Called(u)' = Called(u) /\ Top(u)' = Top(u) /\ Below(stack[u])' = Below(stack[u])
  BY <1>s DEF IInv, TypeOK, Called, Top
<1>b. /\ stack'[t] \in Seq(Frames) /\ stack'[t] # <<>>
      /\ Top(t)' = g /\ Called(t)' = {g} \cup Below(stack[t]) /\ Below(stack[t])' = Below(stack[t])
  <2>1. stack'[t] = <<g>> \o Tail(stack[t]) BY <1>s DEF IInv, TypeOK
  <2>. QED BY <1>0, <1>g, <2>1, ReplaceTop DEF Called, Top
<1>1. TypeOK'
  <2>1. stack' \in [Threads -> Seq(Frames)]
    BY <1>s, <1>b DEF IInv, TypeOK
  <2>2. \A u \in Threads : mapPhase'[u] # "idle" => u \in Busy' /\ Top(u)'.at = "map"
    BY <1>t, <1>s, <1>f, <1>a, <1>b DEF IInv, TypeOK, FrameInv, Busy, Lock!TypeOK
  <2>3. mapPhase' \in [Threads -> Lock!Phases]
    BY DEF IInv, TypeOK, Lock!TypeOK, Lock!Phases
  <2>. QED BY <1>t, <2>1, <2>2, <2>3 DEF IInv, TypeOK, Lock!TypeOK, Frames
<1>2. FrameInv'
  <2>1. FrameOK(g)
    BY <1>p, <1>t, <1>f DEF IInv, FrameInv, FrameOK
  <2>2. mapPhase'[t] = "idle"
    BY <1>0, <1>t DEF IInv, TypeOK, Lock!TypeOK, Busy
  <2>3. \A u \in Threads \ {t} : mapPhase'[u] = mapPhase[u]
    BY DEF IInv, TypeOK, Lock!TypeOK
  <2>. QED BY <1>t, <1>a, <1>b, <2>1, <2>2, <2>3 DEF IInv, FrameInv
<1>3. MutexInv'
  BY <1>p, <1>t, <1>f, <1>a, <1>b, KeepMutex DEF IInv, Holding
<1>4. ConnectionInv'
  BY <1>p, <1>t, <1>f, <1>a, <1>b, KeepConnection DEF IInv
<1>5. OffInv'
  BY <1>p, <1>t, <1>f, <1>a, <1>b, KeepOff DEF IInv
<1>. QED BY <1>1, <1>2, <1>3, <1>4, <1>5 DEF IInv

-----------------------------------------------------------------------------
(* Calls and returns *)

\* publish() returns.
LEMMA PublishReturnsIInv == ASSUME IInv, NEW t \in Threads, PublishReturns(t) PROVE IInv'
<1>. USE DEF PublishReturns, IsAt
<1>0. stack[t] \in Seq(Frames) /\ stack[t] # <<>>
  BY DEF IInv, TypeOK, Busy
<1>t. Top(t) \in Frames /\ Called(t) = {Top(t)} \cup Below(stack[t])
  BY <1>0, SplitStack DEF Top, Called
<1>s. stack' = [stack EXCEPT ![t] = Tail(stack[t])]
  BY DEF IInv, TypeOK, Return
<1>a. \A u \in Threads \ {t} : Called(u)' = Called(u) /\ Top(u)' = Top(u) /\ Below(stack[u])' = Below(stack[u])
  BY <1>s DEF IInv, TypeOK, Called, Top
<1>b. /\ stack'[t] \in Seq(Frames) /\ (stack'[t] # <<>> => Top(t)' \in Below(stack[t]))
      /\ Called(t)' = Below(stack[t]) /\ Below(stack[t])' \subseteq Below(stack[t])
  <2>1. stack'[t] = Tail(stack[t]) BY <1>s DEF IInv, TypeOK
  <2>. QED BY <1>0, <2>1, PopStack DEF Called, Top
<1>1. TypeOK'
  <2>1. stack' \in [Threads -> Seq(Frames)]
    BY <1>s, <1>b DEF IInv, TypeOK
  <2>2. \A u \in Threads : mapPhase'[u] # "idle" => u \in Busy' /\ Top(u)'.at = "map"
    BY <1>t, <1>s, <1>a, <1>b DEF IInv, TypeOK, FrameInv, Busy, Lock!TypeOK
  <2>3. mapPhase' \in [Threads -> Lock!Phases]
    BY DEF IInv, TypeOK, Lock!TypeOK, Lock!Phases
  <2>. QED BY <1>t, <2>1, <2>2, <2>3 DEF IInv, TypeOK, Lock!TypeOK, Frames
<1>2. FrameInv'
  <2>1. \A u \in Threads : Called(u)' \subseteq Called(u) /\ Below(stack[u])' \subseteq Below(stack[u])
    BY <1>t, <1>a, <1>b
  <2>2. \A u \in Threads : mapPhase'[u] \in {"wantRead", "reading"} => Top(u)' = Top(u)
    BY <1>a DEF IInv, TypeOK, Busy
  <2>. QED BY <2>1, <2>2 DEF IInv, TypeOK, FrameInv, Lock!TypeOK
<1>3. MutexInv'
  BY <1>t, <1>a, <1>b, KeepMutex DEF IInv, Holding
<1>4. ConnectionInv'
  BY <1>t, <1>a, <1>b, KeepConnection DEF IInv
<1>5. OffInv'
  BY <1>t, <1>a, <1>b, KeepOff DEF IInv
<1>. QED BY <1>1, <1>2, <1>3, <1>4, <1>5 DEF IInv

\* subscribe() connects the handler and returns.
LEMMA ConnectIInv == ASSUME IInv, NEW t \in Threads, Connect(t) PROVE IInv'
<1>. USE DEF Connect, IsAt, Lock!Finish, Lock!Become
<1>0. stack[t] \in Seq(Frames) /\ stack[t] # <<>>
  BY DEF IInv, TypeOK, Busy
<1>t. Top(t) \in Frames /\ Called(t) = {Top(t)} \cup Below(stack[t])
  BY <1>0, SplitStack DEF Top, Called
<1>s. stack' = [stack EXCEPT ![t] = Tail(stack[t])]
  BY DEF IInv, TypeOK, Return
<1>a. \A u \in Threads \ {t} : Called(u)' = Called(u) /\ Top(u)' = Top(u) /\ Below(stack[u])' = Below(stack[u])
  BY <1>s DEF IInv, TypeOK, Called, Top
<1>b. /\ stack'[t] \in Seq(Frames) /\ (stack'[t] # <<>> => Top(t)' \in Below(stack[t]))
      /\ Called(t)' = Below(stack[t]) /\ Below(stack[t])' \subseteq Below(stack[t])
  <2>1. stack'[t] = Tail(stack[t]) BY <1>s DEF IInv, TypeOK
  <2>. QED BY <1>0, <2>1, PopStack DEF Called, Top
<1>. DEFINE h == Top(t).handler
            ty == Top(t).type
<1>h. h \in Handlers /\ ty \in Types /\ ty = TypeOf[h] /\ h \notin connected /\ disconnector[h] = Nobody
  BY <1>t DEF IInv, FrameInv, FrameOK, ConnectionInv, Frames
<1>. HIDE DEF h, ty
<1>c. /\ slots' = [slots EXCEPT ![ty] = Append(@, h)] /\ connected' = connected \cup {h}
      /\ UNCHANGED disconnector
  BY DEF h, ty
<1>d. /\ slots' \in [Types -> Seq(Handlers)]
      /\ \A y \in Types : ToSet(slots'[y]) = IF y = ty THEN ToSet(slots[y]) \cup {h} ELSE ToSet(slots[y])
      /\ \A y \in Types : \A i, j \in DOMAIN slots'[y] : slots'[y][i] = slots'[y][j] => i = j
  <2>1. slots[ty] \in Seq(Handlers) /\ h \notin ToSet(slots[ty])
    BY <1>h DEF IInv, TypeOK, ConnectionInv
  <2>2. \A i, j \in DOMAIN slots[ty] : slots[ty][i] = slots[ty][j] => i = j
    BY <1>h DEF IInv, ConnectionInv
  <2>3. ToSet(Append(slots[ty], h)) = ToSet(slots[ty]) \cup {h}
    <3>. DEFINE s == slots[ty]
                n == Append(s, h)
    <3>1. Len(n) = Len(s) + 1 /\ DOMAIN n = 1..(Len(s) + 1) /\ n[Len(s) + 1] = h /\ DOMAIN s = 1..Len(s)
      BY <2>1, <1>h
    <3>2. \A i \in DOMAIN s : n[i] = s[i] /\ i \in DOMAIN n
      BY <2>1, <1>h
    <3>3. \A i \in DOMAIN n : i \in DOMAIN s \/ i = Len(s) + 1
      BY <2>1, <3>1
    <3>4. Len(s) + 1 \in DOMAIN n
      BY <2>1, <3>1
    <3>. HIDE DEF n, s
    <3>. QED BY <3>1, <3>2, <3>3, <3>4 DEF ToSet, n, s
  <2>4. \A i, j \in DOMAIN Append(slots[ty], h) : Append(slots[ty], h)[i] = Append(slots[ty], h)[j] => i = j
    BY <2>1, <2>2, <1>h DEF ToSet
  <2>5. slots'[ty] = Append(slots[ty], h) /\ \A y \in Types \ {ty} : slots'[y] = slots[y]
    BY <1>h, <1>c DEF IInv, TypeOK
  <2>6. slots' \in [Types -> Seq(Handlers)]
    <3>1. slots \in [Types -> Seq(Handlers)] /\ ty \in Types /\ Append(slots[ty], h) \in Seq(Handlers)
      BY <1>h, <2>1 DEF IInv, TypeOK
    <3>2. slots' = [slots EXCEPT ![ty] = Append(slots[ty], h)]
      BY <1>h, <1>c
    <3>. HIDE DEF Connect
    <3>. QED BY <3>1, <3>2
  <2>7. \A y \in Types : \A i, j \in DOMAIN slots'[y] : slots'[y][i] = slots'[y][j] => i = j
    BY <2>4, <2>5 DEF IInv, ConnectionInv
  <2>. QED BY <2>3, <2>5, <2>6, <2>7
<1>1. TypeOK'
  <2>1. stack' \in [Threads -> Seq(Frames)]
    BY <1>s, <1>b DEF IInv, TypeOK
  <2>2. \A u \in Threads : mapPhase'[u] # "idle" => u \in Busy' /\ Top(u)'.at = "map"
    BY <1>t, <1>s, <1>a, <1>b DEF IInv, TypeOK, FrameInv, Busy, Lock!TypeOK
  <2>3. mapPhase' \in [Threads -> Lock!Phases]
    BY DEF IInv, TypeOK, Lock!TypeOK, Lock!Phases
  <2>4. \A y \in Types : \A k \in ToSet(slots'[y]) : TypeOf[k] = y
    <3>1. \A y \in Types : \A k \in ToSet(slots[y]) : TypeOf[k] = y
      BY DEF IInv, TypeOK
    <3>2. \A y \in Types : \A k \in ToSet(slots'[y]) : k \in ToSet(slots[y]) \/ (y = ty /\ k = h)
      <4>1. ASSUME NEW y \in Types, y # ty PROVE ToSet(slots'[y]) = ToSet(slots[y])
        BY <4>1, <1>d
      <4>2. ToSet(slots'[ty]) = ToSet(slots[ty]) \cup {h}
        BY <1>h, <1>d
      <4>. HIDE DEF Connect
      <4>. QED BY <4>1, <4>2
    <3>. QED BY <1>h, <3>1, <3>2
  <2>5. connected' \in SUBSET Handlers /\ disconnector' \in [Handlers -> Threads \cup {Nobody}]
    BY <1>h, <1>c DEF IInv, TypeOK
  <2>6. signals' \in SUBSET Types /\ mutexes' \in SUBSET Types /\ calls' \in [Threads -> 0..MaxCalls]
    BY <1>t DEF IInv, TypeOK, Frames
  <2>. QED BY <1>d, <2>1, <2>2, <2>3, <2>4, <2>5, <2>6 DEF TypeOK, Lock!TypeOK
<1>2. FrameInv'
  <2>1. \A u \in Threads : Called(u)' \subseteq Called(u) /\ Below(stack[u])' \subseteq Below(stack[u])
    BY <1>t, <1>a, <1>b
  <2>2. \A u \in Threads : mapPhase'[u] \in {"wantRead", "reading"} => Top(u)' = Top(u)
    BY <1>a DEF IInv, TypeOK, Lock!TypeOK
  <2>. QED BY <2>1, <2>2 DEF IInv, TypeOK, FrameInv, Lock!TypeOK
<1>3. MutexInv'
  BY <1>t, <1>a, <1>b, KeepMutex DEF IInv, Holding
<1>4. ConnectionInv'
  <2>1. \A u \in Threads : \A f \in Called(u)' : f \in Called(u) /\ (f.op = "subscribe" => f.handler # h)
    BY <1>t, <1>a, <1>b, <1>h DEF IInv, FrameInv, FrameOK, ConnectionInv, h
  <2>2. \A y \in Types : \A k \in ToSet(slots'[y]) : k \in connected'
    <3>1. \A y \in Types : \A k \in ToSet(slots[y]) : k \in connected
      BY DEF IInv, ConnectionInv
    <3>2. connected' = connected \cup {h}
      BY <1>c
    <3>3. ASSUME NEW y \in Types, NEW k \in ToSet(slots'[y]) PROVE k = h \/ k \in ToSet(slots[y])
      <4>1. ToSet(slots'[y]) = IF y = ty THEN ToSet(slots[y]) \cup {h} ELSE ToSet(slots[y])
        BY <1>d
      <4>. HIDE DEF Connect
      <4>. QED BY <3>3, <4>1
    <3>. HIDE DEF Connect
    <3>. QED BY <3>1, <3>2, <3>3
  <2>3. \A k \in connected' : disconnector'[k] = Nobody
    BY <1>h, <1>c DEF IInv, ConnectionInv
  <2>4. ASSUME NEW u \in Threads, NEW f \in Called(u)'
        PROVE  /\ f.op = "subscribe" => f.handler \notin connected' /\ disconnector'[f.handler] = Nobody
               /\ f.op = "unSubscribe" => f.handler \in connected' \/ disconnector'[f.handler] # Nobody
    BY <1>c, <2>1 DEF IInv, ConnectionInv
  <2>5. \A u, v \in Threads : \A f \in Called(u)', g \in Called(v)' :
          f.op = "subscribe" /\ g.op = "subscribe" /\ f.handler = g.handler => u = v
    BY <2>1 DEF IInv, ConnectionInv
  <2>. QED BY <1>d, <2>2, <2>3, <2>4, <2>5 DEF ConnectionInv
<1>5. OffInv'
  BY <1>t, <1>a, <1>b, KeepOff DEF IInv
<1>. QED BY <1>1, <1>2, <1>3, <1>4, <1>5 DEF IInv

\* disconnect() takes the handler off and returns.
LEMMA TakeOffIInv == ASSUME IInv, NEW t \in Threads, TakeOff(t) PROVE IInv'
<1>. USE DEF TakeOff, IsAt
<1>0. stack[t] \in Seq(Frames) /\ stack[t] # <<>>
  BY DEF IInv, TypeOK, Busy
<1>t. Top(t) \in Frames /\ Called(t) = {Top(t)} \cup Below(stack[t])
  BY <1>0, SplitStack DEF Top, Called
<1>s. stack' = [stack EXCEPT ![t] = Tail(stack[t])]
  BY DEF IInv, TypeOK, Return
<1>a. \A u \in Threads \ {t} : Called(u)' = Called(u) /\ Top(u)' = Top(u) /\ Below(stack[u])' = Below(stack[u])
  BY <1>s DEF IInv, TypeOK, Called, Top
<1>b. /\ stack'[t] \in Seq(Frames) /\ (stack'[t] # <<>> => Top(t)' \in Below(stack[t]))
      /\ Called(t)' = Below(stack[t]) /\ Below(stack[t])' \subseteq Below(stack[t])
  <2>1. stack'[t] = Tail(stack[t]) BY <1>s DEF IInv, TypeOK
  <2>. QED BY <1>0, <2>1, PopStack DEF Called, Top
<1>. DEFINE h == Top(t).handler
            ty == Top(t).type
<1>h. h \in Handlers /\ ty \in Types /\ ty = TypeOf[h] /\ (h \in connected \/ disconnector[h] # Nobody)
  BY <1>t DEF IInv, FrameInv, FrameOK, ConnectionInv, Frames
<1>i. Top(t).at = "call" /\ Top(t).type = ty
  BY DEF ty
<1>c. /\ slots' = [slots EXCEPT ![ty] = Without(@, h)] /\ connected' = connected \ {h}
      /\ disconnector' = [disconnector EXCEPT ![h] = IF @ = Nobody THEN t ELSE @]
  OBVIOUS
<1>. HIDE DEF h, ty
<1>d. /\ slots' \in [Types -> Seq(Handlers)]
      /\ \A y \in Types : ToSet(slots'[y]) \subseteq ToSet(slots[y]) \ {h}
      /\ \A y \in Types : \A i, j \in DOMAIN slots'[y] : slots'[y][i] = slots'[y][j] => i = j
  <2>1. slots[ty] \in Seq(Handlers) /\ \A i, j \in DOMAIN slots[ty] : slots[ty][i] = slots[ty][j] => i = j
    BY <1>h DEF IInv, TypeOK, ConnectionInv
  <2>2. \A y \in Types \ {ty} : h \notin ToSet(slots[y])
    BY <1>h DEF IInv, TypeOK
  <2>3. slots'[ty] = Without(slots[ty], h) /\ \A y \in Types \ {ty} : slots'[y] = slots[y]
    BY <1>h, <1>c DEF IInv, TypeOK
  <2>4. /\ Without(slots[ty], h) \in Seq(Handlers)
        /\ ToSet(Without(slots[ty], h)) \subseteq ToSet(slots[ty]) /\ h \notin ToSet(Without(slots[ty], h))
        /\ \A i, j \in DOMAIN Without(slots[ty], h) :
             Without(slots[ty], h)[i] = Without(slots[ty], h)[j] => i = j
    BY <2>1, TakenOff
  <2>5. slots' \in [Types -> Seq(Handlers)]
    <3>1. slots \in [Types -> Seq(Handlers)] /\ ty \in Types
      BY <1>h DEF IInv, TypeOK
    <3>2. slots' = [slots EXCEPT ![ty] = Without(slots[ty], h)]
      BY <1>h, <1>c
    <3>. HIDE DEF TakeOff
    <3>. QED BY <2>4, <3>1, <3>2
  <2>6. \A y \in Types : \A i, j \in DOMAIN slots'[y] : slots'[y][i] = slots'[y][j] => i = j
    BY <2>3, <2>4 DEF IInv, ConnectionInv
  <2>7. \A y \in Types : ToSet(slots'[y]) \subseteq ToSet(slots[y]) \ {h}
    BY <2>2, <2>3, <2>4
  <2>. QED BY <2>5, <2>6, <2>7
<1>e. /\ disconnector' \in [Handlers -> Threads \cup {Nobody}]
      /\ disconnector'[h] # Nobody /\ (disconnector[h] = Nobody => disconnector'[h] = t)
      /\ \A k \in Handlers : k # h \/ disconnector[k] # Nobody => disconnector'[k] = disconnector[k]
  <2>. DEFINE off == IF disconnector[h] = Nobody THEN t ELSE disconnector[h]
  <2>1. disconnector \in [Handlers -> Threads \cup {Nobody}]
    BY DEF IInv, TypeOK
  <2>2. off \in Threads \cup {Nobody} /\ off # Nobody
    BY <1>h, <2>1, NobodyAssumption
  <2>3. disconnector' = [disconnector EXCEPT ![h] = off]
    BY <1>c
  <2>4. disconnector[h] = Nobody => off = t
    OBVIOUS
  <2>5. disconnector[h] # Nobody => off = disconnector[h]
    OBVIOUS
  <2>. HIDE DEF off
  <2>. QED BY <1>h, <2>1, <2>2, <2>3, <2>4, <2>5
<1>1. TypeOK'
  <2>1. stack' \in [Threads -> Seq(Frames)]
    BY <1>s, <1>b DEF IInv, TypeOK
  <2>2. \A u \in Threads : mapPhase'[u] # "idle" => u \in Busy' /\ Top(u)'.at = "map"
    BY <1>t, <1>s, <1>a, <1>b DEF IInv, TypeOK, FrameInv, Busy, Lock!TypeOK
  <2>3. mapPhase' \in [Threads -> Lock!Phases]
    BY DEF IInv, TypeOK, Lock!TypeOK, Lock!Phases
  <2>4. \A y \in Types : \A k \in ToSet(slots'[y]) : TypeOf[k] = y
    BY <1>h, <1>d DEF IInv, TypeOK
  <2>5. connected' \in SUBSET Handlers /\ disconnector' \in [Handlers -> Threads \cup {Nobody}]
    BY <1>h, <1>c, <1>e DEF IInv, TypeOK
  <2>6. signals' \in SUBSET Types /\ mutexes' \in SUBSET Types /\ calls' \in [Threads -> 0..MaxCalls]
    BY <1>t DEF IInv, TypeOK, Frames
  <2>. QED BY <1>d, <2>1, <2>2, <2>3, <2>4, <2>5, <2>6 DEF TypeOK, Lock!TypeOK
<1>2. FrameInv'
  <2>1. \A u \in Threads : Called(u)' \subseteq Called(u) /\ Below(stack[u])' \subseteq Below(stack[u])
    BY <1>t, <1>a, <1>b
  <2>2. \A u \in Threads : mapPhase'[u] \in {"wantRead", "reading"} => Top(u)' = Top(u)
    BY <1>a DEF IInv, TypeOK, Busy
  <2>. QED BY <2>1, <2>2 DEF IInv, TypeOK, FrameInv, Lock!TypeOK
<1>3. MutexInv'
  BY <1>t, <1>a, <1>b, KeepMutex DEF IInv, Holding
<1>4. ConnectionInv'
  <2>1. \A u \in Threads : \A f \in Called(u)' : f \in Called(u) /\ (f.op = "subscribe" => f.handler # h)
    BY <1>t, <1>a, <1>b, <1>h DEF IInv, ConnectionInv
  <2>2. \A u \in Threads : \A f \in Called(u) : f.op # "publish" => f.handler \in Handlers
    BY DEF IInv, FrameInv, FrameOK
  <2>3. \A k \in connected' : disconnector'[k] = Nobody
    BY <1>c, <1>e DEF IInv, TypeOK, ConnectionInv
  <2>4. \A y \in Types : \A k \in ToSet(slots'[y]) : k \in connected'
    BY <1>c, <1>d DEF IInv, ConnectionInv
  <2>5. ASSUME NEW u \in Threads, NEW f \in Called(u)'
        PROVE  /\ f.op = "subscribe" => f.handler \notin connected' /\ disconnector'[f.handler] = Nobody
               /\ f.op = "unSubscribe" => f.handler \in connected' \/ disconnector'[f.handler] # Nobody
    BY <1>c, <1>e, <2>1, <2>2 DEF IInv, ConnectionInv
  <2>6. \A u, v \in Threads : \A f \in Called(u)', g \in Called(v)' :
          f.op = "subscribe" /\ g.op = "subscribe" /\ f.handler = g.handler => u = v
    BY <2>1 DEF IInv, ConnectionInv
  <2>. QED BY <1>d, <2>3, <2>4, <2>5, <2>6 DEF ConnectionInv
<1>5. OffInv'
  <2>1. ASSUME NEW u \in Threads, NEW f \in Called(u)', f.at = "running", disconnector'[f.handler] # Nobody
        PROVE  u = disconnector'[f.handler]
    <3>1. f \in Called(u) /\ f.handler \in Handlers /\ f.type = TypeOf[f.handler]
      BY <2>1, <1>t, <1>a, <1>b DEF IInv, FrameInv, FrameOK
    <3>2. CASE f.handler = h /\ disconnector[h] = Nobody
      BY <3>1, <3>2, <2>1, <1>t, <1>h, <1>i, <1>e DEF IInv, MutexInv, Holding
    <3>3. CASE f.handler # h \/ disconnector[h] # Nobody
      BY <3>1, <3>3, <2>1, <1>e DEF IInv, OffInv
    <3>. QED BY <3>2, <3>3
  <2>. QED BY <2>1 DEF OffInv
<1>. QED BY <1>1, <1>2, <1>3, <1>4, <1>5 DEF IInv

\* A call is made that may be made: of subscribe() with a handler that is new, of
\* disconnect() with one that is or was connected.
LEMMA CallIInv ==
    ASSUME IInv,
           NEW t \in Threads, NEW op \in Operations, NEW type \in Types,
           NEW h \in Handlers \cup {NoHandler}, Call(t, op, type, h),
           op # "publish" => h \in Handlers /\ type = TypeOf[h],
           op = "unSubscribe" => h \in connected,
           op = "subscribe" => /\ h \notin connected /\ disconnector[h] = Nobody
                               /\ \A u \in Threads : \A f \in Called(u) : f.op = "subscribe" => f.handler # h
    PROVE  IInv'
<1>. USE DEF Call
<1>. DEFINE g == [op |-> op, type |-> type, handler |-> h, at |-> "map", due |-> {}, done |-> {}]
<1>0. stack[t] \in Seq(Frames)
  BY DEF IInv, TypeOK
<1>t. t \in Busy => Top(t) \in Frames /\ Called(t) = {Top(t)} \cup Below(stack[t]) /\ Top(t).at = "running"
  BY <1>0, SplitStack DEF Top, Called, Busy
<1>e. t \notin Busy => Called(t) = {}
  BY DEF Busy, Called, ToSet
<1>g. g \in Frames
  BY DEF Frames, Operations, Locations
<1>f. g.op = op /\ g.type = type /\ g.handler = h /\ g.at = "map"
  OBVIOUS
<1>s. stack' = [stack EXCEPT ![t] = <<g>> \o stack[t]]
  BY DEF IInv, TypeOK
<1>. HIDE DEF g
<1>a. \A u \in Threads \ {t} : Called(u)' = Called(u) /\ Top(u)' = Top(u) /\ Below(stack[u])' = Below(stack[u])
  BY <1>s DEF IInv, TypeOK, Called, Top
<1>b. /\ stack'[t] \in Seq(Frames) /\ stack'[t] # <<>>
      /\ Top(t)' = g /\ Called(t)' = {g} \cup Called(t) /\ Below(stack[t])' = Called(t)
  <2>1. stack'[t] = <<g>> \o stack[t] BY <1>s DEF IInv, TypeOK
  <2>2. ToSet(<<g>> \o stack[t]) = {g} \cup ToSet(stack[t]) /\ Below(<<g>> \o stack[t]) = ToSet(stack[t])
    BY <1>0, <1>g, PushStack
  <2>3. <<g>> \o stack[t] \in Seq(Frames) /\ <<g>> \o stack[t] # <<>> /\ (<<g>> \o stack[t])[1] = g
    BY <1>0, <1>g, PushStack
  <2>. QED BY <2>1, <2>2, <2>3 DEF Called, Top
<1>1. TypeOK'
  <2>1. stack' \in [Threads -> Seq(Frames)]
    BY <1>s, <1>b DEF IInv, TypeOK
  <2>2. \A u \in Threads : mapPhase'[u] # "idle" => u \in Busy' /\ Top(u)'.at = "map"
    BY <1>t, <1>s, <1>f, <1>a, <1>b DEF IInv, TypeOK, FrameInv, Busy, Lock!TypeOK
  <2>3. calls' \in [Threads -> 0..MaxCalls]
    BY MaxCallsAssumption DEF IInv, TypeOK
  <2>. QED BY <2>1, <2>2, <2>3 DEF IInv, TypeOK, Lock!TypeOK
<1>2. FrameInv'
  <2>1. \A f \in Called(t) : f.at = "running"
    BY <1>t, <1>e DEF IInv, FrameInv
  <2>2. mapPhase[t] = "idle"
    BY <1>t DEF IInv, TypeOK
  <2>3. FrameOK(g)
    BY <1>f DEF FrameOK, Operations
  <2>. QED BY <1>a, <1>b, <2>1, <2>2, <2>3 DEF IInv, FrameInv
<1>3. MutexInv'
  BY <1>t, <1>f, <1>a, <1>b, KeepMutex DEF IInv, Holding
<1>4. ConnectionInv'
  <2>1. \A u \in Threads : \A f \in Called(u)' : f \in Called(u) \/ (u = t /\ f = g)
    BY <1>a, <1>b
  <2>. QED BY <1>f, <2>1 DEF IInv, ConnectionInv
<1>5. OffInv'
  BY <1>t, <1>f, <1>a, <1>b, KeepOff DEF IInv
<1>. QED BY <1>1, <1>2, <1>3, <1>4, <1>5 DEF IInv

-----------------------------------------------------------------------------

\* Every step preserves the invariant.
LEMMA NextIInv == IInv /\ [Next]_vars => IInv'
<1>. SUFFICES ASSUME IInv, [Next]_vars PROVE IInv'
  OBVIOUS
<1>1. ASSUME NEW t \in Threads, NEW h \in Handlers, Subscribe(t, h) PROVE IInv'
  <2>1. \A u \in Threads : \A f \in Called(u) : f.op = "subscribe" => f.handler # h
    BY <1>1 DEF Subscribe, Called, ToSet, Busy
  <2>2. TypeOf[h] \in Types
    BY TypeOfAssumption
  <2>. QED BY <1>1, <2>1, <2>2, CallIInv DEF Subscribe, Operations
<1>2. ASSUME NEW t \in Threads, NEW type \in Types, Publish(t, type) PROVE IInv'
  BY <1>2, CallIInv DEF Publish, Operations
<1>3. ASSUME NEW t \in Threads, NEW h \in Handlers, Disconnect(t, h) PROVE IInv'
  BY <1>3, CallIInv, TypeOfAssumption DEF Disconnect, Operations
<1>4. ASSUME NEW t \in Threads, Step(t) PROVE IInv'
  BY <1>4, AskMapIInv, EnterMapIInv, ConnectIInv, ReadMapIInv, FindMutexIInv, LockSignalIInv, LookUpIInv,
     CallHandlerIInv, HandlerReturnsIInv, PublishReturnsIInv, TakeOffIInv DEF Step
<1>5. CASE UNCHANGED vars
  <2>1. \A u \in Threads : Called(u)' = Called(u) /\ Top(u)' = Top(u) /\ Below(stack[u])' = Below(stack[u])
    BY <1>5 DEF vars, Called, Top
  <2>2. TypeOK' /\ FrameInv'
    BY <1>5, <2>1 DEF vars, IInv, TypeOK, FrameInv, Lock!TypeOK, Busy
  <2>3. MutexInv' /\ ConnectionInv' /\ OffInv'
    BY <1>5, <2>1, KeepMutex, KeepConnection, KeepOff DEF vars, IInv
  <2>. QED BY <2>2, <2>3 DEF IInv
<1>. QED BY <1>1, <1>2, <1>3, <1>4, <1>5 DEF Next, Step

\* "Protects access to each signal": handlers of one type run on one thread at a time,
\* and a handler whose disconnect() has returned runs nowhere and never again, unless
\* it took itself off and is on its way out.
THEOREM SpecHandlersGuarded == Spec => []HandlersGuarded
<1>. QED
  BY InitIInv, NextIInv, IInvImplies, PTL DEF Spec

\* "Protects access to map of types->signals": of two threads that collide in one of the
\* maps or in a signal, one is in subscribe() or still on its way to its signal.
THEOREM SpecRacesOnlyWithNewcomers == Spec => []RacesOnlyWithNewcomers
<1>. QED
  BY InitIInv, NextIInv, IInvRaces, PTL DEF Spec

=============================================================================
