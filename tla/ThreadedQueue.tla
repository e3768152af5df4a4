---------------------------- MODULE ThreadedQueue ----------------------------
(***************************************************************************)
(* packages/core/include/ThreadedQueue.h: a std::queue behind a mutex with *)
(* one condition variable.  A stretch of code between two waits is one     *)
(* step (m_monitorMutex is held), m_itemAvailable is the set of threads    *)
(* blocked on it, and a timed wait may give up at any moment.              *)
(*                                                                         *)
(* Items are numbered in the order they are pushed.  front() of an empty   *)
(* std::queue is undefined behaviour: the model records that it happened   *)
(* and lets the consumer go no further.                                    *)
(***************************************************************************)
EXTENDS Naturals, Sequences, FiniteSets

CONSTANTS
    Consumers,
    MaxPushes           \* bound: how many items are ever pushed

ASSUME ConsumersAssumption == IsFiniteSet(Consumers)
ASSUME MaxPushesAssumption == MaxPushes \in Nat

VARIABLES
    queue,      \* m_queue
    pushes,     \* how many items have been pushed
    blocked,    \* consumers blocked on m_itemAvailable
    call,       \* what each consumer is doing
    taken,      \* history: what each consumer has popped, in order
    excused,    \* history: waiting consumers overtaken by another pop, or woken by nobody
    undefined   \* consumers that called front() on an empty queue

vars == <<queue, pushes, blocked, call, taken, excused, undefined>>

\* popNoWait and a pop that finds data do not wait: they are a single step.
Calls == {"none", "popWait", "popTimedWait"}

Waiting == {c \in Consumers : call[c] # "none"}

\* Consumers that were woken and have not got m_monitorMutex back yet.
Awake == Waiting \ blocked

\* In particular only a consumer inside a wait is blocked.
TypeOK ==
    /\ queue \in Seq(1..MaxPushes)
    /\ pushes \in 0..MaxPushes
    /\ blocked \subseteq Waiting
    /\ call \in [Consumers -> Calls]
    /\ taken \in [Consumers -> Seq(1..MaxPushes)]
    /\ excused \in SUBSET Consumers
    /\ undefined \in SUBSET Consumers

Init ==
    /\ queue = <<>>
    /\ pushes = 0
    /\ blocked = {}
    /\ call = [c \in Consumers |-> "none"]
    /\ taken = [c \in Consumers |-> <<>>]
    /\ excused = {}
    /\ undefined = {}

\* Mutant: the notification is sent only when the queue was empty.
PushNotifiesIfEmpty ==
    /\ pushes < MaxPushes
    /\ pushes' = pushes + 1
    /\ queue' = Append(queue, pushes + 1)
    /\ IF queue = <<>> /\ blocked # {}
         THEN \E c \in blocked : blocked' = blocked \ {c}
         ELSE UNCHANGED blocked
    /\ UNCHANGED <<call, taken, excused, undefined>>

\* push: the notification wakes one blocked consumer, if there is one.
Push ==
    /\ pushes < MaxPushes
    /\ pushes' = pushes + 1
    /\ queue' = Append(queue, pushes + 1)
    /\ \/ \E c \in blocked : blocked' = blocked \ {c}
       \/ blocked = {} /\ UNCHANGED blocked
    /\ UNCHANGED <<call, taken, excused, undefined>>

\* Mutant: the item is copied out and left in the queue.
TakeWithoutPop(c) ==
    /\ queue # <<>>
    /\ taken' = [taken EXCEPT ![c] = Append(@, Head(queue))]
    /\ excused' = (excused \cup Waiting) \ {c}
    /\ UNCHANGED <<queue, pushes, blocked, undefined>>

\* front() followed by pop().
Take(c) ==
    /\ queue # <<>>
    /\ taken' = [taken EXCEPT ![c] = Append(@, Head(queue))]
    /\ queue' = Tail(queue)
    /\ excused' = (excused \cup Waiting) \ {c}
    /\ UNCHANGED <<pushes, blocked, undefined>>

Ready(c) == call[c] = "none" /\ c \notin undefined

\* popNoWait, and the part of popWait and popTimedWait that finds data at once.
\* popNoWait on an empty queue changes nothing.
Pop(c) == Ready(c) /\ Take(c) /\ UNCHANGED call

\* popWait or popTimedWait on an empty queue.
Wait(c, kind) ==
    /\ Ready(c)
    /\ queue = <<>>
    /\ blocked' = blocked \cup {c}
    /\ call' = [call EXCEPT ![c] = kind]
    /\ excused' = excused \ {c}
    /\ UNCHANGED <<queue, pushes, taken, undefined>>

\* Mutant: the item of a woken consumer is dropped.
WokenDropsItem(c) ==
    /\ c \in Awake
    /\ call' = [call EXCEPT ![c] = "none"]
    /\ queue' = IF queue = <<>> THEN queue ELSE Tail(queue)
    /\ UNCHANGED <<pushes, blocked, taken, excused, undefined>>

\* The woken consumer does not test the queue again before front().
Woken(c) ==
    /\ c \in Awake
    /\ call' = [call EXCEPT ![c] = "none"]
    /\ \/ Take(c)
       \/ /\ queue = <<>>
          /\ undefined' = undefined \cup {c}
          /\ UNCHANGED <<queue, pushes, blocked, taken, excused>>

\* Mutant: popTimedWait goes on as if the wait had succeeded.
TimeOutIgnored(c) ==
    /\ call[c] = "popTimedWait"
    /\ c \in blocked
    /\ blocked' = blocked \ {c}
    /\ call' = [call EXCEPT ![c] = "none"]
    /\ undefined' = undefined \cup {c}
    /\ UNCHANGED <<queue, pushes, taken, excused>>

\* Mutant: the consumer that gives up is not taken off the condition variable.
TimeOutStaysBlocked(c) ==
    /\ call[c] = "popTimedWait"
    /\ c \in blocked
    /\ call' = [call EXCEPT ![c] = "none"]
    /\ UNCHANGED <<queue, pushes, blocked, taken, excused, undefined>>

\* timed_wait gives up and popTimedWait returns false.
TimeOut(c) ==
    /\ call[c] = "popTimedWait"
    /\ c \in blocked
    /\ blocked' = blocked \ {c}
    /\ call' = [call EXCEPT ![c] = "none"]
    /\ UNCHANGED <<queue, pushes, taken, excused, undefined>>

\* boost::condition::wait may return without a notification.
SpuriousWakeup(c) ==
    /\ c \in blocked
    /\ blocked' = blocked \ {c}
    /\ excused' = excused \cup {c}
    /\ UNCHANGED <<queue, pushes, call, taken, undefined>>

Next ==
    \/ Push
    \/ \E c \in Consumers :
        \/ Pop(c)
        \/ \E kind \in {"popWait", "popTimedWait"} : Wait(c, kind)
        \/ Woken(c)
        \/ TimeOut(c)
        \/ SpuriousWakeup(c)

Spec == Init /\ [][Next]_vars

\* A consumer that loops over popWait, as waitAndPublishEvents is looped over:
\* it comes back for the next item, and a woken consumer gets the mutex.
FairSpec ==
    /\ Spec
    /\ \A c \in Consumers :
        WF_vars(Pop(c) \/ Wait(c, "popWait") \/ Woken(c))

-----------------------------------------------------------------------------
(* Properties *)

\* popWait "waits until new data is queue and returns that item when its added"
\* (ThreadedQueue.h:107): front() is called on an empty queue only if another
\* consumer popped while this one waited, or it was woken by nobody.  With one
\* consumer a notification means an item.
FrontOfEmptyOnlyIfOvertaken == undefined \subseteq excused

\* No item is slept over: while a consumer is blocked, every item in the queue
\* has a consumer of its own that was woken for it.
NoItemSleptOver ==
    blocked # {} => Len(queue) <= Cardinality(Awake)

\* Every item goes to one consumer, and each consumer gets its items in the
\* order they were pushed, also when a blocked consumer is overtaken.
EachOnceInOrder ==
    /\ \A c \in Consumers : \A i, j \in DOMAIN taken[c] :
           i < j => taken[c][i] < taken[c][j]
    /\ \A c, d \in Consumers : \A i \in DOMAIN taken[c], j \in DOMAIN taken[d] :
           taken[c][i] = taken[d][j] => c = d
    /\ \A c \in Consumers : \A i \in DOMAIN taken[c], k \in DOMAIN queue :
           taken[c][i] < queue[k]

\* Every item pushed is popped, although each wake-up is for one consumer only.
EveryItemTaken ==
    \A n \in 1..MaxPushes :
        pushes >= n ~> \/ undefined # {}
                       \/ \E c \in Consumers : \E i \in DOMAIN taken[c] : taken[c][i] = n
=============================================================================
