------------------------- MODULE SensorBoardState -------------------------
(***************************************************************************)
(* The state of packages/vehicle/src/device/SensorBoard.cpp, the calls     *)
(* that share it, and what is to be true of it.  SensorBoard has the       *)
(* steps.                                                                  *)
(***************************************************************************)
EXTENDS Naturals, Sequences

CONSTANTS
    Clients,
    Loop,
    Speeds,         \* the values of a thruster
    Initial,        \* the one it has first
    Nobody,         \* what has a free mutex
    MaxCalls,       \* bound: calls the clients make
    MaxErrors       \* bound: exchanges that fail on the line

Threads == Clients \cup {Loop}

ASSUME DistinctThreads == Loop \notin Clients /\ Nobody \notin Threads /\ Initial \in Speeds
ASSUME CallsAssumption == MaxCalls \in Nat /\ MaxErrors \in Nat

VARIABLES
    commanded,      \* m_state.thrusterValues
    copy,           \* the loop's copy of it
    holder,         \* the thread that has m_deviceMutex
    fd,             \* m_deviceFD; 0 is -1, the others tell one open file from the next
    opened,         \* files opened so far
    dropped,        \* markersDropped
    pc, call, todo, \* of each thread: where it is, its call, the exchanges left
    marker,         \* the number of the marker it drops; 0 if none
    using,          \* the file its exchange uses
    running,        \* the loop is to go on
    destroyed,
    calls, errors,
    sent,           \* history: the value in the last setSpeeds that succeeded
    wanted,         \* history: the last value a client set
    overtaken,      \* history: it was set between the copy and the writing back
    picks           \* history: how often dropMarker() chose each marker

Markers == {1, 2}

\* The calls and what each has to say to the board.  fireTorpedo() asks for
\* torpedo 0, which the driver does not know; setExtraThrusterSpeed() has two
\* exchanges; the others that hold the mutex are like setThrusterEnable().
Words == {"setSpeeds", "partialRead", "readDepth", "setThrusterSafety", "setDerpyPower", "setDerpySpeed",
          "fireTorpedo(0)", "marker", "DVLOn"}
Exchanges == [update |-> <<"setSpeeds", "partialRead", "readDepth">>,
              setThrusterEnable |-> <<"setThrusterSafety">>,
              setExtraThrusterSpeed |-> <<"setDerpyPower", "setDerpySpeed">>,
              fireTorpedo |-> <<"fireTorpedo(0)">>,
              dropMarker |-> <<>>,
              dropMarkerIndex |-> <<"marker">>,
              setDVLPowerEnabled |-> <<"DVLOn">>,
              destructor |-> <<>>,
              none |-> <<>>]

\* The calls that talk to the board without m_deviceMutex.
Unlocked == {"setDVLPowerEnabled", "dropMarkerIndex"}

Places == {"idle", "lock", "ready", "talk", "reopen", "sync", "events", "join", "close", "ended"}

\* Between taking m_deviceMutex at the start of its call and releasing it.
InDevice(t) == call[t] \notin Unlocked /\ pc[t] \in {"ready", "talk", "reopen"}

DeviceTypeOK ==
    /\ {commanded, copy, sent, wanted} \subseteq Speeds
    /\ holder \in Threads \cup {Nobody}
    /\ opened \in Nat \ {0} /\ fd \in 0..opened
    /\ dropped \subseteq Markers
    /\ pc \in [Threads -> Places]
    /\ call \in [Threads -> DOMAIN Exchanges]
    /\ todo \in [Threads -> Seq(Words)]
    /\ marker \in [Threads -> {0} \cup Markers]
    /\ using \in [Threads -> 0..opened]
    /\ {running, destroyed, overtaken} \subseteq BOOLEAN
    /\ calls \in 0..MaxCalls /\ errors \in 0..MaxErrors
    /\ picks \in [Markers -> Nat]
    /\ \A t \in Threads : InDevice(t) => holder = t

-----------------------------------------------------------------------------
(* Properties *)

\* "Protects access to the SB device" (SensorBoard.h): two exchanges overlap, or
\* a file is closed under one, only if one of the callers is one of the two
\* that take no mutex.
ExchangesUndisturbed ==
    \A t \in Threads : pc[t] = "talk" =>
        /\ \A u \in Threads \ {t} : pc[u] = "talk" => call[t] \in Unlocked \/ call[u] \in Unlocked
        /\ using[t] # fd \/ fd = 0 =>
            call[t] \in Unlocked \/ \E u \in Threads : pc[u] = "reopen" /\ call[u] \in Unlocked

\* dropMarker() does not choose the same marker twice, whatever is dropped by
\* number meanwhile.
MarkersPickedOnce == \A m \in Markers : picks[m] <= 1

\* Nobody talks to the board, and the loop is over, once the object is gone.
QuietAfterDestruction == destroyed => \A t \in Threads : pc[t] \in {"idle", "ended"}

\* What m_deviceMutex and the join in the destructor are for.
DeviceGuarded == DeviceTypeOK /\ ExchangesUndisturbed /\ MarkersPickedOnce /\ QuietAfterDestruction
=============================================================================
