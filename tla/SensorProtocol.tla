--------------------------- MODULE SensorProtocol ---------------------------
(***************************************************************************)
(* The vehicle's computer and its sensor board on the two ends of a serial *)
(* line: packages/drivers/sensor-r5/src/sensorapi.c (the host) and the     *)
(* main loop of packages/embedded/sbr9/ic1.c (the board).                  *)
(*                                                                         *)
(* A command is a code, arguments and a checksum; the checksum of a        *)
(* command without arguments is its code again.  The board waits for the   *)
(* rest of a command for ever; the host waits 100 ms for a reply and gives *)
(* up, leaving whatever comes later in its input.  Neither side tells one  *)
(* exchange from the next, so the two can get out of step, and syncBoard() *)
(* is there to bring them together again.                                  *)
(*                                                                         *)
(* A byte is a pair: what it belongs to and its place there; a payload is  *)
(* one byte.  A checksum over bytes of two messages is taken to be wrong.  *)
(* The host looks at no result of readData(): what did not come in time is *)
(* whatever the buffer held.  Going over the USB connector (ERR_NOUSB) is  *)
(* left out, and so is all wording on the LCD.                             *)
(***************************************************************************)
EXTENDS Naturals, Sequences

CONSTANTS
    Reads,              \* the commands of partialRead: code, payload, checksum
    Writes,             \* commands answered with one byte
    SetSpeed,           \* HOST_CMD_SETSPEED
    Length,             \* bytes of each command; two for one without arguments
    Cycle,              \* the reads of partialRead, in the order of the enumeration
    Masked,             \* those whose error is lost in "& 0x3F"
    Zeroed,             \* read into zeros, payload and checksum apart
    Unset,              \* read into a buffer that is not initialised
    MaxSyncAttempts,    \* MAX_SYNC_ATTEMPTS
    None,
    MaxExchanges,       \* bound: calls of the host
    MaxLosses           \* bound: bytes lost on the line

Commands == Reads \cup Writes

\* 20 attempts, and no command is longer than 19 bytes (HOST_CMD_PRINTTEXT).
ASSUME CommandsFit ==
    /\ MaxSyncAttempts \in Nat
    /\ Length \in [Commands -> 2..(MaxSyncAttempts - 1)]
    /\ SetSpeed \in Writes /\ Length[SetSpeed] > 2

ASSUME CycleAssumption ==
    /\ Cycle \in Seq(Reads) /\ Cycle # <<>>
    /\ Masked \subseteq Reads /\ Zeroed \subseteq Reads /\ Unset \subseteq Reads \ Zeroed

\* 0xFF is no command, and no reply of one byte begins as a longer one does.
ASSUME CodesDiffer ==
    /\ Reads \cap Writes = {}
    /\ {None, "SYNC", "other"} \cap Commands = {}
    /\ {"SUCCESS", "BADCHKSUM", "FAILURE"} \cap Reads = {}

ASSUME BoundsAssumption == MaxExchanges \in Nat /\ MaxLosses \in Nat

VARIABLES
    up, down,           \* the bytes on their way to the board and to the host
    hpc,                \* where the host is; "idle" between two calls
    cmd,                \* the command of its call
    attempts, heard,    \* i and b[0] of syncBoard
    updateState,        \* place in the cycle of reads
    payload,            \* in the buffer of a Zeroed read: "zeros", "value" or "mixed"
    telemetry,          \* history: the items whose value came in this cycle
    hollow,             \* history: those that succeeded in it although no value came
    result,             \* of the last call
    bcmd, bleft, bgood, \* the command the board is reading, bytes to come, correct so far
    turning,            \* a thruster has a speed other than zero
    timer,              \* Timer1: "off", "running"; "tripped" is failsafeTripped
    exchanges, losses,
    owed,               \* history: writes asked for, if only by accident, and not executed
    done,               \* history: the board executed the host's command in this call
    cutOff,             \* history: the last call succeeded with part of its reply missing
    dirty,              \* history: an earlier call did, or one failed, and no undisturbed
                        \* sync came after it
    misread,            \* history: an argument was taken for a command, no such sync since
    clean,              \* history: nothing lost or late in the sync
    reported,           \* history: an error was returned in this cycle of reads
    slipped             \* history: the failsafe acted inside a SETSPEED, or the bus failed it

line == <<up, down>>
host == <<hpc, cmd, attempts, heard, updateState, payload, telemetry, hollow, result, exchanges>>
board == <<bcmd, bleft, bgood>>
motor == <<turning, timer, slipped>>
history == <<owed, done, cutOff, dirty, misread, clean, reported>>
vars == <<line, host, board, motor, history, losses>>

UpBytes == {<<"SYNC", 1>>} \cup UNION {{c} \X (1..Length[c]) : c \in Commands}
Acks == {"SUCCESS", "BADCHKSUM", "FAILURE"}
DownBytes == (Acks \X {1}) \cup (Reads \X (1..3))

TypeOK ==
    /\ up \in Seq(UpBytes) /\ down \in Seq(DownBytes)
    /\ hpc \in {"idle", "code", "rest", "sum", "listen", "hush"}
    /\ cmd \in Commands \cup {None}
    /\ attempts \in 0..MaxSyncAttempts
    /\ heard \in Acks \cup Reads \cup {"nothing"}
    /\ updateState \in 0..Len(Cycle)
    /\ payload \in {"zeros", "value", "mixed"}
    /\ telemetry \subseteq Reads /\ hollow \subseteq Reads
    /\ result \in {"none", "SB_OK", "SB_UPDATEDONE", "SB_ERROR", "synced", "unsynced"}
    /\ bcmd \in Commands \cup {None}
    /\ bleft \in Nat /\ (bcmd # None => bleft < Length[bcmd]) /\ (bcmd = None => bleft = 0)
    /\ timer \in {"off", "running", "tripped"}
    /\ {bgood, turning, done, cutOff, dirty, misread, clean, reported, slipped} \subseteq BOOLEAN
    /\ exchanges \in 0..MaxExchanges /\ losses \in 0..MaxLosses

Init ==
    /\ up = <<>> /\ down = <<>>
    /\ hpc = "idle" /\ cmd = None /\ attempts = 0 /\ heard = "nothing"
    /\ updateState = 0
    /\ payload = "zeros"
    /\ telemetry = {} /\ hollow = {}
    /\ result = "none"
    /\ bcmd = None /\ bleft = 0 /\ bgood = TRUE
    /\ turning = FALSE /\ timer = "off"
    /\ exchanges = 0 /\ losses = 0
    /\ owed = [c \in Writes |-> 0]
    /\ done = FALSE /\ cutOff = FALSE /\ dirty = FALSE /\ misread = FALSE
    /\ clean = FALSE /\ reported = FALSE /\ slipped = FALSE

\* The board has read all there is and answered it.
Executing == bcmd # None /\ bleft = 0
Quiet == up = <<>> /\ ~Executing

-----------------------------------------------------------------------------
(* The host: a call *)

Bytes(c) == [i \in 1..Length[c] |-> <<c, i>>]

Send(c) ==
    /\ hpc = "idle"
    /\ exchanges < MaxExchanges
    /\ exchanges' = exchanges + 1
    /\ up' = up \o Bytes(c)
    /\ cmd' = c
    /\ hpc' = "code"
    /\ result' = "none"
    /\ payload' = "zeros"
    /\ done' = FALSE
    /\ dirty' = (dirty \/ cutOff)
    /\ cutOff' = FALSE
    /\ clean' = FALSE
    /\ UNCHANGED <<down, attempts, heard, board, motor, misread, losses>>

Write(c) ==
    /\ c \in Writes
    /\ Send(c)
    /\ owed' = [owed EXCEPT ![c] = @ + 1]
    /\ UNCHANGED <<updateState, telemetry, hollow, reported>>

\* partialRead() goes on to the next item whether or not the last was read.
PartialRead ==
    LET next == IF updateState = Len(Cycle) THEN 1 ELSE updateState + 1 IN
    /\ Send(Cycle[next])
    /\ updateState' = next
    /\ telemetry' = IF next = 1 THEN {} ELSE telemetry
    /\ hollow' = IF next = 1 THEN {} ELSE hollow
    /\ reported' = (reported /\ next # 1)
    /\ UNCHANGED owed

\* The code a byte may be read as: a payload or a checksum can have any value.
Says(b) == IF b[2] = 1 THEN {b[1]} ELSE Acks \cup Reads

\* Mutant: the last read of the cycle ends it, with an error too.
FinishDone(ok, came) ==
    /\ hpc' = "idle"
    /\ dirty' = (dirty \/ ~ok)
    /\ IF ok \/ cmd \in Masked \/ (cmd \in Reads /\ updateState = Len(Cycle))
       THEN /\ result' = IF cmd \in Reads /\ updateState = Len(Cycle)
                         THEN "SB_UPDATEDONE" ELSE "SB_OK"
            /\ UNCHANGED reported
       ELSE /\ result' = "SB_ERROR"
            /\ reported' = TRUE
    /\ cutOff' = (ok /\ came # "all")
    /\ telemetry' = telemetry \cup IF ok /\ came # "code" THEN {cmd} \cap Reads ELSE {}
    /\ hollow' = hollow \cup IF ok /\ came = "code" THEN {cmd} ELSE {}

\* What the call returns, when "all", the "code" and the "value", or no more than
\* the "code" of the reply came.  A read stores the value, or the error code for it.
Finish(ok, came) ==
    /\ hpc' = "idle"
    /\ dirty' = (dirty \/ ~ok)
    /\ IF ok \/ cmd \in Masked
       THEN /\ result' = IF cmd \in Reads /\ updateState = Len(Cycle)
                         THEN "SB_UPDATEDONE" ELSE "SB_OK"
            /\ UNCHANGED reported
       ELSE /\ result' = "SB_ERROR"
            /\ reported' = TRUE
    /\ cutOff' = (ok /\ came # "all")
    /\ telemetry' = telemetry \cup IF ok /\ came # "code" THEN {cmd} \cap Reads ELSE {}
    /\ hollow' = hollow \cup IF ok /\ came = "code" THEN {cmd} ELSE {}

\* What a step of a call leaves alone.
Elsewhere ==
    UNCHANGED <<up, cmd, attempts, heard, updateState, exchanges, board, motor, owed, done, misread,
                clean, losses>>

\* Mutant: only a bad checksum is an error.
ReadAckLoosely ==
    /\ hpc = "code" /\ cmd \in Writes /\ down # <<>>
    /\ down' = Tail(down)
    /\ \E v \in Says(Head(down)) : Finish(v # "BADCHKSUM", "all")
    /\ UNCHANGED payload /\ Elsewhere

ReadAck ==
    /\ hpc = "code" /\ cmd \in Writes /\ down # <<>>
    /\ down' = Tail(down)
    /\ \E v \in Says(Head(down)) : Finish(v = "SUCCESS", "all")
    /\ UNCHANGED payload /\ Elsewhere

ReadCode ==
    /\ hpc = "code" /\ cmd \in Reads /\ down # <<>>
    /\ down' = Tail(down)
    /\ \E v \in Says(Head(down)) :
        IF v = cmd THEN /\ hpc' = "rest"
                        /\ UNCHANGED <<telemetry, hollow, result, cutOff, dirty, reported>>
        ELSE Finish(FALSE, "code")
    /\ UNCHANGED payload /\ Elsewhere

\* The checksum that is missing is what the buffer held in its place: the code sent,
\* a zero, or anything.  It may be right for some value.
ReadRest ==
    /\ hpc = "rest" /\ cmd \notin Zeroed /\ down # <<>>
    /\ \E k \in 1..2 :
        /\ k <= Len(down)
        /\ down' = SubSeq(down, k + 1, Len(down))
        /\ \/ k = 2 /\ Finish(SubSeq(down, 1, 2) = <<<<cmd, 2>>, <<cmd, 3>>>>, "all")
           \/ k = 1 /\ Finish(FALSE, "code")
           \/ k = 1 /\ Head(down) = <<cmd, 2>> /\ Finish(TRUE, "value")
           \/ k = 1 /\ Head(down) # <<cmd, 2>> /\ cmd \in Unset /\ Finish(TRUE, "code")
    /\ UNCHANGED payload /\ Elsewhere

\* The first of the two reads of readTemp and getSonarData.
ReadPayload ==
    /\ hpc = "rest" /\ cmd \in Zeroed
    /\ IF down = <<>> THEN UNCHANGED <<down, payload>>
       ELSE /\ down' = Tail(down)
            /\ payload' = IF Head(down) = <<cmd, 2>> THEN "value" ELSE "mixed"
    /\ hpc' = "sum"
    /\ UNCHANGED <<telemetry, hollow, result, cutOff, dirty, reported>> /\ Elsewhere

\* And the second.  The sum over zeros is the code, and so is what is left in the
\* buffer when nothing comes.
ReadSum ==
    /\ hpc = "sum"
    /\ IF down = <<>>
       THEN /\ UNCHANGED down
            /\ \/ payload = "zeros" /\ Finish(TRUE, "code")
               \/ payload = "value" /\ \E ok \in BOOLEAN : Finish(ok, "value")
               \/ payload = "mixed" /\ Finish(FALSE, "code")
       ELSE /\ down' = Tail(down)
            /\ \/ payload = "zeros" /\ \E v \in Says(Head(down)) : Finish(v = cmd, "code")
               \/ payload = "value" /\ Finish(Head(down) = <<cmd, 3>>, "all")
               \/ payload = "mixed" /\ Finish(FALSE, "code")
    /\ UNCHANGED payload /\ Elsewhere

\* Nothing came in time.  The buffer still holds what was sent, which is no reply's
\* code, or the code and no checksum that goes with it, if the buffer was set at all.
NoReply ==
    /\ hpc = "code" \/ (hpc = "rest" /\ cmd \notin Zeroed)
    /\ down = <<>>
    /\ \/ Finish(FALSE, "code")
       \/ hpc = "rest" /\ cmd \in Unset /\ Finish(TRUE, "code")
    /\ UNCHANGED <<down, payload>> /\ Elsewhere

-----------------------------------------------------------------------------
(* The host: syncBoard *)

\* Mutant: what is left of earlier replies stays in the input.
SyncUndrained ==
    /\ hpc = "idle"
    /\ exchanges < MaxExchanges
    /\ exchanges' = exchanges + 1
    /\ up' = Append(up, <<"SYNC", 1>>)
    /\ attempts' = 1
    /\ hpc' = "listen"
    /\ result' = "none"
    /\ clean' = Quiet
    /\ UNCHANGED <<down, cmd, heard, updateState, payload, telemetry, hollow, board, motor, owed, done, cutOff,
                   dirty, misread, reported, losses>>

\* Eats the incoming buffer and sends the first 0xFF.
Sync ==
    /\ hpc = "idle"
    /\ exchanges < MaxExchanges
    /\ exchanges' = exchanges + 1
    /\ down' = <<>>
    /\ up' = Append(up, <<"SYNC", 1>>)
    /\ attempts' = 1
    /\ hpc' = "listen"
    /\ result' = "none"
    /\ clean' = Quiet
    /\ UNCHANGED <<cmd, heard, updateState, payload, telemetry, hollow, board, motor, owed, done, cutOff,
                   dirty, misread, reported, losses>>

Listen ==
    /\ hpc = "listen"
    /\ IF down # <<>>
       THEN /\ heard' \in Says(Head(down))
            /\ down' = Tail(down)
            /\ UNCHANGED clean
       ELSE /\ heard' = "nothing"
            /\ clean' = (clean /\ Quiet)
            /\ UNCHANGED down
    /\ hpc' = "hush"
    /\ UNCHANGED <<up, cmd, attempts, updateState, payload, telemetry, hollow, result, exchanges, board,
                   motor, owed, done, cutOff, dirty, misread, reported, losses>>

Synced(ok, undisturbed) ==
    /\ hpc' = "idle"
    /\ result' = IF ok THEN "synced" ELSE "unsynced"
    /\ dirty' = ~(ok /\ undisturbed)
    /\ misread' = (misread /\ ~(ok /\ undisturbed))
    /\ cutOff' = FALSE
    /\ attempts' = 0
    /\ heard' = "nothing"
    /\ UNCHANGED up

\* A good byte and then silence: the two are in step.  Else another 0xFF.
HushUpTo(limit) ==
    /\ hpc = "hush"
    /\ clean' = (clean /\ (down = <<>> => Quiet))
    /\ \/ /\ down = <<>> /\ heard = "SUCCESS"
          /\ Synced(TRUE, clean')
       \/ /\ down # <<>> \/ heard # "SUCCESS"
          /\ IF attempts < limit
             THEN /\ up' = Append(up, <<"SYNC", 1>>)
                  /\ attempts' = attempts + 1
                  /\ hpc' = "listen"
                  /\ UNCHANGED <<heard, result, cutOff, dirty, misread>>
             ELSE Synced(FALSE, clean')
    /\ UNCHANGED <<down, cmd, updateState, payload, telemetry, hollow, exchanges, board, motor, owed, done,
                   reported, losses>>

\* Mutants: one attempt too many, and no more than the longest command has arguments.
HushOnceMore == HushUpTo(MaxSyncAttempts + 1)
HushFewer == HushUpTo(MaxSyncAttempts - 2)

Hush == HushUpTo(MaxSyncAttempts)

-----------------------------------------------------------------------------
(* The board *)

\* The values a byte may have when it is looked at out of its place.
Values(b) == IF b[2] = 1 \/ Length[b[1]] = 2 THEN {b[1]} ELSE Commands \cup {"SYNC", "other"}

\* setMotorFailsafe(), called before the arguments are there.
ArmFailsafe == timer' = "running" /\ slipped' = FALSE /\ UNCHANGED turning

\* waitchar() at the top of the loop.  A byte no case knows is ignored.
TakeCodeArming(codes) ==
    /\ bcmd = None /\ up # <<>>
    /\ up' = Tail(up)
    /\ \E v \in Values(Head(up)) :
        /\ misread' = (misread \/ v # Head(up)[1])
        /\ IF v \in Commands
           THEN bcmd' = v /\ bleft' = Length[v] - 1 /\ bgood' = TRUE
           ELSE UNCHANGED board
        /\ IF v \in codes THEN ArmFailsafe ELSE UNCHANGED motor
        /\ owed' = [c \in Writes |-> owed[c] + IF v = c /\ v # Head(up)[1] THEN 1 ELSE 0]
        /\ down' = IF v = "SYNC" THEN Append(down, <<"SUCCESS", 1>>) ELSE down
    /\ UNCHANGED <<host, done, cutOff, dirty, clean, reported, losses>>

\* Mutant: no command starts the timer.
TakeCodeUnarmed == TakeCodeArming({})

TakeCode == TakeCodeArming({SetSpeed})

\* Mutant: the checksum of a command without arguments is left in the UART.
TakeRestPeeks ==
    /\ bleft > 0 /\ up # <<>>
    /\ up' = IF Length[bcmd] = 2 THEN up ELSE Tail(up)
    /\ bleft' = bleft - 1
    /\ \E v \in Values(Head(up)) :
        bgood' = (bgood /\ IF Length[bcmd] = 2 THEN v = bcmd
                           ELSE Head(up) = <<bcmd, Length[bcmd] - bleft + 1>>)
    /\ UNCHANGED <<down, host, bcmd, motor, history, losses>>

\* waitchar() inside a command, for an argument or the checksum.
TakeRest ==
    /\ bleft > 0 /\ up # <<>>
    /\ up' = Tail(up)
    /\ bleft' = bleft - 1
    /\ \E v \in Values(Head(up)) :
        bgood' = (bgood /\ IF Length[bcmd] = 2 THEN v = bcmd
                           ELSE Head(up) = <<bcmd, Length[bcmd] - bleft + 1>>)
    /\ UNCHANGED <<down, host, bcmd, motor, history, losses>>

Reply(bytes) ==
    /\ down' = down \o bytes
    /\ bcmd' = None
    /\ bgood' = TRUE
    /\ UNCHANGED <<up, bleft>>

BadChecksum ==
    /\ Executing /\ ~bgood
    /\ Reply(<<<<"BADCHKSUM", 1>>>>)
    /\ UNCHANGED <<host, motor, history, losses>>

\* The bus did not take all of it; some of the speeds may have arrived.
BusFailure ==
    /\ Executing /\ bgood
    /\ Reply(<<<<"FAILURE", 1>>>>)
    /\ turning' \in IF bcmd = SetSpeed THEN BOOLEAN ELSE {turning}
    /\ UNCHANGED <<host, timer, slipped, history, losses>>

\* The command the host is waiting for was executed.
Answers == done' = (done \/ (hpc \in {"code", "rest", "sum"} /\ bcmd = cmd))

ReplyData ==
    /\ Executing /\ bgood /\ bcmd \in Reads
    /\ Reply([i \in 1..3 |-> <<bcmd, i>>])
    /\ Answers
    /\ UNCHANGED <<host, motor, owed, cutOff, dirty, misread, clean, reported, losses>>

Execute ==
    /\ Executing /\ bgood /\ bcmd \in Writes
    /\ Reply(<<<<"SUCCESS", 1>>>>)
    /\ Answers
    /\ owed' = [owed EXCEPT ![bcmd] = @ - 1]
    /\ turning' \in IF bcmd = SetSpeed THEN BOOLEAN ELSE {turning}
    /\ UNCHANGED <<host, timer, slipped, cutOff, dirty, misread, clean, reported, losses>>

T1Interrupt ==
    /\ timer = "running"
    /\ timer' = "tripped"
    /\ UNCHANGED <<line, host, board, turning, slipped, history, losses>>

\* Mutant: the flag is cleared and the motors are left to the next tick.
CheckFailsafeForgets ==
    /\ timer = "tripped" /\ ~Executing
    /\ timer' = "off"
    /\ slipped' = (slipped \/ bcmd = SetSpeed)
    /\ UNCHANGED <<line, host, board, turning, history, losses>>

\* checkFailsafe() in waitchar(): zeroes the speeds, turns the thrusters off and
\* does not look at what the bus answers.
CheckFailsafe ==
    /\ timer = "tripped" /\ ~Executing
    /\ timer' = "off"
    /\ turning' \in {FALSE, turning}
    /\ slipped' = (turning' \/ bcmd = SetSpeed)
    /\ UNCHANGED <<line, host, board, history, losses>>

-----------------------------------------------------------------------------
(* The line *)

Lose ==
    /\ losses < MaxLosses
    /\ losses' = losses + 1
    /\ clean' = FALSE
    /\ \/ up # <<>> /\ up' = Tail(up) /\ UNCHANGED down
       \/ down # <<>> /\ down' = Tail(down) /\ UNCHANGED up
    /\ UNCHANGED <<host, board, motor, owed, done, cutOff, dirty, misread, reported>>

-----------------------------------------------------------------------------

HostWorks ==
    ReadAck \/ ReadCode \/ ReadRest \/ ReadPayload \/ ReadSum \/ NoReply \/ Listen \/ Hush
BoardWorks == TakeCode \/ TakeRest \/ BadChecksum \/ BusFailure \/ ReplyData \/ Execute

Next ==
    \/ \E c \in Writes : Write(c)
    \/ PartialRead
    \/ Sync
    \/ HostWorks
    \/ BoardWorks
    \/ T1Interrupt
    \/ CheckFailsafe
    \/ Lose

Spec == Init /\ [][Next]_vars

\* The board runs and its timer ticks; nobody has to call and no bus write has
\* to succeed.
FairSpec ==
    Spec /\ WF_vars(HostWorks) /\ WF_vars(BoardWorks) /\ WF_vars(T1Interrupt) /\ WF_vars(CheckFailsafe)

-----------------------------------------------------------------------------
(* Properties *)

\* The only way to succeed without a value: nothing came after the code, and the
\* buffer was zeros, or was never set.
WithoutValue == cutOff /\ cmd \in hollow \cap (Zeroed \cup Unset)

\* A write that returns SB_OK has been executed, and a read that does has been
\* answered and holds the value of the answer, since the call.  An answer left over
\* from an earlier call is taken for a new one only after an error or a reply cut
\* short that no undisturbed sync followed, or after the board took an argument for
\* a command.  A temperature or a sonar vector of a reply cut off after its code is
\* all zeros, and a status any two bytes, with SB_OK all the same.
SuccessIsFresh ==
    (result \in {"SB_OK", "SB_UPDATEDONE"} /\ ~dirty /\ ~misread)
        => done /\ (cmd \in Reads => cmd \in telemetry \/ WithoutValue)

\* "Syncs the communication protocol between the board and vehicle"
\* (sensorapi.h): with nothing lost or late in it a sync succeeds, MAX_SYNC_ATTEMPTS
\* being enough to fill up any command the board may be reading; and it leaves the
\* board at the start of a command and no byte under way in either direction.
SyncBringsInStep ==
    (hpc = "idle" /\ clean /\ result \in {"synced", "unsynced"})
        => result = "synced" /\ bcmd = None /\ up = <<>> /\ down = <<>>

\* SB_UPDATEDONE "on success and update cycle is done" (sensorapi.h): the value of
\* every item has come in this cycle, unless an error was returned on the way, the
\* item is one whose errors are masked away, or nothing came after the code of its
\* reply and it is one of those that do not notice.
CycleIsComplete ==
    (hpc = "idle" /\ result = "SB_UPDATEDONE" /\ ~reported)
        => \A i \in 1..Len(Cycle) :
            Cycle[i] \in telemetry \cup Masked \cup (hollow \cap (Zeroed \cup Unset))

\* The board fires, drops and drives no more often than it was asked to,
\* however the bytes of different calls run together.  (An argument it takes
\* for a code asks, too.)
NothingUnasked == \A c \in Writes : owed[c] >= 0

\* "If failsafe tripped, send motor-off commands" (ic1.c): motors that turn have a
\* timer behind them, unless the timer went off in the middle of the command
\* that set them going or the bus failed when it did.
FailsafeArmed == turning => timer # "off" \/ slipped

\* What the board may be trusted with, whatever comes over the line.
BoardInHand == TypeOK /\ NothingUnasked /\ FailsafeArmed

\* When the host goes silent the motors stop.
MotorsStop == turning ~> ~turning \/ slipped
=============================================================================
