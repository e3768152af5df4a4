------------------------ MODULE SensorProtocolProofs ------------------------
(***************************************************************************)
(* Proofs about the two ends of the serial line: what the board may be     *)
(* trusted with whatever comes over it, that a success belongs to the call *)
(* that returned it, that a sync brings the two in step, and that a cycle  *)
(* of reads that is done is complete.                                      *)
(*                                                                         *)
(* The first rests on a count of what may yet be executed: the codes still *)
(* in the line, a beheaded command that may be taken for its code, and the *)
(* command being read.  The second and the third rest on the shapes the    *)
(* line can have: in a call that nothing disturbed there is either the     *)
(* command or its answer on it, and in a sync that nothing disturbed the   *)
(* attempts left are more than the bytes the board waits for.              *)
(*                                                                         *)
(* The last part, from "Board" on, is about the object above the driver:   *)
(* m_deviceMutex of SensorBoard.cpp does what it is there for, for any set *)
(* of client threads and any number of calls and errors.                   *)
(***************************************************************************)
EXTENDS SensorProtocol, SensorBoardState, FiniteSetTheorems, SequenceTheorems, TLAPS

InCall == hpc \in {"code", "rest", "sum"}

\* The host takes an answer, or gives up waiting for it.
Answering == ReadAck \/ ReadCode \/ ReadRest \/ ReadPayload \/ ReadSum \/ NoReply

TypeInv ==
    /\ TypeOK
    /\ owed \in [Writes -> Nat]
    /\ InCall => cmd \in Commands
    /\ hpc = "sum" => cmd \in Zeroed
    /\ hollow \subseteq Zeroed \cup Unset

\* Only the first of the messages on their way to the board has lost bytes.
InPieces ==
    \A i \in 1..Len(up) : i > 1 /\ up[i][2] # 1 => up[i - 1] = <<up[i][1], up[i][2] - 1>>

\* Where the board may find the code of c: at its first byte, or in what is left of it
\* at the head, if that is more than the board is going to take for another's rest.
Begins(c, i) ==
    \/ up[i] = <<c, 1>>
    \/ i = 1 /\ up[1][1] = c /\ up[1][2] > 1 /\ Length[c] - up[1][2] >= bleft

Starts(c) == {i \in 1..Len(up) : Begins(c, i)}

\* What was asked for and not executed covers what may still be executed.
OwedInv ==
    \A c \in Writes : Cardinality(Starts(c)) + (IF bcmd = c THEN 1 ELSE 0) <= owed[c]

\* The timer is started with the command that sets the motors going.
FailsafeInv == turning \/ bcmd = SetSpeed => timer # "off" \/ slipped

\* Without an error every item up to the present place has been read.
CycleInv ==
    /\ ~reported => \A i \in 1..updateState :
                        \/ Cycle[i] \in telemetry \cup Masked \cup hollow
                        \/ InCall /\ cmd = Cycle[i]
    /\ result = "SB_UPDATEDONE" => updateState = Len(Cycle)

\* The last result goes away with the next call.
ResultInv == result # "none" => hpc = "idle"

InStep == up = <<>> /\ down = <<>> /\ bcmd = None

\* The board has taken a 0xFF for part of a command, and there are enough attempts
\* left to fill up the rest of it.
Filling == up = <<>> /\ bcmd # None /\ ~bgood /\ attempts + bleft <= MaxSyncAttempts - 2

\* How far a sync has come in which nothing is lost and nothing is late.
SyncInv ==
    clean =>
        /\ ~InCall
        /\ hpc = "listen" =>
            \/ /\ up = <<<<"SYNC", 1>>>> /\ down = <<>> /\ ~Executing
               /\ attempts + bleft <= MaxSyncAttempts - 1
            \/ Filling /\ down = <<>>
            \/ /\ up = <<>> /\ bcmd = None /\ down = <<<<"BADCHKSUM", 1>>>>
               /\ attempts <= MaxSyncAttempts - 2
            \/ up = <<>> /\ bcmd = None /\ down = <<<<"SUCCESS", 1>>>>
        /\ hpc = "hush" =>
            \/ Filling /\ down = <<>> /\ bleft > 0 /\ heard = "nothing"
            \/ InStep /\ heard = "SUCCESS"
            \/ InStep /\ heard = "BADCHKSUM" /\ attempts <= MaxSyncAttempts - 2
        /\ hpc = "idle" => InStep /\ result = "synced"

\* The command of this call is on its way, or being read.
Asked ==
    /\ down = <<>>
    /\ \A i \in 1..Len(up) : up[i][1] = cmd
    /\ bcmd = None => Len(up) <= Length[cmd]
    /\ bcmd # None => bcmd = cmd /\ Len(up) <= bleft

\* It has been answered: executed, or refused.
Replied ==
    /\ up = <<>> /\ bcmd = None
    /\ \/ done /\ Len(down) <= IF cmd \in Writes THEN 1 ELSE 3
       \/ down \in {<<<<"BADCHKSUM", 1>>>>, <<<<"FAILURE", 1>>>>}

\* The call that has ended was answered and, if it is a read, holds a value or is cut off.
Answered == done /\ (cmd \in Reads => cmd \in telemetry \/ (cutOff /\ cmd \in hollow))

\* As long as the two are in step there is nothing on the line but this call.
FreshInv ==
    ~dirty /\ ~misread =>
        /\ hpc = "idle" => /\ up = <<>> /\ bcmd = None /\ (~cutOff => down = <<>>)
                           /\ result \in {"SB_OK", "SB_UPDATEDONE"} => Answered
        /\ hpc = "code" => Asked \/ Replied
        /\ hpc = "rest" => up = <<>> /\ bcmd = None /\ done /\ Len(down) <= 2
        /\ hpc = "sum" => /\ up = <<>> /\ bcmd = None /\ done
                          /\ payload = "value" => Len(down) <= 1

IInv ==
    /\ TypeInv /\ InPieces /\ OwedInv
    /\ FailsafeInv /\ CycleInv /\ ResultInv
    /\ SyncInv /\ FreshInv

-----------------------------------------------------------------------------
(* The constants and the bytes *)

\* The facts about the constants, in the form the proofs use them.
LEMMA Lengths ==
    /\ MaxSyncAttempts \in Nat
    /\ \A c \in Commands : /\ Length[c] \in Nat
                           /\ 2 <= Length[c] /\ Length[c] <= MaxSyncAttempts - 1
    /\ 3 <= MaxSyncAttempts
    /\ Len(Cycle) \in Nat /\ Len(Cycle) > 0
    /\ \A i \in 1..Len(Cycle) : Cycle[i] \in Reads
  <1>1. MaxSyncAttempts \in Nat /\ SetSpeed \in Commands
    BY CommandsFit DEF Commands
  <1>2. ASSUME NEW c \in Commands
        PROVE  Length[c] \in Nat /\ 2 <= Length[c] /\ Length[c] <= MaxSyncAttempts - 1
    <2>1. Length[c] \in 2..(MaxSyncAttempts - 1)
      BY CommandsFit
    <2> QED BY <1>1, <2>1
  <1>3. 3 <= MaxSyncAttempts
    BY <1>1, <1>2
  <1>4. Len(Cycle) \in Nat /\ Len(Cycle) > 0
    BY CycleAssumption, EmptySeq
  <1>5. \A i \in 1..Len(Cycle) : Cycle[i] \in Reads
    BY CycleAssumption, ElementOfSeq
  <1> QED BY <1>1, <1>2, <1>3, <1>4, <1>5

\* What a command puts on the line.
LEMMA BytesOf ==
    ASSUME NEW c \in Commands
    PROVE  /\ Bytes(c) \in Seq(UpBytes)
           /\ Len(Bytes(c)) = Length[c]
           /\ \A i \in 1..Length[c] : Bytes(c)[i] = <<c, i>>
  <1>1. Length[c] \in Nat
    BY Lengths
  <1>2. \A i \in 1..Length[c] : <<c, i>> \in UpBytes
    BY DEF UpBytes
  <1> QED BY <1>1, <1>2 DEF Bytes

\* The first of some bytes, and the rest.
LEMMA FirstByte ==
    ASSUME NEW S, NEW s \in Seq(S), s # <<>>
    PROVE  /\ Len(s) \in Nat /\ Len(s) > 0
           /\ Head(s) \in S /\ Head(s) = s[1]
           /\ Tail(s) \in Seq(S)
           /\ Len(Tail(s)) = Len(s) - 1
           /\ \A i \in 1..Len(Tail(s)) : Tail(s)[i] = s[i + 1]
  OBVIOUS

\* What a byte may be read as.
LEMMA Readings ==
    /\ \A b \in UpBytes : /\ Values(b) \subseteq Commands \cup {"SYNC", "other"}
                          /\ b[1] \in Commands \cup {"SYNC"}
                          /\ b[2] \in Nat /\ b[2] >= 1 /\ b = <<b[1], b[2]>>
                          /\ b[1] = "SYNC" => b[2] = 1
    /\ \A b \in DownBytes : Says(b) \subseteq Acks \cup Reads
  <1>1. ASSUME NEW b \in UpBytes
        PROVE  /\ Values(b) \subseteq Commands \cup {"SYNC", "other"}
               /\ b[1] \in Commands \cup {"SYNC"}
               /\ b[2] \in Nat /\ b[2] >= 1 /\ b = <<b[1], b[2]>>
               /\ b[1] = "SYNC" => b[2] = 1
    <2>1. CASE b = <<"SYNC", 1>>
      BY <2>1 DEF Values
    <2>2. ASSUME NEW c \in Commands, b \in {c} \X (1..Length[c])
          PROVE  /\ Values(b) \subseteq Commands \cup {"SYNC", "other"}
                 /\ b[1] \in Commands \cup {"SYNC"}
                 /\ b[2] \in Nat /\ b[2] >= 1 /\ b = <<b[1], b[2]>>
                 /\ b[1] = "SYNC" => b[2] = 1
      <3>1. Length[c] \in Nat /\ c # "SYNC"
        BY Lengths, CodesDiffer
      <3>2. b[1] = c /\ b[2] \in 1..Length[c] /\ b = <<b[1], b[2]>>
        BY <2>2
      <3> QED BY <3>1, <3>2 DEF Values
    <2> QED BY <2>1, <2>2 DEF UpBytes
  <1>2. ASSUME NEW b \in DownBytes PROVE Says(b) \subseteq Acks \cup Reads
    BY <1>2 DEF DownBytes, Says
  <1> QED BY <1>1, <1>2

-----------------------------------------------------------------------------
(* Types *)

\* Initially nothing is under way.
LEMMA InitTypes == Init => TypeInv
  <1> SUFFICES ASSUME Init PROVE TypeInv
    OBVIOUS
  <1>1. up \in Seq(UpBytes) /\ down \in Seq(DownBytes)
    BY DEF Init
  <1>2. updateState \in 0..Len(Cycle) /\ attempts \in 0..MaxSyncAttempts
    BY Lengths DEF Init
  <1>3. exchanges \in 0..MaxExchanges /\ losses \in 0..MaxLosses
    BY BoundsAssumption DEF Init
  <1>4. owed \in [Writes -> Nat]
    BY DEF Init
  <1> QED BY <1>1, <1>2, <1>3, <1>4 DEF Init, TypeInv, TypeOK, InCall

\* A call begins.
LEMMA SendTypes ==
    ASSUME TypeInv, NEW c \in Commands, Send(c),
           updateState' \in 0..Len(Cycle), telemetry' \subseteq Reads, hollow' \subseteq hollow,
           reported' \in BOOLEAN, owed' \in [Writes -> Nat]
    PROVE  TypeInv'
  <1> USE DEF TypeInv
  <1>1. up' \in Seq(UpBytes) /\ down' \in Seq(DownBytes)
    BY BytesOf, ConcatProperties DEF Send, TypeOK
  <1>2. exchanges' \in 0..MaxExchanges
    BY BoundsAssumption DEF Send, TypeOK
  <1>3. (cmd' \in Commands \cup {None}) /\ hpc' = "code" /\ result' = "none" /\ cmd' = c
    BY DEF Send
  <1>4. /\ attempts' \in 0..MaxSyncAttempts /\ heard' \in Acks \cup Reads \cup {"nothing"}
        /\ losses' \in 0..MaxLosses
    BY DEF Send, TypeOK
  <1>5. /\ bcmd' \in Commands \cup {None}
        /\ bleft' \in Nat /\ (bcmd' # None => bleft' < Length[bcmd']) /\ (bcmd' = None => bleft' = 0)
        /\ timer' \in {"off", "running", "tripped"}
        /\ {bgood', turning', done', cutOff', dirty', misread', clean', slipped'} \subseteq BOOLEAN
        /\ payload' = "zeros"
    BY DEF Send, TypeOK, board, motor
  <1> QED BY <1>1, <1>2, <1>3, <1>4, <1>5 DEF TypeOK, InCall

\* A partial read sends one of the reads of the cycle.
LEMMA PartialSends ==
    ASSUME TypeInv, PartialRead
    PROVE  updateState' \in 1..Len(Cycle) /\ Send(Cycle[updateState'])
  <1> DEFINE next == IF updateState = Len(Cycle) THEN 1 ELSE updateState + 1
  <1>1. updateState \in 0..Len(Cycle)
    BY DEF TypeInv, TypeOK
  <1>2. next \in 1..Len(Cycle)
    BY <1>1, Lengths
  <1>3. Send(Cycle[next]) /\ updateState' = next
    BY DEF PartialRead
  <1> QED BY <1>2, <1>3

\* A call ends.
LEMMA FinishTypes ==
    ASSUME TypeInv, NEW ok \in BOOLEAN, NEW came, Finish(ok, came),
           ok /\ came = "code" => cmd \in Zeroed \cup Unset
    PROVE  /\ hpc' = "idle" /\ {dirty', cutOff', reported'} \subseteq BOOLEAN
           /\ result' \in {"SB_OK", "SB_UPDATEDONE", "SB_ERROR"}
           /\ telemetry' \subseteq Reads /\ hollow' \subseteq Reads /\ hollow' \subseteq Zeroed \cup Unset
  BY CycleAssumption DEF TypeInv, TypeOK, Finish

\* A step in which the host takes an answer ends the call, or reads on.
LEMMA Outcome ==
    ASSUME TypeInv, Answering
    PROVE  /\ InCall /\ Elsewhere
           /\ \/ \E ok \in BOOLEAN, came \in {"all", "value", "code"} :
                    /\ Finish(ok, came)
                    /\ ok /\ came = "code" => cmd \in Zeroed \cup Unset
              \/ /\ hpc' \in {"rest", "sum"} /\ (hpc' = "sum" => cmd \in Zeroed)
                 /\ UNCHANGED <<telemetry, hollow, result, cutOff, dirty, reported>>
  <1>1. InCall /\ Elsewhere
    BY DEF Answering, ReadAck, ReadCode, ReadRest, ReadPayload, ReadSum, NoReply, InCall
  <1>2. CASE ReadAck
    BY <1>1, <1>2 DEF ReadAck
  <1>3. CASE ReadCode
    BY <1>1, <1>3 DEF ReadCode
  <1>4. CASE ReadRest
    BY <1>1, <1>4 DEF ReadRest
  <1>5. CASE ReadPayload
    BY <1>1, <1>5 DEF ReadPayload
  <1>6. CASE ReadSum
    <2>1. cmd \in Zeroed
      BY <1>6 DEF ReadSum, TypeInv
    <2> QED BY <1>1, <1>6, <2>1 DEF ReadSum
  <1>7. CASE NoReply
    BY <1>1, <1>7 DEF NoReply
  <1> QED BY <1>2, <1>3, <1>4, <1>5, <1>6, <1>7 DEF Answering

\* The host takes a byte, or gives up waiting for one.
LEMMA HostTypes ==
    ASSUME TypeInv, Answering
    PROVE  TypeInv'
  <1> USE DEF TypeInv
  <1>1. down' \in Seq(DownBytes)
    <2>1. \/ down' \in {down, Tail(down)}
          \/ \E k \in 1..2 : k <= Len(down) /\ down' = SubSeq(down, k + 1, Len(down))
      BY DEF Answering, ReadAck, ReadCode, ReadRest, ReadPayload, ReadSum, NoReply
    <2>2. down' = Tail(down) => down # <<>> \/ down' = down
      BY DEF Answering, ReadAck, ReadCode, ReadRest, ReadPayload, ReadSum, NoReply
    <2>3. ASSUME NEW k \in 1..2, k <= Len(down), down' = SubSeq(down, k + 1, Len(down))
          PROVE  down' \in Seq(DownBytes)
      BY <2>3, SubSeqProperties DEF TypeOK
    <2> QED BY <2>1, <2>2, <2>3, FirstByte DEF TypeOK
  <1>2. /\ hpc' \in {"idle", "rest", "sum"} /\ {dirty', cutOff', reported'} \subseteq BOOLEAN
        /\ result' \in {"none", "SB_OK", "SB_UPDATEDONE", "SB_ERROR", "synced", "unsynced"}
        /\ telemetry' \subseteq Reads /\ hollow' \subseteq Reads /\ hollow' \subseteq Zeroed \cup Unset
        /\ hpc' = "sum" => cmd \in Zeroed
    BY Outcome, FinishTypes DEF TypeOK
  <1>3. payload' \in {"zeros", "value", "mixed"}
    BY DEF Answering, ReadAck, ReadCode, ReadRest, ReadPayload, ReadSum, NoReply, TypeOK
  <1>4. /\ UNCHANGED <<up, cmd, attempts, heard, updateState, exchanges, board, motor, owed, done, misread,
                       clean, losses>>
        /\ InCall
    BY Outcome DEF Elsewhere
  <1> QED BY <1>1, <1>2, <1>3, <1>4 DEF TypeOK, InCall, board, motor

\* syncBoard, byte by byte.
LEMMA SyncTypes ==
    ASSUME TypeInv, Sync \/ Listen \/ Hush
    PROVE  TypeInv'
  <1> USE DEF TypeInv
  <1>1. <<"SYNC", 1>> \in UpBytes
    BY DEF UpBytes
  <1>2. CASE Sync
    <2>1. up' \in Seq(UpBytes) /\ down' \in Seq(DownBytes)
      BY <1>1, <1>2, AppendProperties DEF Sync, TypeOK
    <2>2. exchanges' \in 0..MaxExchanges /\ attempts' \in 0..MaxSyncAttempts
      BY <1>2, BoundsAssumption, Lengths DEF Sync, TypeOK
    <2>3. hpc' = "listen" /\ result' = "none" /\ clean' \in BOOLEAN
      BY <1>2 DEF Sync, Quiet, Executing
    <2>4. UNCHANGED <<cmd, heard, updateState, payload, telemetry, hollow, board, motor, owed, done, cutOff,
                      dirty, misread, reported, losses>>
      BY <1>2 DEF Sync
    <2> QED BY <2>1, <2>2, <2>3, <2>4 DEF TypeOK, InCall, board, motor
  <1>3. CASE Listen
    <2>1. down' \in Seq(DownBytes) /\ heard' \in Acks \cup Reads \cup {"nothing"}
      <3>1. CASE down = <<>>
        BY <1>3, <3>1 DEF Listen, TypeOK
      <3>2. CASE down # <<>>
        <4>1. Head(down) \in DownBytes /\ Tail(down) \in Seq(DownBytes)
          BY <3>2, FirstByte DEF TypeOK
        <4>2. heard' \in Says(Head(down)) /\ down' = Tail(down)
          BY <1>3, <3>2 DEF Listen
        <4> QED BY <4>1, <4>2, Readings
      <3> QED BY <3>1, <3>2
    <2>2. hpc' = "hush" /\ clean' \in BOOLEAN
      BY <1>3 DEF Listen, Quiet, Executing, TypeOK
    <2>3. UNCHANGED <<up, cmd, attempts, updateState, payload, telemetry, hollow, result, exchanges, board,
                      motor, owed, done, cutOff, dirty, misread, reported, losses>>
      BY <1>3 DEF Listen
    <2> QED BY <2>1, <2>2, <2>3 DEF TypeOK, InCall, board, motor
  <1>4. CASE Hush
    <2>1. clean' \in BOOLEAN
      BY <1>4 DEF Hush, HushUpTo, Quiet, Executing, TypeOK
    <2>2. \/ Synced(TRUE, clean') \/ Synced(FALSE, clean')
          \/ /\ up' = Append(up, <<"SYNC", 1>>) /\ attempts < MaxSyncAttempts /\ attempts' = attempts + 1
             /\ hpc' = "listen" /\ UNCHANGED <<heard, result, cutOff, dirty, misread>>
      BY <1>4 DEF Hush, HushUpTo
    <2>3. /\ up' \in Seq(UpBytes) /\ attempts' \in 0..MaxSyncAttempts
          /\ heard' \in Acks \cup Reads \cup {"nothing"} /\ hpc' \in {"idle", "listen"}
          /\ result' \in {"none", "SB_OK", "SB_UPDATEDONE", "SB_ERROR", "synced", "unsynced"}
          /\ {cutOff', dirty', misread'} \subseteq BOOLEAN
      <3>1. CASE Synced(TRUE, clean') \/ Synced(FALSE, clean')
        <4>1. /\ hpc' = "idle" /\ result' \in {"synced", "unsynced"}
              /\ attempts' = 0 /\ heard' = "nothing" /\ up' = up /\ cutOff' = FALSE
          BY <3>1 DEF Synced
        <4>2. dirty' \in BOOLEAN
          BY <3>1 DEF Synced
        <4>3. misread' \in BOOLEAN
          BY <3>1 DEF Synced
        <4>4. {cutOff', dirty', misread'} \subseteq BOOLEAN
          BY <4>1, <4>2, <4>3
        <4>5. up' \in Seq(UpBytes) /\ 0 \in 0..MaxSyncAttempts
          BY <4>1, Lengths DEF TypeOK
        <4> QED BY <4>1, <4>4, <4>5
      <3>2. CASE /\ up' = Append(up, <<"SYNC", 1>>) /\ attempts < MaxSyncAttempts
                 /\ attempts' = attempts + 1
                 /\ hpc' = "listen" /\ UNCHANGED <<heard, result, cutOff, dirty, misread>>
        BY <1>1, <3>2, Lengths, AppendProperties DEF TypeOK
      <3> QED BY <2>2, <3>1, <3>2
    <2>4. UNCHANGED <<down, cmd, updateState, payload, telemetry, hollow, exchanges, board, motor, owed, done,
                      reported, losses>>
      BY <1>4 DEF Hush, HushUpTo
    <2> QED BY <2>1, <2>3, <2>4 DEF TypeOK, InCall, board, motor
  <1> QED BY <1>2, <1>3, <1>4

\* The board takes a byte.
LEMMA TakeTypes ==
    ASSUME TypeInv, TakeCode \/ TakeRest
    PROVE  TypeInv'
  <1> USE DEF TypeInv
  <1>1. up # <<>> /\ up' = Tail(up) /\ up' \in Seq(UpBytes) /\ Head(up) \in UpBytes
    BY FirstByte DEF TakeCode, TakeCodeArming, TakeRest, TypeOK
  <1>2. CASE TakeCode
    <2>1. PICK v \in Values(Head(up)) :
            /\ misread' = (misread \/ v # Head(up)[1])
            /\ IF v \in Commands
               THEN bcmd' = v /\ bleft' = Length[v] - 1 /\ bgood' = TRUE
               ELSE UNCHANGED board
            /\ IF v \in {SetSpeed} THEN ArmFailsafe ELSE UNCHANGED motor
            /\ owed' = [c \in Writes |-> owed[c] + IF v = c /\ v # Head(up)[1] THEN 1 ELSE 0]
            /\ down' = IF v = "SYNC" THEN Append(down, <<"SUCCESS", 1>>) ELSE down
      BY <1>2 DEF TakeCode, TakeCodeArming
    <2>2. misread' \in BOOLEAN /\ owed' \in [Writes -> Nat]
      BY <2>1 DEF TypeOK
    <2>3. /\ bcmd' \in Commands \cup {None} /\ bgood' \in BOOLEAN
          /\ bleft' \in Nat /\ (bcmd' # None => bleft' < Length[bcmd']) /\ (bcmd' = None => bleft' = 0)
      <3>1. CASE v \in Commands
        BY <2>1, <3>1, Lengths, CodesDiffer
      <3>2. CASE v \notin Commands
        BY <2>1, <3>2 DEF TypeOK, board
      <3> QED BY <3>1, <3>2
    <2>4. timer' \in {"off", "running", "tripped"} /\ {turning', slipped'} \subseteq BOOLEAN
      BY <2>1 DEF ArmFailsafe, motor, TypeOK
    <2>5. down' \in Seq(DownBytes)
      <3>1. <<"SUCCESS", 1>> \in DownBytes
        BY DEF DownBytes, Acks
      <3> QED BY <2>1, <3>1, AppendProperties DEF TypeOK
    <2>6. UNCHANGED <<host, done, cutOff, dirty, clean, reported, losses>>
      BY <1>2 DEF TakeCode, TakeCodeArming
    <2> QED BY <1>1, <2>2, <2>3, <2>4, <2>5, <2>6 DEF TypeOK, InCall, host
  <1>3. CASE TakeRest
    <2>1. bleft > 0 /\ bleft' = bleft - 1 /\ bgood' \in BOOLEAN
      BY <1>3 DEF TakeRest, TypeOK
    <2>2. UNCHANGED <<down, host, bcmd, motor, history, losses>>
      BY <1>3 DEF TakeRest
    <2>3. bleft' \in Nat /\ (bcmd # None => bleft' < Length[bcmd]) /\ (bcmd = None => bleft' = 0)
      BY <2>1, Lengths DEF TypeOK
    <2> QED BY <1>1, <2>1, <2>2, <2>3 DEF TypeOK, InCall, host, motor, history
  <1> QED BY <1>2, <1>3

\* The board answers.
LEMMA ReplyTypes ==
    ASSUME TypeInv, NEW bytes \in Seq(DownBytes), Executing, Reply(bytes)
    PROVE  /\ down' \in Seq(DownBytes) /\ bcmd' = None /\ bgood' = TRUE
           /\ up' = up /\ bleft' = 0
  BY ConcatProperties DEF TypeInv, TypeOK, Reply, Executing

\* It answers a command that it does not execute.
LEMMA RefuseTypes ==
    ASSUME TypeInv, BadChecksum \/ BusFailure
    PROVE  TypeInv'
  <1> USE DEF TypeInv
  <1>1. <<<<"BADCHKSUM", 1>>>> \in Seq(DownBytes) /\ <<<<"FAILURE", 1>>>> \in Seq(DownBytes)
    BY DEF DownBytes, Acks
  <1>2. /\ down' \in Seq(DownBytes) /\ bcmd' = None /\ bgood' = TRUE
        /\ up' = up /\ bleft' = 0
    BY <1>1, ReplyTypes DEF BadChecksum, BusFailure
  <1>3. turning' \in BOOLEAN
    BY DEF BadChecksum, BusFailure, motor, TypeOK
  <1>4. UNCHANGED <<host, timer, slipped, history, losses>>
    BY DEF BadChecksum, BusFailure, motor
  <1> QED BY <1>2, <1>3, <1>4 DEF TypeOK, InCall, host, history

\* It executes a command.  What is owed is known to be positive then.
LEMMA ExecuteTypes ==
    ASSUME TypeInv, ReplyData \/ Execute, owed' \in [Writes -> Nat]
    PROVE  TypeInv'
  <1> USE DEF TypeInv
  <1>1. PICK bytes \in Seq(DownBytes) : Executing /\ Reply(bytes)
    <2>1. CASE ReplyData
      <3>1. \A i \in 1..3 : <<bcmd, i>> \in DownBytes
        BY <2>1 DEF ReplyData, DownBytes
      <3>2. [i \in 1..3 |-> <<bcmd, i>>] \in Seq(DownBytes)
        BY <3>1
      <3> QED BY <2>1, <3>2 DEF ReplyData
    <2>2. CASE Execute
      <3>1. <<<<"SUCCESS", 1>>>> \in Seq(DownBytes)
        BY DEF DownBytes, Acks
      <3> QED BY <2>2, <3>1 DEF Execute
    <2> QED BY <2>1, <2>2
  <1>2. /\ down' \in Seq(DownBytes) /\ bcmd' = None /\ bgood' = TRUE
        /\ up' = up /\ bleft' = 0
    BY <1>1, ReplyTypes
  <1>3. turning' \in BOOLEAN /\ done' \in BOOLEAN
    BY DEF ReplyData, Execute, Answers, motor, TypeOK
  <1>4. UNCHANGED <<host, timer, slipped, cutOff, dirty, misread, clean, reported, losses>>
    BY DEF ReplyData, Execute, motor
  <1> QED BY <1>2, <1>3, <1>4 DEF TypeOK, InCall, host

\* The failsafe, and a loss.
LEMMA OtherTypes ==
    ASSUME TypeInv, T1Interrupt \/ CheckFailsafe \/ Lose
    PROVE  TypeInv'
  <1> USE DEF TypeInv
  <1>1. CASE T1Interrupt
    BY <1>1 DEF T1Interrupt, TypeOK, InCall, line, host, board, history
  <1>2. CASE CheckFailsafe
    <2>1. timer' = "off" /\ {turning', slipped'} \subseteq BOOLEAN
      BY <1>2 DEF CheckFailsafe, TypeOK
    <2>2. UNCHANGED <<line, host, board, history, losses>>
      BY <1>2 DEF CheckFailsafe
    <2> QED BY <2>1, <2>2 DEF TypeOK, InCall, line, host, board, history
  <1>3. CASE Lose
    <2>1. up' \in Seq(UpBytes) /\ down' \in Seq(DownBytes)
      BY <1>3, FirstByte DEF Lose, TypeOK
    <2>2. losses' \in 0..MaxLosses /\ clean' \in BOOLEAN
      <3>1. losses < MaxLosses /\ losses' = losses + 1 /\ clean' = FALSE
        BY <1>3 DEF Lose
      <3>2. losses \in 0..MaxLosses
        BY DEF TypeOK
      <3>3. losses' \in 0..MaxLosses
        BY <3>1, <3>2, BoundsAssumption
      <3> QED BY <3>1, <3>3
    <2>3. UNCHANGED <<host, board, motor, owed, done, cutOff, dirty, misread, reported>>
      BY <1>3 DEF Lose
    <2> QED BY <2>1, <2>2, <2>3 DEF TypeOK, InCall, host, board, motor
  <1> QED BY <1>1, <1>2, <1>3

-----------------------------------------------------------------------------
(* What is owed *)

\* The beginnings are some of the places under way.
LEMMA StartsFinite ==
    ASSUME TypeInv, NEW c
    PROVE  IsFiniteSet(Starts(c)) /\ Cardinality(Starts(c)) \in Nat
  <1>1. Len(up) \in Nat
    BY DEF TypeInv, TypeOK
  <1>2. IsFiniteSet(1..Len(up)) /\ Starts(c) \subseteq 1..Len(up)
    BY <1>1, FS_Interval DEF Starts
  <1> QED BY <1>2, FS_Subset, FS_CardinalityType

\* What a byte under way can be.
LEMMA ByteAt ==
    ASSUME TypeInv, NEW i \in 1..Len(up)
    PROVE  /\ up[i] \in UpBytes /\ up[i][2] \in Nat /\ up[i][2] >= 1
           /\ up[i] = <<up[i][1], up[i][2]>>
           /\ up[i][1] \in Commands => up[i][2] <= Length[up[i][1]]
  <1>1. up[i] \in UpBytes
    BY ElementOfSeq DEF TypeInv, TypeOK
  <1>2. ASSUME up[i][1] \in Commands PROVE up[i][2] <= Length[up[i][1]]
    <2>1. up[i] # <<"SYNC", 1>>
      BY <1>2, CodesDiffer
    <2>2. PICK c \in Commands : up[i] \in {c} \X (1..Length[c])
      BY <1>1, <2>1 DEF UpBytes
    <2> QED BY <2>2, Lengths
  <1> QED BY <1>1, <1>2, Readings

\* Whatever becomes of the first byte, there are no more beginnings than before.
LEMMA StartsShrink ==
    ASSUME TypeInv, InPieces, NEW c \in Writes, up # <<>>, up' = Tail(up),
           bleft' \in Nat, bleft' >= bleft - 1
    PROVE  IsFiniteSet(Starts(c)') /\ Cardinality(Starts(c)') <= Cardinality(Starts(c))
  <1>1. /\ Len(up) \in Nat /\ Len(up) > 0 /\ Len(up') = Len(up) - 1
        /\ \A i \in 1..Len(up') : up'[i] = up[i + 1]
    BY FirstByte DEF TypeInv, TypeOK
  <1>2. ASSUME NEW i \in Starts(c)'
        PROVE  i \in Nat /\ i >= 1 /\ (i + 1 \in Starts(c) \/ (i = 1 /\ 1 \in Starts(c)))
    <2>1. i \in 1..Len(up') /\ Begins(c, i)'
      BY <1>2 DEF Starts
    <2>2. i \in Nat /\ i >= 1 /\ i + 1 \in 1..Len(up) /\ 1 \in 1..Len(up) /\ up'[i] = up[i + 1]
      BY <1>1, <2>1
    <2>3. CASE up'[i] = <<c, 1>>
      BY <2>2, <2>3 DEF Starts, Begins
    <2>4. CASE up'[i] # <<c, 1>>
      <3>1. i = 1 /\ up[2][1] = c /\ up[2][2] > 1 /\ Length[c] - up[2][2] >= bleft'
        BY <2>1, <2>2, <2>4 DEF Begins
      <3>2. 2 \in 1..Len(up) /\ up[2][2] \in Nat /\ Length[c] \in Nat /\ bleft \in Nat
        BY <2>2, <3>1, ByteAt, Lengths DEF Commands, TypeInv, TypeOK
      <3>3. up[1] = <<c, up[2][2] - 1>>
        BY <3>1, <3>2 DEF InPieces
      <3>4. up[1][1] = c /\ up[1][2] = up[2][2] - 1
        BY <3>3
      <3>5. CASE up[2][2] = 2
        BY <2>2, <3>1, <3>3, <3>5 DEF Starts, Begins
      <3>6. CASE up[2][2] # 2
        <4>1. up[1][2] > 1 /\ Length[c] - up[1][2] >= bleft
          BY <3>1, <3>2, <3>4, <3>6
        <4> QED BY <2>2, <3>1, <3>4, <4>1 DEF Starts, Begins
      <3> QED BY <3>5, <3>6
    <2> QED BY <2>3, <2>4
  <1> DEFINE f == [i \in Starts(c)' |-> IF i + 1 \in Starts(c) THEN i + 1 ELSE 1]
  <1>3. f \in Injection(Starts(c)', Starts(c))
    <2>1. f \in [Starts(c)' -> Starts(c)]
      BY <1>2
    <2>2. ASSUME NEW i \in Starts(c)', NEW j \in Starts(c)', f[i] = f[j] PROVE i = j
      BY <1>2, <2>2
    <2> HIDE DEF f
    <2> QED BY <2>1, <2>2 DEF Injection, IsInjective
  <1> QED BY <1>3, StartsFinite, FS_Injection DEF ExistsInjection

\* When the first byte is taken for the code of its command there are fewer.
LEMMA StartsTaken ==
    ASSUME TypeInv, InPieces, NEW c \in Writes, up # <<>>, up' = Tail(up), 1 \in Starts(c),
           up[1][1] = c, bleft' = Length[c] - 1
    PROVE  IsFiniteSet(Starts(c)') /\ Cardinality(Starts(c)') + 1 <= Cardinality(Starts(c))
  <1>1. /\ Len(up) \in Nat /\ Len(up) > 0 /\ Len(up') = Len(up) - 1
        /\ \A i \in 1..Len(up') : up'[i] = up[i + 1]
    BY FirstByte DEF TypeInv, TypeOK
  <1>2. ASSUME NEW i \in Starts(c)'
        PROVE  i \in Nat /\ i >= 1 /\ i + 1 \in Starts(c) \ {1}
    <2>1. i \in 1..Len(up') /\ Begins(c, i)'
      BY <1>2 DEF Starts
    <2>2. i \in Nat /\ i >= 1 /\ i + 1 \in 1..Len(up) /\ up'[i] = up[i + 1] /\ i + 1 # 1
      BY <1>1, <2>1
    <2>3. up'[i] = <<c, 1>>
      <3>1. SUFFICES ASSUME up'[i] # <<c, 1>> PROVE FALSE
        OBVIOUS
      <3>2. i = 1 /\ up[2][2] > 1 /\ Length[c] - up[2][2] >= Length[c] - 1
        BY <2>1, <2>2, <3>1 DEF Begins
      <3>3. 2 \in 1..Len(up) /\ up[2][2] \in Nat /\ Length[c] \in Nat
        BY <2>2, <3>2, ByteAt, Lengths DEF Commands
      <3> QED BY <3>2, <3>3
    <2> QED BY <2>2, <2>3 DEF Starts, Begins
  <1> DEFINE f == [i \in Starts(c)' |-> i + 1]
  <1>3. f \in Injection(Starts(c)', Starts(c) \ {1})
    <2>1. f \in [Starts(c)' -> Starts(c) \ {1}]
      BY <1>2
    <2>2. ASSUME NEW i \in Starts(c)', NEW j \in Starts(c)', f[i] = f[j] PROVE i = j
      BY <1>2, <2>2
    <2> HIDE DEF f
    <2> QED BY <2>1, <2>2 DEF Injection, IsInjective
  <1>4. /\ IsFiniteSet(Starts(c) \ {1}) /\ Cardinality(Starts(c)) \in Nat
        /\ Cardinality(Starts(c) \ {1}) = Cardinality(Starts(c)) - 1
    BY StartsFinite, FS_RemoveElement
  <1>5. IsFiniteSet(Starts(c)') /\ Cardinality(Starts(c)') <= Cardinality(Starts(c) \ {1})
    BY <1>3, <1>4, FS_Injection DEF ExistsInjection
  <1>6. Cardinality(Starts(c)') \in Nat
    BY <1>5, FS_CardinalityType
  <1> QED BY <1>4, <1>5, <1>6

\* Where the bytes of a command are that has been sent.
LEMMA SentBytes ==
    ASSUME TypeInv, NEW d \in Commands, up' = up \o Bytes(d)
    PROVE  /\ Len(up) \in Nat /\ Length[d] \in Nat /\ Len(up') = Len(up) + Length[d]
           /\ \A i \in 1..Len(up) : up'[i] = up[i]
           /\ \A i \in 1..Length[d] : up'[Len(up) + i] = <<d, i>>
  <1>1. up \in Seq(UpBytes) /\ Bytes(d) \in Seq(UpBytes) /\ Len(Bytes(d)) = Length[d]
    BY BytesOf DEF TypeInv, TypeOK
  <1>2. Length[d] \in Nat
    BY Lengths
  <1>3. /\ Len(up') = Len(up) + Length[d]
        /\ \A j \in 1..(Len(up) + Length[d]) :
              up'[j] = IF j <= Len(up) THEN up[j] ELSE Bytes(d)[j - Len(up)]
    BY <1>1, ConcatProperties
  <1>4. Len(up) \in Nat
    BY <1>1
  <1>5. \A i \in 1..Len(up) : up'[i] = up[i]
    BY <1>2, <1>3, <1>4
  <1>6. ASSUME NEW i \in 1..Length[d] PROVE up'[Len(up) + i] = <<d, i>>
    <2>1. Len(up) + i \in 1..(Len(up) + Length[d]) /\ ~(Len(up) + i <= Len(up)) /\ Len(up) + i - Len(up) = i
      BY <1>2, <1>4
    <2>2. up'[Len(up) + i] = Bytes(d)[i]
      BY <1>3, <2>1
    <2> QED BY <2>2, BytesOf
  <1> QED BY <1>2, <1>3, <1>4, <1>5, <1>6

\* A command that is sent begins once.
LEMMA StartsSent ==
    ASSUME TypeInv, NEW c \in Writes, NEW d \in Commands, up' = up \o Bytes(d), bleft' = bleft
    PROVE  /\ IsFiniteSet(Starts(c)')
           /\ Cardinality(Starts(c)') <= Cardinality(Starts(c)) + (IF c = d THEN 1 ELSE 0)
  <1>1. /\ Len(up) \in Nat /\ Length[d] \in Nat /\ Len(up') = Len(up) + Length[d]
        /\ \A i \in 1..Len(up) : up'[i] = up[i]
        /\ \A i \in 1..Length[d] : up'[Len(up) + i] = <<d, i>>
    BY SentBytes
  <1>2. ASSUME NEW i \in Starts(c)'
        PROVE  i \in Starts(c) \/ (c = d /\ i = Len(up) + 1)
    <2>1. i \in 1..Len(up') /\ Begins(c, i)'
      BY <1>2 DEF Starts
    <2>2. CASE i <= Len(up)
      <3>1. i \in 1..Len(up) /\ up'[i] = up[i]
        BY <1>1, <2>1, <2>2
      <3> QED BY <2>1, <3>1 DEF Starts, Begins
    <2>3. CASE i > Len(up)
      <3> DEFINE j == i - Len(up)
      <3>0. j \in 1..Length[d] /\ i = Len(up) + j
        BY <1>1, <2>1, <2>3
      <3> HIDE DEF j
      <3>1. j \in Nat /\ j >= 1 /\ i = Len(up) + j /\ up'[i] = <<d, j>>
        BY <1>1, <3>0
      <3>2. CASE i = 1
        BY <1>1, <2>1, <3>1, <3>2 DEF Begins
      <3>3. CASE i # 1
        BY <2>1, <3>1, <3>3 DEF Begins
      <3> QED BY <3>2, <3>3
    <2> QED BY <1>1, <2>1, <2>2, <2>3
  <1>3. CASE c # d
    <2>1. Starts(c)' \subseteq Starts(c)
      BY <1>2, <1>3
    <2>2. Cardinality(Starts(c)) \in Nat
      BY StartsFinite
    <2> QED BY <1>3, <2>1, <2>2, StartsFinite, FS_Subset
  <1>4. CASE c = d
    <2>1. Starts(c)' \subseteq Starts(c) \cup {Len(up) + 1}
      BY <1>2
    <2>2. Len(up) + 1 \notin Starts(c)
      BY <1>1 DEF Starts
    <2>3. /\ IsFiniteSet(Starts(c) \cup {Len(up) + 1})
          /\ Cardinality(Starts(c) \cup {Len(up) + 1}) = Cardinality(Starts(c)) + 1
      BY <2>2, StartsFinite, FS_AddElement
    <2> QED BY <1>4, <2>1, <2>3, FS_Subset
  <1> QED BY <1>3, <1>4

\* A 0xFF begins nothing.
LEMMA StartsSynced ==
    ASSUME TypeInv, NEW c \in Writes, up' = Append(up, <<"SYNC", 1>>), bleft' = bleft
    PROVE  Starts(c)' \subseteq Starts(c)
  <1>1. /\ Len(up) \in Nat /\ Len(up') = Len(up) + 1 /\ up'[Len(up) + 1] = <<"SYNC", 1>>
        /\ \A i \in 1..Len(up) : up'[i] = up[i]
    <2>1. up \in Seq(UpBytes) /\ <<"SYNC", 1>> \in UpBytes
      BY DEF TypeInv, TypeOK, UpBytes
    <2> QED BY <2>1, AppendProperties
  <1>2. ASSUME NEW i \in Starts(c)' PROVE i \in Starts(c)
    <2>1. i \in 1..Len(up') /\ Begins(c, i)'
      BY <1>2 DEF Starts
    <2>2. CASE i = Len(up) + 1
      <3>1. up'[i] = <<"SYNC", 1>> /\ up'[i][2] = 1
        BY <1>1, <2>2
      <3> QED BY <2>1, <3>1, CodesDiffer DEF Begins, Commands
    <2>3. CASE i # Len(up) + 1
      <3>1. i \in 1..Len(up) /\ up'[i] = up[i]
        BY <1>1, <2>1, <2>3
      <3> QED BY <2>1, <3>1 DEF Starts, Begins
    <2> QED BY <2>2, <2>3
  <1> QED BY <1>2

\* Nothing moves on the way to the board.
LEMMA StartsStay ==
    ASSUME NEW c, up' = up, bleft' = bleft
    PROVE  Starts(c)' = Starts(c)
  BY DEF Starts, Begins

\* A sum of what is under way and what the board has in hand.
LEMMA OwedStays ==
    ASSUME TypeInv, OwedInv, owed' = owed,
           \A c \in Writes : /\ IsFiniteSet(Starts(c)')
                             /\ Cardinality(Starts(c)') <= Cardinality(Starts(c))
                             /\ bcmd' = c => bcmd = c
    PROVE  OwedInv'
  <1> SUFFICES ASSUME NEW c \in Writes
               PROVE  Cardinality(Starts(c)') + (IF bcmd' = c THEN 1 ELSE 0) <= owed'[c]
    BY DEF OwedInv
  <1>1. Cardinality(Starts(c)') \in Nat /\ Cardinality(Starts(c)) \in Nat /\ owed[c] \in Nat
    BY StartsFinite, FS_CardinalityType DEF TypeInv
  <1>2. Cardinality(Starts(c)) + (IF bcmd = c THEN 1 ELSE 0) <= owed[c]
    BY DEF OwedInv
  <1> QED BY <1>1, <1>2

\* The host's steps other than a call.
LEMMA OwedHost ==
    ASSUME TypeInv, OwedInv,
           Sync \/ Answering \/ Listen \/ Hush
    PROVE  OwedInv'
  <1>1. owed' = owed /\ bcmd' = bcmd /\ bleft' = bleft
    BY Outcome DEF Sync, Elsewhere, Listen, Hush, HushUpTo, board
  <1>2. up' = up \/ up' = Append(up, <<"SYNC", 1>>)
    BY Outcome DEF Sync, Elsewhere, Listen, Hush, HushUpTo, Synced
  <1>3. ASSUME NEW c \in Writes
        PROVE  IsFiniteSet(Starts(c)') /\ Cardinality(Starts(c)') <= Cardinality(Starts(c))
    <2>1. Starts(c)' \subseteq Starts(c)
      BY <1>1, <1>2, StartsStay, StartsSynced
    <2> QED BY <2>1, StartsFinite, FS_Subset
  <1> QED BY <1>1, <1>3, OwedStays

\* A call.
LEMMA OwedSend ==
    ASSUME TypeInv, OwedInv, NEW d \in Commands, Send(d),
           owed' \in [Writes -> Nat],
           \A c \in Writes : owed'[c] = owed[c] + IF c = d THEN 1 ELSE 0
    PROVE  OwedInv'
  <1> SUFFICES ASSUME NEW c \in Writes
               PROVE  Cardinality(Starts(c)') + (IF bcmd' = c THEN 1 ELSE 0) <= owed'[c]
    BY DEF OwedInv
  <1>1. up' = up \o Bytes(d) /\ bcmd' = bcmd /\ bleft' = bleft
    BY DEF Send, board
  <1>2. /\ IsFiniteSet(Starts(c)')
        /\ Cardinality(Starts(c)') <= Cardinality(Starts(c)) + (IF c = d THEN 1 ELSE 0)
    BY <1>1, StartsSent
  <1>3. Cardinality(Starts(c)') \in Nat /\ Cardinality(Starts(c)) \in Nat /\ owed[c] \in Nat
    BY <1>2, StartsFinite, FS_CardinalityType DEF TypeInv
  <1>4. Cardinality(Starts(c)) + (IF bcmd = c THEN 1 ELSE 0) <= owed[c]
    BY DEF OwedInv
  <1>5. owed'[c] = owed[c] + IF c = d THEN 1 ELSE 0
    OBVIOUS
  <1> QED BY <1>1, <1>2, <1>3, <1>4, <1>5

\* The board looks at a byte as the code of a command.
LEMMA OwedTakeCode ==
    ASSUME TypeInv, InPieces, OwedInv, TakeCode
    PROVE  OwedInv'
  <1> SUFFICES ASSUME NEW c \in Writes
               PROVE  Cardinality(Starts(c)') + (IF bcmd' = c THEN 1 ELSE 0) <= owed'[c]
    BY DEF OwedInv
  <1>1. /\ bcmd = None /\ bleft = 0 /\ up # <<>> /\ up' = Tail(up)
        /\ up \in Seq(UpBytes) /\ Head(up) \in UpBytes /\ Head(up) = up[1]
    BY FirstByte DEF TakeCode, TakeCodeArming, TypeInv, TypeOK
  <1>2. PICK v \in Values(Head(up)) :
          /\ IF v \in Commands
             THEN bcmd' = v /\ bleft' = Length[v] - 1 /\ bgood' = TRUE
             ELSE UNCHANGED board
          /\ owed' = [k \in Writes |-> owed[k] + IF v = k /\ v # Head(up)[1] THEN 1 ELSE 0]
    BY DEF TakeCode, TakeCodeArming
  <1>3. owed'[c] = owed[c] + IF v = c /\ v # Head(up)[1] THEN 1 ELSE 0
    BY <1>2
  <1>4. bleft' \in Nat /\ (v \in Commands => bleft' > 0) /\ (v = c <=> bcmd' = c)
    <2>1. CASE v \in Commands
      BY <1>2, <2>1, Lengths
    <2>2. CASE v \notin Commands
      BY <1>1, <1>2, <2>2, CodesDiffer DEF board, Commands
    <2> QED BY <2>1, <2>2
  <1>5. /\ IsFiniteSet(Starts(c)') /\ Cardinality(Starts(c)') <= Cardinality(Starts(c))
        /\ Cardinality(Starts(c)') \in Nat /\ Cardinality(Starts(c)) \in Nat /\ owed[c] \in Nat
    BY <1>1, <1>4, StartsShrink, StartsFinite, FS_CardinalityType DEF TypeInv
  <1>6. Cardinality(Starts(c)) <= owed[c]
    <2>1. None # c
      BY CodesDiffer DEF Commands
    <2> QED BY <1>1, <1>5, <2>1 DEF OwedInv
  <1>7. CASE v # c
    BY <1>3, <1>4, <1>5, <1>6, <1>7
  <1>8. CASE v = c /\ v # Head(up)[1]
    BY <1>3, <1>4, <1>5, <1>6, <1>8
  <1>9. CASE v = c /\ v = Head(up)[1]
    <2>1. Len(up) \in Nat /\ 1 \in 1..Len(up) /\ up[1][1] = c
      BY <1>1, <1>9, FirstByte
    <2>2. /\ up[1][2] \in Nat /\ up[1][2] >= 1 /\ up[1][2] <= Length[c] /\ Length[c] \in Nat
          /\ up[1] = <<c, up[1][2]>>
      BY <2>1, ByteAt, Lengths DEF Commands
    <2>3. Begins(c, 1)
      BY <1>1, <2>1, <2>2 DEF Begins
    <2>4. 1 \in Starts(c) /\ bleft' = Length[c] - 1
      BY <1>2, <1>9, <2>1, <2>3 DEF Starts, Commands
    <2>5. Cardinality(Starts(c)') + 1 <= Cardinality(Starts(c))
      BY <1>1, <2>1, <2>4, StartsTaken
    <2> QED BY <1>3, <1>4, <1>5, <1>6, <1>9, <2>5
  <1> QED BY <1>7, <1>8, <1>9

\* The board takes a byte for the rest of a command, or one is lost.
LEMMA OwedTail ==
    ASSUME TypeInv, InPieces, OwedInv, TakeRest \/ Lose
    PROVE  OwedInv'
  <1>1. owed' = owed /\ bcmd' = bcmd
    BY DEF TakeRest, Lose, history, board
  <1>2. bleft' \in Nat /\ bleft' >= bleft - 1
    BY DEF TakeRest, Lose, board, TypeInv, TypeOK
  <1>3. (up # <<>> /\ up' = Tail(up)) \/ (up' = up /\ bleft' = bleft)
    BY DEF TakeRest, Lose, board
  <1>4. ASSUME NEW c \in Writes
        PROVE  IsFiniteSet(Starts(c)') /\ Cardinality(Starts(c)') <= Cardinality(Starts(c))
    <2>1. CASE up # <<>> /\ up' = Tail(up)
      BY <1>2, <2>1, StartsShrink
    <2>2. CASE up' = up /\ bleft' = bleft
      <3>1. Cardinality(Starts(c)) \in Nat
        BY StartsFinite
      <3> QED BY <2>2, <3>1, StartsFinite, StartsStay
    <2> QED BY <1>3, <2>1, <2>2
  <1> QED BY <1>1, <1>4, OwedStays

\* The board executes a write: it was owed.
LEMMA OwedExecute ==
    ASSUME TypeInv, OwedInv, Execute
    PROVE  OwedInv' /\ owed' \in [Writes -> Nat]
  <1>1. /\ up' = up /\ bleft' = bleft /\ bcmd \in Writes /\ bcmd' = None
        /\ owed' = [owed EXCEPT ![bcmd] = @ - 1]
    BY DEF Execute, Reply
  <1>2. \A c \in Writes : /\ Cardinality(Starts(c)) \in Nat /\ owed[c] \in Nat
                          /\ Starts(c)' = Starts(c) /\ None # c
    BY <1>1, StartsFinite, StartsStay, CodesDiffer DEF TypeInv, Commands
  <1>3. Cardinality(Starts(bcmd)) + 1 <= owed[bcmd]
    BY <1>1 DEF OwedInv
  <1>4. owed' \in [Writes -> Nat]
    <2>1. owed[bcmd] - 1 \in Nat
      BY <1>1, <1>2, <1>3
    <2> QED BY <1>1, <2>1 DEF TypeInv
  <1>5. ASSUME NEW c \in Writes
        PROVE  Cardinality(Starts(c)') + (IF bcmd' = c THEN 1 ELSE 0) <= owed'[c]
    <2>1. Cardinality(Starts(c)') = Cardinality(Starts(c)) /\ bcmd' # c
      BY <1>1, <1>2
    <2>2. CASE c = bcmd
      BY <1>1, <1>2, <1>3, <2>1, <2>2 DEF TypeInv
    <2>3. CASE c # bcmd
      <3>1. owed'[c] = owed[c] /\ Cardinality(Starts(c)) <= owed[c]
        BY <1>1, <1>2, <2>3 DEF OwedInv, TypeInv
      <3> QED BY <1>2, <2>1, <3>1
    <2> QED BY <2>2, <2>3
  <1> QED BY <1>4, <1>5 DEF OwedInv

\* What neither moves a byte to the board nor executes a write.
LEMMA OwedOther ==
    ASSUME TypeInv, OwedInv,
           BadChecksum \/ BusFailure \/ ReplyData \/ T1Interrupt \/ CheckFailsafe \/ UNCHANGED vars
    PROVE  OwedInv'
  <1>1. owed' = owed /\ up' = up /\ bleft' = bleft
    BY DEF BadChecksum, BusFailure, ReplyData, T1Interrupt, CheckFailsafe, vars, Reply, line, board, history
  <1>2. bcmd' = bcmd \/ bcmd' = None
    BY DEF BadChecksum, BusFailure, ReplyData, T1Interrupt, CheckFailsafe, vars, Reply, board
  <1>3. \A c \in Writes : /\ IsFiniteSet(Starts(c)') /\ Cardinality(Starts(c)') <= Cardinality(Starts(c))
                          /\ bcmd' = c => bcmd = c
    <2> SUFFICES ASSUME NEW c \in Writes
                 PROVE  /\ IsFiniteSet(Starts(c)') /\ Cardinality(Starts(c)') <= Cardinality(Starts(c))
                        /\ bcmd' = c => bcmd = c
      OBVIOUS
    <2>1. Cardinality(Starts(c)) \in Nat /\ IsFiniteSet(Starts(c)) /\ Starts(c)' = Starts(c)
      BY <1>1, StartsFinite, StartsStay
    <2>2. None # c
      BY CodesDiffer DEF Commands
    <2> QED BY <1>2, <2>1, <2>2
  <1> QED BY <1>1, <1>3, OwedStays

\* Bytes are lost and taken at the head and added whole messages at a time.
LEMMA NextPieces ==
    ASSUME TypeInv, InPieces,
           \/ up' = up
           \/ up # <<>> /\ up' = Tail(up)
           \/ up' = Append(up, <<"SYNC", 1>>)
           \/ \E c \in Commands : up' = up \o Bytes(c)
    PROVE  InPieces'
  <1> SUFFICES ASSUME NEW i \in 1..Len(up'), i > 1, up'[i][2] # 1
               PROVE  up'[i - 1] = <<up'[i][1], up'[i][2] - 1>>
    BY DEF InPieces
  <1>1. CASE up' = up
    BY <1>1 DEF InPieces
  <1>2. CASE up # <<>> /\ up' = Tail(up)
    <2>1. /\ Len(up) \in Nat /\ Len(up') = Len(up) - 1
          /\ \A k \in 1..Len(up') : up'[k] = up[k + 1]
      BY <1>2, FirstByte DEF TypeInv, TypeOK
    <2>2. i - 1 \in 1..Len(up') /\ i + 1 \in 1..Len(up) /\ i + 1 > 1 /\ (i - 1) + 1 = i /\ (i + 1) - 1 = i
      BY <2>1
    <2>3. up'[i] = up[i + 1] /\ up'[i - 1] = up[i]
      BY <2>1, <2>2
    <2>4. up[(i + 1) - 1] = <<up[i + 1][1], up[i + 1][2] - 1>>
      BY <2>2, <2>3 DEF InPieces
    <2> QED BY <2>2, <2>3, <2>4
  <1>3. CASE up' = Append(up, <<"SYNC", 1>>)
    <2>1. /\ Len(up) \in Nat /\ Len(up') = Len(up) + 1 /\ up'[Len(up) + 1] = <<"SYNC", 1>>
          /\ \A k \in 1..Len(up) : up'[k] = up[k]
      <3>1. up \in Seq(UpBytes) /\ <<"SYNC", 1>> \in UpBytes
        BY DEF TypeInv, TypeOK, UpBytes
      <3> QED BY <1>3, <3>1, AppendProperties
    <2>2. i # Len(up) + 1
      BY <2>1
    <2>3. i \in 1..Len(up) /\ i - 1 \in 1..Len(up)
      BY <2>1, <2>2
    <2> QED BY <2>1, <2>3 DEF InPieces
  <1>4. ASSUME NEW c \in Commands, up' = up \o Bytes(c)
        PROVE  up'[i - 1] = <<up'[i][1], up'[i][2] - 1>>
    <2>1. /\ Len(up) \in Nat /\ Length[c] \in Nat /\ Len(up') = Len(up) + Length[c]
          /\ \A k \in 1..Len(up) : up'[k] = up[k]
          /\ \A k \in 1..Length[c] : up'[Len(up) + k] = <<c, k>>
      BY <1>4, SentBytes
    <2>2. CASE i <= Len(up)
      <3>1. i \in 1..Len(up) /\ i - 1 \in 1..Len(up)
        BY <2>1, <2>2
      <3> QED BY <2>1, <3>1 DEF InPieces
    <2>3. CASE i > Len(up)
      <3> DEFINE j == i - Len(up)
      <3>1. j \in 1..Length[c] /\ Len(up) + j = i /\ Len(up) + (j - 1) = i - 1
        BY <2>1, <2>3
      <3> HIDE DEF j
      <3>2. up'[i] = <<c, j>>
        BY <2>1, <3>1
      <3>3. j - 1 \in 1..Length[c]
        BY <2>1, <3>1, <3>2
      <3>4. up'[i - 1] = <<c, j - 1>>
        BY <2>1, <3>1, <3>3
      <3> QED BY <3>2, <3>4
    <2> QED BY <2>1, <2>2, <2>3
  <1> QED BY <1>1, <1>2, <1>3, <1>4

-----------------------------------------------------------------------------
(* The failsafe *)

\* Every step keeps a timer behind the motors.
LEMMA NextFailsafe == TypeInv /\ FailsafeInv /\ [Next]_vars => FailsafeInv'
  <1> SUFFICES ASSUME TypeInv, FailsafeInv, [Next]_vars PROVE FailsafeInv'
    OBVIOUS
  <1> USE DEF FailsafeInv
  <1>1. CASE TakeCode
    <2>1. PICK v \in Values(Head(up)) :
            /\ IF v \in Commands THEN bcmd' = v ELSE UNCHANGED board
            /\ IF v \in {SetSpeed} THEN ArmFailsafe ELSE UNCHANGED motor
      BY <1>1 DEF TakeCode, TakeCodeArming
    <2>2. bcmd = None /\ SetSpeed # None
      BY <1>1, CommandsFit, CodesDiffer DEF TakeCode, TakeCodeArming, Commands
    <2>3. CASE v = SetSpeed
      BY <2>1, <2>3 DEF ArmFailsafe
    <2>4. CASE v # SetSpeed
      BY <2>1, <2>2, <2>4 DEF motor, board
    <2> QED BY <2>3, <2>4
  <1>2. CASE BadChecksum \/ BusFailure \/ ReplyData \/ Execute
    <2>1. /\ timer' = timer /\ slipped' = slipped
          /\ turning' = turning \/ bcmd = SetSpeed
          /\ bcmd' = None
      BY <1>2 DEF BadChecksum, BusFailure, ReplyData, Execute, Reply, motor
    <2>2. SetSpeed # None
      BY CommandsFit, CodesDiffer DEF Commands
    <2> QED BY <2>1, <2>2
  <1>3. CASE T1Interrupt
    BY <1>3 DEF T1Interrupt, board
  <1>4. CASE CheckFailsafe
    BY <1>4 DEF CheckFailsafe, board
  <1>5. ASSUME UNCHANGED <<turning, timer, slipped, bcmd>> PROVE FailsafeInv'
    BY <1>5
  <1>6. ASSUME (\E c \in Writes : Write(c)) \/ PartialRead \/ Sync \/ HostWorks \/ TakeRest \/ Lose
               \/ UNCHANGED vars
        PROVE  UNCHANGED <<turning, timer, slipped, bcmd>>
    BY <1>6, Outcome DEF Write, PartialRead, Send, Sync, HostWorks, Answering, Elsewhere, Listen, Hush,
                         HushUpTo, TakeRest, Lose, vars, board, motor
  <1> QED BY <1>1, <1>2, <1>3, <1>4, <1>5, <1>6 DEF Next, BoardWorks

-----------------------------------------------------------------------------
(* The cycle of reads *)

\* A call has ended: an item without error is there, another one was reported.
LEMMA FinishCycle ==
    ASSUME TypeInv, CycleInv, InCall, NEW ok \in BOOLEAN, NEW came, Finish(ok, came),
           updateState' = updateState
    PROVE  CycleInv'
  <1>1. cmd \in Commands
    BY DEF TypeInv
  <1>2. ASSUME ~reported', NEW i \in 1..updateState
        PROVE  Cycle[i] \in telemetry' \cup Masked \cup hollow'
    <2>1. ~reported /\ (ok \/ cmd \in Masked)
      BY <1>2 DEF Finish, TypeInv, TypeOK
    <2>2. /\ telemetry \subseteq telemetry' /\ hollow \subseteq hollow'
          /\ ok /\ cmd \in Reads => cmd \in telemetry' \cup hollow'
      BY DEF Finish
    <2>3. Cycle[i] \in Reads
      <3>1. i \in 1..Len(Cycle)
        BY Lengths DEF TypeInv, TypeOK
      <3> QED BY <3>1, Lengths
    <2>4. Cycle[i] \in telemetry \cup Masked \cup hollow \/ cmd = Cycle[i]
      BY <2>1 DEF CycleInv
    <2> QED BY <2>1, <2>2, <2>3, <2>4
  <1>3. result' = "SB_UPDATEDONE" => updateState = Len(Cycle)
    BY DEF Finish
  <1> QED BY <1>2, <1>3 DEF CycleInv

\* Every step keeps the account of the cycle.
LEMMA NextCycle == TypeInv /\ CycleInv /\ [Next]_vars => CycleInv'
  <1> SUFFICES ASSUME TypeInv, CycleInv, [Next]_vars PROVE CycleInv'
    OBVIOUS
  <1>1. ASSUME NEW c \in Writes, Write(c) PROVE CycleInv'
    BY <1>1 DEF Write, Send, CycleInv, InCall
  <1>2. CASE PartialRead
    <2>1. updateState \in Nat /\ updateState <= Len(Cycle) /\ Len(Cycle) \in Nat /\ Len(Cycle) > 0
      BY Lengths DEF TypeInv, TypeOK
    <2>2. hpc = "idle" /\ hpc' = "code" /\ cmd' = Cycle[updateState'] /\ result' = "none"
      BY <1>2 DEF PartialRead, Send
    <2>3. CASE updateState' = 1
      BY <2>2, <2>3 DEF CycleInv, InCall
    <2>4. CASE updateState' # 1
      <3>1. updateState' = updateState + 1 /\ UNCHANGED <<telemetry, hollow, reported>>
        BY <1>2, <2>1, <2>4 DEF PartialRead, TypeInv, TypeOK
      <3>2. ASSUME ~reported', NEW i \in 1..updateState'
            PROVE  Cycle[i] \in telemetry' \cup Masked \cup hollow' \/ cmd' = Cycle[i]
        <4>1. CASE i = updateState'
          BY <2>2, <4>1
        <4>2. CASE i # updateState'
          <5>1. i \in 1..updateState
            BY <2>1, <3>1, <4>2
          <5> QED BY <2>2, <3>1, <3>2, <5>1 DEF CycleInv, InCall
        <4> QED BY <4>1, <4>2
      <3> QED BY <2>2, <3>2 DEF CycleInv, InCall
    <2> QED BY <2>3, <2>4
  <1>3. CASE Sync
    BY <1>3 DEF Sync, CycleInv, InCall
  <1>4. CASE Answering
    <2>1. InCall /\ updateState' = updateState /\ cmd' = cmd
      BY <1>4, Outcome DEF Elsewhere
    <2>2. ASSUME hpc' \in {"rest", "sum"}, UNCHANGED <<telemetry, hollow, result, cutOff, dirty, reported>>
          PROVE  CycleInv'
      BY <2>1, <2>2 DEF CycleInv, InCall
    <2> QED BY <1>4, <2>1, <2>2, Outcome, FinishCycle
  <1>5. CASE Listen \/ Hush
    <2>1. /\ ~InCall /\ UNCHANGED <<reported, updateState, telemetry, hollow>>
          /\ result' \in {result, "synced", "unsynced"}
      BY <1>5 DEF Listen, Hush, HushUpTo, Synced, InCall
    <2> QED BY <2>1 DEF CycleInv
  <1>6. ASSUME UNCHANGED <<hpc, cmd, reported, updateState, telemetry, hollow, result>> PROVE CycleInv'
    BY <1>6 DEF CycleInv, InCall
  <1>7. ASSUME BoardWorks \/ T1Interrupt \/ CheckFailsafe \/ Lose \/ UNCHANGED vars
        PROVE  UNCHANGED <<hpc, cmd, reported, updateState, telemetry, hollow, result>>
    BY <1>7 DEF BoardWorks, TakeCode, TakeCodeArming, TakeRest, BadChecksum, BusFailure, ReplyData, Execute,
                T1Interrupt, CheckFailsafe, Lose, vars, host, history
  <1> QED BY <1>1, <1>2, <1>3, <1>4, <1>5, <1>6, <1>7 DEF Next, HostWorks, Answering

-----------------------------------------------------------------------------
(* The sync *)

\* What the board makes of the 0xFF it is sent.
LEMMA SyncByte ==
    ASSUME up = <<<<"SYNC", 1>>>>
    PROVE  /\ Tail(up) = <<>> /\ Head(up) = <<"SYNC", 1>> /\ Values(Head(up)) = {"SYNC"}
           /\ up # <<>> /\ Head(up)[1] = "SYNC" /\ Len(up) = 1
  BY DEF Values

\* The board takes the 0xFF, for a code or for the rest of a command.
LEMMA SyncTake ==
    ASSUME TypeInv, SyncInv, TakeCode \/ TakeRest
    PROVE  SyncInv'
  <1> SUFFICES ASSUME clean' PROVE SyncInv'
    BY DEF SyncInv
  <1>1. clean /\ up # <<>> /\ up' = Tail(up) /\ UNCHANGED <<hpc, attempts, heard, result, clean>>
    BY DEF TakeCode, TakeCodeArming, TakeRest, host, history
  <1>2. /\ hpc = "listen" /\ up = <<<<"SYNC", 1>>>> /\ down = <<>>
        /\ ~Executing /\ attempts + bleft <= MaxSyncAttempts - 1
    BY <1>1 DEF SyncInv, Filling, InStep, TypeInv, TypeOK, InCall
  <1>3. up' = <<>>
    BY <1>1, <1>2, SyncByte
  <1>4. CASE TakeCode
    <2>1. PICK v \in Values(Head(up)) :
            /\ IF v \in Commands THEN bcmd' = v ELSE UNCHANGED board
            /\ down' = IF v = "SYNC" THEN Append(down, <<"SUCCESS", 1>>) ELSE down
      BY <1>4 DEF TakeCode, TakeCodeArming
    <2>2. v = "SYNC" /\ v \notin Commands
      BY <1>2, <2>1, SyncByte, CodesDiffer
    <2>3. bcmd = None
      BY <1>4 DEF TakeCode, TakeCodeArming
    <2>4. down' = <<<<"SUCCESS", 1>>>> /\ bcmd' = None
      BY <1>2, <2>1, <2>2, <2>3 DEF board
    <2> QED BY <1>1, <1>2, <1>3, <2>4 DEF SyncInv, InCall
  <1>5. CASE TakeRest
    <2>1. /\ bleft > 0 /\ bleft' = bleft - 1 /\ bcmd' = bcmd /\ down' = <<>>
          /\ \E v \in Values(Head(up)) :
                bgood' = (bgood /\ IF Length[bcmd] = 2 THEN v = bcmd
                                   ELSE Head(up) = <<bcmd, Length[bcmd] - bleft + 1>>)
      BY <1>2, <1>5 DEF TakeRest
    <2>2. bcmd # None /\ bcmd \in Commands /\ bcmd # "SYNC"
      BY <2>1, CodesDiffer DEF TypeInv, TypeOK
    <2>3. ~bgood'
      <3>1. Head(up)[1] = "SYNC" /\ Values(Head(up)) = {"SYNC"}
        BY <1>2, SyncByte
      <3>2. ASSUME NEW n, Head(up) = <<bcmd, n>> PROVE FALSE
        BY <2>2, <3>1, <3>2
      <3> QED BY <2>1, <2>2, <3>1, <3>2
    <2>4. attempts + bleft' <= MaxSyncAttempts - 2
      BY <1>2, <2>1, Lengths DEF TypeInv, TypeOK
    <2> QED BY <1>1, <1>2, <1>3, <2>1, <2>2, <2>3, <2>4 DEF SyncInv, InCall, Filling
  <1> QED BY <1>4, <1>5

\* The board answers: only a command that the 0xFFs have filled up.
LEMMA SyncReply ==
    ASSUME TypeInv, SyncInv, BadChecksum \/ BusFailure \/ ReplyData \/ Execute
    PROVE  SyncInv'
  <1> SUFFICES ASSUME clean' PROVE SyncInv'
    BY DEF SyncInv
  <1>1. clean /\ Executing /\ UNCHANGED <<up, hpc, attempts, heard, result, clean, bleft>>
    BY DEF BadChecksum, BusFailure, ReplyData, Execute, Reply, host, history
  <1>2. hpc = "listen" /\ Filling /\ down = <<>> /\ bleft = 0
    BY <1>1 DEF SyncInv, Filling, InStep, TypeInv, TypeOK, InCall, Executing
  <1>3. BadChecksum
    BY <1>2 DEF Filling, BusFailure, ReplyData, Execute
  <1>4. down' = <<<<"BADCHKSUM", 1>>>> /\ bcmd' = None
    BY <1>2, <1>3 DEF BadChecksum, Reply
  <1>5. attempts <= MaxSyncAttempts - 2
    BY <1>2, Lengths DEF Filling, TypeInv, TypeOK
  <1> QED BY <1>1, <1>2, <1>4, <1>5 DEF SyncInv, Filling, InCall

\* syncBoard begins, with the board in the middle of a command or not.
LEMMA SyncBegins ==
    ASSUME TypeInv, Sync
    PROVE  SyncInv'
  <1> SUFFICES ASSUME clean' PROVE SyncInv'
    BY DEF SyncInv
  <1>1. /\ up = <<>> /\ ~Executing /\ down' = <<>> /\ up' = Append(up, <<"SYNC", 1>>)
        /\ attempts' = 1 /\ hpc' = "listen" /\ UNCHANGED <<bcmd, bleft>>
    BY DEF Sync, Quiet, board
  <1>2. up' = <<<<"SYNC", 1>>>>
    BY <1>1
  <1>3. attempts' + bleft' <= MaxSyncAttempts - 1
    BY <1>1, Lengths DEF TypeInv, TypeOK
  <1> QED BY <1>1, <1>2, <1>3 DEF SyncInv, InCall, Executing

\* The host listens.
LEMMA SyncListens ==
    ASSUME TypeInv, SyncInv, Listen
    PROVE  SyncInv'
  <1> SUFFICES ASSUME clean' PROVE SyncInv'
    BY DEF SyncInv
  <1>1. hpc = "listen" /\ hpc' = "hush" /\ clean /\ UNCHANGED <<up, attempts, bcmd, bleft, bgood>>
    BY DEF Listen, board
  <1>2. CASE down = <<>>
    <2>1. heard' = "nothing" /\ Quiet /\ down' = down
      BY <1>2 DEF Listen
    <2>2. Filling /\ bleft > 0
      BY <1>1, <1>2, <2>1 DEF SyncInv, Quiet, Filling, Executing, TypeInv, TypeOK
    <2> QED BY <1>1, <1>2, <2>1, <2>2 DEF SyncInv, Filling, InCall
  <1>3. CASE down # <<>>
    <2>1. heard' \in Says(Head(down)) /\ down' = Tail(down)
      BY <1>3 DEF Listen
    <2>2. /\ up = <<>> /\ bcmd = None
          /\ \/ down = <<<<"BADCHKSUM", 1>>>> /\ attempts <= MaxSyncAttempts - 2
             \/ down = <<<<"SUCCESS", 1>>>>
      BY <1>1, <1>3 DEF SyncInv
    <2>3. /\ down = <<<<"BADCHKSUM", 1>>>> => heard' = "BADCHKSUM" /\ down' = <<>>
          /\ down = <<<<"SUCCESS", 1>>>> => heard' = "SUCCESS" /\ down' = <<>>
      <3>1. ASSUME NEW v \in Acks, down = <<<<v, 1>>>>
            PROVE  heard' = v /\ down' = <<>>
        <4>1. Head(down) = <<v, 1>> /\ Tail(down) = <<>>
          BY <3>1
        <4> QED BY <2>1, <4>1 DEF Says
      <3> QED BY <3>1 DEF Acks
    <2>4. up' = <<>> /\ bcmd' = None /\ ~InCall' /\ hpc' = "hush" /\ attempts' = attempts
      BY <1>1, <2>2 DEF InCall
    <2>5. InStep'
      BY <2>2, <2>3, <2>4 DEF InStep
    <2>6. heard' = "SUCCESS" \/ (heard' = "BADCHKSUM" /\ attempts' <= MaxSyncAttempts - 2)
      <3>1. attempts' = attempts
        BY <2>4
      <3> QED BY <2>2, <2>3, <3>1
    <2> QED BY <2>4, <2>5, <2>6 DEF SyncInv
  <1> QED BY <1>2, <1>3

\* The host hears silence: it is in step, or there are attempts left.
LEMMA SyncHushes ==
    ASSUME TypeInv, SyncInv, Hush
    PROVE  SyncInv'
  <1> SUFFICES ASSUME clean' PROVE SyncInv'
    BY DEF SyncInv
  <1>1. /\ hpc = "hush" /\ clean /\ (down = <<>> => Quiet) /\ UNCHANGED <<down, bcmd, bleft, bgood>>
        /\ \/ down = <<>> /\ heard = "SUCCESS" /\ Synced(TRUE, clean')
           \/ /\ down # <<>> \/ heard # "SUCCESS"
              /\ IF attempts < MaxSyncAttempts
                 THEN /\ up' = Append(up, <<"SYNC", 1>>) /\ attempts' = attempts + 1 /\ hpc' = "listen"
                 ELSE Synced(FALSE, clean')
    BY DEF Hush, HushUpTo, board
  <1>2. down = <<>> /\ up = <<>> /\ ~Executing
    BY <1>1 DEF SyncInv, InStep, Quiet
  <1>3. CASE heard = "SUCCESS"
    <2>1. InStep /\ Synced(TRUE, clean')
      BY <1>1, <1>2, <1>3 DEF SyncInv
    <2> QED BY <1>1, <2>1 DEF Synced, SyncInv, InStep, InCall
  <1>4. CASE heard # "SUCCESS"
    <2>1. attempts \in Nat /\ bleft \in Nat /\ (bcmd = None => bleft = 0) /\ MaxSyncAttempts \in Nat
      BY Lengths DEF TypeInv, TypeOK
    <2>2. attempts + bleft <= MaxSyncAttempts - 2
      BY <1>1, <1>4, <2>1 DEF SyncInv, Filling, InStep
    <2>3. up' = <<<<"SYNC", 1>>>> /\ attempts' = attempts + 1 /\ hpc' = "listen"
      <3>1. attempts < MaxSyncAttempts
        BY <2>1, <2>2
      <3>2. up' = Append(up, <<"SYNC", 1>>) /\ attempts' = attempts + 1 /\ hpc' = "listen"
        BY <1>1, <1>4, <3>1
      <3> QED BY <1>2, <3>2
    <2>4. attempts' + bleft' <= MaxSyncAttempts - 1
      BY <1>1, <2>1, <2>2, <2>3
    <2> QED BY <1>1, <1>2, <2>3, <2>4 DEF SyncInv, InCall, Executing
  <1> QED BY <1>3, <1>4

\* Every step keeps the account of the sync.
LEMMA NextSync == TypeInv /\ SyncInv /\ [Next]_vars => SyncInv'
  <1> SUFFICES ASSUME TypeInv, SyncInv, [Next]_vars PROVE SyncInv'
    OBVIOUS
  <1>1. CASE (\E c \in Writes : Write(c)) \/ PartialRead \/ Lose
    BY <1>1 DEF Write, PartialRead, Send, Lose, SyncInv
  <1>2. CASE Answering
    <2>1. InCall /\ clean' = clean
      BY <1>2, Outcome DEF Elsewhere
    <2> QED BY <2>1 DEF SyncInv
  <1>3. CASE T1Interrupt \/ CheckFailsafe \/ UNCHANGED vars
    <2>1. UNCHANGED <<up, down, hpc, attempts, heard, result, bcmd, bleft, bgood, clean>>
      BY <1>3 DEF T1Interrupt, CheckFailsafe, vars, line, host, board, history
    <2> QED BY <2>1 DEF SyncInv, InCall, Filling, InStep, Executing
  <1> QED BY <1>1, <1>2, <1>3, SyncTake, SyncReply, SyncBegins, SyncListens, SyncHushes
          DEF Next, HostWorks, Answering, BoardWorks

-----------------------------------------------------------------------------
(* What a success means *)

\* A call begins with the line empty.
LEMMA FreshSend ==
    ASSUME TypeInv, FreshInv, NEW c \in Commands, Send(c)
    PROVE  FreshInv'
  <1> SUFFICES ASSUME ~dirty', ~misread' PROVE FreshInv'
    BY DEF FreshInv
  <1>1. /\ hpc = "idle" /\ hpc' = "code" /\ cmd' = c /\ up' = up \o Bytes(c) /\ down' = down
        /\ UNCHANGED <<bcmd, bleft, misread>> /\ ~dirty /\ ~cutOff
    BY DEF Send, board
  <1>2. InStep
    BY <1>1 DEF FreshInv, InStep
  <1>3. /\ Len(up') = Length[c]
        /\ \A i \in 1..Len(up') : up'[i] = <<c, i>>
    <2>1. Len(up) = 0 /\ up \o Bytes(c) = Bytes(c) /\ Length[c] \in Nat
      BY <1>2, BytesOf, Lengths DEF InStep
    <2> QED BY <1>1, <2>1, BytesOf
  <1>4. Asked'
    BY <1>1, <1>2, <1>3, Lengths DEF Asked, InStep
  <1> QED BY <1>1, <1>4 DEF FreshInv

\* The sync begins, goes on, or ends as SyncInv says.
LEMMA FreshSync ==
    ASSUME TypeInv, FreshInv, SyncInv, SyncInv', Sync \/ Listen \/ Hush
    PROVE  FreshInv'
  <1> SUFFICES ASSUME ~dirty', ~misread' PROVE FreshInv'
    BY DEF FreshInv
  <1>1. hpc' \in {"listen", "hush"} \/ (hpc' = "idle" /\ clean' /\ result' = "synced")
    BY DEF Sync, Listen, Hush, HushUpTo, Synced
  <1>2. CASE hpc' \in {"listen", "hush"}
    BY <1>2 DEF FreshInv
  <1>3. CASE hpc' = "idle" /\ clean' /\ result' = "synced"
    BY <1>3 DEF FreshInv, SyncInv, InStep
  <1> QED BY <1>1, <1>2, <1>3

\* The host takes the answer to its call.
LEMMA FreshRead ==
    ASSUME TypeInv, FreshInv, Answering
    PROVE  FreshInv'
  <1> SUFFICES ASSUME ~dirty', ~misread' PROVE FreshInv'
    BY DEF FreshInv
  <1>1. UNCHANGED <<up, cmd, bcmd, done, misread>>
    BY Outcome DEF Elsewhere, board
  <1>2. ~dirty
    BY Outcome DEF Finish
  <1>3. down \in Seq(DownBytes) /\ Len(down) \in Nat
    BY DEF TypeInv, TypeOK
  <1>4. ASSUME NEW ok \in BOOLEAN, NEW came \in {"all", "value", "code"}, Finish(ok, came),
               up = <<>>, bcmd = None, done, came = "all" => down' = <<>>
        PROVE  FreshInv'
    <2>1. hpc' = "idle" /\ ok
      BY <1>4 DEF Finish
    <2>2. cutOff' = (came # "all")
      BY <1>4, <2>1 DEF Finish
    <2>3. cmd \in Reads => cmd \in telemetry' \/ (came = "code" /\ cmd \in hollow')
      BY <1>4, <2>1 DEF Finish
    <2>4. Answered'
      BY <1>1, <1>4, <2>2, <2>3 DEF Answered
    <2> QED BY <1>1, <1>4, <2>1, <2>2, <2>4 DEF FreshInv
  <1>5. CASE ReadAck
    <2>1. /\ hpc = "code" /\ cmd \in Writes /\ down # <<>> /\ down' = Tail(down)
          /\ Finish(TRUE, "all") /\ "SUCCESS" \in Says(Head(down))
      BY <1>5 DEF ReadAck, Finish
    <2>2. Replied
      BY <1>1, <1>2, <2>1 DEF FreshInv, Asked
    <2>3. down # <<<<"BADCHKSUM", 1>>>> /\ down # <<<<"FAILURE", 1>>>>
      BY <2>1 DEF Says
    <2>4. done /\ Len(down) <= 1
      BY <2>1, <2>2, <2>3 DEF Replied
    <2>5. down' = <<>>
      BY <1>3, <2>1, <2>4, FirstByte, EmptySeq
    <2> QED BY <1>4, <2>1, <2>2, <2>4, <2>5 DEF Replied
  <1>6. CASE ReadCode
    <2>1. /\ hpc = "code" /\ cmd \in Reads /\ down # <<>> /\ down' = Tail(down) /\ hpc' = "rest"
          /\ cmd \in Says(Head(down))
      BY <1>6 DEF ReadCode, Finish
    <2>2. Replied
      BY <1>1, <1>2, <2>1 DEF FreshInv, Asked
    <2>3. down # <<<<"BADCHKSUM", 1>>>> /\ down # <<<<"FAILURE", 1>>>>
      BY <2>1, CodesDiffer DEF Says
    <2>4. done /\ Len(down) <= 3
      BY <2>1, <2>2, <2>3, CodesDiffer DEF Replied
    <2>5. Len(down') <= 2
      BY <1>3, <2>1, <2>4, FirstByte
    <2> QED BY <1>1, <2>1, <2>2, <2>4, <2>5 DEF FreshInv, Replied
  <1>7. CASE ReadRest
    <2>1. hpc = "rest"
      BY <1>7 DEF ReadRest
    <2>2. up = <<>> /\ bcmd = None /\ done /\ Len(down) <= 2
      BY <1>1, <1>2, <2>1 DEF FreshInv
    <2>3. PICK k \in 1..2 :
            /\ k <= Len(down) /\ down' = SubSeq(down, k + 1, Len(down))
            /\ \E came \in {"all", "value", "code"} : Finish(TRUE, came) /\ (came = "all" => k = 2)
      BY <1>7 DEF ReadRest, Finish
    <2>4. k = 2 => down' = <<>>
      BY <1>3, <2>2, <2>3
    <2> QED BY <1>4, <2>2, <2>3, <2>4
  <1>8. CASE ReadPayload
    <2>1. hpc = "rest" /\ hpc' = "sum"
      BY <1>8 DEF ReadPayload
    <2>2. up = <<>> /\ bcmd = None /\ done /\ Len(down) <= 2
      BY <1>1, <1>2, <2>1 DEF FreshInv
    <2>3. Len(down') <= 1
      BY <1>3, <1>8, <2>2, FirstByte, EmptySeq DEF ReadPayload
    <2> QED BY <1>1, <2>1, <2>2, <2>3 DEF FreshInv
  <1>9. CASE ReadSum
    <2>1. hpc = "sum"
      BY <1>9 DEF ReadSum
    <2>2. up = <<>> /\ bcmd = None /\ done /\ (payload = "value" => Len(down) <= 1)
      BY <1>1, <1>2, <2>1 DEF FreshInv
    <2>3. \E came \in {"all", "value", "code"} :
            /\ Finish(TRUE, came)
            /\ came = "all" => payload = "value" /\ down # <<>> /\ down' = Tail(down)
      BY <1>9 DEF ReadSum, Finish
    <2>4. down # <<>> /\ Len(down) <= 1 => Tail(down) = <<>>
      BY <1>3, FirstByte, EmptySeq
    <2> QED BY <1>4, <2>2, <2>3, <2>4
  <1>10. CASE NoReply
    <2>1. hpc = "rest" /\ Finish(TRUE, "code")
      BY <1>2, <1>10 DEF NoReply, Finish
    <2> QED BY <1>1, <1>2, <1>4, <2>1 DEF FreshInv
  <1> QED BY <1>5, <1>6, <1>7, <1>8, <1>9, <1>10 DEF Answering

\* The board takes a byte of this call.
LEMMA FreshTake ==
    ASSUME TypeInv, FreshInv, TakeCode \/ TakeRest
    PROVE  FreshInv'
  <1> SUFFICES ASSUME ~dirty', ~misread' PROVE FreshInv'
    BY DEF FreshInv
  <1>1. /\ ~dirty /\ ~misread /\ up # <<>> /\ up' = Tail(up)
        /\ UNCHANGED <<hpc, cmd, dirty, done>>
    <2>1. up # <<>> /\ up' = Tail(up) /\ UNCHANGED <<hpc, cmd, dirty, done>>
      BY DEF TakeCode, TakeCodeArming, TakeRest, host, history
    <2>2. misread => misread'
      BY DEF TakeCode, TakeCodeArming, TakeRest, history
    <2> QED BY <2>1, <2>2
  <1>2. /\ Len(up) \in Nat /\ Len(up) > 0 /\ Len(up') = Len(up) - 1 /\ Head(up) = up[1]
        /\ \A i \in 1..Len(up') : up'[i] = up[i + 1]
    BY <1>1, FirstByte DEF TypeInv, TypeOK
  <1>3. CASE hpc = "code"
    <2>1. Asked /\ cmd \in Commands
      BY <1>1, <1>3 DEF FreshInv, Replied, TypeInv, InCall
    <2>2. up[1][1] = cmd
      BY <1>2, <2>1 DEF Asked
    <2>3. \A i \in 1..Len(up') : up'[i][1] = cmd
      BY <1>2, <2>1 DEF Asked
    <2>4. CASE TakeCode
      <3>1. bcmd' = cmd /\ bleft' = Length[cmd] - 1 /\ down' = down
        BY <1>2, <2>1, <2>2, <2>4, CodesDiffer DEF TakeCode, TakeCodeArming
      <3>2. bcmd = None /\ Length[cmd] \in Nat
        BY <2>1, <2>4, Lengths DEF TakeCode, TakeCodeArming
      <3>3. Len(up') <= bleft' /\ down' = <<>>
        BY <1>2, <2>1, <3>1, <3>2 DEF Asked
      <3>4. bcmd' # None
        BY <2>1, <3>1, CodesDiffer
      <3>5. Asked'
        BY <1>1, <2>3, <3>1, <3>3, <3>4 DEF Asked
      <3> QED BY <1>1, <1>3, <3>5 DEF FreshInv
    <2>5. CASE TakeRest
      <3>1. bleft > 0 /\ bleft' = bleft - 1 /\ bcmd' = bcmd /\ down' = down /\ bleft \in Nat
        BY <2>5 DEF TakeRest, TypeInv, TypeOK
      <3>2. bcmd # None
        BY <3>1 DEF TypeInv, TypeOK
      <3>3. Len(up') <= bleft' /\ down' = <<>> /\ bcmd' = cmd
        BY <1>2, <2>1, <3>1, <3>2 DEF Asked
      <3>4. Asked'
        BY <1>1, <2>3, <3>1, <3>2, <3>3 DEF Asked
      <3> QED BY <1>1, <1>3, <3>4 DEF FreshInv
    <2> QED BY <2>4, <2>5
  <1>4. CASE hpc # "code"
    <2>1. hpc \in {"listen", "hush"}
      BY <1>1, <1>4 DEF FreshInv, InStep, TypeInv, TypeOK
    <2> QED BY <1>1, <2>1 DEF FreshInv
  <1> QED BY <1>3, <1>4

\* The board answers this call.
LEMMA FreshReply ==
    ASSUME TypeInv, FreshInv, BadChecksum \/ BusFailure \/ ReplyData \/ Execute
    PROVE  FreshInv'
  <1> SUFFICES ASSUME ~dirty', ~misread' PROVE FreshInv'
    BY DEF FreshInv
  <1>1. /\ ~dirty /\ ~misread /\ Executing /\ UNCHANGED <<hpc, cmd, dirty, up>> /\ bcmd' = None
    BY DEF BadChecksum, BusFailure, ReplyData, Execute, Reply, host, history
  <1>2. CASE hpc = "code"
    <2>1. Asked /\ bcmd # None /\ bleft = 0
      BY <1>1, <1>2 DEF FreshInv, Replied, Executing
    <2>2. up = <<>> /\ bcmd = cmd /\ down = <<>>
      <3>1. Len(up) <= 0 /\ Len(up) \in Nat
        BY <2>1 DEF Asked, TypeInv, TypeOK
      <3> QED BY <2>1, <3>1, EmptySeq DEF Asked, TypeInv, TypeOK
    <2>3. CASE BadChecksum \/ BusFailure
      <3>1. down' \in {<<<<"BADCHKSUM", 1>>>>, <<<<"FAILURE", 1>>>>}
        BY <2>2, <2>3 DEF BadChecksum, BusFailure, Reply
      <3> QED BY <1>1, <1>2, <2>2, <3>1 DEF FreshInv, Replied
    <2>4. CASE ReplyData
      <3>1. done' /\ bcmd \in Reads /\ down' = [i \in 1..3 |-> <<bcmd, i>>]
        <4>1. [i \in 1..3 |-> <<bcmd, i>>] \in Seq({bcmd} \X (1..3))
          OBVIOUS
        <4> QED BY <1>2, <2>2, <2>4, <4>1, ConcatEmptySeq DEF ReplyData, Answers, Reply
      <3>2. Len(down') <= 3 /\ cmd \notin Writes
        BY <2>2, <3>1, CodesDiffer
      <3> QED BY <1>1, <1>2, <2>2, <3>1, <3>2 DEF FreshInv, Replied
    <2>5. CASE Execute
      <3>1. done' /\ down' = <<<<"SUCCESS", 1>>>> /\ bcmd \in Writes
        <4>1. bcmd \in Writes /\ done' /\ down' = <<>> \o <<<<"SUCCESS", 1>>>>
          BY <1>2, <2>2, <2>5 DEF Execute, Answers, Reply
        <4> QED BY <4>1
      <3>2. Len(down') <= 1 /\ Len(down') <= 3
        BY <3>1
      <3> QED BY <1>1, <1>2, <2>2, <3>1, <3>2 DEF FreshInv, Replied
    <2> QED BY <2>3, <2>4, <2>5
  <1>3. CASE hpc # "code"
    <2>1. hpc \in {"listen", "hush"}
      BY <1>1, <1>3 DEF FreshInv, InStep, Executing, TypeInv, TypeOK
    <2> QED BY <1>1, <2>1 DEF FreshInv
  <1> QED BY <1>2, <1>3

\* A byte is lost.
LEMMA FreshLose ==
    ASSUME TypeInv, FreshInv, Lose
    PROVE  FreshInv'
  <1> SUFFICES ASSUME ~dirty', ~misread' PROVE FreshInv'
    BY DEF FreshInv
  <1>1. ~dirty /\ ~misread /\ UNCHANGED <<hpc, cmd, bcmd, bleft, done, dirty, misread>>
    BY DEF Lose, host, board
  <1>2. CASE hpc = "idle"
    <2>1. down' = down \/ (down # <<>> /\ down' = Tail(down))
      BY DEF Lose
    <2>2. up' = up
      BY <1>1, <1>2 DEF FreshInv, Lose
    <2>3. UNCHANGED <<result, cutOff, cmd, telemetry, hollow, done>>
      BY DEF Lose, host
    <2> QED BY <1>1, <1>2, <2>1, <2>2, <2>3 DEF FreshInv, Answered
  <1>3. CASE hpc \in {"listen", "hush"}
    BY <1>1, <1>3 DEF FreshInv
  <1>4. CASE up # <<>> /\ up' = Tail(up) /\ UNCHANGED down /\ hpc \in {"code", "rest", "sum"}
    <2>1. hpc = "code" /\ Asked
      BY <1>1, <1>4 DEF FreshInv, Replied
    <2>2. /\ Len(up) \in Nat /\ Len(up) > 0 /\ Len(up') = Len(up) - 1
          /\ \A i \in 1..Len(up') : up'[i] = up[i + 1]
      BY <1>4, FirstByte DEF TypeInv, TypeOK
    <2>3. \A i \in 1..Len(up') : up'[i][1] = cmd
      BY <2>1, <2>2 DEF Asked
    <2>4. (bcmd = None => Len(up') <= Length[cmd]) /\ (bcmd # None => Len(up') <= bleft)
      BY <2>1, <2>2, Lengths DEF Asked, TypeInv, TypeOK, InCall
    <2>5. Asked'
      BY <1>1, <1>4, <2>1, <2>3, <2>4 DEF Asked
    <2> QED BY <1>1, <2>1, <2>5 DEF FreshInv
  <1>5. CASE down # <<>> /\ down' = Tail(down) /\ UNCHANGED up /\ hpc \in {"code", "rest", "sum"}
    <2>1. Len(down) \in Nat /\ Len(down) > 0 /\ Len(down') = Len(down) - 1
      BY <1>5, FirstByte DEF TypeInv, TypeOK
    <2>2. CASE hpc = "code"
      <3>1. Replied
        BY <1>1, <1>5, <2>2 DEF FreshInv, Asked
      <3>2. CASE done /\ Len(down) <= IF cmd \in Writes THEN 1 ELSE 3
        <4>1. Replied'
          BY <1>1, <1>5, <2>1, <3>1, <3>2 DEF Replied
        <4> QED BY <1>1, <2>2, <4>1 DEF FreshInv
      <3>3. CASE down \in {<<<<"BADCHKSUM", 1>>>>, <<<<"FAILURE", 1>>>>}
        <4>1. down' = <<>> /\ up' = <<>> /\ bcmd' = None
          BY <1>1, <1>5, <3>1, <3>3 DEF Replied
        <4>2. Asked'
          BY <1>1, <2>2, <4>1, Lengths DEF Asked, TypeInv, InCall
        <4> QED BY <1>1, <2>2, <4>2 DEF FreshInv
      <3> QED BY <3>1, <3>2, <3>3 DEF Replied
    <2>3. CASE hpc \in {"rest", "sum"}
      <3>1. payload' = payload
        BY DEF Lose, host
      <3> QED BY <1>1, <1>5, <2>1, <2>3, <3>1 DEF FreshInv
    <2> QED BY <1>5, <2>2, <2>3
  <1> QED BY <1>2, <1>3, <1>4, <1>5 DEF Lose, TypeInv, TypeOK

\* Every step keeps the two in step, or notes that they are not.
LEMMA NextFresh == TypeInv /\ SyncInv /\ SyncInv' /\ FreshInv /\ [Next]_vars => FreshInv'
  <1> SUFFICES ASSUME TypeInv, SyncInv, SyncInv', FreshInv, [Next]_vars PROVE FreshInv'
    OBVIOUS
  <1>1. ASSUME NEW c \in Writes, Write(c) PROVE FreshInv'
    BY <1>1, FreshSend DEF Write, Commands
  <1>2. CASE PartialRead
    <2>1. PICK i \in 1..Len(Cycle) : Send(Cycle[i])
      BY <1>2, PartialSends
    <2> QED BY <2>1, FreshSend, Lengths DEF Commands
  <1>3. CASE T1Interrupt \/ CheckFailsafe \/ UNCHANGED vars
    <2>1. UNCHANGED <<up, down, hpc, cmd, result, bcmd, bleft, done, dirty, misread>>
      BY <1>3 DEF T1Interrupt, CheckFailsafe, vars, line, host, board, history
    <2>2. UNCHANGED <<payload, telemetry, hollow, cutOff>>
      BY <1>3 DEF T1Interrupt, CheckFailsafe, vars, host, history
    <2> QED BY <2>1, <2>2 DEF FreshInv, Answered, Asked, Replied
  <1> QED BY <1>1, <1>2, <1>3, FreshSync, FreshRead, FreshTake, FreshReply, FreshLose
          DEF Next, HostWorks, Answering, BoardWorks

-----------------------------------------------------------------------------
(* The theorems *)

\* Every step preserves the types; a write that is executed was owed.
LEMMA NextTypes == TypeInv /\ OwedInv /\ [Next]_vars => TypeInv'
  <1> SUFFICES ASSUME TypeInv, OwedInv, [Next]_vars PROVE TypeInv'
    OBVIOUS
  <1>1. ASSUME NEW c \in Writes, Write(c) PROVE TypeInv'
    <2>1. owed' \in [Writes -> Nat] /\ c \in Commands
      BY <1>1 DEF Write, TypeInv, Commands
    <2> QED BY <1>1, <2>1, SendTypes DEF Write, TypeInv, TypeOK
  <1>2. CASE PartialRead
    <2>1. updateState' \in 1..Len(Cycle)
      BY <1>2, PartialSends
    <2>2. Send(Cycle[updateState']) /\ Cycle[updateState'] \in Commands
      BY <1>2, <2>1, Lengths DEF PartialRead, Commands
    <2>3. updateState' \in 0..Len(Cycle) /\ telemetry' \subseteq Reads /\ hollow' \subseteq hollow
      BY <1>2, <2>1, Lengths DEF PartialRead, TypeInv, TypeOK
    <2>4. reported' \in BOOLEAN /\ owed' \in [Writes -> Nat]
      BY <1>2 DEF PartialRead, TypeInv
    <2> QED BY <2>2, <2>3, <2>4, SendTypes
  <1>3. CASE ReplyData
    <2>1. owed' \in [Writes -> Nat]
      BY <1>3 DEF ReplyData, TypeInv
    <2> QED BY <1>3, <2>1, ExecuteTypes
  <1>4. CASE Execute
    BY <1>4, OwedExecute, ExecuteTypes
  <1>5. CASE UNCHANGED vars
    BY <1>5 DEF vars, line, host, board, motor, history, TypeInv, TypeOK, InCall
  <1> QED BY <1>1, <1>2, <1>3, <1>4, <1>5, HostTypes, SyncTypes, TakeTypes, RefuseTypes, OtherTypes
          DEF Next, HostWorks, Answering, BoardWorks

\* Every step preserves the account of what is owed.
LEMMA NextOwed == TypeInv /\ InPieces /\ OwedInv /\ [Next]_vars => OwedInv'
  <1> SUFFICES ASSUME TypeInv, InPieces, OwedInv, [Next]_vars PROVE OwedInv'
    OBVIOUS
  <1>1. ASSUME NEW d \in Writes, Write(d) PROVE OwedInv'
    <2>1. /\ d \in Commands /\ Send(d) /\ owed' \in [Writes -> Nat]
          /\ \A c \in Writes : owed'[c] = owed[c] + IF c = d THEN 1 ELSE 0
      BY <1>1 DEF Write, TypeInv, Commands
    <2> QED BY <2>1, OwedSend
  <1>2. CASE PartialRead
    <2>1. PICK i \in 1..Len(Cycle) : Send(Cycle[i])
      BY <1>2, PartialSends
    <2>2. Cycle[i] \in Commands /\ \A c \in Writes : c # Cycle[i]
      BY <2>1, Lengths, CodesDiffer DEF Commands
    <2>3. /\ owed' \in [Writes -> Nat]
          /\ \A c \in Writes : owed'[c] = owed[c] + IF c = Cycle[i] THEN 1 ELSE 0
      BY <1>2, <2>2 DEF PartialRead, TypeInv
    <2> QED BY <2>1, <2>2, <2>3, OwedSend
  <1> QED BY <1>1, <1>2, OwedHost, OwedTakeCode, OwedTail, OwedExecute, OwedOther
          DEF Next, HostWorks, Answering, BoardWorks

\* Every step moves the bytes to the board in one of four ways.
LEMMA NextInPieces == TypeInv /\ InPieces /\ [Next]_vars => InPieces'
  <1> SUFFICES ASSUME TypeInv, InPieces, [Next]_vars PROVE InPieces'
    OBVIOUS
  <1>1. CASE (\E c \in Writes : Write(c)) \/ PartialRead
    <2>1. PICK c \in Commands : Send(c)
      <3>1. CASE PartialRead
        <4>1. PICK i \in 1..Len(Cycle) : Send(Cycle[i])
          BY <3>1, PartialSends
        <4> QED BY <4>1, Lengths DEF Commands
      <3> QED BY <1>1, <3>1 DEF Write, Commands
    <2> QED BY <2>1, NextPieces DEF Send
  <1>2. CASE Sync \/ HostWorks
    <2>1. up' = up \/ up' = Append(up, <<"SYNC", 1>>)
      BY <1>2, Outcome DEF Sync, HostWorks, Answering, Elsewhere, Listen, Hush, HushUpTo, Synced
    <2> QED BY <2>1, NextPieces
  <1>3. CASE TakeCode \/ TakeRest \/ Lose
    <2>1. up' = up \/ (up # <<>> /\ up' = Tail(up))
      BY <1>3 DEF TakeCode, TakeCodeArming, TakeRest, Lose
    <2> QED BY <2>1, NextPieces
  <1>4. CASE BadChecksum \/ BusFailure \/ ReplyData \/ Execute \/ T1Interrupt \/ CheckFailsafe
             \/ UNCHANGED vars
    <2>1. up' = up
      BY <1>4 DEF BadChecksum, BusFailure, ReplyData, Execute, Reply, T1Interrupt, CheckFailsafe, vars, line
    <2> QED BY <2>1, NextPieces
  <1> QED BY <1>1, <1>2, <1>3, <1>4 DEF Next, BoardWorks

\* Initially nothing is owed, nothing turns and nothing is under way.
LEMMA InitIInv == Init => IInv
  <1> SUFFICES ASSUME Init PROVE IInv
    OBVIOUS
  <1>1. TypeInv
    BY InitTypes
  <1>2. up = <<>> /\ Len(up) = 0
    BY DEF Init
  <1>3. InPieces
    BY <1>2 DEF InPieces
  <1>4. OwedInv
    <2> SUFFICES ASSUME NEW c \in Writes
                 PROVE  Cardinality(Starts(c)) + (IF bcmd = c THEN 1 ELSE 0) <= owed[c]
      BY DEF OwedInv
    <2>1. Starts(c) = {}
      BY <1>2 DEF Starts
    <2>2. bcmd # c /\ owed[c] = 0
      BY CodesDiffer DEF Init, Commands
    <2> QED BY <2>1, <2>2, FS_EmptySet
  <1>5. FailsafeInv
    <2>1. SetSpeed # None
      BY CommandsFit, CodesDiffer DEF Commands
    <2> QED BY <2>1 DEF Init, FailsafeInv
  <1>6. CycleInv /\ SyncInv /\ ResultInv
    BY DEF Init, CycleInv, SyncInv, ResultInv
  <1>7. FreshInv
    BY DEF Init, FreshInv, InStep
  <1> QED BY <1>1, <1>3, <1>4, <1>5, <1>6, <1>7 DEF IInv

\* A call starts without a result and ends with one.
LEMMA NextResult == TypeInv /\ ResultInv /\ [Next]_vars => ResultInv'
  <1> SUFFICES ASSUME TypeInv, ResultInv, [Next]_vars PROVE ResultInv'
    OBVIOUS
  <1> USE DEF ResultInv
  <1>1. CASE (\E c \in Writes : Write(c)) \/ PartialRead \/ Sync
    BY <1>1 DEF Write, PartialRead, Send, Sync
  <1>2. CASE Answering
    <2>1. hpc # "idle"
      BY <1>2, Outcome DEF InCall
    <2>2. ASSUME NEW ok \in BOOLEAN, NEW came, Finish(ok, came) PROVE hpc' = "idle"
      BY <2>2 DEF Finish
    <2> QED BY <1>2, <2>1, <2>2, Outcome
  <1>4. CASE Listen
    BY <1>4 DEF Listen
  <1>5. CASE Hush
    BY <1>5 DEF Hush, HushUpTo, Synced
  <1>6. CASE BoardWorks \/ T1Interrupt \/ CheckFailsafe \/ Lose \/ UNCHANGED vars
    <2>1. UNCHANGED <<hpc, result>>
      BY <1>6 DEF BoardWorks, TakeCode, TakeCodeArming, TakeRest, BadChecksum, BusFailure, ReplyData,
                  Execute, T1Interrupt, CheckFailsafe, Lose, host, vars
    <2> QED BY <2>1
  <1> QED BY <1>1, <1>2, <1>4, <1>5, <1>6 DEF Next, HostWorks, Answering

\* Every step preserves the invariant.
LEMMA NextIInv == IInv /\ [Next]_vars => IInv'
  <1> SUFFICES ASSUME IInv, [Next]_vars PROVE IInv'
    OBVIOUS
  <1>1. SyncInv'
    BY NextSync DEF IInv
  <1> QED BY <1>1, NextTypes, NextInPieces, NextOwed, NextFailsafe, NextCycle, NextResult, NextFresh DEF IInv

\* The invariant holds throughout.
THEOREM SpecIInv == Spec => []IInv
  BY InitIInv, NextIInv, PTL DEF Spec

\* What the board may be trusted with, whatever comes over the line: it does nothing
\* more often than it was asked to, and motors that turn have a timer behind them.
THEOREM SpecBoardInHand == Spec => []BoardInHand
  <1>1. IInv => BoardInHand
    <2> SUFFICES ASSUME IInv PROVE BoardInHand
      OBVIOUS
    <2>1. TypeOK
      BY DEF IInv, TypeInv
    <2>2. NothingUnasked
      BY DEF IInv, TypeInv, NothingUnasked
    <2>3. FailsafeArmed
      BY DEF IInv, FailsafeInv, FailsafeArmed
    <2> QED BY <2>1, <2>2, <2>3 DEF BoardInHand
  <1> QED BY <1>1, SpecIInv, PTL

\* As long as the two are in step a success was executed in this call and a read that
\* succeeded holds its value, or nothing came after the code of its reply and it is one
\* of the reads that do not notice.
THEOREM SpecSuccessIsFresh == Spec => []SuccessIsFresh
  <1>1. IInv => SuccessIsFresh
    <2> SUFFICES ASSUME IInv, result \in {"SB_OK", "SB_UPDATEDONE"}, ~dirty, ~misread
                 PROVE  done /\ (cmd \in Reads => cmd \in telemetry \/ WithoutValue)
      BY DEF SuccessIsFresh
    <2>1. hpc = "idle"
      BY DEF IInv, ResultInv
    <2>2. Answered /\ hollow \subseteq Zeroed \cup Unset
      BY <2>1 DEF IInv, FreshInv, TypeInv
    <2> QED BY <2>2 DEF Answered, WithoutValue
  <1> QED BY <1>1, SpecIInv, PTL

\* A sync in which nothing is lost and nothing late succeeds, and leaves the board at
\* the start of a command with nothing under way.
THEOREM SpecSyncBringsInStep == Spec => []SyncBringsInStep
  <1>1. IInv => SyncBringsInStep
    BY DEF IInv, SyncInv, InStep, SyncBringsInStep
  <1> QED BY <1>1, SpecIInv, PTL

\* A cycle of reads that is done without an error is complete, but for the items whose
\* error is masked and those cut off after their code that do not notice.
THEOREM SpecCycleIsComplete == Spec => []CycleIsComplete
  <1>1. IInv => CycleIsComplete
    BY DEF IInv, CycleInv, InCall, TypeInv, CycleIsComplete
  <1> QED BY <1>1, SpecIInv, PTL

-----------------------------------------------------------------------------
(* The driver's object: its mutex and its destructor *)

Board == INSTANCE SensorBoard

\* Why the mutex is enough: it is held in the two short stretches of
\* establishConnection() and of the destructor, too.
HolderInv ==
    \A t \in Board!Threads :
        /\ pc[t] = "sync" => holder = t /\ call[t] \in Board!Unlocked
        /\ pc[t] = "close" => holder = t

\* Who talks has something to say.
TalkInv == \A t \in Board!Threads : pc[t] = "talk" => todo[t] # <<>>

\* The file is closed only by a thread that is about to open it again, and by the
\* destructor.
FileInv == fd = 0 => destroyed \/ \E t \in Board!Threads : pc[t] = "reopen"

\* The destructor runs alone, and after the join without the loop.
DestructorInv ==
    /\ call[Loop] \in {"none", "update"} /\ pc[Loop] \notin {"join", "close"}
    /\ \A c \in Clients :
        /\ pc[c] \in {"join", "close"} => call[c] = "destructor"
        /\ pc[c] = "ended" => destroyed
        /\ call[c] = "destructor" =>
            /\ pc[c] \in {"join", "lock", "close", "ended"}
            /\ \A d \in Clients \ {c} : pc[d] = "idle"
            /\ pc[c] # "join" => pc[Loop] = "ended"
    /\ destroyed => pc[Loop] = "ended"

\* A marker that was chosen is noted as dropped, or is being dropped under the mutex.
PickInv ==
    \A m \in Board!Markers :
        picks[m] # 0 => m \in dropped
                        \/ \E c \in Clients : marker[c] = m /\ call[c] = "dropMarker" /\ Board!InDevice(c)

DeviceInv == Board!DeviceGuarded /\ HolderInv /\ TalkInv /\ FileInv /\ DestructorInv /\ PickInv

-----------------------------------------------------------------------------

\* What is said of the driver's state here and there is the same.
LEMMA SameGuard == Board!DeviceGuarded <=> DeviceGuarded
  BY DEF Board!DeviceGuarded, Board!DeviceTypeOK, Board!ExchangesUndisturbed, Board!MarkersPickedOnce,
         Board!QuietAfterDestruction, Board!InDevice, Board!Threads, Board!Markers, Board!Words,
         Board!Exchanges, Board!Unlocked, Board!Places,
         DeviceGuarded, DeviceTypeOK, ExchangesUndisturbed, MarkersPickedOnce, QuietAfterDestruction,
         InDevice, Threads, Markers, Words, Exchanges, Unlocked, Places

\* The threads are distinct, and the mutex tells them from nobody.
LEMMA DeviceThreads == Loop \notin Clients /\ Nobody \notin Board!Threads /\ Initial \in Speeds
  BY DistinctThreads DEF Threads, Board!Threads

\* What the places and the calls are, as the provers need them.
LEMMA CallsAndExchanges ==
    /\ DOMAIN Board!Exchanges = {"update", "setThrusterEnable", "setExtraThrusterSpeed", "fireTorpedo",
                           "dropMarker", "dropMarkerIndex", "setDVLPowerEnabled", "destructor", "none"}
    /\ \A k \in DOMAIN Board!Exchanges : Board!Exchanges[k] \in Seq(Board!Words)
<1>1. DOMAIN Board!Exchanges = {"update", "setThrusterEnable", "setExtraThrusterSpeed", "fireTorpedo",
                         "dropMarker", "dropMarkerIndex", "setDVLPowerEnabled", "destructor", "none"}
  BY DEF Board!Exchanges
<1>2. ASSUME NEW k \in DOMAIN Board!Exchanges PROVE Board!Exchanges[k] \in Seq(Board!Words)
  <2>1. CASE k = "update"
    <3>1. Board!Exchanges[k] = <<"setSpeeds", "partialRead", "readDepth">> BY <2>1 DEF Board!Exchanges
    <3>. QED BY <3>1 DEF Board!Words
  <2>2. CASE k = "setThrusterEnable"
    <3>1. Board!Exchanges[k] = <<"setThrusterSafety">> BY <2>2 DEF Board!Exchanges
    <3>. QED BY <3>1 DEF Board!Words
  <2>3. CASE k = "setExtraThrusterSpeed"
    <3>1. Board!Exchanges[k] = <<"setDerpyPower", "setDerpySpeed">> BY <2>3 DEF Board!Exchanges
    <3>. QED BY <3>1 DEF Board!Words
  <2>4. CASE k = "fireTorpedo"
    <3>1. Board!Exchanges[k] = <<"fireTorpedo(0)">> BY <2>4 DEF Board!Exchanges
    <3>. QED BY <3>1 DEF Board!Words
  <2>5. CASE k \in {"dropMarker", "destructor", "none"}
    <3>1. Board!Exchanges[k] = <<>> BY <2>5 DEF Board!Exchanges
    <3>. QED BY <3>1
  <2>6. CASE k = "dropMarkerIndex"
    <3>1. Board!Exchanges[k] = <<"marker">> BY <2>6 DEF Board!Exchanges
    <3>. QED BY <3>1 DEF Board!Words
  <2>7. CASE k = "setDVLPowerEnabled"
    <3>1. Board!Exchanges[k] = <<"DVLOn">> BY <2>7 DEF Board!Exchanges
    <3>. QED BY <3>1 DEF Board!Words
  <2>. QED BY <1>1, <1>2, <2>1, <2>2, <2>3, <2>4, <2>5, <2>6, <2>7
<1>. QED BY <1>1, <1>2

\* Nobody is at the board at first.
LEMMA InitDevice == Board!Init => DeviceInv
<1> SUFFICES ASSUME Board!Init PROVE DeviceInv OBVIOUS
<1>1. Board!DeviceTypeOK
  <2>1. call \in [Board!Threads -> DOMAIN Board!Exchanges]
    BY CallsAndExchanges DEF Board!Init
  <2>2. todo \in [Board!Threads -> Seq(Board!Words)]
    BY DEF Board!Init
  <2>3. /\ {commanded, copy, sent, wanted} \subseteq Speeds
        /\ {running, destroyed, overtaken} \subseteq BOOLEAN
    BY DeviceThreads DEF Board!Init
  <2>. QED
    BY <2>1, <2>2, <2>3, CallsAssumption DEF Board!Init, Board!DeviceTypeOK, Board!InDevice, Board!Places,
           Board!Markers
<1>2. Board!ExchangesUndisturbed /\ Board!MarkersPickedOnce /\ Board!QuietAfterDestruction
  BY DEF Board!Init, Board!ExchangesUndisturbed, Board!MarkersPickedOnce, Board!QuietAfterDestruction
<1>3. HolderInv /\ TalkInv /\ FileInv /\ PickInv
  BY DEF Board!Init, HolderInv, TalkInv, FileInv, PickInv
<1>4. DestructorInv
  BY DEF Board!Init, DestructorInv, Board!Threads
<1>. QED BY <1>1, <1>2, <1>3, <1>4 DEF DeviceInv, Board!DeviceGuarded

\* The mutex is taken,
LEMMA LockDevice == ASSUME DeviceInv, NEW t \in Board!Threads, Board!Lock(t) PROVE DeviceInv'
<1>. USE DeviceThreads DEF Board!Lock, Board!state, Board!device, Board!thread, Board!history, Board!Go,
                           Board!InDevice, Board!Done, Board!Leaving
<1>1. Board!DeviceTypeOK'
  BY CallsAndExchanges DEF DeviceInv, Board!DeviceGuarded, Board!DeviceTypeOK, Board!Places, Board!Threads,
                           Board!Markers, HolderInv
<1>2. Board!ExchangesUndisturbed'
  BY DEF DeviceInv, Board!DeviceGuarded, Board!DeviceTypeOK, Board!ExchangesUndisturbed, Board!Places,
         Board!Threads, HolderInv, FileInv, DestructorInv
<1>3. Board!MarkersPickedOnce'
  BY DEF DeviceInv, Board!DeviceGuarded, Board!DeviceTypeOK, Board!MarkersPickedOnce, PickInv,
         Board!Threads, Board!Markers
<1>4. Board!QuietAfterDestruction'
  BY DEF DeviceInv, Board!DeviceGuarded, Board!DeviceTypeOK, Board!QuietAfterDestruction, Board!Threads,
         DestructorInv, Board!Places
<1>5. HolderInv'
  BY DEF DeviceInv, Board!DeviceGuarded, Board!DeviceTypeOK, HolderInv, Board!Threads, Board!Places
<1>6. FileInv'
  BY DEF DeviceInv, Board!DeviceGuarded, Board!DeviceTypeOK, FileInv, Board!Threads, Board!Places, HolderInv
<1>7. DestructorInv'
  BY DEF DeviceInv, Board!DeviceGuarded, Board!DeviceTypeOK, DestructorInv, Board!QuietAfterDestruction,
         Board!Threads, Board!Places
<1>8. PickInv'
  BY DEF DeviceInv, Board!DeviceGuarded, Board!DeviceTypeOK, PickInv, Board!Threads, Board!Markers,
         Board!Places
<1>9. TalkInv'
  BY DEF DeviceInv, Board!DeviceGuarded, Board!DeviceTypeOK, TalkInv, Board!Threads, Board!Places
<1>. QED BY <1>1, <1>2, <1>3, <1>4, <1>5, <1>6, <1>7, <1>8, <1>9 DEF DeviceInv, Board!DeviceGuarded

\* a marker is chosen,
LEMMA PickMarkerDevice == ASSUME DeviceInv, NEW t \in Board!Threads, Board!PickMarker(t) PROVE DeviceInv'
<1>. USE DeviceThreads DEF Board!PickMarker, Board!state, Board!device, Board!thread, Board!history,
                           Board!Go, Board!InDevice, Board!Done, Board!Leaving
<1>1. Board!DeviceTypeOK'
  <2>. USE DEF DeviceInv, Board!DeviceGuarded, Board!DeviceTypeOK, Board!Places, Board!Threads,
               Board!Markers, HolderInv
  <2>1. /\ pc' \in [Board!Threads -> Board!Places]
        /\ call' \in [Board!Threads -> DOMAIN Board!Exchanges]
        /\ marker' \in [Board!Threads -> {0} \cup Board!Markers]
    <3>1. PICK m \in Board!Markers : marker' = [marker EXCEPT ![t] = m]
      OBVIOUS
    <3>. QED BY <3>1
  <2>2. todo' \in [Board!Threads -> Seq(Board!Words)]
    BY CallsAndExchanges DEF Board!Words
  <2>3. /\ holder' \in Board!Threads \cup {Nobody}
        /\ opened' \in Nat \ {0} /\ fd' \in 0..opened'
        /\ using' \in [Board!Threads -> 0..opened']
    OBVIOUS
  <2>4. /\ {commanded', copy', sent', wanted'} \subseteq Speeds
        /\ dropped' \subseteq Board!Markers
        /\ {running', destroyed', overtaken'} \subseteq BOOLEAN
    OBVIOUS
  <2>5. /\ calls' \in 0..MaxCalls /\ errors' \in 0..MaxErrors
        /\ picks' \in [Board!Markers -> Nat]
    BY CallsAssumption
  <2>6. \A u \in Board!Threads : Board!InDevice(u)' => holder' = u
    BY DEF DestructorInv
  <2>. QED BY <2>1, <2>2, <2>3, <2>4, <2>5, <2>6
<1>2. Board!ExchangesUndisturbed'
  BY DEF DeviceInv, Board!DeviceGuarded, Board!DeviceTypeOK, Board!ExchangesUndisturbed, Board!Places,
         Board!Threads, HolderInv, FileInv, DestructorInv
<1>3. Board!MarkersPickedOnce'
  BY DEF DeviceInv, Board!DeviceGuarded, Board!DeviceTypeOK, Board!MarkersPickedOnce, PickInv,
         Board!Threads, Board!Markers
<1>4. Board!QuietAfterDestruction'
  BY DEF DeviceInv, Board!DeviceGuarded, Board!DeviceTypeOK, Board!QuietAfterDestruction, Board!Threads,
         DestructorInv, Board!Places
<1>5. HolderInv'
  BY DEF DeviceInv, Board!DeviceGuarded, Board!DeviceTypeOK, HolderInv, Board!Threads, Board!Places
<1>6. FileInv'
  BY DEF DeviceInv, Board!DeviceGuarded, Board!DeviceTypeOK, FileInv, Board!Threads, Board!Places, HolderInv
<1>7. DestructorInv'
  BY DEF DeviceInv, Board!DeviceGuarded, Board!DeviceTypeOK, DestructorInv, Board!QuietAfterDestruction,
         Board!Threads, Board!Places
<1>8. PickInv'
  <2>. USE DEF DeviceInv, Board!DeviceGuarded, Board!DeviceTypeOK, PickInv, Board!Threads, Board!Places
  <2>1. PICK m \in Board!Markers : /\ marker' = [marker EXCEPT ![t] = m]
                             /\ picks' = [picks EXCEPT ![m] = @ + 1]
    OBVIOUS
  <2>2. t \in Clients /\ call'[t] = "dropMarker" /\ Board!InDevice(t)'
    <3>1. call[Loop] \in {"none", "update"} BY DEF DestructorInv
    <3>2. t \in Clients BY <3>1
    <3>3. call'[t] = "dropMarker" /\ pc'[t] = "ready" OBVIOUS
    <3>. QED BY <3>2, <3>3 DEF Board!Unlocked
  <2>3. ASSUME NEW n \in Board!Markers, n # m, picks'[n] # 0
        PROVE  n \in dropped' \/ \E c \in Clients : marker'[c] = n /\ call'[c] = "dropMarker" /\ Board!InDevice(c)'
    <3>1. picks[n] # 0 BY <2>1, <2>3
    <3>2. \A c \in Clients : marker[c] = n => c # t BY DEF Board!Markers
    <3>. QED BY <2>1, <3>1, <3>2
  <2>. QED BY <2>1, <2>2, <2>3
<1>9. TalkInv'
  BY DEF DeviceInv, Board!DeviceGuarded, Board!DeviceTypeOK, TalkInv, Board!Threads, Board!Places
<1>. QED BY <1>1, <1>2, <1>3, <1>4, <1>5, <1>6, <1>7, <1>8, <1>9 DEF DeviceInv, Board!DeviceGuarded

\* an exchange is begun
LEMMA BeginDevice == ASSUME DeviceInv, NEW t \in Board!Threads, Board!Begin(t) PROVE DeviceInv'
<1>. USE DeviceThreads DEF Board!Begin, Board!state, Board!device, Board!thread, Board!history, Board!Go,
                           Board!InDevice, Board!Done, Board!Leaving
<1>1. Board!DeviceTypeOK'
  BY CallsAndExchanges DEF DeviceInv, Board!DeviceGuarded, Board!DeviceTypeOK, Board!Places, Board!Threads,
                           Board!Markers, HolderInv
<1>2. Board!ExchangesUndisturbed'
  BY DEF DeviceInv, Board!DeviceGuarded, Board!DeviceTypeOK, Board!ExchangesUndisturbed,
         Board!QuietAfterDestruction,
         Board!Places, Board!Threads, FileInv
<1>3. Board!MarkersPickedOnce'
  BY DEF DeviceInv, Board!DeviceGuarded, Board!DeviceTypeOK, Board!MarkersPickedOnce, PickInv,
         Board!Threads, Board!Markers
<1>4. Board!QuietAfterDestruction'
  BY DEF DeviceInv, Board!DeviceGuarded, Board!DeviceTypeOK, Board!QuietAfterDestruction, Board!Threads,
         DestructorInv, Board!Places
<1>5. HolderInv'
  BY DEF DeviceInv, Board!DeviceGuarded, Board!DeviceTypeOK, HolderInv, Board!Threads, Board!Places
<1>6. FileInv'
  BY DEF DeviceInv, Board!DeviceGuarded, Board!DeviceTypeOK, FileInv, Board!Threads, Board!Places, HolderInv
<1>7. DestructorInv'
  BY DEF DeviceInv, Board!DeviceGuarded, Board!DeviceTypeOK, DestructorInv, Board!QuietAfterDestruction,
         Board!Threads, Board!Places
<1>8. PickInv'
  BY DEF DeviceInv, Board!DeviceGuarded, Board!DeviceTypeOK, PickInv, Board!Threads, Board!Markers,
         Board!Places
<1>9. TalkInv'
  BY DEF DeviceInv, Board!DeviceGuarded, Board!DeviceTypeOK, TalkInv, Board!Threads, Board!Places
<1>. QED BY <1>1, <1>2, <1>3, <1>4, <1>5, <1>6, <1>7, <1>8, <1>9 DEF DeviceInv, Board!DeviceGuarded

\* and goes well,
LEMMA SucceedDevice == ASSUME DeviceInv, NEW t \in Board!Threads, Board!Succeed(t),
  pc[t] = "talk" PROVE DeviceInv'
<1>. USE DeviceThreads DEF Board!Succeed, Board!Unlocked, Board!state, Board!device, Board!thread,
                           Board!history, Board!Go, Board!InDevice, Board!Done, Board!Leaving
<1>1. Board!DeviceTypeOK'
  <2>. USE DEF DeviceInv, Board!DeviceGuarded, Board!DeviceTypeOK, Board!Places, Board!Threads,
               Board!Markers, HolderInv
  <2>1. /\ pc' \in [Board!Threads -> Board!Places]
        /\ call' \in [Board!Threads -> DOMAIN Board!Exchanges]
        /\ marker' \in [Board!Threads -> {0} \cup Board!Markers]
    BY CallsAndExchanges
  <2>2. todo' \in [Board!Threads -> Seq(Board!Words)]
    BY DEF TalkInv
  <2>3. /\ holder' \in Board!Threads \cup {Nobody}
        /\ opened' \in Nat \ {0} /\ fd' \in 0..opened'
        /\ using' \in [Board!Threads -> 0..opened']
    OBVIOUS
  <2>4. /\ {commanded', copy', sent', wanted'} \subseteq Speeds
        /\ dropped' \subseteq Board!Markers
        /\ {running', destroyed', overtaken'} \subseteq BOOLEAN
    OBVIOUS
  <2>5. /\ calls' \in 0..MaxCalls /\ errors' \in 0..MaxErrors
        /\ picks' \in [Board!Markers -> Nat]
    BY CallsAssumption
  <2>6. \A u \in Board!Threads : Board!InDevice(u)' => holder' = u
    BY DEF DestructorInv
  <2>. QED BY <2>1, <2>2, <2>3, <2>4, <2>5, <2>6
<1>2. Board!ExchangesUndisturbed'
  BY DEF DeviceInv, Board!DeviceGuarded, Board!DeviceTypeOK, Board!ExchangesUndisturbed, Board!Places,
         Board!Threads, HolderInv, FileInv, DestructorInv
<1>3. Board!MarkersPickedOnce'
  BY DEF DeviceInv, Board!DeviceGuarded, Board!DeviceTypeOK, Board!MarkersPickedOnce, PickInv,
         Board!Threads, Board!Markers
<1>4. Board!QuietAfterDestruction'
  BY DEF DeviceInv, Board!DeviceGuarded, Board!DeviceTypeOK, Board!QuietAfterDestruction, Board!Threads,
         DestructorInv, Board!Places
<1>5. HolderInv'
  BY DEF DeviceInv, Board!DeviceGuarded, Board!DeviceTypeOK, HolderInv, Board!Threads, Board!Places
<1>6. FileInv'
  BY DEF DeviceInv, Board!DeviceGuarded, Board!DeviceTypeOK, FileInv, Board!Threads, Board!Places, HolderInv
<1>7. DestructorInv'
  BY DEF DeviceInv, Board!DeviceGuarded, Board!DeviceTypeOK, DestructorInv, Board!QuietAfterDestruction,
         Board!Threads, Board!Places
<1>8. PickInv'
  BY DEF DeviceInv, Board!DeviceGuarded, Board!DeviceTypeOK, PickInv, Board!Threads, Board!Markers,
         Board!Places
<1>9. TalkInv'
  BY DEF DeviceInv, Board!DeviceGuarded, Board!DeviceTypeOK, TalkInv, Board!Threads, Board!Places
<1>. QED BY <1>1, <1>2, <1>3, <1>4, <1>5, <1>6, <1>7, <1>8, <1>9 DEF DeviceInv, Board!DeviceGuarded

\* or does not: the file is closed.
LEMMA FailDevice == ASSUME DeviceInv, NEW t \in Board!Threads, Board!Fail(t),
  pc[t] = "talk" PROVE DeviceInv'
<1>. USE DeviceThreads DEF Board!Fail, Board!Unlocked, Board!state, Board!device, Board!thread,
                           Board!history, Board!Go, Board!InDevice, Board!Done, Board!Leaving
<1>1. Board!DeviceTypeOK'
  <2>. USE DEF DeviceInv, Board!DeviceGuarded, Board!DeviceTypeOK, Board!Places, Board!Threads,
               Board!Markers, HolderInv
  <2>1. /\ pc' \in [Board!Threads -> Board!Places]
        /\ call' \in [Board!Threads -> DOMAIN Board!Exchanges]
        /\ marker' \in [Board!Threads -> {0} \cup Board!Markers]
    BY CallsAndExchanges
  <2>2. todo' \in [Board!Threads -> Seq(Board!Words)]
    BY DEF TalkInv
  <2>3. /\ holder' \in Board!Threads \cup {Nobody}
        /\ opened' \in Nat \ {0} /\ fd' \in 0..opened'
        /\ using' \in [Board!Threads -> 0..opened']
    OBVIOUS
  <2>4. /\ {commanded', copy', sent', wanted'} \subseteq Speeds
        /\ dropped' \subseteq Board!Markers
        /\ {running', destroyed', overtaken'} \subseteq BOOLEAN
    OBVIOUS
  <2>5. /\ calls' \in 0..MaxCalls /\ errors' \in 0..MaxErrors
        /\ picks' \in [Board!Markers -> Nat]
    BY CallsAssumption
  <2>6. \A u \in Board!Threads : Board!InDevice(u)' => holder' = u
    BY DEF DestructorInv
  <2>. QED BY <2>1, <2>2, <2>3, <2>4, <2>5, <2>6
<1>2. Board!ExchangesUndisturbed'
  <2>. USE DEF DeviceInv, Board!DeviceGuarded, Board!DeviceTypeOK, Board!ExchangesUndisturbed,
               Board!Places, Board!Threads
  <2>1. \A u, v \in Board!Threads : u # v /\ pc'[u] = "talk" /\ pc'[v] = "talk" =>
          call'[u] \in Board!Unlocked \/ call'[v] \in Board!Unlocked
    BY SMTT(60)
  <2>2. ASSUME NEW u \in Board!Threads, pc'[u] = "talk", using'[u] # fd' \/ fd' = 0
        PROVE  call'[u] \in Board!Unlocked \/ \E v \in Board!Threads : pc'[v] = "reopen" /\ call'[v] \in Board!Unlocked
    <3>1. u # t /\ pc[u] = "talk" /\ using'[u] = using[u] /\ call' = call
      BY <2>2
    <3>2. CASE Head(todo[t]) = "marker"
      <4>1. fd' = fd /\ \A v \in Board!Threads : pc[v] = "reopen" => pc'[v] = "reopen"
        BY <3>2
      <4>2. call[u] \in Board!Unlocked \/ \E v \in Board!Threads : pc[v] = "reopen" /\ call[v] \in Board!Unlocked
        BY <2>2, <3>1, <4>1
      <4>. QED BY <3>1, <4>1, <4>2
    <3>3. CASE Head(todo[t]) # "marker"
      <4>1. pc'[t] = "reopen"
        BY <3>3
      <4>2. call[u] \in Board!Unlocked \/ call[t] \in Board!Unlocked
        BY <3>1
      <4>. QED BY <3>1, <4>1, <4>2
    <3>. QED BY <3>2, <3>3
  <2>. QED BY <2>1, <2>2
<1>3. Board!MarkersPickedOnce'
  BY DEF DeviceInv, Board!DeviceGuarded, Board!DeviceTypeOK, Board!MarkersPickedOnce, PickInv,
         Board!Threads, Board!Markers
<1>4. Board!QuietAfterDestruction'
  BY DEF DeviceInv, Board!DeviceGuarded, Board!DeviceTypeOK, Board!QuietAfterDestruction, Board!Threads,
         DestructorInv, Board!Places
<1>5. HolderInv'
  BY DEF DeviceInv, Board!DeviceGuarded, Board!DeviceTypeOK, HolderInv, Board!Threads, Board!Places
<1>6. FileInv'
  BY DEF DeviceInv, Board!DeviceGuarded, Board!DeviceTypeOK, FileInv, Board!Threads, Board!Places, HolderInv
<1>7. DestructorInv'
  BY SMTT(60) DEF DeviceInv, Board!DeviceGuarded, Board!DeviceTypeOK, DestructorInv,
                  Board!QuietAfterDestruction, Board!Threads, Board!Places
<1>8. PickInv'
  BY DEF DeviceInv, Board!DeviceGuarded, Board!DeviceTypeOK, PickInv, Board!Threads, Board!Markers,
         Board!Places
<1>9. TalkInv'
  BY DEF DeviceInv, Board!DeviceGuarded, Board!DeviceTypeOK, TalkInv, Board!Threads, Board!Places
<1>. QED BY <1>1, <1>2, <1>3, <1>4, <1>5, <1>6, <1>7, <1>8, <1>9 DEF DeviceInv, Board!DeviceGuarded

\* The file is opened again
LEMMA ReopenDevice == ASSUME DeviceInv, NEW t \in Board!Threads, Board!Reopen(t) PROVE DeviceInv'
<1>. USE DeviceThreads DEF Board!Reopen, Board!state, Board!device, Board!thread, Board!history, Board!Go,
                           Board!InDevice, Board!Done, Board!Leaving
<1>1. Board!DeviceTypeOK'
  <2>. USE DEF DeviceInv, Board!DeviceGuarded, Board!DeviceTypeOK, Board!Places, Board!Threads,
               Board!Markers, HolderInv
  <2>1. /\ pc' \in [Board!Threads -> Board!Places]
        /\ call' \in [Board!Threads -> DOMAIN Board!Exchanges]
        /\ marker' \in [Board!Threads -> {0} \cup Board!Markers]
    BY CallsAndExchanges
  <2>2. todo' \in [Board!Threads -> Seq(Board!Words)]
    BY CallsAndExchanges DEF Board!Words
  <2>3. /\ holder' \in Board!Threads \cup {Nobody}
        /\ opened' \in Nat \ {0} /\ fd' \in 0..opened'
        /\ using' \in [Board!Threads -> 0..opened']
    OBVIOUS
  <2>4. /\ {commanded', copy', sent', wanted'} \subseteq Speeds
        /\ dropped' \subseteq Board!Markers
        /\ {running', destroyed', overtaken'} \subseteq BOOLEAN
    OBVIOUS
  <2>5. /\ calls' \in 0..MaxCalls /\ errors' \in 0..MaxErrors
        /\ picks' \in [Board!Markers -> Nat]
    BY CallsAssumption
  <2>6. \A u \in Board!Threads : Board!InDevice(u)' => holder' = u
    BY DEF DestructorInv
  <2>. QED BY <2>1, <2>2, <2>3, <2>4, <2>5, <2>6
<1>2. Board!ExchangesUndisturbed'
  BY DEF DeviceInv, Board!DeviceGuarded, Board!DeviceTypeOK, Board!ExchangesUndisturbed, Board!Places,
         Board!Threads, HolderInv, FileInv, DestructorInv
<1>3. Board!MarkersPickedOnce'
  BY DEF DeviceInv, Board!DeviceGuarded, Board!DeviceTypeOK, Board!MarkersPickedOnce, PickInv,
         Board!Threads, Board!Markers
<1>4. Board!QuietAfterDestruction'
  BY DEF DeviceInv, Board!DeviceGuarded, Board!DeviceTypeOK, Board!QuietAfterDestruction, Board!Threads,
         DestructorInv, Board!Places
<1>5. HolderInv'
  BY DEF DeviceInv, Board!DeviceGuarded, Board!DeviceTypeOK, HolderInv, Board!Threads, Board!Places
<1>6. FileInv'
  BY DEF DeviceInv, Board!DeviceGuarded, Board!DeviceTypeOK, FileInv, Board!Threads, Board!Places, HolderInv
<1>7. DestructorInv'
  BY DEF DeviceInv, Board!DeviceGuarded, Board!DeviceTypeOK, DestructorInv, Board!QuietAfterDestruction,
         Board!Threads, Board!Places
<1>8. PickInv'
  BY DEF DeviceInv, Board!DeviceGuarded, Board!DeviceTypeOK, PickInv, Board!Threads, Board!Markers,
         Board!Places
<1>9. TalkInv'
  BY DEF DeviceInv, Board!DeviceGuarded, Board!DeviceTypeOK, TalkInv, Board!Threads, Board!Places
<1>. QED BY <1>1, <1>2, <1>3, <1>4, <1>5, <1>6, <1>7, <1>8, <1>9 DEF DeviceInv, Board!DeviceGuarded

\* and the board brought in step.
LEMMA SyncBoardDevice == ASSUME DeviceInv, NEW t \in Board!Threads, Board!SyncBoard(t) PROVE DeviceInv'
<1>. USE DeviceThreads DEF Board!SyncBoard, Board!state, Board!device, Board!thread, Board!history,
                           Board!Go, Board!InDevice, Board!Done, Board!Leaving
<1>1. Board!DeviceTypeOK'
  BY CallsAndExchanges DEF DeviceInv, Board!DeviceGuarded, Board!DeviceTypeOK, Board!Places, Board!Threads,
                           Board!Markers, HolderInv
<1>2. Board!ExchangesUndisturbed'
  BY DEF DeviceInv, Board!DeviceGuarded, Board!DeviceTypeOK, Board!ExchangesUndisturbed, Board!Places,
         Board!Threads, HolderInv, FileInv, DestructorInv
<1>3. Board!MarkersPickedOnce'
  BY DEF DeviceInv, Board!DeviceGuarded, Board!DeviceTypeOK, Board!MarkersPickedOnce, PickInv,
         Board!Threads, Board!Markers
<1>4. Board!QuietAfterDestruction'
  BY DEF DeviceInv, Board!DeviceGuarded, Board!DeviceTypeOK, Board!QuietAfterDestruction, Board!Threads,
         DestructorInv, Board!Places
<1>5. HolderInv'
  BY DEF DeviceInv, Board!DeviceGuarded, Board!DeviceTypeOK, HolderInv, Board!Threads, Board!Places
<1>6. FileInv'
  BY DEF DeviceInv, Board!DeviceGuarded, Board!DeviceTypeOK, FileInv, Board!Threads, Board!Places, HolderInv
<1>7. DestructorInv'
  BY DEF DeviceInv, Board!DeviceGuarded, Board!DeviceTypeOK, DestructorInv, Board!QuietAfterDestruction,
         Board!Threads, Board!Places
<1>8. PickInv'
  BY DEF DeviceInv, Board!DeviceGuarded, Board!DeviceTypeOK, PickInv, Board!Threads, Board!Markers,
         Board!Places
<1>9. TalkInv'
  BY DEF DeviceInv, Board!DeviceGuarded, Board!DeviceTypeOK, TalkInv, Board!Threads, Board!Places
<1>. QED BY <1>1, <1>2, <1>3, <1>4, <1>5, <1>6, <1>7, <1>8, <1>9 DEF DeviceInv, Board!DeviceGuarded

\* A call returns.
LEMMA ReturnDevice == ASSUME DeviceInv, NEW t \in Board!Threads, Board!Return(t) PROVE DeviceInv'
<1>. USE DeviceThreads DEF Board!Return, Board!Unlocked, Board!state, Board!device, Board!thread,
                           Board!history, Board!Go, Board!InDevice, Board!Done, Board!Leaving
<1>1. Board!DeviceTypeOK'
  BY CallsAndExchanges DEF DeviceInv, Board!DeviceGuarded, Board!DeviceTypeOK, Board!Places, Board!Threads,
                           Board!Markers, HolderInv
<1>2. Board!ExchangesUndisturbed'
  BY DEF DeviceInv, Board!DeviceGuarded, Board!DeviceTypeOK, Board!ExchangesUndisturbed, Board!Places,
         Board!Threads, HolderInv, FileInv, DestructorInv
<1>3. Board!MarkersPickedOnce'
  BY DEF DeviceInv, Board!DeviceGuarded, Board!DeviceTypeOK, Board!MarkersPickedOnce, PickInv,
         Board!Threads, Board!Markers
<1>4. Board!QuietAfterDestruction'
  BY DEF DeviceInv, Board!DeviceGuarded, Board!DeviceTypeOK, Board!QuietAfterDestruction, Board!Threads,
         DestructorInv, Board!Places
<1>5. HolderInv'
  BY DEF DeviceInv, Board!DeviceGuarded, Board!DeviceTypeOK, HolderInv, Board!Threads, Board!Places
<1>6. FileInv'
  BY DEF DeviceInv, Board!DeviceGuarded, Board!DeviceTypeOK, FileInv, Board!Threads, Board!Places, HolderInv
<1>7. DestructorInv'
  BY DEF DeviceInv, Board!DeviceGuarded, Board!DeviceTypeOK, DestructorInv, Board!QuietAfterDestruction,
         Board!Threads, Board!Places
<1>8. PickInv'
  BY DEF DeviceInv, Board!DeviceGuarded, Board!DeviceTypeOK, PickInv, Board!Threads, Board!Markers,
         Board!Places
<1>9. TalkInv'
  BY DEF DeviceInv, Board!DeviceGuarded, Board!DeviceTypeOK, TalkInv, Board!Threads, Board!Places
<1>. QED BY <1>1, <1>2, <1>3, <1>4, <1>5, <1>6, <1>7, <1>8, <1>9 DEF DeviceInv, Board!DeviceGuarded

\* The loop copies the state,
LEMMA CopyStateDevice == ASSUME DeviceInv, Board!CopyState PROVE DeviceInv'
<1>. USE DeviceThreads DEF Board!CopyState, Board!state, Board!device, Board!thread, Board!history,
                           Board!Go, Board!InDevice, Board!Done, Board!Leaving
<1>1. Board!DeviceTypeOK'
  BY CallsAndExchanges DEF DeviceInv, Board!DeviceGuarded, Board!DeviceTypeOK, Board!Places, Board!Threads,
                           Board!Markers, HolderInv
<1>2. Board!ExchangesUndisturbed'
  BY DEF DeviceInv, Board!DeviceGuarded, Board!DeviceTypeOK, Board!ExchangesUndisturbed, Board!Places,
         Board!Threads, HolderInv, FileInv, DestructorInv
<1>3. Board!MarkersPickedOnce'
  BY DEF DeviceInv, Board!DeviceGuarded, Board!DeviceTypeOK, Board!MarkersPickedOnce, PickInv,
         Board!Threads, Board!Markers
<1>4. Board!QuietAfterDestruction'
  BY DEF DeviceInv, Board!DeviceGuarded, Board!DeviceTypeOK, Board!QuietAfterDestruction, Board!Threads,
         DestructorInv, Board!Places
<1>5. HolderInv'
  BY DEF DeviceInv, Board!DeviceGuarded, Board!DeviceTypeOK, HolderInv, Board!Threads, Board!Places
<1>6. FileInv'
  BY DEF DeviceInv, Board!DeviceGuarded, Board!DeviceTypeOK, FileInv, Board!Threads, Board!Places, HolderInv
<1>7. DestructorInv'
  BY DEF DeviceInv, Board!DeviceGuarded, Board!DeviceTypeOK, DestructorInv, Board!QuietAfterDestruction,
         Board!Threads, Board!Places
<1>8. PickInv'
  BY DEF DeviceInv, Board!DeviceGuarded, Board!DeviceTypeOK, PickInv, Board!Threads, Board!Markers,
         Board!Places
<1>9. TalkInv'
  BY DEF DeviceInv, Board!DeviceGuarded, Board!DeviceTypeOK, TalkInv, Board!Threads, Board!Places
<1>. QED BY <1>1, <1>2, <1>3, <1>4, <1>5, <1>6, <1>7, <1>8, <1>9 DEF DeviceInv, Board!DeviceGuarded

\* lets go of the mutex,
LEMMA UnlockDevice == ASSUME DeviceInv, Board!Unlock PROVE DeviceInv'
<1>. USE DeviceThreads DEF Board!Unlock, Board!Unlocked, Board!state, Board!device, Board!thread,
                           Board!history, Board!Go, Board!InDevice, Board!Done, Board!Leaving
<1>1. Board!DeviceTypeOK'
  <2>. USE DEF DeviceInv, Board!DeviceGuarded, Board!DeviceTypeOK, Board!Places, Board!Threads,
               Board!Markers, HolderInv
  <2>1. /\ pc' \in [Board!Threads -> Board!Places]
        /\ call' \in [Board!Threads -> DOMAIN Board!Exchanges]
        /\ marker' \in [Board!Threads -> {0} \cup Board!Markers]
    BY CallsAndExchanges
  <2>2. todo' \in [Board!Threads -> Seq(Board!Words)]
    BY CallsAndExchanges DEF Board!Words
  <2>3. /\ holder' \in Board!Threads \cup {Nobody}
        /\ opened' \in Nat \ {0} /\ fd' \in 0..opened'
        /\ using' \in [Board!Threads -> 0..opened']
    OBVIOUS
  <2>4. /\ {commanded', copy', sent', wanted'} \subseteq Speeds
        /\ dropped' \subseteq Board!Markers
        /\ {running', destroyed', overtaken'} \subseteq BOOLEAN
    OBVIOUS
  <2>5. /\ calls' \in 0..MaxCalls /\ errors' \in 0..MaxErrors
        /\ picks' \in [Board!Markers -> Nat]
    BY CallsAssumption
  <2>6. \A u \in Board!Threads : Board!InDevice(u)' => holder' = u
    BY DEF DestructorInv
  <2>. QED BY <2>1, <2>2, <2>3, <2>4, <2>5, <2>6
<1>2. Board!ExchangesUndisturbed'
  BY DEF DeviceInv, Board!DeviceGuarded, Board!DeviceTypeOK, Board!ExchangesUndisturbed, Board!Places,
         Board!Threads, HolderInv, FileInv, DestructorInv
<1>3. Board!MarkersPickedOnce'
  BY DEF DeviceInv, Board!DeviceGuarded, Board!DeviceTypeOK, Board!MarkersPickedOnce, PickInv,
         Board!Threads, Board!Markers
<1>4. Board!QuietAfterDestruction'
  BY DEF DeviceInv, Board!DeviceGuarded, Board!DeviceTypeOK, Board!QuietAfterDestruction, Board!Threads,
         DestructorInv, Board!Places
<1>5. HolderInv'
  BY DEF DeviceInv, Board!DeviceGuarded, Board!DeviceTypeOK, HolderInv, DestructorInv, Board!Threads,
         Board!Places
<1>6. FileInv'
  BY DEF DeviceInv, Board!DeviceGuarded, Board!DeviceTypeOK, FileInv, Board!Threads, Board!Places, HolderInv
<1>7. DestructorInv'
  BY DEF DeviceInv, Board!DeviceGuarded, Board!DeviceTypeOK, DestructorInv, Board!QuietAfterDestruction,
         Board!Threads, Board!Places
<1>8. PickInv'
  BY DEF DeviceInv, Board!DeviceGuarded, Board!DeviceTypeOK, PickInv, Board!Threads, Board!Markers,
         Board!Places
<1>9. TalkInv'
  BY DEF DeviceInv, Board!DeviceGuarded, Board!DeviceTypeOK, TalkInv, Board!Threads, Board!Places
<1>. QED BY <1>1, <1>2, <1>3, <1>4, <1>5, <1>6, <1>7, <1>8, <1>9 DEF DeviceInv, Board!DeviceGuarded

\* writes the state back
LEMMA WriteBackDevice == ASSUME DeviceInv, Board!WriteBack PROVE DeviceInv'
<1>. USE DeviceThreads DEF Board!WriteBack, Board!state, Board!device, Board!thread, Board!history,
                           Board!Go, Board!InDevice, Board!Done, Board!Leaving
<1>1. Board!DeviceTypeOK'
  BY CallsAndExchanges DEF DeviceInv, Board!DeviceGuarded, Board!DeviceTypeOK, Board!Places, Board!Threads,
                           Board!Markers, HolderInv
<1>2. Board!ExchangesUndisturbed'
  BY DEF DeviceInv, Board!DeviceGuarded, Board!DeviceTypeOK, Board!ExchangesUndisturbed, Board!Places,
         Board!Threads, HolderInv, FileInv, DestructorInv
<1>3. Board!MarkersPickedOnce'
  BY DEF DeviceInv, Board!DeviceGuarded, Board!DeviceTypeOK, Board!MarkersPickedOnce, PickInv,
         Board!Threads, Board!Markers
<1>4. Board!QuietAfterDestruction'
  BY DEF DeviceInv, Board!DeviceGuarded, Board!DeviceTypeOK, Board!QuietAfterDestruction, Board!Threads,
         DestructorInv, Board!Places
<1>5. HolderInv'
  BY DEF DeviceInv, Board!DeviceGuarded, Board!DeviceTypeOK, HolderInv, Board!Threads, Board!Places
<1>6. FileInv'
  BY DEF DeviceInv, Board!DeviceGuarded, Board!DeviceTypeOK, FileInv, Board!Threads, Board!Places, HolderInv
<1>7. DestructorInv'
  BY DEF DeviceInv, Board!DeviceGuarded, Board!DeviceTypeOK, DestructorInv, Board!QuietAfterDestruction,
         Board!Threads, Board!Places
<1>8. PickInv'
  BY DEF DeviceInv, Board!DeviceGuarded, Board!DeviceTypeOK, PickInv, Board!Threads, Board!Markers,
         Board!Places
<1>9. TalkInv'
  BY DEF DeviceInv, Board!DeviceGuarded, Board!DeviceTypeOK, TalkInv, Board!Threads, Board!Places
<1>. QED BY <1>1, <1>2, <1>3, <1>4, <1>5, <1>6, <1>7, <1>8, <1>9 DEF DeviceInv, Board!DeviceGuarded

\* and ends.
LEMMA EndLoopDevice == ASSUME DeviceInv, Board!EndLoop PROVE DeviceInv'
<1>. USE DeviceThreads DEF Board!EndLoop, Board!state, Board!device, Board!thread, Board!history, Board!Go,
                           Board!InDevice, Board!Done, Board!Leaving
<1>1. Board!DeviceTypeOK'
  BY CallsAndExchanges DEF DeviceInv, Board!DeviceGuarded, Board!DeviceTypeOK, Board!Places, Board!Threads,
                           Board!Markers, HolderInv
<1>2. Board!ExchangesUndisturbed'
  BY DEF DeviceInv, Board!DeviceGuarded, Board!DeviceTypeOK, Board!ExchangesUndisturbed, Board!Places,
         Board!Threads, HolderInv, FileInv, DestructorInv
<1>3. Board!MarkersPickedOnce'
  BY DEF DeviceInv, Board!DeviceGuarded, Board!DeviceTypeOK, Board!MarkersPickedOnce, PickInv,
         Board!Threads, Board!Markers
<1>4. Board!QuietAfterDestruction'
  BY DEF DeviceInv, Board!DeviceGuarded, Board!DeviceTypeOK, Board!QuietAfterDestruction, Board!Threads,
         DestructorInv, Board!Places
<1>5. HolderInv'
  BY DEF DeviceInv, Board!DeviceGuarded, Board!DeviceTypeOK, HolderInv, Board!Threads, Board!Places
<1>6. FileInv'
  BY DEF DeviceInv, Board!DeviceGuarded, Board!DeviceTypeOK, FileInv, Board!Threads, Board!Places, HolderInv
<1>7. DestructorInv'
  BY DEF DeviceInv, Board!DeviceGuarded, Board!DeviceTypeOK, DestructorInv, Board!QuietAfterDestruction,
         Board!Threads, Board!Places
<1>8. PickInv'
  BY DEF DeviceInv, Board!DeviceGuarded, Board!DeviceTypeOK, PickInv, Board!Threads, Board!Markers,
         Board!Places
<1>9. TalkInv'
  BY DEF DeviceInv, Board!DeviceGuarded, Board!DeviceTypeOK, TalkInv, Board!Threads, Board!Places
<1>. QED BY <1>1, <1>2, <1>3, <1>4, <1>5, <1>6, <1>7, <1>8, <1>9 DEF DeviceInv, Board!DeviceGuarded

\* The destructor is called,
LEMMA DestroyDevice == ASSUME DeviceInv, NEW c \in Clients, Board!Destroy(c) PROVE DeviceInv'
<1>. USE DeviceThreads DEF Board!Destroy, Board!state, Board!device, Board!thread, Board!history, Board!Go,
                           Board!InDevice, Board!Done, Board!Leaving
<1>1. Board!DeviceTypeOK'
  BY CallsAndExchanges DEF DeviceInv, Board!DeviceGuarded, Board!DeviceTypeOK, Board!Places, Board!Threads,
                           Board!Markers, HolderInv
<1>2. Board!ExchangesUndisturbed'
  BY DEF DeviceInv, Board!DeviceGuarded, Board!DeviceTypeOK, Board!ExchangesUndisturbed, Board!Places,
         Board!Threads, HolderInv, FileInv, DestructorInv
<1>3. Board!MarkersPickedOnce'
  BY DEF DeviceInv, Board!DeviceGuarded, Board!DeviceTypeOK, Board!MarkersPickedOnce, PickInv,
         Board!Threads, Board!Markers
<1>4. Board!QuietAfterDestruction'
  BY DEF DeviceInv, Board!DeviceGuarded, Board!DeviceTypeOK, Board!QuietAfterDestruction, Board!Threads,
         DestructorInv, Board!Places
<1>5. HolderInv'
  BY DEF DeviceInv, Board!DeviceGuarded, Board!DeviceTypeOK, HolderInv, Board!Threads, Board!Places
<1>6. FileInv'
  BY DEF DeviceInv, Board!DeviceGuarded, Board!DeviceTypeOK, FileInv, Board!Threads, Board!Places, HolderInv
<1>7. DestructorInv'
  BY DEF DeviceInv, Board!DeviceGuarded, Board!DeviceTypeOK, DestructorInv, Board!QuietAfterDestruction,
         Board!Threads, Board!Places
<1>8. PickInv'
  BY DEF DeviceInv, Board!DeviceGuarded, Board!DeviceTypeOK, PickInv, Board!Threads, Board!Markers,
         Board!Places
<1>9. TalkInv'
  BY DEF DeviceInv, Board!DeviceGuarded, Board!DeviceTypeOK, TalkInv, Board!Threads, Board!Places
<1>. QED BY <1>1, <1>2, <1>3, <1>4, <1>5, <1>6, <1>7, <1>8, <1>9 DEF DeviceInv, Board!DeviceGuarded

\* has joined the loop
LEMMA JoinedDevice == ASSUME DeviceInv, NEW c \in Clients, Board!Joined(c) PROVE DeviceInv'
<1>. USE DeviceThreads DEF Board!Joined, Board!state, Board!device, Board!thread, Board!history, Board!Go,
                           Board!InDevice, Board!Done, Board!Leaving
<1>1. Board!DeviceTypeOK'
  BY CallsAndExchanges DEF DeviceInv, Board!DeviceGuarded, Board!DeviceTypeOK, Board!Places, Board!Threads,
                           Board!Markers, HolderInv
<1>2. Board!ExchangesUndisturbed'
  BY DEF DeviceInv, Board!DeviceGuarded, Board!DeviceTypeOK, Board!ExchangesUndisturbed, Board!Places,
         Board!Threads, HolderInv, FileInv, DestructorInv
<1>3. Board!MarkersPickedOnce'
  BY DEF DeviceInv, Board!DeviceGuarded, Board!DeviceTypeOK, Board!MarkersPickedOnce, PickInv,
         Board!Threads, Board!Markers
<1>4. Board!QuietAfterDestruction'
  BY DEF DeviceInv, Board!DeviceGuarded, Board!DeviceTypeOK, Board!QuietAfterDestruction, Board!Threads,
         DestructorInv, Board!Places
<1>5. HolderInv'
  BY DEF DeviceInv, Board!DeviceGuarded, Board!DeviceTypeOK, HolderInv, Board!Threads, Board!Places
<1>6. FileInv'
  BY DEF DeviceInv, Board!DeviceGuarded, Board!DeviceTypeOK, FileInv, Board!Threads, Board!Places, HolderInv
<1>7. DestructorInv'
  BY DEF DeviceInv, Board!DeviceGuarded, Board!DeviceTypeOK, DestructorInv, Board!QuietAfterDestruction,
         Board!Threads, Board!Places
<1>8. PickInv'
  BY DEF DeviceInv, Board!DeviceGuarded, Board!DeviceTypeOK, PickInv, Board!Threads, Board!Markers,
         Board!Places
<1>9. TalkInv'
  BY DEF DeviceInv, Board!DeviceGuarded, Board!DeviceTypeOK, TalkInv, Board!Threads, Board!Places
<1>. QED BY <1>1, <1>2, <1>3, <1>4, <1>5, <1>6, <1>7, <1>8, <1>9 DEF DeviceInv, Board!DeviceGuarded

\* and closes the file.
LEMMA CloseFileDevice == ASSUME DeviceInv, NEW c \in Clients, Board!CloseFile(c) PROVE DeviceInv'
<1>. USE DeviceThreads DEF Board!CloseFile, Board!state, Board!device, Board!thread, Board!history,
                           Board!Go, Board!InDevice, Board!Done, Board!Leaving
<1>1. Board!DeviceTypeOK'
  <2>1. pc \in [Board!Threads -> Board!Places] /\ c \in Board!Threads /\ pc' = [pc EXCEPT ![c] = "ended"] /\ pc[c] = "close"
    BY DEF DeviceInv, Board!DeviceGuarded, Board!DeviceTypeOK, Board!Threads
  <2>2. pc' \in [Board!Threads -> Board!Places]
    BY <2>1 DEF Board!Places
  <2>3. holder = c /\ \A t \in Board!Threads : Board!InDevice(t) => holder = t
    BY <2>1 DEF DeviceInv, Board!DeviceGuarded, Board!DeviceTypeOK, HolderInv
  <2>4. ASSUME NEW t \in Board!Threads, Board!InDevice(t)' PROVE holder' = t
    BY <2>1, <2>3, <2>4
  <2>5. fd' \in 0..opened' /\ holder' \in Board!Threads \cup {Nobody} /\ destroyed' \in BOOLEAN
    BY DEF DeviceInv, Board!DeviceGuarded, Board!DeviceTypeOK
  <2>. QED BY <2>2, <2>4, <2>5 DEF DeviceInv, Board!DeviceGuarded, Board!DeviceTypeOK
<1>2. Board!ExchangesUndisturbed'
  BY DEF DeviceInv, Board!DeviceGuarded, Board!DeviceTypeOK, Board!ExchangesUndisturbed, Board!Places,
         Board!Threads, HolderInv, FileInv, DestructorInv
<1>3. Board!MarkersPickedOnce'
  BY DEF DeviceInv, Board!DeviceGuarded, Board!DeviceTypeOK, Board!MarkersPickedOnce, PickInv,
         Board!Threads, Board!Markers
<1>4. Board!QuietAfterDestruction'
  BY DEF DeviceInv, Board!DeviceGuarded, Board!DeviceTypeOK, Board!QuietAfterDestruction, Board!Threads,
         DestructorInv, Board!Places
<1>5. HolderInv'
  BY DEF DeviceInv, Board!DeviceGuarded, Board!DeviceTypeOK, HolderInv, Board!Threads, Board!Places
<1>6. FileInv'
  BY DEF DeviceInv, Board!DeviceGuarded, Board!DeviceTypeOK, FileInv, Board!Threads, Board!Places, HolderInv
<1>7. DestructorInv'
  BY DEF DeviceInv, Board!DeviceGuarded, Board!DeviceTypeOK, DestructorInv, Board!QuietAfterDestruction,
         Board!Threads, Board!Places
<1>8. PickInv'
  BY DEF DeviceInv, Board!DeviceGuarded, Board!DeviceTypeOK, PickInv, Board!Threads, Board!Markers,
         Board!Places
<1>9. TalkInv'
  BY DEF DeviceInv, Board!DeviceGuarded, Board!DeviceTypeOK, TalkInv, Board!Threads, Board!Places
<1>. QED BY <1>1, <1>2, <1>3, <1>4, <1>5, <1>6, <1>7, <1>8, <1>9 DEF DeviceInv, Board!DeviceGuarded

\* A setting is stored.
LEMMA SetThrusterValueDevice ==
    ASSUME DeviceInv, NEW c \in Clients, NEW v \in Speeds, Board!SetThrusterValue(c, v)
    PROVE  DeviceInv'
<1>. USE DeviceThreads DEF Board!SetThrusterValue, Board!state, Board!device, Board!thread, Board!history,
                           Board!Go, Board!InDevice, Board!Done, Board!Leaving
<1>1. Board!DeviceTypeOK'
  <2>. USE DEF DeviceInv, Board!DeviceGuarded, Board!DeviceTypeOK, Board!Places, Board!Threads,
               Board!Markers, HolderInv
  <2>1. /\ pc' \in [Board!Threads -> Board!Places]
        /\ call' \in [Board!Threads -> DOMAIN Board!Exchanges]
        /\ marker' \in [Board!Threads -> {0} \cup Board!Markers]
    BY CallsAndExchanges
  <2>2. todo' \in [Board!Threads -> Seq(Board!Words)]
    BY CallsAndExchanges DEF Board!Words
  <2>3. /\ holder' \in Board!Threads \cup {Nobody}
        /\ opened' \in Nat \ {0} /\ fd' \in 0..opened'
        /\ using' \in [Board!Threads -> 0..opened']
    OBVIOUS
  <2>4. /\ {commanded', copy', sent', wanted'} \subseteq Speeds
        /\ dropped' \subseteq Board!Markers
        /\ {running', destroyed', overtaken'} \subseteq BOOLEAN
    OBVIOUS
  <2>5. /\ calls' \in 0..MaxCalls /\ errors' \in 0..MaxErrors
        /\ picks' \in [Board!Markers -> Nat]
    BY CallsAssumption
  <2>6. \A u \in Board!Threads : Board!InDevice(u)' => holder' = u
    BY DEF DestructorInv
  <2>. QED BY <2>1, <2>2, <2>3, <2>4, <2>5, <2>6
<1>2. Board!ExchangesUndisturbed'
  BY DEF DeviceInv, Board!DeviceGuarded, Board!DeviceTypeOK, Board!ExchangesUndisturbed, Board!Places,
         Board!Threads, HolderInv, FileInv, DestructorInv
<1>3. Board!MarkersPickedOnce'
  BY DEF DeviceInv, Board!DeviceGuarded, Board!DeviceTypeOK, Board!MarkersPickedOnce, PickInv,
         Board!Threads, Board!Markers
<1>4. Board!QuietAfterDestruction'
  BY DEF DeviceInv, Board!DeviceGuarded, Board!DeviceTypeOK, Board!QuietAfterDestruction, Board!Threads,
         DestructorInv, Board!Places
<1>5. HolderInv'
  BY DEF DeviceInv, Board!DeviceGuarded, Board!DeviceTypeOK, HolderInv, Board!Threads, Board!Places
<1>6. FileInv'
  BY DEF DeviceInv, Board!DeviceGuarded, Board!DeviceTypeOK, FileInv, Board!Threads, Board!Places, HolderInv
<1>7. DestructorInv'
  BY DEF DeviceInv, Board!DeviceGuarded, Board!DeviceTypeOK, DestructorInv, Board!QuietAfterDestruction,
         Board!Threads, Board!Places
<1>8. PickInv'
  BY DEF DeviceInv, Board!DeviceGuarded, Board!DeviceTypeOK, PickInv, Board!Threads, Board!Markers,
         Board!Places
<1>9. TalkInv'
  BY DEF DeviceInv, Board!DeviceGuarded, Board!DeviceTypeOK, TalkInv, Board!Threads, Board!Places
<1>. QED BY <1>1, <1>2, <1>3, <1>4, <1>5, <1>6, <1>7, <1>8, <1>9 DEF DeviceInv, Board!DeviceGuarded

\* A client calls.
LEMMA CallDevice == ASSUME DeviceInv, NEW c \in Clients, NEW k \in Board!ClientCalls, Board!Call(c,
  k) PROVE DeviceInv'
<1>. USE DeviceThreads DEF Board!Call, Board!CallLocking, Board!ClientCalls, Board!Unlocked, Board!state,
                           Board!device, Board!thread, Board!history, Board!Go, Board!InDevice, Board!Done,
                             Board!Leaving
<1>1. Board!DeviceTypeOK'
  <2>. USE DEF DeviceInv, Board!DeviceGuarded, Board!DeviceTypeOK, Board!Places, Board!Threads,
               Board!Markers, HolderInv
  <2>1. /\ pc' \in [Board!Threads -> Board!Places]
        /\ call' \in [Board!Threads -> DOMAIN Board!Exchanges]
        /\ marker' \in [Board!Threads -> {0} \cup Board!Markers]
    <3>1. PICK m \in {0} \cup Board!Markers : marker' = [marker EXCEPT ![c] = m]
      OBVIOUS
    <3>. QED BY <3>1, CallsAndExchanges
  <2>2. todo' \in [Board!Threads -> Seq(Board!Words)]
    BY CallsAndExchanges DEF Board!Words
  <2>3. /\ holder' \in Board!Threads \cup {Nobody}
        /\ opened' \in Nat \ {0} /\ fd' \in 0..opened'
        /\ using' \in [Board!Threads -> 0..opened']
    OBVIOUS
  <2>4. /\ {commanded', copy', sent', wanted'} \subseteq Speeds
        /\ dropped' \subseteq Board!Markers
        /\ {running', destroyed', overtaken'} \subseteq BOOLEAN
    OBVIOUS
  <2>5. /\ calls' \in 0..MaxCalls /\ errors' \in 0..MaxErrors
        /\ picks' \in [Board!Markers -> Nat]
    BY CallsAssumption
  <2>6. \A u \in Board!Threads : Board!InDevice(u)' => holder' = u
    BY DEF DestructorInv
  <2>. QED BY <2>1, <2>2, <2>3, <2>4, <2>5, <2>6
<1>2. Board!ExchangesUndisturbed'
  BY DEF DeviceInv, Board!DeviceGuarded, Board!DeviceTypeOK, Board!ExchangesUndisturbed, Board!Places,
         Board!Threads, HolderInv, FileInv, DestructorInv
<1>3. Board!MarkersPickedOnce'
  BY DEF DeviceInv, Board!DeviceGuarded, Board!DeviceTypeOK, Board!MarkersPickedOnce, PickInv,
         Board!Threads, Board!Markers
<1>4. Board!QuietAfterDestruction'
  BY DEF DeviceInv, Board!DeviceGuarded, Board!DeviceTypeOK, Board!QuietAfterDestruction, Board!Threads,
         DestructorInv, Board!Places
<1>5. HolderInv'
  BY DEF DeviceInv, Board!DeviceGuarded, Board!DeviceTypeOK, HolderInv, Board!Threads, Board!Places
<1>6. FileInv'
  BY DEF DeviceInv, Board!DeviceGuarded, Board!DeviceTypeOK, FileInv, Board!Threads, Board!Places, HolderInv
<1>7. DestructorInv'
  BY DEF DeviceInv, Board!DeviceGuarded, Board!DeviceTypeOK, DestructorInv, Board!QuietAfterDestruction,
         Board!Threads, Board!Places
<1>8. PickInv'
  BY DEF DeviceInv, Board!DeviceGuarded, Board!DeviceTypeOK, PickInv, Board!Threads, Board!Markers,
         Board!Places
<1>9. TalkInv'
  BY DEF DeviceInv, Board!DeviceGuarded, Board!DeviceTypeOK, TalkInv, Board!Threads, Board!Places
<1>. QED BY <1>1, <1>2, <1>3, <1>4, <1>5, <1>6, <1>7, <1>8, <1>9 DEF DeviceInv, Board!DeviceGuarded

\* A step in which nothing happens.
LEMMA StutterDevice == ASSUME DeviceInv, UNCHANGED Board!vars PROVE DeviceInv'
<1>. USE DEF Board!vars, Board!state, Board!device, Board!thread, Board!history
<1>1. Board!DeviceGuarded'
  BY DEF DeviceInv, Board!DeviceGuarded, Board!DeviceTypeOK, Board!ExchangesUndisturbed,
         Board!MarkersPickedOnce, Board!QuietAfterDestruction, Board!InDevice
<1>2. HolderInv' /\ TalkInv' /\ FileInv' /\ DestructorInv' /\ PickInv'
  BY DEF DeviceInv, HolderInv, TalkInv, FileInv, DestructorInv, PickInv, Board!InDevice
<1>. QED BY <1>1, <1>2 DEF DeviceInv

\* Every step of every thread.
LEMMA NextDevice == DeviceInv /\ [Board!Next]_(Board!vars) => DeviceInv'
<1>. SUFFICES ASSUME DeviceInv, [Board!Next]_(Board!vars) PROVE DeviceInv'
  OBVIOUS
<1>1. ASSUME NEW t \in Board!Threads, Board!ThreadStep(t) PROVE DeviceInv'
  BY <1>1, LockDevice, PickMarkerDevice, BeginDevice, SucceedDevice, FailDevice, ReopenDevice,
         SyncBoardDevice, ReturnDevice
     DEF Board!ThreadStep, Board!Talk
<1>2. CASE Board!LoopStep
  BY <1>1, <1>2, CopyStateDevice, UnlockDevice, WriteBackDevice, EndLoopDevice DEF Board!LoopStep,
         Board!Threads
<1>3. ASSUME NEW c \in Clients, Board!ClientStep(c) PROVE DeviceInv'
  BY <1>1, <1>3, JoinedDevice, CloseFileDevice DEF Board!ClientStep, Board!Threads
<1>4. ASSUME NEW c \in Clients, NEW k \in Board!ClientCalls, Board!Call(c, k) PROVE DeviceInv'
  BY <1>4, CallDevice
<1>5. ASSUME NEW c \in Clients, NEW v \in Speeds, Board!SetThrusterValue(c, v) PROVE DeviceInv'
  BY <1>5, SetThrusterValueDevice
<1>6. ASSUME NEW c \in Clients, Board!Destroy(c) PROVE DeviceInv'
  BY <1>6, DestroyDevice
<1>7. CASE UNCHANGED Board!vars
  BY <1>7, StutterDevice
<1>. QED
  BY <1>2, <1>3, <1>4, <1>5, <1>6, <1>7 DEF Board!Next

\* "Protects access to the SB device": exchanges that take m_deviceMutex never
\* overlap, nor is the file closed under one of them except by a call that takes
\* none; dropMarker() chooses each marker once; nobody is at the board after the
\* destructor.
THEOREM SpecDeviceGuarded == Board!Spec => []DeviceGuarded
<1>1. DeviceInv => DeviceGuarded
  BY SameGuard DEF DeviceInv
<1>. QED
  BY <1>1, InitDevice, NextDevice, PTL DEF Board!Spec
=============================================================================
