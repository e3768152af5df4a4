------------------------------ MODULE SensorBus ------------------------------
(***************************************************************************)
(* The bus inside the sensor board: packages/embedded/sbr9/ic1.c (the      *)
(* master) and distro.c (a slave; the others have the same bus code).      *)
(*                                                                         *)
(* Each slave has a request line of its own; the data lines, RW and AKN    *)
(* are shared.  A byte takes four phases: Req up, Akn up, Req down, Akn    *)
(* down.  The master gives up on either edge of Akn after a time-out; a    *)
(* slave waits for Req to fall for ever.  Nothing on the bus says which    *)
(* byte, which slave or which command an edge belongs to, so after a       *)
(* time-out the two may misunderstand each other for a while.              *)
(*                                                                         *)
(* The slave works in the interrupt of its Req line.  A byte is <<kind,    *)
(* number of the command, place>>; noise is a floating bus or two drivers. *)
(***************************************************************************)
EXTENDS Naturals, Sequences, FiniteSets

CONSTANTS
    Slaves,
    None,
    MaxCommands,    \* bound: commands of the master
    MaxTimeouts     \* bound: waits for Akn that are given up

VARIABLES
    req,            \* IN_REQ of each slave
    rw,             \* "read" or "write"
    driven,         \* what the master puts on the data lines; None is high impedance
    mpc,            \* where the master is in busReadByte or busWriteByte
    target, kind,   \* the slave and the kind of the command
    todo,           \* its bytes to write, and ToRead for one to read
    answer,         \* rxBuf: the bytes read
    failed,         \* an operation returned BUS_ERROR or BUS_FAILURE
    result,         \* of the last command
    number,         \* commands so far
    timeouts,
    spc,            \* where each slave is in its interrupt
    akn, offered,   \* its Akn, and what it puts on the data lines
    latched,        \* data in checkBus
    cnBit, cnFlag,  \* REQ_CN_BIT, CNIF
    busState, args, \* STATE_TOP_LEVEL or not, and the parameters received
    txBuf, txPtr,
    depth,          \* history: calls of checkBus from within processData
    applied,        \* history: the parameters of the last command carried out
    heard,          \* history: who has taken what since the master's byte began
    disturbed,      \* history: a time-out, and the bus has not been quiet since
    astray          \* history: a time-out, and the slave not quiet and at top level since

master == <<mpc, target, kind, todo, answer, failed, result, number, timeouts>>
state == <<busState, args, txBuf, txPtr, applied>>
slave == <<spc, akn, offered, latched, cnBit, depth, state>>
lines == <<req, rw, driven>>
vars == <<lines, master, slave, cnFlag, heard, disturbed, astray>>

Params == 2     \* of BUS_CMD_WRITE_REG and BUS_CMD_SETSPEED_U1
Numbers == 0..MaxCommands
Bytes == {"query", "set", "arg", "len", "data", "noise", "partial"} \X Numbers \X (0..Params)
Noise == <<"noise", 0, 0>>
ToRead == <<"read", 0, 0>>      \* in todo: a byte to read

ASSUME BoundsAssumption == MaxCommands \in Nat /\ MaxTimeouts \in Nat
ASSUME NoneAssumption == None \notin Bytes

TypeOK ==
    /\ req \in [Slaves -> BOOLEAN] /\ rw \in {"read", "write"}
    /\ driven \in Bytes \cup {None}
    /\ mpc \in {"idle", "next", "raise", "akn", "drop", "fall"}
    /\ target \in Slaves /\ kind \in {"query", "set"}
    /\ todo \in Seq(Bytes \cup {ToRead}) /\ Len(todo) <= Params + 1
    /\ answer \in Seq(Bytes) /\ failed \in BOOLEAN
    /\ result \in {"none", "success", "failure"}
    /\ number \in Numbers /\ timeouts \in 0..MaxTimeouts
    /\ spc \in [Slaves -> {"idle", "check", "direction", "take", "give", "ackTaken", "ackGiven",
                           "waitTaken", "waitGiven", "free", "release", "processLater", "process", "fill",
                           "enable"}]
    /\ {akn, cnBit, cnFlag, astray} \subseteq [Slaves -> BOOLEAN]
    /\ offered \in [Slaves -> Bytes \cup {None}]
    /\ latched \in [Slaves -> Bytes]
    /\ busState \in [Slaves -> {"top", "params"}]
    /\ \A s \in Slaves : Len(args[s]) < Params
    /\ \A s \in Slaves : Len(txBuf[s]) = 2
    /\ disturbed \in BOOLEAN

Init ==
    /\ req = [s \in Slaves |-> FALSE] /\ rw = "read" /\ driven = None
    /\ mpc = "idle" /\ target \in Slaves /\ kind = "query" /\ todo = <<>>
    /\ answer = <<>> /\ failed = FALSE /\ result = "none" /\ number = 0 /\ timeouts = 0
    /\ spc = [s \in Slaves |-> "idle"]
    /\ akn = [s \in Slaves |-> FALSE]
    /\ offered = [s \in Slaves |-> None]
    /\ latched = [s \in Slaves |-> Noise]
    /\ cnBit = [s \in Slaves |-> TRUE] /\ cnFlag = [s \in Slaves |-> FALSE]
    /\ busState = [s \in Slaves |-> "top"] /\ args = [s \in Slaves |-> <<>>]
    /\ txBuf = [s \in Slaves |-> <<Noise, Noise>>] /\ txPtr = [s \in Slaves |-> 0]
    /\ depth = [s \in Slaves |-> 0]
    /\ applied = [s \in Slaves |-> <<>>]
    /\ heard = <<>>
    /\ disturbed = FALSE /\ astray = [s \in Slaves |-> FALSE]

AKN == \E s \in Slaves : akn[s]

Drivers == {s \in Slaves : offered[s] # None}

\* What is read from the data lines.
OnBus ==
    IF driven # None /\ Drivers = {} THEN driven
    ELSE IF driven = None /\ Cardinality(Drivers) = 1 THEN offered[CHOOSE s \in Drivers : TRUE]
    ELSE Noise

AllQuiet == \A s \in Slaves : spc[s] = "idle" /\ ~req[s]

-----------------------------------------------------------------------------
(* The master *)

MGo(from, to) == mpc = from /\ mpc' = to

Program(k, n) ==
    IF k = "query" THEN <<<<"query", n, 0>>, ToRead>>
    ELSE <<<<"set", n, 0>>>> \o [i \in 1..Params |-> <<"arg", n, i>>]

Reading == Head(todo) = ToRead

\* A command code and readDataBlock(), or a command code and its parameters.
Command(s, k) ==
    /\ MGo("idle", "next")
    /\ number < MaxCommands
    /\ number' = number + 1
    /\ target' = s
    /\ kind' = k
    /\ todo' = Program(k, number + 1)
    /\ answer' = <<>>
    /\ failed' = FALSE
    /\ result' = "none"
    /\ astray' = [t \in Slaves |-> astray[t] /\ ~(AllQuiet /\ busState[t] = "top")]
    /\ UNCHANGED <<lines, timeouts, slave, cnFlag, heard, disturbed>>

\* Mutant: Req goes up with the data still to come.
PresentLate ==
    /\ todo # <<>>
    /\ MGo("next", "raise")
    /\ rw' = IF Reading THEN "read" ELSE "write"
    /\ driven' = IF Reading THEN None ELSE Noise
    /\ heard' = <<>>
    /\ disturbed' = (disturbed /\ ~AllQuiet)
    /\ UNCHANGED <<req, target, kind, todo, answer, failed, result, number, timeouts, slave, cnFlag, astray>>

\* RW and the data are put on the bus.
Present ==
    /\ todo # <<>>
    /\ MGo("next", "raise")
    /\ rw' = IF Reading THEN "read" ELSE "write"
    /\ driven' = IF Reading THEN None ELSE Head(todo)
    /\ heard' = <<>>
    /\ disturbed' = (disturbed /\ ~AllQuiet)
    /\ UNCHANGED <<req, target, kind, todo, answer, failed, result, number, timeouts, slave, cnFlag, astray>>

\* An edge on the request line sets CNIF where CN is on for the pin.
SetReq(val) ==
    /\ req' = [req EXCEPT ![target] = val]
    /\ cnFlag' = [cnFlag EXCEPT ![target] = @ \/ (cnBit[target] /\ req[target] # val)]

Raise ==
    /\ MGo("raise", "akn")
    /\ SetReq(TRUE)
    /\ UNCHANGED <<rw, driven, target, kind, todo, answer, failed, result, number, timeouts, slave, heard,
                   disturbed, astray>>

\* Mutant: what is on the bus is not looked at before Req has gone down.
AcknowledgedLate ==
    /\ AKN
    /\ MGo("akn", "drop")
    /\ driven' = None
    /\ answer' = IF Reading THEN Append(answer, Noise) ELSE answer
    /\ UNCHANGED <<req, rw, target, kind, todo, failed, result, number, timeouts, slave, cnFlag, heard,
                   disturbed, astray>>

\* Akn is up: the data is read, or the bus is released.
Acknowledged ==
    /\ AKN
    /\ MGo("akn", "drop")
    /\ driven' = None
    /\ answer' = IF Reading THEN Append(answer, OnBus) ELSE answer
    /\ UNCHANGED <<req, rw, target, kind, todo, failed, result, number, timeouts, slave, cnFlag, heard,
                   disturbed, astray>>

Drop ==
    /\ MGo("drop", "fall")
    /\ SetReq(FALSE)
    /\ UNCHANGED <<rw, driven, target, kind, todo, answer, failed, result, number, timeouts, slave, heard,
                   disturbed, astray>>

\* The first byte of a block is its length, whatever it is: a byte that is no
\* length may have any value.
Lengths == IF Head(answer)[1] = "len" THEN {1} ELSE 0..Params

\* busReadByte or busWriteByte has done its work.
Fallen ==
    /\ ~AKN
    /\ MGo("fall", "next")
    /\ \E n \in IF Reading /\ Len(answer) = 1 THEN Lengths ELSE {0} :
        todo' = Tail(todo) \o [i \in 1..n |-> ToRead]
    /\ UNCHANGED <<lines, target, kind, answer, failed, result, number, timeouts, slave, cnFlag, heard,
                   disturbed, astray>>

\* A block that fails is not read further; after a write that failed some callers
\* stop and some go on to the next byte.
GiveUp ==
    /\ mpc' = "next"
    /\ todo' \in IF Reading THEN {<<>>} ELSE {<<>>, Tail(todo)}
    /\ failed' = TRUE
    /\ timeouts < MaxTimeouts
    /\ timeouts' = timeouts + 1
    /\ disturbed' = TRUE
    /\ astray' = [s \in Slaves |-> TRUE]
    /\ heard' = <<>>
    /\ UNCHANGED <<rw, target, kind, answer, result, number, slave>>

\* Mutant: Req stays up.
NoAcknowledgeStays ==
    /\ mpc = "akn"
    /\ driven' = None
    /\ GiveUp
    /\ UNCHANGED <<req, cnFlag>>

\* BUS_ERROR: Req is taken down, the bus is released.
NoAcknowledge ==
    /\ mpc = "akn"
    /\ SetReq(FALSE)
    /\ driven' = None
    /\ GiveUp

\* BUS_FAILURE.
NoRelease ==
    /\ mpc = "fall"
    /\ GiveUp
    /\ UNCHANGED <<req, driven, cnFlag>>

Finish ==
    /\ todo = <<>>
    /\ MGo("next", "idle")
    /\ result' = IF failed \/ (kind = "query" /\ Len(answer) # 2) THEN "failure" ELSE "success"
    /\ UNCHANGED <<lines, target, kind, todo, answer, failed, number, timeouts, slave, cnFlag, heard,
                   disturbed, astray>>

-----------------------------------------------------------------------------
(* A slave *)

SGo(s, from, to) == spc[s] = from /\ spc' = [spc EXCEPT ![s] = to]

elsewhere == <<lines, master, disturbed, astray>>

\* _CNInterrupt: the flag is cleared first.
Interrupt(s) ==
    /\ cnFlag[s] /\ cnBit[s]
    /\ SGo(s, "idle", "check")
    /\ cnFlag' = [cnFlag EXCEPT ![s] = FALSE]
    /\ UNCHANGED <<elsewhere, akn, offered, latched, cnBit, depth, state, heard>>

\* checkBus: a request?
CheckReq(s) ==
    /\ SGo(s, "check", IF req[s] THEN "direction" ELSE "idle")
    /\ depth' = IF req[s] THEN depth ELSE [depth EXCEPT ![s] = 0]
    /\ UNCHANGED <<elsewhere, akn, offered, latched, cnBit, state, cnFlag, heard>>

CheckDirection(s) ==
    /\ SGo(s, "direction", IF rw = "write" THEN "take" ELSE "give")
    /\ UNCHANGED <<elsewhere, akn, offered, latched, cnBit, depth, state, cnFlag, heard>>

Take(s) ==
    /\ SGo(s, "take", "ackTaken")
    /\ latched' = [latched EXCEPT ![s] = OnBus]
    /\ heard' = IF disturbed THEN heard ELSE Append(heard, <<s, OnBus>>)
    /\ UNCHANGED <<elsewhere, akn, offered, cnBit, depth, state, cnFlag>>

\* txBuf[txPtr++]; beyond the block there is what was left by others.
Give(s) ==
    /\ SGo(s, "give", "ackGiven")
    /\ offered' = [offered EXCEPT ![s] = IF txPtr[s] < 2 THEN txBuf[s][txPtr[s] + 1] ELSE Noise]
    /\ txPtr' = [txPtr EXCEPT ![s] = IF @ < 2 THEN @ + 1 ELSE @]
    /\ UNCHANGED <<elsewhere, akn, latched, cnBit, depth, busState, args, txBuf, applied, cnFlag, heard>>

Acknowledge(s) ==
    /\ \/ SGo(s, "ackTaken", "waitTaken")
       \/ SGo(s, "ackGiven", "waitGiven")
    /\ akn' = [akn EXCEPT ![s] = TRUE]
    /\ UNCHANGED <<elsewhere, offered, latched, cnBit, depth, state, cnFlag, heard>>

\* while(IN_REQ);
ReqFallen(s) ==
    /\ ~req[s]
    /\ \/ SGo(s, "waitTaken", "processLater")
       \/ SGo(s, "waitGiven", "free")
    /\ UNCHANGED <<elsewhere, akn, offered, latched, cnBit, depth, state, cnFlag, heard>>

\* Mutant: the two in the other order.
FreeAfterAkn(s) ==
    /\ SGo(s, "free", "release")
    /\ akn' = [akn EXCEPT ![s] = FALSE]
    /\ UNCHANGED <<elsewhere, offered, latched, cnBit, depth, state, cnFlag, heard>>

\* "Release bus first": the data lines, then Akn.
Free(s) ==
    /\ SGo(s, "free", "release")
    /\ offered' = [offered EXCEPT ![s] = None]
    /\ UNCHANGED <<elsewhere, akn, latched, cnBit, depth, state, cnFlag, heard>>

Release(s) ==
    /\ SGo(s, "release", "idle")
    /\ akn' = [akn EXCEPT ![s] = FALSE]
    /\ offered' = [offered EXCEPT ![s] = None]
    /\ depth' = [depth EXCEPT ![s] = 0]
    /\ UNCHANGED <<elsewhere, latched, cnBit, state, cnFlag, heard>>

\* Akn is let go before the byte is processed.
ReleaseTaken(s) ==
    /\ SGo(s, "processLater", "process")
    /\ akn' = [akn EXCEPT ![s] = FALSE]
    /\ UNCHANGED <<elsewhere, offered, latched, cnBit, depth, state, cnFlag, heard>>

-----------------------------------------------------------------------------
(* processData, still in the interrupt *)

\* A byte that is no code may have the value of one.
Means(b) == IF b[1] \in {"query", "set"} THEN {b[1]} ELSE {"query", "set", "unknown"}

\* A command that is answered at once, with Req ignored while it fills the buffer.
ProcessQuery(s) ==
    /\ busState[s] = "top" /\ "query" \in Means(latched[s])
    /\ SGo(s, "process", "fill")
    /\ cnBit' = [cnBit EXCEPT ![s] = FALSE]
    /\ txBuf' = [txBuf EXCEPT ![s] = <<<<"len", latched[s][2], 0>>, <<"partial", latched[s][2], 0>>>>]
    /\ txPtr' = [txPtr EXCEPT ![s] = 0]
    /\ UNCHANGED <<elsewhere, akn, offered, latched, depth, busState, args, applied, cnFlag, heard>>

\* Mutant: the pin is turned on again before the buffer is complete.
FillLast(s) ==
    /\ SGo(s, "fill", "enable")
    /\ latched' = [latched EXCEPT ![s] = Noise]
    /\ UNCHANGED <<elsewhere, akn, offered, cnBit, depth, state, cnFlag, heard>>

Fill(s) ==
    /\ SGo(s, "fill", "enable")
    /\ txBuf' = [txBuf EXCEPT ![s][2] = <<"data", latched[s][2], 0>>]
    /\ latched' = [latched EXCEPT ![s] = Noise]
    /\ UNCHANGED <<elsewhere, akn, offered, cnBit, depth, busState, args, txPtr, applied, cnFlag,
                   heard>>

\* enableBusInterrupt(): a request made meanwhile has set no flag, so checkBus()
\* is called from here, inside processData().  (The flag is set all the same: Req
\* going down has set it, and the interrupt comes once more.)
Enable(s) ==
    /\ SGo(s, "enable", "check")
    /\ cnBit' = [cnBit EXCEPT ![s] = TRUE]
    /\ depth' = [depth EXCEPT ![s] = @ + 1]
    /\ UNCHANGED <<elsewhere, akn, offered, latched, state, cnFlag, heard>>

\* A command that waits for parameters, or one the slave does not know.
ProcessCode(s, what) ==
    /\ busState[s] = "top" /\ what \in Means(latched[s]) \ {"query"}
    /\ SGo(s, "process", "idle")
    /\ busState' = [busState EXCEPT ![s] = IF what = "set" THEN "params" ELSE @]
    /\ txPtr' = [txPtr EXCEPT ![s] = 0]
    /\ depth' = [depth EXCEPT ![s] = 0]
    /\ latched' = [latched EXCEPT ![s] = Noise]
    /\ UNCHANGED <<elsewhere, akn, offered, cnBit, args, txBuf, applied, cnFlag, heard>>

\* Mutant: one parameter more is waited for.
ProcessParamOneMore(s) ==
    /\ busState[s] = "params"
    /\ SGo(s, "process", "idle")
    /\ IF Len(args[s]) = Params
       THEN /\ applied' = [applied EXCEPT ![s] = args[s]]
            /\ busState' = [busState EXCEPT ![s] = "top"]
            /\ args' = [args EXCEPT ![s] = <<>>]
       ELSE /\ args' = [args EXCEPT ![s] = Append(@, latched[s])]
            /\ UNCHANGED <<applied, busState>>
    /\ txPtr' = [txPtr EXCEPT ![s] = 0]
    /\ depth' = [depth EXCEPT ![s] = 0]
    /\ latched' = [latched EXCEPT ![s] = Noise]
    /\ UNCHANGED <<elsewhere, akn, offered, cnBit, txBuf, cnFlag, heard>>

\* Mutant: enableBusInterrupt() is called after a parameter, too.
ProcessParamLooks(s) ==
    /\ busState[s] = "params"
    /\ SGo(s, "process", "check")
    /\ args' = [args EXCEPT ![s] = IF Len(@) = Params - 1 THEN <<>> ELSE Append(@, latched[s])]
    /\ busState' = [busState EXCEPT ![s] = IF Len(args[s]) = Params - 1 THEN "top" ELSE @]
    /\ depth' = [depth EXCEPT ![s] = @ + 1]
    /\ UNCHANGED <<elsewhere, akn, offered, latched, cnBit, txBuf, txPtr, applied, cnFlag, heard>>

\* Whatever comes is a parameter until there are enough of them.
ProcessParam(s) ==
    /\ busState[s] = "params"
    /\ SGo(s, "process", "idle")
    /\ IF Len(args[s]) = Params - 1
       THEN /\ applied' = [applied EXCEPT ![s] = Append(args[s], latched[s])]
            /\ busState' = [busState EXCEPT ![s] = "top"]
            /\ args' = [args EXCEPT ![s] = <<>>]
       ELSE /\ args' = [args EXCEPT ![s] = Append(@, latched[s])]
            /\ UNCHANGED <<applied, busState>>
    /\ txPtr' = [txPtr EXCEPT ![s] = 0]
    /\ depth' = [depth EXCEPT ![s] = 0]
    /\ latched' = [latched EXCEPT ![s] = Noise]
    /\ UNCHANGED <<elsewhere, akn, offered, cnBit, txBuf, cnFlag, heard>>

-----------------------------------------------------------------------------

MasterWorks == Present \/ Raise \/ Acknowledged \/ Drop \/ Fallen \/ Finish

SlaveWorks(s) ==
    \/ Interrupt(s) \/ CheckReq(s) \/ CheckDirection(s) \/ Take(s) \/ Give(s) \/ Acknowledge(s)
    \/ ReqFallen(s) \/ Free(s) \/ Release(s) \/ ReleaseTaken(s)
    \/ ProcessQuery(s) \/ Fill(s) \/ Enable(s) \/ ProcessParam(s)
    \/ \E what \in {"set", "unknown"} : ProcessCode(s, what)

Next ==
    \/ \E s \in Slaves, k \in {"query", "set"} : Command(s, k)
    \/ MasterWorks
    \/ NoAcknowledge
    \/ NoRelease
    \/ \E s \in Slaves : SlaveWorks(s)

Spec == Init /\ [][Next]_vars

\* Both processors run.  No time-out has to happen, and nobody has to send a command.
FairSpec == Spec /\ WF_vars(MasterWorks) /\ \A s \in Slaves : WF_vars(SlaveWorks(s))

-----------------------------------------------------------------------------
(* Properties *)

\* Two processors never drive the data lines against each other, of the master
\* and all the slaves, unless a time-out has left one of them behind.
OneDriver ==
    disturbed \/ (Cardinality(Drivers) <= 1 /\ (driven # None => Drivers = {}))

\* When the master sees a byte acknowledged, the slave it is for has taken that
\* byte, once, and nobody else has: also when the bus has become quiet again after
\* a time-out.
TakenOnce ==
    (mpc \in {"drop", "fall"} /\ ~Reading /\ ~disturbed) => heard = <<<<target, Head(todo)>>>>

\* Data that is passed on to the host as the answer to a command is the answer to
\* that command, complete ("partially-written data", distro.c), unless there was a time-out
\* since the slave last waited for a command: then it may be the last answer again.
AnswerIsOwn ==
    (result = "success" /\ kind = "query" /\ ~astray[target])
        => answer = <<<<"len", number, 0>>, <<"data", number, 0>>>>

\* A setting that was acknowledged is in force, with its parameters in order.
SettingInForce ==
    (result = "success" /\ kind = "set" /\ ~astray[target] /\ spc[target] = "idle")
        => applied[target] = [i \in 1..Params |-> <<"arg", number, i>>]

\* What the master takes for a success is one.
SuccessIsOwn == AnswerIsOwn /\ SettingInForce

\* enableBusInterrupt(), checkBus() and processData() call each other on the small
\* stack of the processor: at most one level deep, unless the slave has been left
\* out of step by a time-out.
NestingBounded == \A s \in Slaves : depth[s] > 1 => astray[s]

\* What the hardware of the bus and of the slaves depends on.
HardwareSpared == TypeOK /\ OneDriver /\ NestingBounded

\* Also after a time-out, of which a slave is told only by Req going down, no
\* processor waits for ever for an edge that has been or that nobody will make, and
\* no request is lost between the flag, the pin that is turned off and the call
\* that makes up for it: the bus comes to rest, without the help of another time-out.
ComesToRest == []<>(mpc = "idle" /\ AllQuiet)
=============================================================================
