-------------------------- MODULE SensorBusProofs --------------------------
(***************************************************************************)
(* Two processors on one bus, for any number of slaves, commands and time- *)
(* outs, in three layers, each of which rests on the ones before it:       *)
(*                                                                         *)
(*   HandshakeInv  the four phases of a byte: who may be where, who drives *)
(*                 the lines, and who has heard the byte on them;          *)
(*   PlaceInv      what is kept where: the sizes of blocks and lists, the  *)
(*                 depth of the interrupt's routines, what the master has  *)
(*                 left to do;                                             *)
(*   CommandInv    a command from its code to its last byte: how many of   *)
(*                 its bytes the slave has processed, and what it has made *)
(*                 of them.                                                *)
(*                                                                         *)
(* The names of the lemmas are those of the actions, with Handshake, Place *)
(* or Command for the layer.                                               *)
(***************************************************************************)
EXTENDS SensorBus, FiniteSetTheorems, SequenceTheorems, TLAPS

\* Where a slave is when it does not take part in a byte: it may still be at work on
\* the last one.
Aside == {"idle", "check", "process", "fill", "enable"}

\* Functions with the slaves for a domain.
PerSlave(f) == f = [s \in Slaves |-> f[s]]

BusTypes ==
    /\ PerSlave(req) /\ PerSlave(spc) /\ PerSlave(akn) /\ PerSlave(offered) /\ PerSlave(astray)
    /\ todo \in Seq(Bytes \cup {ToRead})
    /\ number \in Numbers
    /\ target \in Slaves
    /\ mpc \in {"idle", "next", "raise", "akn", "drop", "fall"}

\* What goes for the lines even after a time-out.
LineInv ==
    /\ \A s \in Slaves :
        /\ req[s] => s = target /\ mpc \in {"akn", "drop"}
        /\ offered[s] # None => spc[s] \in {"ackGiven", "waitGiven", "free"}
        /\ akn[s] => spc[s] \in {"waitTaken", "waitGiven", "free", "release", "processLater"}
        /\ spc[s] \in {"waitTaken", "waitGiven", "free", "release", "processLater"} => akn[s]
    /\ mpc \in {"raise", "akn", "drop", "fall"} => todo # <<>> /\ rw = IF Reading THEN "read" ELSE "write"
    /\ mpc \in {"raise", "akn"} /\ ~Reading => driven = Head(todo) /\ driven \in Bytes
    /\ mpc \notin {"raise", "akn"} \/ Reading => driven = None

\* How far the slave is while the master is in each phase of a byte.
Phase ==
    CASE mpc = "akn"  -> Aside \cup {"direction"}
                         \cup (IF Reading THEN {"give", "ackGiven", "waitGiven"} ELSE {"take", "ackTaken", "waitTaken"})
      [] mpc = "drop" -> {IF Reading THEN "waitGiven" ELSE "waitTaken"}
      [] mpc = "fall" -> Aside \cup (IF Reading THEN {"waitGiven", "free", "release"} ELSE {"waitTaken", "processLater"})
      [] OTHER        -> Aside

\* The byte has been heard, once, or not at all.
Heard == heard = <<<<target, Head(todo)>>>>

\* Nobody was left behind by a time-out, or somebody was found waiting for a command
\* since.
InStep == ~disturbed \/ \E s \in Slaves : ~astray[s]

PhaseInv == InStep =>
    /\ \A s \in Slaves : s # target => spc[s] \in Aside
    /\ spc[target] \in Phase
    /\ mpc \in {"akn", "drop"} => req[target]

HeardInv == ~disturbed =>
    /\ mpc \in {"raise", "akn"} /\ spc[target] \in Aside \cup {"direction", "take"} => heard = <<>>
    /\ mpc = "akn" /\ ~Reading /\ spc[target] \in {"ackTaken", "waitTaken"} => Heard
    /\ mpc \in {"drop", "fall"} /\ ~Reading => Heard

HandshakeInv == BusTypes /\ LineInv /\ PhaseInv /\ HeardInv

-----------------------------------------------------------------------------

\* It says what is wanted.
LEMMA HandshakeImplies == HandshakeInv => OneDriver /\ TakenOnce
<1>. SUFFICES ASSUME HandshakeInv PROVE OneDriver /\ TakenOnce
  OBVIOUS
<1>1. TakenOnce
  BY DEF HandshakeInv, HeardInv, TakenOnce, Heard
<1>2. ASSUME ~disturbed PROVE Cardinality(Drivers) <= 1 /\ (driven # None => Drivers = {})
  <2>1. Drivers \subseteq {target}
    BY <1>2 DEF HandshakeInv, LineInv, PhaseInv, InStep, Drivers, Aside
  <2>2. driven # None => Drivers = {}
    <3>1. ASSUME driven # None PROVE offered[target] = None
      BY <1>2, <3>1 DEF HandshakeInv, BusTypes, LineInv, PhaseInv, InStep, Phase, Aside
    <3>. QED BY <2>1, <3>1 DEF Drivers
  <2>3. Drivers = {} \/ Drivers = {target}
    BY <2>1
  <2>4. Cardinality({}) = 0 /\ Cardinality({target}) = 1
    BY FS_EmptySet, FS_Singleton
  <2>5. Cardinality(Drivers) \in {0, 1}
    BY <2>3, <2>4
  <2>. QED BY <2>2, <2>5
<1>. QED BY <1>1, <1>2 DEF OneDriver

\* A code and two parameters.
LEMMA ConcatThree ==
    ASSUME NEW S, NEW x \in S, NEW y \in S, NEW z \in S
    PROVE  <<x>> \o <<y, z>> = <<x, y, z>>
<1>. DEFINE c == <<x>> \o <<y, z>>
            d == <<x, y, z>>
<1>1. c \in Seq(S) /\ Len(c) = 3 /\ c[1] = x /\ c[2] = y /\ c[3] = z
  OBVIOUS
<1>2. d \in Seq(S) /\ Len(d) = 3 /\ d[1] = x /\ d[2] = y /\ d[3] = z
  OBVIOUS
<1>3. \A i \in 1..3 : c[i] = d[i]
  BY <1>1, <1>2
<1>. HIDE DEF c, d
<1>4. c = d
  BY <1>1, <1>2, <1>3, SeqEqual
<1>. QED BY <1>4 DEF c, d

\* What a command says is made of bytes.
LEMMA ProgramBytes ==
    ASSUME NEW n \in Numbers
    PROVE  /\ <<"query", n, 0>> \in Bytes /\ <<"set", n, 0>> \in Bytes
           /\ <<"arg", n, 1>> \in Bytes /\ <<"arg", n, 2>> \in Bytes
           /\ <<"len", n, 0>> \in Bytes /\ <<"data", n, 0>> \in Bytes /\ <<"partial", n, 0>> \in Bytes
BY DEF Bytes, Params

\* A command is bytes to write and bytes to read.
LEMMA ProgramType ==
    ASSUME NEW k \in {"query", "set"}, NEW n \in Numbers
    PROVE  Program(k, n) = IF k = "query" THEN <<<<"query", n, 0>>, ToRead>>
                           ELSE <<<<"set", n, 0>>, <<"arg", n, 1>>, <<"arg", n, 2>>>>
<1>1. CASE k = "query"
  BY <1>1 DEF Program
<1>2. CASE k = "set"
  <2>. DEFINE more == [i \in 1..Params |-> <<"arg", n, i>>]
  <2>1. more = <<<<"arg", n, 1>>, <<"arg", n, 2>>>>
    BY DEF Params
  <2>2. Program(k, n) = <<<<"set", n, 0>>>> \o more
    BY <1>2 DEF Program
  <2>3. <<<<"set", n, 0>>>> \o <<<<"arg", n, 1>>, <<"arg", n, 2>>>>
            = <<<<"set", n, 0>>, <<"arg", n, 1>>, <<"arg", n, 2>>>>
    BY ProgramBytes, ConcatThree
  <2>. HIDE DEF more
  <2>. QED BY <1>2, <2>1, <2>2, <2>3
<1>. QED BY <1>1, <1>2

\* A slave that takes a byte takes the one the master presents.
LEMMA OnBusTaken ==
    ASSUME HandshakeInv, InStep, NEW r \in Slaves, spc[r] = "take"
    PROVE  r = target /\ mpc = "akn" /\ ~Reading /\ OnBus = Head(todo)
<1>1. r = target /\ mpc = "akn" /\ ~Reading
  BY DEF HandshakeInv, BusTypes, PhaseInv, Phase, Aside
<1>2. driven = Head(todo) /\ driven # None
  BY <1>1, NoneAssumption DEF HandshakeInv, LineInv
<1>3. Drivers = {}
  BY <1>1 DEF HandshakeInv, BusTypes, LineInv, PhaseInv, Drivers, Aside
<1>. QED BY <1>1, <1>2, <1>3 DEF OnBus

\* A master that reads an acknowledged byte reads the one its slave offers.
LEMMA OnBusGiven ==
    ASSUME HandshakeInv, InStep, AKN, mpc = "akn"
    PROVE  /\ spc[target] = IF Reading THEN "waitGiven" ELSE "waitTaken"
           /\ Reading /\ offered[target] # None => OnBus = offered[target]
<1>1. spc[target] = IF Reading THEN "waitGiven" ELSE "waitTaken"
  BY DEF AKN, HandshakeInv, BusTypes, LineInv, PhaseInv, Phase, Aside
<1>2. ASSUME Reading, offered[target] # None PROVE OnBus = offered[target]
  <2>1. driven = None
    BY <1>2 DEF HandshakeInv, LineInv
  <2>2. \A s \in Slaves : offered[s] # None => s = target
    BY DEF HandshakeInv, LineInv, PhaseInv, Aside
  <2>3. Drivers = {target}
    BY <1>2, <2>2 DEF Drivers, HandshakeInv, BusTypes
  <2>4. Cardinality(Drivers) = 1
    BY <2>3, FS_Singleton
  <2>5. (CHOOSE s \in Drivers : TRUE) = target
    BY <2>3
  <2>. QED BY <2>1, <2>4, <2>5 DEF OnBus
<1>. QED BY <1>1, <1>2

\* Initially nobody is at the bus.
LEMMA InitHandshake == Init => HandshakeInv
<1>. SUFFICES ASSUME Init PROVE HandshakeInv
  OBVIOUS
<1>1. BusTypes
  BY BoundsAssumption DEF Init, BusTypes, PerSlave, Numbers
<1>2. LineInv /\ PhaseInv /\ HeardInv
  BY DEF Init, LineInv, PhaseInv, HeardInv, Phase, Aside
<1>. QED BY <1>1, <1>2 DEF HandshakeInv


\* A command is begun.
LEMMA CommandHandshake ==
    ASSUME HandshakeInv, NEW r \in Slaves, NEW k \in {"query", "set"}, Command(r, k)
    PROVE  HandshakeInv'
<1>. USE DEF Command, MGo, lines, master, slave, state
<1>1. BusTypes'
  <2>1. number + 1 \in Numbers
    BY BoundsAssumption DEF HandshakeInv, BusTypes, Numbers
  <2>2. Program(k, number + 1) \in Seq(Bytes \cup {ToRead})
    <3>1. \A x, y, z \in Bytes \cup {ToRead} :
              <<x, y>> \in Seq(Bytes \cup {ToRead}) /\ <<x, y, z>> \in Seq(Bytes \cup {ToRead})
      OBVIOUS
    <3>2. ToRead \in Bytes \cup {ToRead}
      OBVIOUS
    <3>. QED BY <2>1, <3>1, <3>2, ProgramType, ProgramBytes
  <2>. QED BY <2>1, <2>2 DEF HandshakeInv, BusTypes, PerSlave, LineInv
<1>2. LineInv'
  BY NoneAssumption DEF HandshakeInv, BusTypes, PerSlave, LineInv, Reading
<1>3. PhaseInv'
  <2>1. InStep' => InStep \/ AllQuiet
    BY DEF InStep
  <2>2. ASSUME InStep' PROVE \A s \in Slaves : spc'[s] \in Aside
    BY <2>1, <2>2 DEF HandshakeInv, PhaseInv, Phase, Aside, AllQuiet
  <2>. QED BY <2>2 DEF HandshakeInv, BusTypes, PhaseInv, Phase
<1>4. HeardInv'
  BY DEF HandshakeInv, BusTypes, PerSlave, LineInv, PhaseInv, InStep, Phase, HeardInv, Aside, Reading, Heard
<1>. QED BY <1>1, <1>2, <1>3, <1>4 DEF HandshakeInv

\* A byte is presented.
LEMMA PresentHandshake == ASSUME HandshakeInv, Present PROVE HandshakeInv'
<1>. USE DEF Present, MGo, lines, master, slave, state
<1>1. BusTypes'
  BY DEF HandshakeInv, BusTypes, PerSlave, LineInv
<1>2. LineInv'
  BY NoneAssumption DEF HandshakeInv, BusTypes, PerSlave, LineInv, Reading
<1>3. ASSUME InStep' PROVE \A s \in Slaves : spc'[s] \in Aside
  <2>1. CASE InStep
    BY <2>1 DEF HandshakeInv, PhaseInv, BusTypes, Phase
  <2>2. CASE ~InStep
    <3>1. AllQuiet
      BY <1>3, <2>2 DEF InStep
    <3>. QED BY <3>1 DEF AllQuiet, Aside
  <2>. QED BY <2>1, <2>2
<1>4. PhaseInv'
  BY <1>3 DEF HandshakeInv, BusTypes, PhaseInv, Phase
<1>5. HeardInv'
  BY DEF HeardInv
<1>. QED BY <1>1, <1>2, <1>4, <1>5 DEF HandshakeInv

\* Req goes up.
LEMMA RaiseHandshake == ASSUME HandshakeInv, Raise PROVE HandshakeInv'
<1>. USE DEF Raise, MGo, SetReq, lines, master, slave, state
<1>1. BusTypes'
  BY DEF HandshakeInv, BusTypes, PerSlave, LineInv
<1>2. LineInv'
  BY NoneAssumption DEF HandshakeInv, BusTypes, PerSlave, LineInv, Reading
<1>3. PhaseInv'
  <2>1. InStep' = InStep
    BY DEF InStep
  <2>. QED BY <2>1 DEF HandshakeInv, BusTypes, PerSlave, LineInv, PhaseInv, Phase, Aside, Reading
<1>4. HeardInv'
  BY DEF HandshakeInv, BusTypes, PerSlave, LineInv, PhaseInv, InStep, Phase, HeardInv, Aside, Reading, Heard
<1>. QED BY <1>1, <1>2, <1>3, <1>4 DEF HandshakeInv

\* The master sees Akn.
LEMMA AcknowledgedHandshake == ASSUME HandshakeInv, Acknowledged PROVE HandshakeInv'
<1>. USE DEF Acknowledged, MGo, AKN, lines, master, slave, state
<1>1. BusTypes'
  BY DEF HandshakeInv, BusTypes, PerSlave, LineInv
<1>2. LineInv'
  BY NoneAssumption DEF HandshakeInv, BusTypes, PerSlave, LineInv, Reading
<1>3. PhaseInv'
  <2>1. InStep' = InStep
    BY DEF InStep
  <2>. QED BY <2>1 DEF HandshakeInv, BusTypes, PerSlave, LineInv, PhaseInv, Phase, Aside, Reading
<1>4. HeardInv'
  BY DEF HandshakeInv, BusTypes, PerSlave, LineInv, PhaseInv, InStep, Phase, HeardInv, Aside, Reading, Heard
<1>. QED BY <1>1, <1>2, <1>3, <1>4 DEF HandshakeInv

\* Req goes down.
LEMMA DropHandshake == ASSUME HandshakeInv, Drop PROVE HandshakeInv'
<1>. USE DEF Drop, MGo, SetReq, lines, master, slave, state
<1>1. BusTypes'
  BY DEF HandshakeInv, BusTypes, PerSlave, LineInv
<1>2. LineInv'
  BY NoneAssumption DEF HandshakeInv, BusTypes, PerSlave, LineInv, Reading
<1>3. PhaseInv'
  <2>1. InStep' = InStep
    BY DEF InStep
  <2>. QED BY <2>1 DEF HandshakeInv, BusTypes, PerSlave, LineInv, PhaseInv, Phase, Aside, Reading
<1>4. HeardInv'
  BY DEF HandshakeInv, BusTypes, PerSlave, LineInv, PhaseInv, InStep, Phase, HeardInv, Aside, Reading, Heard
<1>. QED BY <1>1, <1>2, <1>3, <1>4 DEF HandshakeInv

\* The master sees Akn go.
LEMMA FallenHandshake == ASSUME HandshakeInv, Fallen PROVE HandshakeInv'
<1>. USE DEF Fallen, MGo, AKN, lines, master, slave, state
<1>1. BusTypes'
  <2>1. todo # <<>> /\ todo \in Seq(Bytes \cup {ToRead})
    BY DEF HandshakeInv, BusTypes, LineInv
  <2>2. Tail(todo) \in Seq(Bytes \cup {ToRead})
    BY <2>1
  <2>3. PICK n \in IF Reading /\ Len(answer) = 1 THEN Lengths ELSE {0} :
               todo' = Tail(todo) \o [i \in 1..n |-> ToRead]
    OBVIOUS
  <2>4. n \in Nat
    BY <2>3 DEF Lengths, Params
  <2>5. DEFINE more == [i \in 1..n |-> ToRead]
  <2>6. more \in Seq(Bytes \cup {ToRead})
    BY <2>4
  <2>7. todo' = Tail(todo) \o more
    BY <2>3
  <2>8. todo' \in Seq(Bytes \cup {ToRead})
    <3>. HIDE DEF more
    <3>. QED BY <2>2, <2>6, <2>7, ConcatProperties
  <2>. QED BY <2>8 DEF HandshakeInv, BusTypes, PerSlave
<1>2. LineInv'
  BY NoneAssumption DEF HandshakeInv, BusTypes, PerSlave, LineInv, Reading
<1>3. PhaseInv'
  <2>1. InStep' = InStep
    BY DEF InStep
  <2>. QED BY <2>1 DEF HandshakeInv, BusTypes, PerSlave, LineInv, PhaseInv, Phase, Aside, Reading
<1>4. HeardInv'
  BY DEF HandshakeInv, BusTypes, PerSlave, LineInv, PhaseInv, InStep, Phase, HeardInv, Aside, Reading, Heard
<1>. QED BY <1>1, <1>2, <1>3, <1>4 DEF HandshakeInv

\* It does not see Akn come.
LEMMA NoAcknowledgeHandshake == ASSUME HandshakeInv, NoAcknowledge PROVE HandshakeInv'
<1>. USE DEF NoAcknowledge, GiveUp, SetReq, lines, master, slave, state
<1>1. BusTypes'
  <2>1. todo # <<>> /\ todo \in Seq(Bytes \cup {ToRead})
    BY DEF HandshakeInv, BusTypes, LineInv
  <2>2. Tail(todo) \in Seq(Bytes \cup {ToRead}) /\ <<>> \in Seq(Bytes \cup {ToRead})
    BY <2>1
  <2>3. todo' \in Seq(Bytes \cup {ToRead})
    BY <2>2
  <2>. QED BY <2>3 DEF HandshakeInv, BusTypes, PerSlave
<1>2. LineInv'
  BY NoneAssumption DEF HandshakeInv, BusTypes, PerSlave, LineInv, Reading
<1>3. PhaseInv'
  BY DEF PhaseInv, InStep
<1>4. HeardInv'
  BY DEF HandshakeInv, BusTypes, PerSlave, LineInv, PhaseInv, InStep, Phase, HeardInv, Aside, Reading, Heard
<1>. QED BY <1>1, <1>2, <1>3, <1>4 DEF HandshakeInv

\* It does not see Akn go.
LEMMA NoReleaseHandshake == ASSUME HandshakeInv, NoRelease PROVE HandshakeInv'
<1>. USE DEF NoRelease, GiveUp, lines, master, slave, state
<1>1. BusTypes'
  <2>1. todo # <<>> /\ todo \in Seq(Bytes \cup {ToRead})
    BY DEF HandshakeInv, BusTypes, LineInv
  <2>2. Tail(todo) \in Seq(Bytes \cup {ToRead}) /\ <<>> \in Seq(Bytes \cup {ToRead})
    BY <2>1
  <2>3. todo' \in Seq(Bytes \cup {ToRead})
    BY <2>2
  <2>. QED BY <2>3 DEF HandshakeInv, BusTypes, PerSlave
<1>2. LineInv'
  BY NoneAssumption DEF HandshakeInv, BusTypes, PerSlave, LineInv, Reading
<1>3. PhaseInv'
  BY DEF PhaseInv, InStep
<1>4. HeardInv'
  BY DEF HandshakeInv, BusTypes, PerSlave, LineInv, PhaseInv, InStep, Phase, HeardInv, Aside, Reading, Heard
<1>. QED BY <1>1, <1>2, <1>3, <1>4 DEF HandshakeInv

\* A command is over.
LEMMA FinishHandshake == ASSUME HandshakeInv, Finish PROVE HandshakeInv'
<1>. USE DEF Finish, MGo, lines, master, slave, state
<1>1. BusTypes'
  BY DEF HandshakeInv, BusTypes, PerSlave, LineInv
<1>2. LineInv'
  BY NoneAssumption DEF HandshakeInv, BusTypes, PerSlave, LineInv, Reading
<1>3. PhaseInv'
  <2>1. InStep' = InStep
    BY DEF InStep
  <2>. QED BY <2>1 DEF HandshakeInv, BusTypes, PerSlave, LineInv, PhaseInv, Phase, Aside, Reading
<1>4. HeardInv'
  BY DEF HandshakeInv, BusTypes, PerSlave, LineInv, PhaseInv, InStep, Phase, HeardInv, Aside, Reading, Heard
<1>. QED BY <1>1, <1>2, <1>3, <1>4 DEF HandshakeInv

\* An interrupt.
LEMMA InterruptHandshake == ASSUME HandshakeInv, NEW r \in Slaves, Interrupt(r) PROVE HandshakeInv'
<1>. USE DEF Interrupt, SGo, elsewhere, lines, master, slave, state
<1>1. BusTypes'
  BY DEF HandshakeInv, BusTypes, PerSlave
<1>2. LineInv'
  BY NoneAssumption DEF HandshakeInv, BusTypes, PerSlave, LineInv, Reading
<1>3. PhaseInv'
  <2>1. InStep' = InStep
    BY DEF InStep
  <2>. QED BY <2>1 DEF HandshakeInv, BusTypes, PerSlave, LineInv, PhaseInv, Phase, Aside, Reading
<1>4. HeardInv'
  BY DEF HandshakeInv, BusTypes, PerSlave, LineInv, PhaseInv, InStep, Phase, HeardInv, Aside, Reading, Heard
<1>. QED BY <1>1, <1>2, <1>3, <1>4 DEF HandshakeInv

\* A slave looks at Req,
LEMMA CheckReqHandshake == ASSUME HandshakeInv, NEW r \in Slaves, CheckReq(r) PROVE HandshakeInv'
<1>. USE DEF CheckReq, SGo, elsewhere, lines, master, slave, state
<1>1. BusTypes'
  BY DEF HandshakeInv, BusTypes, PerSlave
<1>2. LineInv'
  BY NoneAssumption DEF HandshakeInv, BusTypes, PerSlave, LineInv, Reading
<1>3. PhaseInv'
  <2>1. InStep' = InStep
    BY DEF InStep
  <2>. QED BY <2>1 DEF HandshakeInv, BusTypes, PerSlave, LineInv, PhaseInv, Phase, Aside, Reading
<1>4. HeardInv'
  BY DEF HandshakeInv, BusTypes, PerSlave, LineInv, PhaseInv, InStep, Phase, HeardInv, Aside, Reading, Heard
<1>. QED BY <1>1, <1>2, <1>3, <1>4 DEF HandshakeInv

\* at RW,
LEMMA CheckDirectionHandshake == ASSUME HandshakeInv, NEW r \in Slaves, CheckDirection(r) PROVE HandshakeInv'
<1>. USE DEF CheckDirection, SGo, elsewhere, lines, master, slave, state
<1>1. BusTypes'
  BY DEF HandshakeInv, BusTypes, PerSlave
<1>2. LineInv'
  BY NoneAssumption DEF HandshakeInv, BusTypes, PerSlave, LineInv, Reading
<1>3. PhaseInv'
  <2>1. InStep' = InStep
    BY DEF InStep
  <2>. QED BY <2>1 DEF HandshakeInv, BusTypes, PerSlave, LineInv, PhaseInv, Phase, Aside, Reading
<1>4. HeardInv'
  BY DEF HandshakeInv, BusTypes, PerSlave, LineInv, PhaseInv, InStep, Phase, HeardInv, Aside, Reading, Heard
<1>. QED BY <1>1, <1>2, <1>3, <1>4 DEF HandshakeInv

\* takes the byte
LEMMA TakeHandshake == ASSUME HandshakeInv, NEW r \in Slaves, Take(r) PROVE HandshakeInv'
<1>. USE DEF Take, SGo, elsewhere, lines, master, slave, state
<1>1. BusTypes'
  BY DEF HandshakeInv, BusTypes, PerSlave
<1>2. LineInv'
  BY NoneAssumption DEF HandshakeInv, BusTypes, PerSlave, LineInv, Reading
<1>3. PhaseInv'
  <2>1. InStep' = InStep
    BY DEF InStep
  <2>. QED BY <2>1 DEF HandshakeInv, BusTypes, PerSlave, LineInv, PhaseInv, Phase, Aside, Reading
<1>4. HeardInv'
  <2>1. ASSUME ~disturbed PROVE r = target /\ mpc = "akn" /\ ~Reading /\ heard = <<>>
    BY <2>1 DEF HandshakeInv, BusTypes, PerSlave, PhaseInv, InStep, HeardInv, Phase, Aside
  <2>2. ASSUME ~disturbed PROVE OnBus = Head(todo)
    BY <2>2, OnBusTaken DEF InStep
  <2>3. ASSUME ~disturbed PROVE Heard'
    BY <2>1, <2>2, <2>3 DEF Heard
  <2>. QED BY <2>1, <2>3 DEF HandshakeInv, BusTypes, PerSlave, HeardInv, Aside, Reading, Heard
<1>. QED BY <1>1, <1>2, <1>3, <1>4 DEF HandshakeInv

\* or puts one on the lines,
LEMMA GiveHandshake == ASSUME HandshakeInv, NEW r \in Slaves, Give(r) PROVE HandshakeInv'
<1>. USE DEF Give, SGo, elsewhere, lines, master, slave, state
<1>1. BusTypes'
  BY DEF HandshakeInv, BusTypes, PerSlave
<1>2. LineInv'
  BY NoneAssumption DEF HandshakeInv, BusTypes, PerSlave, LineInv, Reading
<1>3. PhaseInv'
  <2>1. InStep' = InStep
    BY DEF InStep
  <2>. QED BY <2>1 DEF HandshakeInv, BusTypes, PerSlave, LineInv, PhaseInv, Phase, Aside, Reading
<1>4. HeardInv'
  BY DEF HandshakeInv, BusTypes, PerSlave, LineInv, PhaseInv, InStep, Phase, HeardInv, Aside, Reading, Heard
<1>. QED BY <1>1, <1>2, <1>3, <1>4 DEF HandshakeInv

\* acknowledges it,
LEMMA AcknowledgeHandshake == ASSUME HandshakeInv, NEW r \in Slaves, Acknowledge(r) PROVE HandshakeInv'
<1>. USE DEF Acknowledge, SGo, elsewhere, lines, master, slave, state
<1>1. BusTypes'
  BY DEF HandshakeInv, BusTypes, PerSlave
<1>2. LineInv'
  BY NoneAssumption DEF HandshakeInv, BusTypes, PerSlave, LineInv, Reading
<1>3. PhaseInv'
  <2>1. InStep' = InStep
    BY DEF InStep
  <2>. QED BY <2>1 DEF HandshakeInv, BusTypes, PerSlave, LineInv, PhaseInv, Phase, Aside, Reading
<1>4. HeardInv'
  BY DEF HandshakeInv, BusTypes, PerSlave, LineInv, PhaseInv, InStep, Phase, HeardInv, Aside, Reading, Heard
<1>. QED BY <1>1, <1>2, <1>3, <1>4 DEF HandshakeInv

\* sees Req gone,
LEMMA ReqFallenHandshake == ASSUME HandshakeInv, NEW r \in Slaves, ReqFallen(r) PROVE HandshakeInv'
<1>. USE DEF ReqFallen, SGo, elsewhere, lines, master, slave, state
<1>1. BusTypes'
  BY DEF HandshakeInv, BusTypes, PerSlave
<1>2. LineInv'
  BY NoneAssumption DEF HandshakeInv, BusTypes, PerSlave, LineInv, Reading
<1>3. ASSUME InStep PROVE r = target /\ mpc = "fall"
  BY <1>3 DEF HandshakeInv, BusTypes, PhaseInv, Phase, Aside
<1>4. PhaseInv'
  <2>1. InStep' = InStep
    BY DEF InStep
  <2>. QED BY <1>3, <2>1 DEF HandshakeInv, BusTypes, PerSlave, PhaseInv, Phase, Aside, Reading
<1>5. HeardInv'
  BY <1>3 DEF HandshakeInv, HeardInv, InStep, Reading, Heard
<1>. QED BY <1>1, <1>2, <1>4, <1>5 DEF HandshakeInv

\* lets go of the lines
LEMMA FreeHandshake == ASSUME HandshakeInv, NEW r \in Slaves, Free(r) PROVE HandshakeInv'
<1>. USE DEF Free, SGo, elsewhere, lines, master, slave, state
<1>1. BusTypes'
  BY DEF HandshakeInv, BusTypes, PerSlave
<1>2. LineInv'
  BY NoneAssumption DEF HandshakeInv, BusTypes, PerSlave, LineInv, Reading
<1>3. PhaseInv'
  <2>1. InStep' = InStep
    BY DEF InStep
  <2>. QED BY <2>1 DEF HandshakeInv, BusTypes, PerSlave, LineInv, PhaseInv, Phase, Aside, Reading
<1>4. HeardInv'
  BY DEF HandshakeInv, BusTypes, PerSlave, LineInv, PhaseInv, InStep, Phase, HeardInv, Aside, Reading, Heard
<1>. QED BY <1>1, <1>2, <1>3, <1>4 DEF HandshakeInv

\* and of Akn,
LEMMA ReleaseHandshake == ASSUME HandshakeInv, NEW r \in Slaves, Release(r) PROVE HandshakeInv'
<1>. USE DEF Release, SGo, elsewhere, lines, master, slave, state
<1>1. BusTypes'
  BY DEF HandshakeInv, BusTypes, PerSlave
<1>2. LineInv'
  BY NoneAssumption DEF HandshakeInv, BusTypes, PerSlave, LineInv, Reading
<1>3. PhaseInv'
  <2>1. InStep' = InStep
    BY DEF InStep
  <2>. QED BY <2>1 DEF HandshakeInv, BusTypes, PerSlave, LineInv, PhaseInv, Phase, Aside, Reading
<1>4. HeardInv'
  BY DEF HandshakeInv, BusTypes, PerSlave, LineInv, PhaseInv, InStep, Phase, HeardInv, Aside, Reading, Heard
<1>. QED BY <1>1, <1>2, <1>3, <1>4 DEF HandshakeInv

\* or of Akn alone,
LEMMA ReleaseTakenHandshake == ASSUME HandshakeInv, NEW r \in Slaves, ReleaseTaken(r) PROVE HandshakeInv'
<1>. USE DEF ReleaseTaken, SGo, elsewhere, lines, master, slave, state
<1>1. BusTypes'
  BY DEF HandshakeInv, BusTypes, PerSlave
<1>2. LineInv'
  BY NoneAssumption DEF HandshakeInv, BusTypes, PerSlave, LineInv, Reading
<1>3. PhaseInv'
  <2>1. InStep' = InStep
    BY DEF InStep
  <2>. QED BY <2>1 DEF HandshakeInv, BusTypes, PerSlave, LineInv, PhaseInv, Phase, Aside, Reading
<1>4. HeardInv'
  BY DEF HandshakeInv, BusTypes, PerSlave, LineInv, PhaseInv, InStep, Phase, HeardInv, Aside, Reading, Heard
<1>. QED BY <1>1, <1>2, <1>3, <1>4 DEF HandshakeInv

\* begins an answer,
LEMMA ProcessQueryHandshake == ASSUME HandshakeInv, NEW r \in Slaves, ProcessQuery(r) PROVE HandshakeInv'
<1>. USE DEF ProcessQuery, SGo, elsewhere, lines, master, slave, state
<1>1. BusTypes'
  BY DEF HandshakeInv, BusTypes, PerSlave
<1>2. LineInv'
  BY NoneAssumption DEF HandshakeInv, BusTypes, PerSlave, LineInv, Reading
<1>3. PhaseInv'
  <2>1. InStep' = InStep
    BY DEF InStep
  <2>. QED BY <2>1 DEF HandshakeInv, BusTypes, PerSlave, LineInv, PhaseInv, Phase, Aside, Reading
<1>4. HeardInv'
  BY DEF HandshakeInv, BusTypes, PerSlave, LineInv, PhaseInv, InStep, Phase, HeardInv, Aside, Reading, Heard
<1>. QED BY <1>1, <1>2, <1>3, <1>4 DEF HandshakeInv

\* completes it
LEMMA FillHandshake == ASSUME HandshakeInv, NEW r \in Slaves, Fill(r) PROVE HandshakeInv'
<1>. USE DEF Fill, SGo, elsewhere, lines, master, slave, state
<1>1. BusTypes'
  BY DEF HandshakeInv, BusTypes, PerSlave
<1>2. LineInv'
  BY NoneAssumption DEF HandshakeInv, BusTypes, PerSlave, LineInv, Reading
<1>3. PhaseInv'
  <2>1. InStep' = InStep
    BY DEF InStep
  <2>. QED BY <2>1 DEF HandshakeInv, BusTypes, PerSlave, LineInv, PhaseInv, Phase, Aside, Reading
<1>4. HeardInv'
  BY DEF HandshakeInv, BusTypes, PerSlave, LineInv, PhaseInv, InStep, Phase, HeardInv, Aside, Reading, Heard
<1>. QED BY <1>1, <1>2, <1>3, <1>4 DEF HandshakeInv

\* and looks at Req again,
LEMMA EnableHandshake == ASSUME HandshakeInv, NEW r \in Slaves, Enable(r) PROVE HandshakeInv'
<1>. USE DEF Enable, SGo, elsewhere, lines, master, slave, state
<1>1. BusTypes'
  BY DEF HandshakeInv, BusTypes, PerSlave
<1>2. LineInv'
  BY NoneAssumption DEF HandshakeInv, BusTypes, PerSlave, LineInv, Reading
<1>3. PhaseInv'
  <2>1. InStep' = InStep
    BY DEF InStep
  <2>. QED BY <2>1 DEF HandshakeInv, BusTypes, PerSlave, LineInv, PhaseInv, Phase, Aside, Reading
<1>4. HeardInv'
  BY DEF HandshakeInv, BusTypes, PerSlave, LineInv, PhaseInv, InStep, Phase, HeardInv, Aside, Reading, Heard
<1>. QED BY <1>1, <1>2, <1>3, <1>4 DEF HandshakeInv

\* or takes a parameter,
LEMMA ProcessParamHandshake == ASSUME HandshakeInv, NEW r \in Slaves, ProcessParam(r) PROVE HandshakeInv'
<1>. USE DEF ProcessParam, SGo, elsewhere, lines, master, slave, state
<1>1. BusTypes'
  BY DEF HandshakeInv, BusTypes, PerSlave
<1>2. LineInv'
  BY NoneAssumption DEF HandshakeInv, BusTypes, PerSlave, LineInv, Reading
<1>3. PhaseInv'
  <2>1. InStep' = InStep
    BY DEF InStep
  <2>. QED BY <2>1 DEF HandshakeInv, BusTypes, PerSlave, LineInv, PhaseInv, Phase, Aside, Reading
<1>4. HeardInv'
  BY DEF HandshakeInv, BusTypes, PerSlave, LineInv, PhaseInv, InStep, Phase, HeardInv, Aside, Reading, Heard
<1>. QED BY <1>1, <1>2, <1>3, <1>4 DEF HandshakeInv

\* or a code.
LEMMA ProcessCodeHandshake ==
    ASSUME HandshakeInv, NEW r \in Slaves, NEW what \in {"set", "unknown"}, ProcessCode(r, what)
    PROVE  HandshakeInv'
<1>. USE DEF ProcessCode, SGo, elsewhere, lines, master, slave, state
<1>1. BusTypes'
  BY DEF HandshakeInv, BusTypes, PerSlave
<1>2. LineInv'
  BY NoneAssumption DEF HandshakeInv, BusTypes, PerSlave, LineInv, Reading
<1>3. PhaseInv'
  <2>1. InStep' = InStep
    BY DEF InStep
  <2>. QED BY <2>1 DEF HandshakeInv, BusTypes, PerSlave, LineInv, PhaseInv, Phase, Aside, Reading
<1>4. HeardInv'
  BY DEF HandshakeInv, BusTypes, PerSlave, LineInv, PhaseInv, InStep, Phase, HeardInv, Aside, Reading, Heard
<1>. QED BY <1>1, <1>2, <1>3, <1>4 DEF HandshakeInv

-----------------------------------------------------------------------------

\* A step in which nothing happens.
LEMMA StutterHandshake == ASSUME HandshakeInv, UNCHANGED vars PROVE HandshakeInv'
<1>. USE DEF vars, lines, master, slave, state
<1>1. BusTypes' /\ LineInv'
  BY DEF HandshakeInv, BusTypes, PerSlave, LineInv, Reading
<1>2. PhaseInv' /\ HeardInv'
  BY DEF HandshakeInv, PhaseInv, InStep, Phase, HeardInv, Reading, Heard
<1>. QED BY <1>1, <1>2 DEF HandshakeInv

-----------------------------------------------------------------------------
(* What is kept where *)

Places == {"idle", "check", "direction", "take", "give", "ackTaken", "ackGiven", "waitTaken", "waitGiven",
           "free", "release", "processLater", "process", "fill", "enable"}

MasterTypes ==
    /\ req \in [Slaves -> BOOLEAN] /\ rw \in {"read", "write"} /\ driven \in Bytes \cup {None}
    /\ kind \in {"query", "set"} /\ answer \in Seq(Bytes) /\ failed \in BOOLEAN
    /\ result \in {"none", "success", "failure"} /\ timeouts \in 0..MaxTimeouts
    /\ disturbed \in BOOLEAN /\ astray \in [Slaves -> BOOLEAN]

FlagTypes == cnFlag \in [Slaves -> BOOLEAN]

SlaveTypes ==
    /\ spc \in [Slaves -> Places] /\ akn \in [Slaves -> BOOLEAN] /\ cnBit \in [Slaves -> BOOLEAN]
    /\ offered \in [Slaves -> Bytes \cup {None}] /\ latched \in [Slaves -> Bytes]
    /\ busState \in [Slaves -> {"top", "params"}] /\ depth \in [Slaves -> Nat]
    /\ args \in [Slaves -> Seq(Bytes)] /\ txBuf \in [Slaves -> Seq(Bytes)]
    /\ txPtr \in [Slaves -> 0..2] /\ PerSlave(applied)
    /\ \A s \in Slaves :
        /\ Len(args[s]) < Params /\ Len(txBuf[s]) = 2
        /\ spc[s] = "idle" => depth[s] = 0
        /\ busState[s] = "top" => args[s] = <<>>

\* The command of the master, and what a query and a setting are made of.
Code == <<kind, number, 0>>
Arg(i) == <<"arg", number, i>>
LenByte == <<"len", number, 0>>
DataByte == <<"data", number, 0>>

\* What is left to do of a command and what has been read so far.
TodoInv ==
    /\ kind = "set" =>
        /\ answer = <<>>
        /\ todo \in {<<Code, Arg(1), Arg(2)>>, <<Arg(1), Arg(2)>>, <<Arg(2)>>, <<>>}
    /\ kind = "query" /\ answer = <<>> =>
        /\ todo \in {<<Code, ToRead>>, <<ToRead>>, <<>>}
        /\ mpc \in {"drop", "fall"} => todo = <<Code, ToRead>>
    /\ kind = "query" /\ answer # <<>> =>
        /\ todo \in {<<ToRead, ToRead>>, <<ToRead>>, <<>>}
        /\ Len(answer) = 1 /\ mpc \in {"drop", "fall"} => todo = <<ToRead>>
    /\ mpc = "idle" => todo = <<>>
    /\ mpc # "idle" => result = "none"
    /\ failed => \A s \in Slaves : astray[s]

PlaceInv == MasterTypes /\ FlagTypes /\ SlaveTypes /\ TodoInv

\* That is what the type invariant asks for.
LEMMA PlaceImplies == HandshakeInv /\ PlaceInv => TypeOK
<1>. SUFFICES ASSUME HandshakeInv, PlaceInv PROVE TypeOK
  OBVIOUS
<1>1. Len(todo) <= Params + 1
  <2>1. CASE kind = "set"
    <3>1. todo \in {<<Code, Arg(1), Arg(2)>>, <<Arg(1), Arg(2)>>, <<Arg(2)>>, <<>>}
      BY <2>1 DEF PlaceInv, TodoInv
    <3>2. Len(todo) \in {0, 1, 2, 3}
      BY <3>1
    <3>3. \A n \in {0, 1, 2, 3} : n <= Params + 1
      BY DEF Params
    <3>. QED BY <3>2, <3>3
  <2>2. CASE kind = "query"
    BY <2>2 DEF PlaceInv, TodoInv, Params
  <2>. QED BY <2>1, <2>2 DEF PlaceInv, MasterTypes
<1>2. {akn, cnBit, cnFlag, astray} \subseteq [Slaves -> BOOLEAN]
  BY DEF PlaceInv, MasterTypes, FlagTypes, SlaveTypes
<1>. QED
  BY <1>1, <1>2 DEF HandshakeInv, BusTypes, PlaceInv, MasterTypes, SlaveTypes, Places, TypeOK

\* Whatever is on the data lines is a byte.
LEMMA OnBusByte == ASSUME PlaceInv PROVE OnBus \in Bytes
<1>1. Noise \in Bytes
  BY BoundsAssumption DEF Noise, Bytes, Numbers, Params
<1>2. ASSUME Cardinality(Drivers) = 1 PROVE offered[CHOOSE s \in Drivers : TRUE] \in Bytes
  <2>1. Drivers # {}
    BY <1>2, FS_EmptySet
  <2>2. (CHOOSE s \in Drivers : TRUE) \in Drivers
    BY <2>1
  <2>. QED BY <2>2 DEF Drivers, PlaceInv, SlaveTypes
<1>. QED BY <1>1, <1>2 DEF OnBus, PlaceInv, MasterTypes

\* How the programs of a setting and of a query are worked off.
LEMMA TodoShape ==
    ASSUME HandshakeInv, PlaceInv, todo # <<>>
    PROVE  /\ kind = "set" => /\ ~Reading /\ Len(todo) \in 1..3 /\ Len(Tail(todo)) = Len(todo) - 1
                              /\ Head(todo) = IF Len(todo) = 3 THEN Code ELSE Arg(3 - Len(todo))
                              /\ Tail(todo) \in {<<Arg(1), Arg(2)>>, <<Arg(2)>>, <<>>}
           /\ kind = "query" => /\ Reading <=> todo # <<Code, ToRead>>
                                /\ Head(todo) = IF Reading THEN ToRead ELSE Code
                                /\ ~Reading => Tail(todo) = <<ToRead>>
                                /\ Reading => Tail(todo) = IF todo = <<ToRead, ToRead>> THEN <<ToRead>> ELSE <<>>
<1>1. ASSUME kind = "set"
      PROVE  todo \in {<<Code, Arg(1), Arg(2)>>, <<Arg(1), Arg(2)>>, <<Arg(2)>>}
  BY <1>1 DEF PlaceInv, TodoInv
<1>2. ASSUME kind = "query"
      PROVE  todo \in {<<Code, ToRead>>, <<ToRead, ToRead>>, <<ToRead>>}
  BY <1>2 DEF PlaceInv, TodoInv
<1>3. kind \in {"query", "set"} => Code # ToRead /\ Arg(1) # ToRead /\ Arg(2) # ToRead
  BY DEF Code, Arg, ToRead
<1>4. ASSUME kind = "set"
      PROVE  /\ ~Reading /\ Len(todo) \in 1..3 /\ Len(Tail(todo)) = Len(todo) - 1
             /\ Head(todo) = IF Len(todo) = 3 THEN Code ELSE Arg(3 - Len(todo))
             /\ Tail(todo) \in {<<Arg(1), Arg(2)>>, <<Arg(2)>>, <<>>}
  <2>1. CASE todo = <<Code, Arg(1), Arg(2)>> BY <1>3, <1>4, <2>1 DEF Reading
  <2>2. CASE todo = <<Arg(1), Arg(2)>> BY <1>3, <1>4, <2>2 DEF Reading
  <2>3. CASE todo = <<Arg(2)>> BY <1>3, <1>4, <2>3 DEF Reading
  <2>. QED BY <1>1, <1>4, <2>1, <2>2, <2>3
<1>5. ASSUME kind = "query"
      PROVE  /\ Reading <=> todo # <<Code, ToRead>>
             /\ Head(todo) = IF Reading THEN ToRead ELSE Code
             /\ ~Reading => Tail(todo) = <<ToRead>>
             /\ Reading => Tail(todo) = IF todo = <<ToRead, ToRead>> THEN <<ToRead>> ELSE <<>>
  <2>1. CASE todo = <<Code, ToRead>> BY <1>3, <1>5, <2>1 DEF Reading
  <2>2. CASE todo = <<ToRead, ToRead>> BY <1>3, <1>5, <2>2 DEF Reading
  <2>3. CASE todo = <<ToRead>> BY <1>3, <1>5, <2>3 DEF Reading
  <2>. QED BY <1>2, <1>5, <2>1, <2>2, <2>3
<1>. QED BY <1>4, <1>5

\* What is left to do after a byte.
LEMMA FallenTodo ==
    ASSUME HandshakeInv, PlaceInv, Fallen
    PROVE  /\ Reading /\ Len(answer) = 1 =>
               kind = "query" /\ todo' \in {<<>>, <<ToRead>>, <<ToRead, ToRead>>}
           /\ Reading /\ Len(answer) = 1 /\ Head(answer)[1] = "len" => todo' = <<ToRead>>
           /\ ~(Reading /\ Len(answer) = 1) => todo' = Tail(todo)
<1>. DEFINE more(n) == [i \in 1..n |-> ToRead]
<1>1. PICK n \in IF Reading /\ Len(answer) = 1 THEN Lengths ELSE {0} : todo' = Tail(todo) \o more(n)
  BY DEF Fallen
<1>2. more(0) = <<>> /\ more(1) = <<ToRead>> /\ more(2) = <<ToRead, ToRead>>
  OBVIOUS
<1>3. todo # <<>> /\ todo \in Seq(Bytes \cup {ToRead}) /\ mpc = "fall"
  BY DEF Fallen, MGo, HandshakeInv, BusTypes, LineInv
<1>4. \A t \in Seq(Bytes \cup {ToRead}) : t \o <<>> = t /\ <<>> \o t = t
  BY ConcatEmptySeq
<1>. HIDE DEF more
<1>5. CASE Reading /\ Len(answer) = 1
  <2>1. kind = "query"
    BY <1>3, <1>5, TodoShape DEF PlaceInv, MasterTypes
  <2>2. Tail(todo) = <<>>
    <3>1. answer = <<>> => Len(answer) = 0
      OBVIOUS
    <3>2. todo = <<ToRead>>
      BY <1>3, <1>5, <2>1, <3>1 DEF PlaceInv, TodoInv
    <3>. QED BY <3>2
  <2>3. n \in Lengths /\ Lengths \subseteq {0, 1, 2}
    BY <1>1, <1>5 DEF Lengths, Params
  <2>4. \A x, y \in Bytes \cup {ToRead} : <<>> \in Seq(Bytes \cup {ToRead}) /\ <<x>> \in Seq(Bytes \cup {ToRead})
                                            /\ <<x, y>> \in Seq(Bytes \cup {ToRead})
    OBVIOUS
  <2>5. more(n) \in Seq(Bytes \cup {ToRead})
    BY <1>2, <2>3, <2>4
  <2>6. todo' = more(n)
    BY <1>1, <1>4, <2>2, <2>5
  <2>7. Head(answer)[1] = "len" => n = 1
    BY <2>3, <1>1, <1>5 DEF Lengths
  <2>. QED BY <1>2, <1>5, <2>1, <2>3, <2>6, <2>7
<1>6. CASE ~(Reading /\ Len(answer) = 1)
  <2>1. n = 0
    BY <1>1, <1>6
  <2>2. Tail(todo) \in Seq(Bytes \cup {ToRead})
    BY <1>3
  <2>. QED BY <1>1, <1>2, <1>4, <1>6, <2>1, <2>2
<1>. QED BY <1>5, <1>6

\* Initially nothing is to be done.
LEMMA InitPlace == Init => PlaceInv
<1>. SUFFICES ASSUME Init PROVE PlaceInv
  OBVIOUS
<1>1. Noise \in Bytes
  BY BoundsAssumption DEF Noise, Bytes, Numbers, Params
<1>2. MasterTypes /\ FlagTypes
  <2>1. <<>> \in Seq(Bytes) /\ 0 \in 0..MaxTimeouts
    BY BoundsAssumption
  <2>. QED BY <2>1 DEF Init, MasterTypes, FlagTypes
<1>3. SlaveTypes
  BY <1>1 DEF Init, SlaveTypes, Places, PerSlave, Params
<1>4. TodoInv
  BY DEF Init, TodoInv
<1>. QED BY <1>2, <1>3, <1>4 DEF PlaceInv

\* The host's command is laid out in todo, byte by byte.
LEMMA CommandPlace ==
    ASSUME HandshakeInv, PlaceInv, NEW r \in Slaves, NEW k \in {"query", "set"}, Command(r, k)
    PROVE  PlaceInv'
<1>. USE DEF Command, MGo, lines, master, slave, state
<1>1. MasterTypes'
  <2>1. <<>> \in Seq(Bytes)
    OBVIOUS
  <2>2. \A t \in Slaves : (astray[t] /\ ~(AllQuiet /\ busState[t] = "top")) \in BOOLEAN
    OBVIOUS
  <2>3. astray' \in [Slaves -> BOOLEAN]
    BY <2>2
  <2>. QED BY <2>1, <2>3 DEF PlaceInv, MasterTypes
<1>2. FlagTypes' /\ SlaveTypes'
  BY DEF PlaceInv, FlagTypes, SlaveTypes, PerSlave
<1>3. TodoInv'
  <2>1. number + 1 \in Numbers
    BY BoundsAssumption DEF HandshakeInv, BusTypes, Numbers
  <2>2. todo' = IF k = "query" THEN <<Code', ToRead>> ELSE <<Code', Arg(1)', Arg(2)'>>
    BY <2>1, ProgramType DEF Code, Arg
  <2>3. kind' = k /\ answer' = <<>> /\ mpc' = "next" /\ result' = "none" /\ failed' = FALSE
    OBVIOUS
  <2>. QED BY <2>2, <2>3 DEF TodoInv
<1>. QED BY <1>1, <1>2, <1>3 DEF PlaceInv

\* Putting a byte on the lines changes nothing else.
LEMMA PresentPlace == ASSUME HandshakeInv, PlaceInv, Present PROVE PlaceInv'
<1>. USE DEF Present, MGo, lines, master, slave, state
<1>1. MasterTypes'
  <2>1. ~Reading => Head(todo) \in Bytes
    BY DEF HandshakeInv, BusTypes, Reading
  <2>2. disturbed' \in BOOLEAN
    BY DEF PlaceInv, MasterTypes
  <2>. QED BY <2>1, <2>2 DEF PlaceInv, MasterTypes
<1>2. FlagTypes' /\ SlaveTypes'
  BY DEF PlaceInv, FlagTypes, SlaveTypes, PerSlave
<1>3. TodoInv'
  BY DEF PlaceInv, TodoInv, Code, Arg
<1>. QED BY <1>1, <1>2, <1>3 DEF PlaceInv

\* Raising the request line.
LEMMA RaisePlace == ASSUME HandshakeInv, PlaceInv, Raise PROVE PlaceInv'
<1>. USE DEF Raise, MGo, SetReq, lines, master, slave, state
<1>1. MasterTypes'
  BY DEF PlaceInv, MasterTypes, HandshakeInv, BusTypes, LineInv
<1>2. FlagTypes' /\ SlaveTypes'
  BY DEF PlaceInv, FlagTypes, SlaveTypes, PerSlave
<1>3. TodoInv'
  BY DEF PlaceInv, TodoInv, Code, Arg
<1>. QED BY <1>1, <1>2, <1>3 DEF PlaceInv

\* A byte that was read is added to the answer.
LEMMA AcknowledgedPlace == ASSUME HandshakeInv, PlaceInv, Acknowledged PROVE PlaceInv'
<1>. USE DEF Acknowledged, MGo, AKN, lines, master, slave, state
<1>1. MasterTypes'
  <2>1. answer' \in Seq(Bytes)
    BY OnBusByte DEF PlaceInv, MasterTypes
  <2>. QED BY <2>1 DEF PlaceInv, MasterTypes
<1>2. FlagTypes' /\ SlaveTypes'
  BY DEF PlaceInv, FlagTypes, SlaveTypes, PerSlave
<1>3. TodoInv'
  <2>1. todo # <<>>
    BY DEF HandshakeInv, LineInv
  <2>2. CASE Reading
    <3>1. kind = "query" /\ todo # <<Code, ToRead>>
      BY <2>1, <2>2, TodoShape DEF PlaceInv, MasterTypes
    <3>2. Len(answer') = Len(answer) + 1 /\ answer' # <<>>
      BY <2>2, OnBusByte DEF PlaceInv, MasterTypes
    <3>3. Len(answer') = 1 => answer = <<>>
      BY <3>2 DEF PlaceInv, MasterTypes
    <3>. QED BY <2>1, <3>1, <3>2, <3>3 DEF PlaceInv, TodoInv, Code, Arg
  <2>3. CASE ~Reading
    <3>1. kind = "query" => todo = <<Code, ToRead>>
      BY <2>1, <2>3, TodoShape
    <3>2. answer' = answer
      BY <2>3
    <3>3. ASSUME kind = "query" PROVE answer = <<>>
      <4>1. todo = <<Code, ToRead>> /\ Code # ToRead
        BY <3>1, <3>3 DEF Code, ToRead
      <4>2. todo \notin {<<ToRead, ToRead>>, <<ToRead>>, <<>>}
        BY <4>1
      <4>. QED BY <3>3, <4>2 DEF PlaceInv, TodoInv
    <3>. QED BY <3>1, <3>2, <3>3 DEF PlaceInv, TodoInv, Code, Arg
  <2>. QED BY <2>2, <2>3
<1>. QED BY <1>1, <1>2, <1>3 DEF PlaceInv

\* Dropping the request line takes the byte off the lines.
LEMMA DropPlace == ASSUME HandshakeInv, PlaceInv, Drop PROVE PlaceInv'
<1>. USE DEF Drop, MGo, SetReq, lines, master, slave, state
<1>1. MasterTypes'
  BY DEF PlaceInv, MasterTypes, HandshakeInv, BusTypes, LineInv
<1>2. FlagTypes' /\ SlaveTypes'
  BY DEF PlaceInv, FlagTypes, SlaveTypes, PerSlave
<1>3. TodoInv'
  BY DEF PlaceInv, TodoInv, Code, Arg
<1>. QED BY <1>1, <1>2, <1>3 DEF PlaceInv

\* The byte is done: the rest of the command is still laid out in order.
LEMMA FallenPlace == ASSUME HandshakeInv, PlaceInv, Fallen PROVE PlaceInv'
<1>0. Reading /\ Len(answer) = 1 => kind = "query" /\ todo' \in {<<>>, <<ToRead>>, <<ToRead, ToRead>>}
  BY FallenTodo
<1>. USE DEF Fallen, MGo, AKN, lines, master, slave, state
<1>1. MasterTypes'
  BY DEF PlaceInv, MasterTypes, HandshakeInv, BusTypes, LineInv
<1>2. FlagTypes' /\ SlaveTypes'
  BY DEF PlaceInv, FlagTypes, SlaveTypes, PerSlave
<1>3. TodoInv'
  <2>1. todo # <<>> /\ mpc = "fall"
    BY DEF HandshakeInv, LineInv
  <2>2. CASE Reading /\ Len(answer) = 1
    <3>1. answer = <<>> => Len(answer) = 0
      OBVIOUS
    <3>2. kind = "query" /\ answer # <<>> /\ todo' \in {<<>>, <<ToRead>>, <<ToRead, ToRead>>}
      <4>1. kind = "query" /\ todo' \in {<<>>, <<ToRead>>, <<ToRead, ToRead>>}
        BY <1>0, <2>2
      <4>2. answer # <<>>
        BY <2>2, <3>1
      <4>. QED BY <4>1, <4>2
    <3>. QED BY <3>2 DEF PlaceInv, TodoInv
  <2>3. CASE ~(Reading /\ Len(answer) = 1)
    <3>1. todo' = Tail(todo)
      BY <2>3, FallenTodo
    <3>2. CASE kind = "set"
      BY <2>1, <3>1, <3>2, TodoShape DEF PlaceInv, TodoInv, Code, Arg
    <3>3. CASE kind = "query" /\ Reading
      BY <2>1, <3>1, <3>3, TodoShape DEF PlaceInv, TodoInv
    <3>4. CASE kind = "query" /\ ~Reading
      <4>1. todo = <<Code, ToRead>> /\ todo' = <<ToRead>>
        BY <2>1, <3>1, <3>4, TodoShape
      <4>2. answer = <<>>
        BY <3>4, <4>1 DEF PlaceInv, TodoInv, Code, ToRead
      <4>. QED BY <3>4, <4>1, <4>2 DEF PlaceInv, TodoInv
    <3>. QED BY <3>2, <3>3, <3>4 DEF PlaceInv, MasterTypes
  <2>. QED BY <2>2, <2>3
<1>. QED BY <1>1, <1>2, <1>3 DEF PlaceInv

\* The result is told to the host.
LEMMA FinishPlace == ASSUME HandshakeInv, PlaceInv, Finish PROVE PlaceInv'
<1>. USE DEF Finish, MGo, lines, master, slave, state
<1>1. MasterTypes'
  BY DEF PlaceInv, MasterTypes, HandshakeInv, BusTypes, LineInv
<1>2. FlagTypes' /\ SlaveTypes'
  BY DEF PlaceInv, FlagTypes, SlaveTypes, PerSlave
<1>3. TodoInv'
  BY DEF PlaceInv, TodoInv, Code, Arg
<1>. QED BY <1>1, <1>2, <1>3 DEF PlaceInv

\* A time-out for the acknowledge ends the command as a failure.
LEMMA NoAcknowledgePlace == ASSUME HandshakeInv, PlaceInv, NoAcknowledge PROVE PlaceInv'
<1>. USE DEF NoAcknowledge, GiveUp, SetReq, lines, master, slave, state
<1>1. MasterTypes'
  <2>1. timeouts' \in 0..MaxTimeouts
    BY BoundsAssumption DEF PlaceInv, MasterTypes
  <2>. QED BY <2>1 DEF PlaceInv, MasterTypes, HandshakeInv, BusTypes
<1>2. FlagTypes' /\ SlaveTypes'
  BY DEF PlaceInv, FlagTypes, SlaveTypes, PerSlave
<1>3. TodoInv'
  <2>1. todo # <<>>
    BY DEF HandshakeInv, LineInv
  <2>2. CASE kind = "set"
    BY <2>1, <2>2, TodoShape DEF PlaceInv, TodoInv, Code, Arg
  <2>3. CASE kind = "query" /\ Reading
    BY <2>3 DEF PlaceInv, TodoInv
  <2>4. CASE kind = "query" /\ ~Reading
    <3>1. todo = <<Code, ToRead>> /\ todo' \in {<<>>, <<ToRead>>}
      BY <2>1, <2>4, TodoShape
    <3>2. answer = <<>>
      BY <2>4, <3>1 DEF PlaceInv, TodoInv, Code, ToRead
    <3>. QED BY <2>4, <3>1, <3>2 DEF PlaceInv, TodoInv
  <2>. QED BY <2>2, <2>3, <2>4 DEF PlaceInv, MasterTypes
<1>. QED BY <1>1, <1>2, <1>3 DEF PlaceInv

\* A time-out for the release ends the command as a failure.
LEMMA NoReleasePlace == ASSUME HandshakeInv, PlaceInv, NoRelease PROVE PlaceInv'
<1>. USE DEF NoRelease, GiveUp, lines, master, slave, state
<1>1. MasterTypes'
  <2>1. timeouts' \in 0..MaxTimeouts
    BY BoundsAssumption DEF PlaceInv, MasterTypes
  <2>. QED BY <2>1 DEF PlaceInv, MasterTypes, HandshakeInv, BusTypes
<1>2. FlagTypes' /\ SlaveTypes'
  BY DEF PlaceInv, FlagTypes, SlaveTypes, PerSlave
<1>3. TodoInv'
  <2>1. todo # <<>>
    BY DEF HandshakeInv, LineInv
  <2>2. CASE kind = "set"
    BY <2>1, <2>2, TodoShape DEF PlaceInv, TodoInv, Code, Arg
  <2>3. CASE kind = "query" /\ Reading
    BY <2>3 DEF PlaceInv, TodoInv
  <2>4. CASE kind = "query" /\ ~Reading
    <3>1. todo = <<Code, ToRead>> /\ todo' \in {<<>>, <<ToRead>>}
      BY <2>1, <2>4, TodoShape
    <3>2. answer = <<>>
      BY <2>4, <3>1 DEF PlaceInv, TodoInv, Code, ToRead
    <3>. QED BY <2>4, <3>1, <3>2 DEF PlaceInv, TodoInv
  <2>. QED BY <2>2, <2>3, <2>4 DEF PlaceInv, MasterTypes
<1>. QED BY <1>1, <1>2, <1>3 DEF PlaceInv

\* The request raises the slave's interrupt.
LEMMA InterruptPlace == ASSUME HandshakeInv, PlaceInv, NEW r \in Slaves, Interrupt(r) PROVE PlaceInv'
<1>. USE DEF Interrupt, SGo, elsewhere, lines, master, slave, state
<1>1. MasterTypes' /\ TodoInv'
  BY DEF PlaceInv, MasterTypes, TodoInv, Code, Arg
<1>2. FlagTypes'
  BY DEF PlaceInv, FlagTypes
<1>3. SlaveTypes'
  BY DEF PlaceInv, SlaveTypes, Places, PerSlave
<1>. QED BY <1>1, <1>2, <1>3 DEF PlaceInv

\* The slave looks for a request.
LEMMA CheckReqPlace == ASSUME HandshakeInv, PlaceInv, NEW r \in Slaves, CheckReq(r) PROVE PlaceInv'
<1>. USE DEF CheckReq, SGo, elsewhere, lines, master, slave, state
<1>1. MasterTypes' /\ TodoInv'
  BY DEF PlaceInv, MasterTypes, TodoInv, Code, Arg
<1>2. FlagTypes'
  BY DEF PlaceInv, FlagTypes
<1>3. SlaveTypes'
  BY DEF PlaceInv, SlaveTypes, Places, PerSlave
<1>. QED BY <1>1, <1>2, <1>3 DEF PlaceInv

\* The slave looks at the direction.
LEMMA CheckDirectionPlace == ASSUME HandshakeInv, PlaceInv, NEW r \in Slaves, CheckDirection(r) PROVE PlaceInv'
<1>. USE DEF CheckDirection, SGo, elsewhere, lines, master, slave, state
<1>1. MasterTypes' /\ TodoInv'
  BY DEF PlaceInv, MasterTypes, TodoInv, Code, Arg
<1>2. FlagTypes'
  BY DEF PlaceInv, FlagTypes
<1>3. SlaveTypes'
  BY DEF PlaceInv, SlaveTypes, Places, PerSlave
<1>. QED BY <1>1, <1>2, <1>3 DEF PlaceInv

\* A byte of the lines is latched.
LEMMA TakePlace == ASSUME HandshakeInv, PlaceInv, NEW r \in Slaves, Take(r) PROVE PlaceInv'
<1>. USE DEF Take, SGo, elsewhere, lines, master, slave, state
<1>1. MasterTypes' /\ TodoInv'
  BY DEF PlaceInv, MasterTypes, TodoInv, Code, Arg
<1>2. FlagTypes'
  BY DEF PlaceInv, FlagTypes
<1>3. SlaveTypes'
  BY OnBusByte DEF PlaceInv, SlaveTypes, Places, PerSlave
<1>. QED BY <1>1, <1>2, <1>3 DEF PlaceInv

\* The slave moves its pointer on and puts the byte it points at on the lines: never past the end of the block.
LEMMA GivePlace == ASSUME HandshakeInv, PlaceInv, NEW r \in Slaves, Give(r) PROVE PlaceInv'
<1>. USE DEF Give, SGo, elsewhere, lines, master, slave, state
<1>1. MasterTypes' /\ TodoInv'
  BY DEF PlaceInv, MasterTypes, TodoInv, Code, Arg
<1>2. FlagTypes'
  BY DEF PlaceInv, FlagTypes
<1>3. SlaveTypes'
  <2>1. Noise \in Bytes
    BY BoundsAssumption DEF Noise, Bytes, Numbers, Params
  <2>2. txPtr[r] < 2 => txPtr[r] + 1 \in 1..Len(txBuf[r])
    <3>1. Len(txBuf[r]) = 2 /\ txPtr[r] \in 0..2
      BY DEF PlaceInv, SlaveTypes
    <3>2. \A n \in 0..2 : n < 2 => n + 1 \in 1..2
      OBVIOUS
    <3>. QED BY <3>1, <3>2
  <2>3. txPtr[r] < 2 => txBuf[r][txPtr[r] + 1] \in Bytes
    BY <2>2 DEF PlaceInv, SlaveTypes
  <2>4. offered'[r] \in Bytes
    BY <2>1, <2>3 DEF PlaceInv, SlaveTypes
  <2>. QED BY <2>4 DEF PlaceInv, SlaveTypes, Places, PerSlave
<1>. QED BY <1>1, <1>2, <1>3 DEF PlaceInv

\* The slave acknowledges.
LEMMA AcknowledgePlace == ASSUME HandshakeInv, PlaceInv, NEW r \in Slaves, Acknowledge(r) PROVE PlaceInv'
<1>. USE DEF Acknowledge, SGo, elsewhere, lines, master, slave, state
<1>1. MasterTypes' /\ TodoInv'
  BY DEF PlaceInv, MasterTypes, TodoInv, Code, Arg
<1>2. FlagTypes'
  BY DEF PlaceInv, FlagTypes
<1>3. SlaveTypes'
  BY DEF PlaceInv, SlaveTypes, Places, PerSlave
<1>. QED BY <1>1, <1>2, <1>3 DEF PlaceInv

\* The slave sees the request fall.
LEMMA ReqFallenPlace == ASSUME HandshakeInv, PlaceInv, NEW r \in Slaves, ReqFallen(r) PROVE PlaceInv'
<1>. USE DEF ReqFallen, SGo, elsewhere, lines, master, slave, state
<1>1. MasterTypes' /\ TodoInv'
  BY DEF PlaceInv, MasterTypes, TodoInv, Code, Arg
<1>2. FlagTypes'
  BY DEF PlaceInv, FlagTypes
<1>3. SlaveTypes'
  BY DEF PlaceInv, SlaveTypes, Places, PerSlave
<1>. QED BY <1>1, <1>2, <1>3 DEF PlaceInv

\* The slave takes its byte off the lines.
LEMMA FreePlace == ASSUME HandshakeInv, PlaceInv, NEW r \in Slaves, Free(r) PROVE PlaceInv'
<1>. USE DEF Free, SGo, elsewhere, lines, master, slave, state
<1>1. MasterTypes' /\ TodoInv'
  BY DEF PlaceInv, MasterTypes, TodoInv, Code, Arg
<1>2. FlagTypes'
  BY DEF PlaceInv, FlagTypes
<1>3. SlaveTypes'
  BY DEF PlaceInv, SlaveTypes, Places, PerSlave
<1>. QED BY <1>1, <1>2, <1>3 DEF PlaceInv

\* The acknowledge is taken back.
LEMMA ReleasePlace == ASSUME HandshakeInv, PlaceInv, NEW r \in Slaves, Release(r) PROVE PlaceInv'
<1>. USE DEF Release, SGo, elsewhere, lines, master, slave, state
<1>1. MasterTypes' /\ TodoInv'
  BY DEF PlaceInv, MasterTypes, TodoInv, Code, Arg
<1>2. FlagTypes'
  BY DEF PlaceInv, FlagTypes
<1>3. SlaveTypes'
  BY DEF PlaceInv, SlaveTypes, Places, PerSlave
<1>. QED BY <1>1, <1>2, <1>3 DEF PlaceInv

\* The acknowledge of a byte taken is taken back.
LEMMA ReleaseTakenPlace == ASSUME HandshakeInv, PlaceInv, NEW r \in Slaves, ReleaseTaken(r) PROVE PlaceInv'
<1>. USE DEF ReleaseTaken, SGo, elsewhere, lines, master, slave, state
<1>1. MasterTypes' /\ TodoInv'
  BY DEF PlaceInv, MasterTypes, TodoInv, Code, Arg
<1>2. FlagTypes'
  BY DEF PlaceInv, FlagTypes
<1>3. SlaveTypes'
  BY DEF PlaceInv, SlaveTypes, Places, PerSlave
<1>. QED BY <1>1, <1>2, <1>3 DEF PlaceInv

\* The first byte of a block is its length.
LEMMA ProcessQueryPlace == ASSUME HandshakeInv, PlaceInv, NEW r \in Slaves, ProcessQuery(r) PROVE PlaceInv'
<1>. USE DEF ProcessQuery, SGo, elsewhere, lines, master, slave, state
<1>1. MasterTypes' /\ TodoInv'
  BY DEF PlaceInv, MasterTypes, TodoInv, Code, Arg
<1>2. FlagTypes'
  BY DEF PlaceInv, FlagTypes
<1>3. SlaveTypes'
  <2>1. latched[r][2] \in Numbers
    BY DEF PlaceInv, SlaveTypes, Bytes
  <2>2. <<"len", latched[r][2], 0>> \in Bytes /\ <<"partial", latched[r][2], 0>> \in Bytes
    BY <2>1, ProgramBytes
  <2>3. txBuf'[r] \in Seq(Bytes) /\ Len(txBuf'[r]) = 2
    BY <2>2 DEF PlaceInv, SlaveTypes
  <2>. QED BY <2>3 DEF PlaceInv, SlaveTypes, Places, PerSlave
<1>. QED BY <1>1, <1>2, <1>3 DEF PlaceInv

\* The block is filled up to the size it was made with.
LEMMA FillPlace == ASSUME HandshakeInv, PlaceInv, NEW r \in Slaves, Fill(r) PROVE PlaceInv'
<1>. USE DEF Fill, SGo, elsewhere, lines, master, slave, state
<1>1. MasterTypes' /\ TodoInv'
  BY DEF PlaceInv, MasterTypes, TodoInv, Code, Arg
<1>2. FlagTypes'
  BY DEF PlaceInv, FlagTypes
<1>3. SlaveTypes'
  <2>1. latched[r][2] \in Numbers /\ Noise \in Bytes
    BY BoundsAssumption DEF PlaceInv, SlaveTypes, Bytes, Noise, Numbers, Params
  <2>2. <<"data", latched[r][2], 0>> \in Bytes
    BY <2>1, ProgramBytes
  <2>3. txBuf'[r] = [txBuf[r] EXCEPT ![2] = <<"data", latched[r][2], 0>>]
    BY DEF PlaceInv, SlaveTypes
  <2>4. txBuf'[r] \in Seq(Bytes) /\ Len(txBuf'[r]) = 2
    BY <2>2, <2>3 DEF PlaceInv, SlaveTypes
  <2>. QED BY <2>1, <2>4 DEF PlaceInv, SlaveTypes, Places, PerSlave
<1>. QED BY <1>1, <1>2, <1>3 DEF PlaceInv

\* The block is given from its start.
LEMMA EnablePlace == ASSUME HandshakeInv, PlaceInv, NEW r \in Slaves, Enable(r) PROVE PlaceInv'
<1>. USE DEF Enable, SGo, elsewhere, lines, master, slave, state
<1>1. MasterTypes' /\ TodoInv'
  BY DEF PlaceInv, MasterTypes, TodoInv, Code, Arg
<1>2. FlagTypes'
  BY DEF PlaceInv, FlagTypes
<1>3. SlaveTypes'
  BY DEF PlaceInv, SlaveTypes, Places, PerSlave
<1>. QED BY <1>1, <1>2, <1>3 DEF PlaceInv

\* A parameter is collected, and the last one empties the list.
LEMMA ProcessParamPlace == ASSUME HandshakeInv, PlaceInv, NEW r \in Slaves, ProcessParam(r) PROVE PlaceInv'
<1>. USE DEF ProcessParam, SGo, elsewhere, lines, master, slave, state
<1>1. MasterTypes' /\ TodoInv'
  BY DEF PlaceInv, MasterTypes, TodoInv, Code, Arg
<1>2. FlagTypes'
  BY DEF PlaceInv, FlagTypes
<1>3. SlaveTypes'
  <2>1. Noise \in Bytes
    BY BoundsAssumption DEF Noise, Bytes, Numbers, Params
  <2>2. CASE Len(args[r]) = Params - 1
    <3>1. args'[r] = <<>> /\ Len(args'[r]) = 0 /\ args'[r] \in Seq(Bytes)
      BY <2>2 DEF PlaceInv, SlaveTypes
    <3>2. \A s \in Slaves \ {r} : args'[s] = args[s] /\ busState'[s] = busState[s]
      BY <2>2 DEF PlaceInv, SlaveTypes
    <3>3. args' \in [Slaves -> Seq(Bytes)] /\ applied' = [s \in Slaves |-> applied'[s]]
      BY <2>2, <3>1 DEF PlaceInv, SlaveTypes, PerSlave
    <3>. QED BY <2>1, <2>2, <3>1, <3>2, <3>3 DEF PlaceInv, SlaveTypes, Places, PerSlave, Params
  <2>3. CASE Len(args[r]) # Params - 1
    <3>1. args'[r] = Append(args[r], latched[r])
      BY <2>3 DEF PlaceInv, SlaveTypes
    <3>2. args'[r] \in Seq(Bytes) /\ Len(args'[r]) = Len(args[r]) + 1
      BY <3>1 DEF PlaceInv, SlaveTypes
    <3>3. Len(args'[r]) < Params
      <4>1. Len(args[r]) \in Nat /\ Len(args[r]) < 2 /\ Len(args[r]) # 1
        BY <2>3 DEF PlaceInv, SlaveTypes, Params
      <4>2. \A n \in Nat : n < 2 /\ n # 1 => n + 1 < Params
        BY DEF Params
      <4>. QED BY <3>2, <4>1, <4>2
    <3>4. busState' = busState /\ busState[r] = "params" /\ applied' = applied
      BY <2>3
    <3>5. \A s \in Slaves \ {r} : args'[s] = args[s]
      BY <2>3 DEF PlaceInv, SlaveTypes
    <3>6. args' \in [Slaves -> Seq(Bytes)]
      BY <2>3, <3>2 DEF PlaceInv, SlaveTypes
    <3>. HIDE DEF ProcessParam
    <3>. QED BY <2>1, <3>2, <3>3, <3>4, <3>5, <3>6 DEF ProcessParam, PlaceInv, SlaveTypes, Places, PerSlave
  <2>. QED BY <2>2, <2>3
<1>. QED BY <1>1, <1>2, <1>3 DEF PlaceInv

\* A code other than a query.
LEMMA ProcessCodePlace ==
    ASSUME HandshakeInv, PlaceInv, NEW r \in Slaves, NEW what \in {"set", "unknown"}, ProcessCode(r, what)
    PROVE  PlaceInv'
<1>. USE DEF ProcessCode, SGo, elsewhere, lines, master, slave, state
<1>1. MasterTypes' /\ TodoInv'
  BY DEF PlaceInv, MasterTypes, TodoInv, Code, Arg
<1>2. FlagTypes'
  BY DEF PlaceInv, FlagTypes
<1>3. SlaveTypes'
  <2>1. Noise \in Bytes
    BY BoundsAssumption DEF Noise, Bytes, Numbers, Params
  <2>. QED BY <2>1 DEF PlaceInv, SlaveTypes, Places, PerSlave
<1>. QED BY <1>1, <1>2, <1>3 DEF PlaceInv

-----------------------------------------------------------------------------
(* A command, from its code to its last byte *)

\* A slave that was not left behind waits for a command, or has the last parameter of
\* the last one still to process.
Settled(s) ==
    /\ depth[s] = 0
    /\ \/ spc[s] \in {"idle", "check"} /\ busState[s] = "top"
       \/ spc[s] = "process" /\ busState[s] = "params" /\ Len(args[s]) = Params - 1

\* The slave has the byte the master is at, and does not know yet that the master knows.
Handed == mpc \in {"drop", "fall"} \/ (mpc = "akn" /\ spc[target] \in {"ackTaken", "waitTaken"})

Taking == {"ackTaken", "waitTaken", "processLater", "process"}
Waiting == {"idle", "check", "direction", "take"}

Fresh ==
    \/ Settled(target)
    \/ spc[target] \in {"direction", "take"} /\ busState[target] = "top" /\ depth[target] = 0

\* A setting: what is left when j bytes are done, the byte that is next, and the state
\* of a slave that has processed n of them.
Rest(j) == CASE j = 0 -> <<Code, Arg(1), Arg(2)>>
             [] j = 1 -> <<Arg(1), Arg(2)>>
             [] j = 2 -> <<Arg(2)>>
             [] j = 3 -> <<>>

Nth(j) == IF j = 0 THEN Code ELSE Arg(j)

Got(n) ==
    /\ busState[target] = IF n \in {0, 3} THEN "top" ELSE "params"
    /\ args[target] = IF n = 2 THEN <<Arg(1)>> ELSE <<>>
    /\ n = 3 => applied[target] = <<Arg(1), Arg(2)>>

SlaveAt(n) ==
    IF n = 0 THEN Fresh ELSE
    /\ depth[target] = 0
    /\ \/ spc[target] \in Taking /\ latched[target] = Nth(n - 1) /\ Got(n - 1)
       \/ spc[target] \in Waiting /\ Got(n)

SetInv == \E j \in 0..3 : todo = Rest(j) /\ SlaveAt(IF Handed THEN j + 1 ELSE j)

\* A query: the slave prepares the block, then gives a byte of it for each the master reads.
Preparing ==
    /\ depth[target] = 0
    /\ answer = <<>>
    /\ \/ spc[target] \in Taking /\ latched[target] = Code
       \/ spc[target] = "fill" /\ latched[target] = Code /\ txBuf[target][1] = LenByte /\ txPtr[target] = 0
       \/ spc[target] = "enable" /\ txBuf[target] = <<LenByte, DataByte>> /\ txPtr[target] = 0

Given == Len(answer) + (IF mpc = "akn" /\ spc[target] \in {"ackGiven", "waitGiven"} THEN 1 ELSE 0)

Answering ==
    /\ spc[target] \in {"idle", "check", "direction", "give", "ackGiven", "waitGiven", "free", "release"}
    /\ txBuf[target] = <<LenByte, DataByte>>
    /\ txPtr[target] = Given
    /\ depth[target] <= 1
    /\ spc[target] = "check" => depth[target] = 0 \/ Given = 0
    /\ spc[target] \in {"ackGiven", "waitGiven"} => offered[target] = txBuf[target][txPtr[target]]

\* What the master has read is the beginning of that block, and what is left to read the rest.
ReadInv ==
    \/ answer = <<>> /\ todo \in {<<Code, ToRead>>, <<ToRead>>}
    \/ answer = <<LenByte>> /\ todo = <<ToRead>>
    \/ answer = <<LenByte, DataByte>> /\ todo = IF mpc \in {"drop", "fall"} THEN <<ToRead>> ELSE <<>>

QueryInv ==
    /\ ReadInv
    /\ IF todo = <<Code, ToRead>> /\ ~Handed THEN Fresh
       ELSE busState[target] = "top" /\ (Preparing \/ Answering)

Begun == mpc # "idle" \/ result # "none"

CommandInv ==
    /\ \A s \in Slaves : ~astray[s] /\ (s # target \/ ~Begun) => Settled(s)
    /\ ~astray[target] /\ Begun =>
        /\ kind = "set" => SetInv
        /\ kind = "query" => QueryInv


\* A setting is worked off from the front.
LEMMA RestShape ==
    ASSUME NEW j \in 0..3
    PROVE  IF j = 3 THEN Rest(j) = <<>>
           ELSE Rest(j) # <<>> /\ Head(Rest(j)) = Nth(j) /\ Tail(Rest(j)) = Rest(j + 1)
<1>1. CASE j = 0 BY <1>1 DEF Rest, Nth
<1>2. CASE j = 1 BY <1>2 DEF Rest, Nth
<1>3. CASE j = 2 BY <1>3 DEF Rest, Nth
<1>4. CASE j = 3 BY <1>4 DEF Rest
<1>. QED BY <1>1, <1>2, <1>3, <1>4

\* Where a slave can be that was not left behind.
LEMMA TargetAt ==
    ASSUME HandshakeInv, PlaceInv, ~astray[target]
    PROVE  /\ InStep
           /\ spc[target] \in Phase
           /\ mpc \in {"akn", "drop"} => req[target]
           /\ mpc \in {"raise", "akn", "drop", "fall"} =>
               /\ todo # <<>>
               /\ rw = IF Reading THEN "read" ELSE "write"
               /\ Reading <=> kind = "query" /\ todo # <<Code, ToRead>>
<1>1. InStep
  BY DEF InStep, HandshakeInv, BusTypes
<1>2. ASSUME mpc \in {"raise", "akn", "drop", "fall"}
      PROVE  /\ todo # <<>>
             /\ rw = IF Reading THEN "read" ELSE "write"
             /\ Reading <=> kind = "query" /\ todo # <<Code, ToRead>>
  BY <1>2, TodoShape DEF HandshakeInv, LineInv, PlaceInv, MasterTypes
<1>. QED BY <1>1, <1>2 DEF HandshakeInv, PhaseInv

\* The last byte is not followed by another.
LEMMA TakenShort ==
    ASSUME HandshakeInv, PlaceInv, ~astray[target], NEW j \in 0..3, todo = Rest(j),
           SlaveAt(IF Handed THEN j + 1 ELSE j)
    PROVE  LET n == IF Handed THEN j + 1 ELSE j IN n \in 0..3 /\ SlaveAt(n)
<1>1. Handed => todo # <<>>
  BY TargetAt DEF Handed
<1>2. Handed => j # 3
  BY <1>1, RestShape
<1>. QED BY <1>2

\* A sequence of two.
LEMMA PairEqual ==
    ASSUME NEW S, NEW s \in Seq(S), Len(s) = 2, NEW x \in S, NEW y \in S, s[1] = x
    PROVE  [s EXCEPT ![2] = y] = <<x, y>>
<1>. DEFINE c == [s EXCEPT ![2] = y]
            d == <<x, y>>
<1>1. c \in Seq(S) /\ Len(c) = 2 /\ c[1] = x /\ c[2] = y
  <2>1. DOMAIN s = 1..2 /\ \A i \in 1..2 : s[i] \in S
    OBVIOUS
  <2>2. c = [i \in 1..2 |-> IF i = 2 THEN y ELSE s[i]]
    BY <2>1
  <2>. QED BY <2>1, <2>2
<1>2. d \in Seq(S) /\ Len(d) = 2 /\ d[1] = x /\ d[2] = y
  OBVIOUS
<1>3. \A i \in 1..2 : c[i] = d[i]
  BY <1>1, <1>2
<1>. HIDE DEF c, d
<1>4. c = d
  BY <1>1, <1>2, <1>3, SeqEqual
<1>. QED BY <1>4 DEF c, d

\* One more is appended.
LEMMA AppendTwo == ASSUME NEW x, NEW y PROVE Append(<<x>>, y) = <<x, y>>
<1>. DEFINE S == {x, y}
            c == Append(<<x>>, y)
            d == <<x, y>>
<1>1. c \in Seq(S) /\ Len(c) = 2 /\ c[1] = x /\ c[2] = y
  OBVIOUS
<1>2. d \in Seq(S) /\ Len(d) = 2 /\ d[1] = x /\ d[2] = y
  OBVIOUS
<1>3. \A i \in 1..2 : c[i] = d[i]
  BY <1>1, <1>2
<1>. HIDE DEF c, d
<1>4. c = d
  BY <1>1, <1>2, <1>3, SeqEqual
<1>. QED BY <1>4 DEF c, d

\* What a step of a slave has to be shown for.
LEMMA SlaveStep ==
    ASSUME CommandInv, NEW r \in Slaves, UNCHANGED <<master, astray>>,
           \A s \in Slaves \ {r} :
               /\ spc'[s] = spc[s] /\ depth'[s] = depth[s] /\ busState'[s] = busState[s] /\ args'[s] = args[s]
               /\ latched'[s] = latched[s] /\ applied'[s] = applied[s] /\ offered'[s] = offered[s]
               /\ txBuf'[s] = txBuf[s] /\ txPtr'[s] = txPtr[s],
           ~astray[r] /\ (r # target \/ ~Begun) /\ Settled(r) => Settled(r)',
           r = target /\ ~astray[r] /\ Begun /\ kind = "set" /\ SetInv => SetInv',
           r = target /\ ~astray[r] /\ Begun /\ kind = "query" /\ QueryInv => QueryInv',
           target \in Slaves
    PROVE  CommandInv'
<1>. USE DEF master
<1>1. Begun' = Begun
  BY DEF Begun
<1>2. \A s \in Slaves : ~astray'[s] /\ (s # target' \/ ~Begun') => Settled(s)'
  BY <1>1 DEF CommandInv, Settled
<1>3. ASSUME r # target, SetInv PROVE SetInv'
  <2>1. PICK j \in 0..3 : todo = Rest(j) /\ SlaveAt(IF Handed THEN j + 1 ELSE j)
    BY <1>3 DEF SetInv
  <2>2. todo' = Rest(j)'
    BY <2>1 DEF Rest, Code, Arg
  <2>3. ASSUME NEW n \in 0..4, SlaveAt(n) PROVE SlaveAt(n)'
    BY <1>3, <2>3 DEF SlaveAt, Fresh, Settled, Got, Nth, Code, Arg
  <2>4. Handed' = Handed
    BY <1>3 DEF Handed
  <2>. QED BY <2>1, <2>2, <2>3, <2>4 DEF SetInv
<1>4. ASSUME r # target, QueryInv PROVE QueryInv'
  BY <1>4 DEF QueryInv, ReadInv, Preparing, Answering, Given, Fresh, Settled, Handed, Code, LenByte, DataByte
<1>. QED BY <1>1, <1>2, <1>3, <1>4 DEF CommandInv

\* An interrupt finds the slave of a command where the command left it.
LEMMA InterruptCommand ==
    ASSUME HandshakeInv, PlaceInv, CommandInv, NEW r \in Slaves, Interrupt(r) PROVE CommandInv'
<1>. USE DEF Interrupt, SGo, elsewhere, lines, master, slave, state
<1>1. \A s \in Slaves \ {r} :
         /\ spc'[s] = spc[s] /\ depth'[s] = depth[s] /\ busState'[s] = busState[s] /\ args'[s] = args[s]
         /\ latched'[s] = latched[s] /\ applied'[s] = applied[s] /\ offered'[s] = offered[s]
         /\ txBuf'[s] = txBuf[s] /\ txPtr'[s] = txPtr[s]
  BY DEF PlaceInv, SlaveTypes, PerSlave
<1>2. ASSUME ~astray[r], r # target \/ ~Begun, Settled(r) PROVE Settled(r)'
  BY <1>2 DEF Settled, Begun, HandshakeInv, LineInv, PlaceInv, SlaveTypes
<1>3. ASSUME r = target, ~astray[r], Begun, kind = "set", SetInv PROVE SetInv'
  <2>1. PICK j \in 0..3 : todo = Rest(j) /\ SlaveAt(IF Handed THEN j + 1 ELSE j)
    BY <1>3 DEF SetInv
  <2>2. todo' = Rest(j)'
    BY <2>1 DEF Rest, Code, Arg
  <2>3. SlaveAt(IF Handed THEN j + 1 ELSE j)'
    BY <1>3, <2>1, TargetAt DEF SlaveAt, Fresh, Settled, Handed, Got, Nth, Code, Arg, Taking, Waiting, Phase, Aside,
       HandshakeInv, LineInv, PlaceInv, SlaveTypes
  <2>. QED BY <2>2, <2>3 DEF SetInv
<1>4. ASSUME r = target, ~astray[r], Begun, kind = "query", QueryInv PROVE QueryInv'
  <2>1. ReadInv'
    BY <1>4 DEF QueryInv, ReadInv, Code, LenByte, DataByte
  <2>2. CASE todo = <<Code, ToRead>> /\ ~Handed /\ Fresh
    BY <1>4, <2>1, <2>2, TargetAt DEF QueryInv, Fresh, Settled, Handed, Code, Phase, Aside,
       HandshakeInv, LineInv, PlaceInv, SlaveTypes
  <2>3. CASE ~(todo = <<Code, ToRead>> /\ ~Handed)
    <3>1. busState[target] = "top" /\ (Preparing \/ Answering)
      BY <1>4, <2>3 DEF QueryInv
    <3>2. ~(todo' = <<Code, ToRead>>' /\ ~Handed')
      BY <1>4, <2>3, TargetAt DEF Handed, Code, Phase, Aside, HandshakeInv, BusTypes, PlaceInv, SlaveTypes
    <3>3. ASSUME Preparing PROVE Preparing' \/ Answering'
      BY <1>4, <3>1, <3>3, TargetAt DEF Preparing, Answering, Given, Code, LenByte, DataByte, Taking, Phase, Aside,
         HandshakeInv, LineInv, PlaceInv, SlaveTypes
    <3>4. ASSUME Answering PROVE Answering'
      <4>1. Given' = Given
        BY <1>4, <3>4 DEF Answering, Given, PlaceInv, SlaveTypes
      <4>. QED BY <1>4, <2>3, <3>1, <3>4, <4>1, TargetAt DEF Answering, Handed, LenByte, DataByte, Phase, Aside,
         HandshakeInv, LineInv, PlaceInv, SlaveTypes
    <3>5. busState'[target] = "top" /\ target' = target
      BY <1>4, <3>1 DEF Preparing, Answering, Taking, PlaceInv, SlaveTypes
    <3>. QED BY <2>1, <3>1, <3>2, <3>3, <3>4, <3>5 DEF QueryInv
  <2>. QED BY <1>4, <2>2, <2>3 DEF QueryInv
<1>. QED BY <1>1, <1>2, <1>3, <1>4, SlaveStep DEF HandshakeInv, BusTypes

\* Looking for a request says nothing about the command.
LEMMA CheckReqCommand ==
    ASSUME HandshakeInv, PlaceInv, CommandInv, NEW r \in Slaves, CheckReq(r) PROVE CommandInv'
<1>. USE DEF CheckReq, SGo, elsewhere, lines, master, slave, state
<1>1. \A s \in Slaves \ {r} :
         /\ spc'[s] = spc[s] /\ depth'[s] = depth[s] /\ busState'[s] = busState[s] /\ args'[s] = args[s]
         /\ latched'[s] = latched[s] /\ applied'[s] = applied[s] /\ offered'[s] = offered[s]
         /\ txBuf'[s] = txBuf[s] /\ txPtr'[s] = txPtr[s]
  BY DEF PlaceInv, SlaveTypes, PerSlave
<1>2. ASSUME ~astray[r], r # target \/ ~Begun, Settled(r) PROVE Settled(r)'
  BY <1>2 DEF Settled, Begun, HandshakeInv, LineInv, PlaceInv, SlaveTypes
<1>3. ASSUME r = target, ~astray[r], Begun, kind = "set", SetInv PROVE SetInv'
  <2>1. PICK j \in 0..3 : todo = Rest(j) /\ SlaveAt(IF Handed THEN j + 1 ELSE j)
    BY <1>3 DEF SetInv
  <2>2. todo' = Rest(j)'
    BY <2>1 DEF Rest, Code, Arg
  <2>3. SlaveAt(IF Handed THEN j + 1 ELSE j)'
    BY <1>3, <2>1, TargetAt DEF SlaveAt, Fresh, Settled, Handed, Got, Nth, Code, Arg, Taking, Waiting, Phase, Aside,
       HandshakeInv, LineInv, PlaceInv, SlaveTypes
  <2>. QED BY <2>2, <2>3 DEF SetInv
<1>4. ASSUME r = target, ~astray[r], Begun, kind = "query", QueryInv PROVE QueryInv'
  <2>1. ReadInv'
    BY <1>4 DEF QueryInv, ReadInv, Code, LenByte, DataByte
  <2>2. CASE todo = <<Code, ToRead>> /\ ~Handed /\ Fresh
    BY <1>4, <2>1, <2>2, TargetAt DEF QueryInv, Fresh, Settled, Handed, Code, Phase, Aside,
       HandshakeInv, LineInv, PlaceInv, SlaveTypes
  <2>3. CASE ~(todo = <<Code, ToRead>> /\ ~Handed)
    <3>1. busState[target] = "top" /\ (Preparing \/ Answering)
      BY <1>4, <2>3 DEF QueryInv
    <3>2. ~(todo' = <<Code, ToRead>>' /\ ~Handed')
      BY <1>4, <2>3, TargetAt DEF Handed, Code, Phase, Aside, HandshakeInv, BusTypes, PlaceInv, SlaveTypes
    <3>3. ASSUME Preparing PROVE Preparing' \/ Answering'
      BY <1>4, <3>1, <3>3, TargetAt DEF Preparing, Answering, Given, Code, LenByte, DataByte, Taking, Phase, Aside,
         HandshakeInv, LineInv, PlaceInv, SlaveTypes
    <3>4. ASSUME Answering PROVE Answering'
      <4>1. Given' = Given
        BY <1>4, <3>4 DEF Answering, Given, PlaceInv, SlaveTypes
      <4>. QED BY <1>4, <2>3, <3>1, <3>4, <4>1, TargetAt DEF Answering, Handed, LenByte, DataByte, Phase, Aside,
         HandshakeInv, LineInv, PlaceInv, SlaveTypes
    <3>5. busState'[target] = "top" /\ target' = target
      BY <1>4, <3>1 DEF Preparing, Answering, Taking, PlaceInv, SlaveTypes
    <3>. QED BY <2>1, <3>1, <3>2, <3>3, <3>4, <3>5 DEF QueryInv
  <2>. QED BY <1>4, <2>2, <2>3 DEF QueryInv
<1>. QED BY <1>1, <1>2, <1>3, <1>4, SlaveStep DEF HandshakeInv, BusTypes

\* The direction is that of the command the slave works for.
LEMMA CheckDirectionCommand ==
    ASSUME HandshakeInv, PlaceInv, CommandInv, NEW r \in Slaves, CheckDirection(r) PROVE CommandInv'
<1>. USE DEF CheckDirection, SGo, elsewhere, lines, master, slave, state
<1>1. \A s \in Slaves \ {r} :
         /\ spc'[s] = spc[s] /\ depth'[s] = depth[s] /\ busState'[s] = busState[s] /\ args'[s] = args[s]
         /\ latched'[s] = latched[s] /\ applied'[s] = applied[s] /\ offered'[s] = offered[s]
         /\ txBuf'[s] = txBuf[s] /\ txPtr'[s] = txPtr[s]
  BY DEF PlaceInv, SlaveTypes, PerSlave
<1>2. ASSUME ~astray[r], r # target \/ ~Begun, Settled(r) PROVE Settled(r)'
  BY <1>2 DEF Settled, Begun, HandshakeInv, LineInv, PlaceInv, SlaveTypes
<1>3. ASSUME r = target, ~astray[r], Begun, kind = "set", SetInv PROVE SetInv'
  <2>1. PICK j \in 0..3 : todo = Rest(j) /\ SlaveAt(IF Handed THEN j + 1 ELSE j)
    BY <1>3 DEF SetInv
  <2>2. todo' = Rest(j)'
    BY <2>1 DEF Rest, Code, Arg
  <2>3. SlaveAt(IF Handed THEN j + 1 ELSE j)'
    BY <1>3, <2>1, TargetAt DEF SlaveAt, Fresh, Settled, Handed, Got, Nth, Code, Arg, Taking, Waiting, Phase, Aside,
       HandshakeInv, LineInv, PlaceInv, SlaveTypes
  <2>. QED BY <2>2, <2>3 DEF SetInv
<1>4. ASSUME r = target, ~astray[r], Begun, kind = "query", QueryInv PROVE QueryInv'
  <2>1. ReadInv'
    BY <1>4 DEF QueryInv, ReadInv, Code, LenByte, DataByte
  <2>2. CASE todo = <<Code, ToRead>> /\ ~Handed /\ Fresh
    BY <1>4, <2>1, <2>2, TargetAt DEF QueryInv, Fresh, Settled, Handed, Code, Phase, Aside,
       HandshakeInv, LineInv, PlaceInv, SlaveTypes
  <2>3. CASE ~(todo = <<Code, ToRead>> /\ ~Handed)
    <3>1. busState[target] = "top" /\ (Preparing \/ Answering)
      BY <1>4, <2>3 DEF QueryInv
    <3>2. ~(todo' = <<Code, ToRead>>' /\ ~Handed')
      BY <1>4, <2>3, TargetAt DEF Handed, Code, Phase, Aside, HandshakeInv, BusTypes, PlaceInv, SlaveTypes
    <3>3. ASSUME Preparing PROVE Preparing' \/ Answering'
      BY <1>4, <3>1, <3>3, TargetAt DEF Preparing, Answering, Given, Code, LenByte, DataByte, Taking, Phase, Aside,
         HandshakeInv, LineInv, PlaceInv, SlaveTypes
    <3>4. ASSUME Answering PROVE Answering'
      <4>1. Given' = Given
        BY <1>4, <3>4 DEF Answering, Given, PlaceInv, SlaveTypes
      <4>. QED BY <1>4, <2>3, <3>1, <3>4, <4>1, TargetAt DEF Answering, Handed, LenByte, DataByte, Phase, Aside,
         HandshakeInv, LineInv, PlaceInv, SlaveTypes
    <3>5. busState'[target] = "top" /\ target' = target
      BY <1>4, <3>1 DEF Preparing, Answering, Taking, PlaceInv, SlaveTypes
    <3>. QED BY <2>1, <3>1, <3>2, <3>3, <3>4, <3>5 DEF QueryInv
  <2>. QED BY <1>4, <2>2, <2>3 DEF QueryInv
<1>. QED BY <1>1, <1>2, <1>3, <1>4, SlaveStep DEF HandshakeInv, BusTypes

\* The slave takes the byte that is next in the setting, or the code of the query.
LEMMA TakeCommand ==
    ASSUME HandshakeInv, PlaceInv, CommandInv, NEW r \in Slaves, Take(r) PROVE CommandInv'
<1>. USE DEF Take, SGo, elsewhere, lines, master, slave, state
<1>1. \A s \in Slaves \ {r} :
         /\ spc'[s] = spc[s] /\ depth'[s] = depth[s] /\ busState'[s] = busState[s] /\ args'[s] = args[s]
         /\ latched'[s] = latched[s] /\ applied'[s] = applied[s] /\ offered'[s] = offered[s]
         /\ txBuf'[s] = txBuf[s] /\ txPtr'[s] = txPtr[s]
  BY DEF PlaceInv, SlaveTypes, PerSlave
<1>2. ASSUME ~astray[r], r # target \/ ~Begun, Settled(r) PROVE Settled(r)'
  BY <1>2 DEF Settled, Begun, HandshakeInv, LineInv, PlaceInv, SlaveTypes
<1>3. ASSUME r = target, ~astray[r], Begun, kind = "set", SetInv PROVE SetInv'
  <2>1. PICK j \in 0..3 : todo = Rest(j) /\ SlaveAt(IF Handed THEN j + 1 ELSE j)
    BY <1>3 DEF SetInv
  <2>2. todo' = Rest(j)'
    BY <2>1 DEF Rest, Code, Arg
  <2>3. mpc = "akn" /\ todo # <<>> /\ OnBus = Head(todo) /\ ~Handed /\ Handed'
    BY <1>3, TargetAt, OnBusTaken DEF Handed, PlaceInv, SlaveTypes
  <2>4. j # 3 /\ latched'[r] = Nth(j)
    BY <2>1, <2>3, RestShape DEF PlaceInv, SlaveTypes
  <2>5. Got(j) /\ depth[r] = 0
    <3>1. SlaveAt(j)
      BY <2>1, <2>3
    <3>2. CASE j = 0
      BY <1>3, <3>1, <3>2 DEF SlaveAt, Fresh, Settled, Got, PlaceInv, SlaveTypes
    <3>3. CASE j # 0
      BY <1>3, <3>1, <3>3 DEF SlaveAt, Taking, Waiting
    <3>. QED BY <3>2, <3>3
  <2>6. \A i \in 0..2 : Nth(i)' = Nth(i) /\ (Got(i) => Got(i)')
    BY DEF Nth, Got, Code, Arg
  <2>7. spc'[r] = "ackTaken" /\ depth'[r] = 0 /\ target' = r
    BY <1>3, <2>5 DEF PlaceInv, SlaveTypes
  <2>8. SlaveAt(j + 1)'
    BY <1>3, <2>4, <2>5, <2>6, <2>7 DEF SlaveAt, Taking
  <2>9. SlaveAt(IF Handed THEN j + 1 ELSE j)'
    BY <2>3, <2>8
  <2>. QED BY <2>2, <2>9 DEF SetInv
<1>4. ASSUME r = target, ~astray[r], Begun, kind = "query", QueryInv PROVE QueryInv'
  <2>1. ReadInv'
    BY <1>4 DEF QueryInv, ReadInv, Code, LenByte, DataByte
  <2>2. CASE todo = <<Code, ToRead>> /\ ~Handed /\ Fresh
    <3>1. mpc = "akn" /\ OnBus = Head(todo) /\ Handed'
      BY <1>4, TargetAt, OnBusTaken DEF Handed, PlaceInv, SlaveTypes
    <3>2. latched'[r] = Code' /\ spc'[r] = "ackTaken"
      BY <2>2, <3>1 DEF PlaceInv, SlaveTypes, Code
    <3>3. depth[r] = 0 /\ busState[r] = "top"
      BY <1>4, <2>2 DEF Fresh, Settled
    <3>4. answer = <<>>
      <4>1. <<Code, ToRead>> # <<ToRead>> /\ <<Code, ToRead>> # <<>>
        OBVIOUS
      <4>. QED BY <1>4, <2>2, <4>1 DEF QueryInv, ReadInv
    <3>5. busState'[r] = "top" /\ Preparing' /\ target' = r
      BY <1>4, <3>2, <3>3, <3>4 DEF Preparing, Taking, PlaceInv, SlaveTypes
    <3>. QED BY <1>4, <2>1, <3>1, <3>5 DEF QueryInv
  <2>3. CASE ~(todo = <<Code, ToRead>> /\ ~Handed)
    <3>1. busState[target] = "top" /\ (Preparing \/ Answering)
      BY <1>4, <2>3 DEF QueryInv
    <3>2. ~(todo' = <<Code, ToRead>>' /\ ~Handed')
      BY <1>4, <2>3, TargetAt DEF Handed, Code, Phase, Aside, HandshakeInv, BusTypes, PlaceInv, SlaveTypes
    <3>3. ASSUME Preparing PROVE Preparing' \/ Answering'
      BY <1>4, <3>1, <3>3, TargetAt DEF Preparing, Answering, Given, Code, LenByte, DataByte, Taking, Phase, Aside,
         HandshakeInv, LineInv, PlaceInv, SlaveTypes
    <3>4. ASSUME Answering PROVE Answering'
      <4>1. Given' = Given
        BY <1>4, <3>4 DEF Answering, Given, PlaceInv, SlaveTypes
      <4>. QED BY <1>4, <2>3, <3>1, <3>4, <4>1, TargetAt DEF Answering, Handed, LenByte, DataByte, Phase, Aside,
         HandshakeInv, LineInv, PlaceInv, SlaveTypes
    <3>5. busState'[target] = "top" /\ target' = target
      BY <1>4, <3>1 DEF Preparing, Answering, Taking, PlaceInv, SlaveTypes
    <3>. QED BY <2>1, <3>1, <3>2, <3>3, <3>4, <3>5 DEF QueryInv
  <2>. QED BY <1>4, <2>2, <2>3 DEF QueryInv
<1>. QED BY <1>1, <1>2, <1>3, <1>4, SlaveStep DEF HandshakeInv, BusTypes

\* The byte given is the one the master has not read yet.
LEMMA GiveCommand ==
    ASSUME HandshakeInv, PlaceInv, CommandInv, NEW r \in Slaves, Give(r) PROVE CommandInv'
<1>. USE DEF Give, SGo, elsewhere, lines, master, slave, state
<1>1. \A s \in Slaves \ {r} :
         /\ spc'[s] = spc[s] /\ depth'[s] = depth[s] /\ busState'[s] = busState[s] /\ args'[s] = args[s]
         /\ latched'[s] = latched[s] /\ applied'[s] = applied[s] /\ offered'[s] = offered[s]
         /\ txBuf'[s] = txBuf[s] /\ txPtr'[s] = txPtr[s]
  BY DEF PlaceInv, SlaveTypes, PerSlave
<1>2. ASSUME ~astray[r], r # target \/ ~Begun, Settled(r) PROVE Settled(r)'
  BY <1>2 DEF Settled, Begun, HandshakeInv, LineInv, PlaceInv, SlaveTypes
<1>3. ASSUME r = target, ~astray[r], Begun, kind = "set", SetInv PROVE SetInv'
  <2>1. PICK j \in 0..3 : todo = Rest(j) /\ SlaveAt(IF Handed THEN j + 1 ELSE j)
    BY <1>3 DEF SetInv
  <2>2. todo' = Rest(j)'
    BY <2>1 DEF Rest, Code, Arg
  <2>3. SlaveAt(IF Handed THEN j + 1 ELSE j)'
    BY <1>3, <2>1, TargetAt DEF SlaveAt, Fresh, Settled, Handed, Got, Nth, Code, Arg, Taking, Waiting, Phase, Aside,
       HandshakeInv, LineInv, PlaceInv, SlaveTypes
  <2>. QED BY <2>2, <2>3 DEF SetInv
<1>4. ASSUME r = target, ~astray[r], Begun, kind = "query", QueryInv PROVE QueryInv'
  <2>1. ReadInv'
    BY <1>4 DEF QueryInv, ReadInv, Code, LenByte, DataByte
  <2>2. CASE todo = <<Code, ToRead>> /\ ~Handed /\ Fresh
    BY <1>4, <2>1, <2>2, TargetAt DEF QueryInv, Fresh, Settled, Handed, Code, Phase, Aside,
       HandshakeInv, LineInv, PlaceInv, SlaveTypes
  <2>3. CASE ~(todo = <<Code, ToRead>> /\ ~Handed)
    <3>1. busState[target] = "top" /\ (Preparing \/ Answering)
      BY <1>4, <2>3 DEF QueryInv
    <3>2. ~(todo' = <<Code, ToRead>>' /\ ~Handed')
      BY <1>4, <2>3, TargetAt DEF Handed, Code, Phase, Aside, HandshakeInv, BusTypes, PlaceInv, SlaveTypes
    <3>3. ASSUME Preparing PROVE Preparing' \/ Answering'
      BY <1>4, <3>1, <3>3, TargetAt DEF Preparing, Answering, Given, Code, LenByte, DataByte, Taking, Phase, Aside,
         HandshakeInv, LineInv, PlaceInv, SlaveTypes
    <3>4. ASSUME Answering PROVE Answering'
      <4>1. mpc = "akn" /\ todo # <<>> /\ Given = Len(answer)
        BY <1>4, <3>4, TargetAt DEF Answering, Given, Phase, Aside, PlaceInv, MasterTypes
      <4>2. Len(answer) \in {0, 1}
        <5>1. answer \in {<<>>, <<LenByte>>}
          BY <1>4, <4>1 DEF QueryInv, ReadInv
        <5>. QED BY <5>1
      <4>3. Given \in {0, 1} /\ txPtr[r] = Given
        BY <1>4, <3>4, <4>1, <4>2 DEF Answering
      <4>4. Given' = Given + 1 /\ txPtr'[r] = Given + 1 /\ spc'[r] = "ackGiven" /\ target' = r
        <5>1. spc'[r] = "ackGiven" /\ target' = r
          BY <1>4 DEF PlaceInv, SlaveTypes
        <5>2. Given' = Len(answer) + 1
          BY <1>4, <4>1, <5>1 DEF Given
        <5>3. txPtr'[r] = IF txPtr[r] < 2 THEN txPtr[r] + 1 ELSE txPtr[r]
          BY DEF PlaceInv, SlaveTypes
        <5>. QED BY <4>1, <4>3, <5>1, <5>2, <5>3
      <4>5. offered'[r] = txBuf'[r][txPtr'[r]]
        BY <4>3, <4>4 DEF PlaceInv, SlaveTypes
      <4>. QED BY <1>4, <3>4, <4>4, <4>5 DEF Answering, LenByte, DataByte
    <3>5. busState'[target] = "top" /\ target' = target
      BY <1>4, <3>1 DEF Preparing, Answering, Taking, PlaceInv, SlaveTypes
    <3>. QED BY <2>1, <3>1, <3>2, <3>3, <3>4, <3>5 DEF QueryInv
  <2>. QED BY <1>4, <2>2, <2>3 DEF QueryInv
<1>. QED BY <1>1, <1>2, <1>3, <1>4, SlaveStep DEF HandshakeInv, BusTypes

\* The acknowledge hands the byte over.
LEMMA AcknowledgeCommand ==
    ASSUME HandshakeInv, PlaceInv, CommandInv, NEW r \in Slaves, Acknowledge(r) PROVE CommandInv'
<1>. USE DEF Acknowledge, SGo, elsewhere, lines, master, slave, state
<1>1. \A s \in Slaves \ {r} :
         /\ spc'[s] = spc[s] /\ depth'[s] = depth[s] /\ busState'[s] = busState[s] /\ args'[s] = args[s]
         /\ latched'[s] = latched[s] /\ applied'[s] = applied[s] /\ offered'[s] = offered[s]
         /\ txBuf'[s] = txBuf[s] /\ txPtr'[s] = txPtr[s]
  BY DEF PlaceInv, SlaveTypes, PerSlave
<1>2. ASSUME ~astray[r], r # target \/ ~Begun, Settled(r) PROVE Settled(r)'
  BY <1>2 DEF Settled, Begun, HandshakeInv, LineInv, PlaceInv, SlaveTypes
<1>3. ASSUME r = target, ~astray[r], Begun, kind = "set", SetInv PROVE SetInv'
  <2>1. PICK j \in 0..3 : todo = Rest(j) /\ SlaveAt(IF Handed THEN j + 1 ELSE j)
    BY <1>3 DEF SetInv
  <2>2. todo' = Rest(j)'
    BY <2>1 DEF Rest, Code, Arg
  <2>3. SlaveAt(IF Handed THEN j + 1 ELSE j)'
    BY <1>3, <2>1, TargetAt DEF SlaveAt, Fresh, Settled, Handed, Got, Nth, Code, Arg, Taking, Waiting, Phase, Aside,
       HandshakeInv, LineInv, PlaceInv, SlaveTypes
  <2>. QED BY <2>2, <2>3 DEF SetInv
<1>4. ASSUME r = target, ~astray[r], Begun, kind = "query", QueryInv PROVE QueryInv'
  <2>1. ReadInv'
    BY <1>4 DEF QueryInv, ReadInv, Code, LenByte, DataByte
  <2>2. CASE todo = <<Code, ToRead>> /\ ~Handed /\ Fresh
    BY <1>4, <2>1, <2>2, TargetAt DEF QueryInv, Fresh, Settled, Handed, Code, Phase, Aside,
       HandshakeInv, LineInv, PlaceInv, SlaveTypes
  <2>3. CASE ~(todo = <<Code, ToRead>> /\ ~Handed)
    <3>1. busState[target] = "top" /\ (Preparing \/ Answering)
      BY <1>4, <2>3 DEF QueryInv
    <3>2. ~(todo' = <<Code, ToRead>>' /\ ~Handed')
      BY <1>4, <2>3, TargetAt DEF Handed, Code, Phase, Aside, HandshakeInv, BusTypes, PlaceInv, SlaveTypes
    <3>3. ASSUME Preparing PROVE Preparing' \/ Answering'
      BY <1>4, <3>1, <3>3, TargetAt DEF Preparing, Answering, Given, Code, LenByte, DataByte, Taking, Phase, Aside,
         HandshakeInv, LineInv, PlaceInv, SlaveTypes
    <3>4. ASSUME Answering PROVE Answering'
      <4>1. Given' = Given
        BY <1>4, <3>4 DEF Answering, Given, PlaceInv, SlaveTypes
      <4>. QED BY <1>4, <2>3, <3>1, <3>4, <4>1, TargetAt DEF Answering, Handed, LenByte, DataByte, Phase, Aside,
         HandshakeInv, LineInv, PlaceInv, SlaveTypes
    <3>5. busState'[target] = "top" /\ target' = target
      BY <1>4, <3>1 DEF Preparing, Answering, Taking, PlaceInv, SlaveTypes
    <3>. QED BY <2>1, <3>1, <3>2, <3>3, <3>4, <3>5 DEF QueryInv
  <2>. QED BY <1>4, <2>2, <2>3 DEF QueryInv
<1>. QED BY <1>1, <1>2, <1>3, <1>4, SlaveStep DEF HandshakeInv, BusTypes

\* The fall of the request ends a byte for the slave.
LEMMA ReqFallenCommand ==
    ASSUME HandshakeInv, PlaceInv, CommandInv, NEW r \in Slaves, ReqFallen(r) PROVE CommandInv'
<1>. USE DEF ReqFallen, SGo, elsewhere, lines, master, slave, state
<1>1. \A s \in Slaves \ {r} :
         /\ spc'[s] = spc[s] /\ depth'[s] = depth[s] /\ busState'[s] = busState[s] /\ args'[s] = args[s]
         /\ latched'[s] = latched[s] /\ applied'[s] = applied[s] /\ offered'[s] = offered[s]
         /\ txBuf'[s] = txBuf[s] /\ txPtr'[s] = txPtr[s]
  BY DEF PlaceInv, SlaveTypes, PerSlave
<1>2. ASSUME ~astray[r], r # target \/ ~Begun, Settled(r) PROVE Settled(r)'
  BY <1>2 DEF Settled, Begun, HandshakeInv, LineInv, PlaceInv, SlaveTypes
<1>3. ASSUME r = target, ~astray[r], Begun, kind = "set", SetInv PROVE SetInv'
  <2>1. PICK j \in 0..3 : todo = Rest(j) /\ SlaveAt(IF Handed THEN j + 1 ELSE j)
    BY <1>3 DEF SetInv
  <2>2. todo' = Rest(j)'
    BY <2>1 DEF Rest, Code, Arg
  <2>3. SlaveAt(IF Handed THEN j + 1 ELSE j)'
    BY <1>3, <2>1, TargetAt DEF SlaveAt, Fresh, Settled, Handed, Got, Nth, Code, Arg, Taking, Waiting, Phase, Aside,
       HandshakeInv, LineInv, PlaceInv, SlaveTypes
  <2>. QED BY <2>2, <2>3 DEF SetInv
<1>4. ASSUME r = target, ~astray[r], Begun, kind = "query", QueryInv PROVE QueryInv'
  <2>1. ReadInv'
    BY <1>4 DEF QueryInv, ReadInv, Code, LenByte, DataByte
  <2>2. CASE todo = <<Code, ToRead>> /\ ~Handed /\ Fresh
    BY <1>4, <2>1, <2>2, TargetAt DEF QueryInv, Fresh, Settled, Handed, Code, Phase, Aside,
       HandshakeInv, LineInv, PlaceInv, SlaveTypes
  <2>3. CASE ~(todo = <<Code, ToRead>> /\ ~Handed)
    <3>1. busState[target] = "top" /\ (Preparing \/ Answering)
      BY <1>4, <2>3 DEF QueryInv
    <3>2. ~(todo' = <<Code, ToRead>>' /\ ~Handed')
      BY <1>4, <2>3, TargetAt DEF Handed, Code, Phase, Aside, HandshakeInv, BusTypes, PlaceInv, SlaveTypes
    <3>3. ASSUME Preparing PROVE Preparing' \/ Answering'
      BY <1>4, <3>1, <3>3, TargetAt DEF Preparing, Answering, Given, Code, LenByte, DataByte, Taking, Phase, Aside,
         HandshakeInv, LineInv, PlaceInv, SlaveTypes
    <3>4. ASSUME Answering PROVE Answering'
      <4>1. Given' = Given
        <5>1. mpc # "akn"
          BY <1>4, TargetAt
        <5>. QED BY <5>1 DEF Given
      <4>. QED BY <1>4, <2>3, <3>1, <3>4, <4>1, TargetAt DEF Answering, Handed, LenByte, DataByte, Phase, Aside,
         HandshakeInv, LineInv, PlaceInv, SlaveTypes
    <3>5. busState'[target] = "top" /\ target' = target
      BY <1>4, <3>1 DEF Preparing, Answering, Taking, PlaceInv, SlaveTypes
    <3>. QED BY <2>1, <3>1, <3>2, <3>3, <3>4, <3>5 DEF QueryInv
  <2>. QED BY <1>4, <2>2, <2>3 DEF QueryInv
<1>. QED BY <1>1, <1>2, <1>3, <1>4, SlaveStep DEF HandshakeInv, BusTypes

\* The lines are free again: one more byte has been given.
LEMMA FreeCommand ==
    ASSUME HandshakeInv, PlaceInv, CommandInv, NEW r \in Slaves, Free(r) PROVE CommandInv'
<1>. USE DEF Free, SGo, elsewhere, lines, master, slave, state
<1>1. \A s \in Slaves \ {r} :
         /\ spc'[s] = spc[s] /\ depth'[s] = depth[s] /\ busState'[s] = busState[s] /\ args'[s] = args[s]
         /\ latched'[s] = latched[s] /\ applied'[s] = applied[s] /\ offered'[s] = offered[s]
         /\ txBuf'[s] = txBuf[s] /\ txPtr'[s] = txPtr[s]
  BY DEF PlaceInv, SlaveTypes, PerSlave
<1>2. ASSUME ~astray[r], r # target \/ ~Begun, Settled(r) PROVE Settled(r)'
  BY <1>2 DEF Settled, Begun, HandshakeInv, LineInv, PlaceInv, SlaveTypes
<1>3. ASSUME r = target, ~astray[r], Begun, kind = "set", SetInv PROVE SetInv'
  <2>1. PICK j \in 0..3 : todo = Rest(j) /\ SlaveAt(IF Handed THEN j + 1 ELSE j)
    BY <1>3 DEF SetInv
  <2>2. todo' = Rest(j)'
    BY <2>1 DEF Rest, Code, Arg
  <2>3. SlaveAt(IF Handed THEN j + 1 ELSE j)'
    BY <1>3, <2>1, TargetAt DEF SlaveAt, Fresh, Settled, Handed, Got, Nth, Code, Arg, Taking, Waiting, Phase, Aside,
       HandshakeInv, LineInv, PlaceInv, SlaveTypes
  <2>. QED BY <2>2, <2>3 DEF SetInv
<1>4. ASSUME r = target, ~astray[r], Begun, kind = "query", QueryInv PROVE QueryInv'
  <2>1. ReadInv'
    BY <1>4 DEF QueryInv, ReadInv, Code, LenByte, DataByte
  <2>2. CASE todo = <<Code, ToRead>> /\ ~Handed /\ Fresh
    BY <1>4, <2>1, <2>2, TargetAt DEF QueryInv, Fresh, Settled, Handed, Code, Phase, Aside,
       HandshakeInv, LineInv, PlaceInv, SlaveTypes
  <2>3. CASE ~(todo = <<Code, ToRead>> /\ ~Handed)
    <3>1. busState[target] = "top" /\ (Preparing \/ Answering)
      BY <1>4, <2>3 DEF QueryInv
    <3>2. ~(todo' = <<Code, ToRead>>' /\ ~Handed')
      BY <1>4, <2>3, TargetAt DEF Handed, Code, Phase, Aside, HandshakeInv, BusTypes, PlaceInv, SlaveTypes
    <3>3. ASSUME Preparing PROVE Preparing' \/ Answering'
      BY <1>4, <3>1, <3>3, TargetAt DEF Preparing, Answering, Given, Code, LenByte, DataByte, Taking, Phase, Aside,
         HandshakeInv, LineInv, PlaceInv, SlaveTypes
    <3>4. ASSUME Answering PROVE Answering'
      <4>1. Given' = Given
        BY <1>4, <3>4 DEF Answering, Given, PlaceInv, SlaveTypes
      <4>. QED BY <1>4, <2>3, <3>1, <3>4, <4>1, TargetAt DEF Answering, Handed, LenByte, DataByte, Phase, Aside,
         HandshakeInv, LineInv, PlaceInv, SlaveTypes
    <3>5. busState'[target] = "top" /\ target' = target
      BY <1>4, <3>1 DEF Preparing, Answering, Taking, PlaceInv, SlaveTypes
    <3>. QED BY <2>1, <3>1, <3>2, <3>3, <3>4, <3>5 DEF QueryInv
  <2>. QED BY <1>4, <2>2, <2>3 DEF QueryInv
<1>. QED BY <1>1, <1>2, <1>3, <1>4, SlaveStep DEF HandshakeInv, BusTypes

\* The acknowledge of a byte given is taken back.
LEMMA ReleaseCommand ==
    ASSUME HandshakeInv, PlaceInv, CommandInv, NEW r \in Slaves, Release(r) PROVE CommandInv'
<1>. USE DEF Release, SGo, elsewhere, lines, master, slave, state
<1>1. \A s \in Slaves \ {r} :
         /\ spc'[s] = spc[s] /\ depth'[s] = depth[s] /\ busState'[s] = busState[s] /\ args'[s] = args[s]
         /\ latched'[s] = latched[s] /\ applied'[s] = applied[s] /\ offered'[s] = offered[s]
         /\ txBuf'[s] = txBuf[s] /\ txPtr'[s] = txPtr[s]
  BY DEF PlaceInv, SlaveTypes, PerSlave
<1>2. ASSUME ~astray[r], r # target \/ ~Begun, Settled(r) PROVE Settled(r)'
  BY <1>2 DEF Settled, Begun, HandshakeInv, LineInv, PlaceInv, SlaveTypes
<1>3. ASSUME r = target, ~astray[r], Begun, kind = "set", SetInv PROVE SetInv'
  <2>1. PICK j \in 0..3 : todo = Rest(j) /\ SlaveAt(IF Handed THEN j + 1 ELSE j)
    BY <1>3 DEF SetInv
  <2>2. todo' = Rest(j)'
    BY <2>1 DEF Rest, Code, Arg
  <2>3. SlaveAt(IF Handed THEN j + 1 ELSE j)'
    BY <1>3, <2>1, TargetAt DEF SlaveAt, Fresh, Settled, Handed, Got, Nth, Code, Arg, Taking, Waiting, Phase, Aside,
       HandshakeInv, LineInv, PlaceInv, SlaveTypes
  <2>. QED BY <2>2, <2>3 DEF SetInv
<1>4. ASSUME r = target, ~astray[r], Begun, kind = "query", QueryInv PROVE QueryInv'
  <2>1. ReadInv'
    BY <1>4 DEF QueryInv, ReadInv, Code, LenByte, DataByte
  <2>2. CASE todo = <<Code, ToRead>> /\ ~Handed /\ Fresh
    BY <1>4, <2>1, <2>2, TargetAt DEF QueryInv, Fresh, Settled, Handed, Code, Phase, Aside,
       HandshakeInv, LineInv, PlaceInv, SlaveTypes
  <2>3. CASE ~(todo = <<Code, ToRead>> /\ ~Handed)
    <3>1. busState[target] = "top" /\ (Preparing \/ Answering)
      BY <1>4, <2>3 DEF QueryInv
    <3>2. ~(todo' = <<Code, ToRead>>' /\ ~Handed')
      BY <1>4, <2>3, TargetAt DEF Handed, Code, Phase, Aside, HandshakeInv, BusTypes, PlaceInv, SlaveTypes
    <3>3. ASSUME Preparing PROVE Preparing' \/ Answering'
      BY <1>4, <3>1, <3>3, TargetAt DEF Preparing, Answering, Given, Code, LenByte, DataByte, Taking, Phase, Aside,
         HandshakeInv, LineInv, PlaceInv, SlaveTypes
    <3>4. ASSUME Answering PROVE Answering'
      <4>1. Given' = Given
        BY <1>4, <3>4 DEF Answering, Given, PlaceInv, SlaveTypes
      <4>. QED BY <1>4, <2>3, <3>1, <3>4, <4>1, TargetAt DEF Answering, Handed, LenByte, DataByte, Phase, Aside,
         HandshakeInv, LineInv, PlaceInv, SlaveTypes
    <3>5. busState'[target] = "top" /\ target' = target
      BY <1>4, <3>1 DEF Preparing, Answering, Taking, PlaceInv, SlaveTypes
    <3>. QED BY <2>1, <3>1, <3>2, <3>3, <3>4, <3>5 DEF QueryInv
  <2>. QED BY <1>4, <2>2, <2>3 DEF QueryInv
<1>. QED BY <1>1, <1>2, <1>3, <1>4, SlaveStep DEF HandshakeInv, BusTypes

\* The acknowledge of a byte taken is taken back: the byte is still to be processed.
LEMMA ReleaseTakenCommand ==
    ASSUME HandshakeInv, PlaceInv, CommandInv, NEW r \in Slaves, ReleaseTaken(r) PROVE CommandInv'
<1>. USE DEF ReleaseTaken, SGo, elsewhere, lines, master, slave, state
<1>1. \A s \in Slaves \ {r} :
         /\ spc'[s] = spc[s] /\ depth'[s] = depth[s] /\ busState'[s] = busState[s] /\ args'[s] = args[s]
         /\ latched'[s] = latched[s] /\ applied'[s] = applied[s] /\ offered'[s] = offered[s]
         /\ txBuf'[s] = txBuf[s] /\ txPtr'[s] = txPtr[s]
  BY DEF PlaceInv, SlaveTypes, PerSlave
<1>2. ASSUME ~astray[r], r # target \/ ~Begun, Settled(r) PROVE Settled(r)'
  BY <1>2 DEF Settled, Begun, HandshakeInv, LineInv, PlaceInv, SlaveTypes
<1>3. ASSUME r = target, ~astray[r], Begun, kind = "set", SetInv PROVE SetInv'
  <2>1. PICK j \in 0..3 : todo = Rest(j) /\ SlaveAt(IF Handed THEN j + 1 ELSE j)
    BY <1>3 DEF SetInv
  <2>2. todo' = Rest(j)'
    BY <2>1 DEF Rest, Code, Arg
  <2>3. SlaveAt(IF Handed THEN j + 1 ELSE j)'
    BY <1>3, <2>1, TargetAt DEF SlaveAt, Fresh, Settled, Handed, Got, Nth, Code, Arg, Taking, Waiting, Phase, Aside,
       HandshakeInv, LineInv, PlaceInv, SlaveTypes
  <2>. QED BY <2>2, <2>3 DEF SetInv
<1>4. ASSUME r = target, ~astray[r], Begun, kind = "query", QueryInv PROVE QueryInv'
  <2>1. ReadInv'
    BY <1>4 DEF QueryInv, ReadInv, Code, LenByte, DataByte
  <2>2. CASE todo = <<Code, ToRead>> /\ ~Handed /\ Fresh
    BY <1>4, <2>1, <2>2, TargetAt DEF QueryInv, Fresh, Settled, Handed, Code, Phase, Aside,
       HandshakeInv, LineInv, PlaceInv, SlaveTypes
  <2>3. CASE ~(todo = <<Code, ToRead>> /\ ~Handed)
    <3>1. busState[target] = "top" /\ (Preparing \/ Answering)
      BY <1>4, <2>3 DEF QueryInv
    <3>2. ~(todo' = <<Code, ToRead>>' /\ ~Handed')
      BY <1>4, <2>3, TargetAt DEF Handed, Code, Phase, Aside, HandshakeInv, BusTypes, PlaceInv, SlaveTypes
    <3>3. ASSUME Preparing PROVE Preparing' \/ Answering'
      BY <1>4, <3>1, <3>3, TargetAt DEF Preparing, Answering, Given, Code, LenByte, DataByte, Taking, Phase, Aside,
         HandshakeInv, LineInv, PlaceInv, SlaveTypes
    <3>4. ASSUME Answering PROVE Answering'
      <4>1. Given' = Given
        BY <1>4, <3>4 DEF Answering, Given, PlaceInv, SlaveTypes
      <4>. QED BY <1>4, <2>3, <3>1, <3>4, <4>1, TargetAt DEF Answering, Handed, LenByte, DataByte, Phase, Aside,
         HandshakeInv, LineInv, PlaceInv, SlaveTypes
    <3>5. busState'[target] = "top" /\ target' = target
      BY <1>4, <3>1 DEF Preparing, Answering, Taking, PlaceInv, SlaveTypes
    <3>. QED BY <2>1, <3>1, <3>2, <3>3, <3>4, <3>5 DEF QueryInv
  <2>. QED BY <1>4, <2>2, <2>3 DEF QueryInv
<1>. QED BY <1>1, <1>2, <1>3, <1>4, SlaveStep DEF HandshakeInv, BusTypes

\* Only a query makes the slave start an answer.
LEMMA ProcessQueryCommand ==
    ASSUME HandshakeInv, PlaceInv, CommandInv, NEW r \in Slaves, ProcessQuery(r) PROVE CommandInv'
<1>. USE DEF ProcessQuery, SGo, elsewhere, lines, master, slave, state
<1>1. \A s \in Slaves \ {r} :
         /\ spc'[s] = spc[s] /\ depth'[s] = depth[s] /\ busState'[s] = busState[s] /\ args'[s] = args[s]
         /\ latched'[s] = latched[s] /\ applied'[s] = applied[s] /\ offered'[s] = offered[s]
         /\ txBuf'[s] = txBuf[s] /\ txPtr'[s] = txPtr[s]
  BY DEF PlaceInv, SlaveTypes, PerSlave
<1>2. ASSUME ~astray[r], r # target \/ ~Begun, Settled(r) PROVE Settled(r)'
  BY <1>2 DEF Settled, Begun, HandshakeInv, LineInv, PlaceInv, SlaveTypes
<1>3. ASSUME r = target, ~astray[r], Begun, kind = "set", SetInv PROVE SetInv'
  <2>1. PICK j \in 0..3 : todo = Rest(j) /\ SlaveAt(IF Handed THEN j + 1 ELSE j)
    BY <1>3 DEF SetInv
  <2>2. todo' = Rest(j)'
    BY <2>1 DEF Rest, Code, Arg
  <2>3. FALSE
    <3>1. PICK n \in 0..3 : SlaveAt(n)
      BY <1>3, <2>1, TakenShort
    <3>2. n = 1 /\ latched[r] = Code
      BY <1>3, <3>1 DEF SlaveAt, Fresh, Settled, Got, Nth, Waiting
    <3>. QED BY <1>3, <3>2 DEF Means, Code
  <2>. QED BY <2>2, <2>3 DEF SetInv
<1>4. ASSUME r = target, ~astray[r], Begun, kind = "query", QueryInv PROVE QueryInv'
  <2>1. ReadInv'
    BY <1>4 DEF QueryInv, ReadInv, Code, LenByte, DataByte
  <2>2. CASE todo = <<Code, ToRead>> /\ ~Handed /\ Fresh
    BY <1>4, <2>1, <2>2, TargetAt DEF QueryInv, Fresh, Settled, Handed, Code, Phase, Aside,
       HandshakeInv, LineInv, PlaceInv, SlaveTypes
  <2>3. CASE ~(todo = <<Code, ToRead>> /\ ~Handed)
    <3>1. busState[target] = "top" /\ (Preparing \/ Answering)
      BY <1>4, <2>3 DEF QueryInv
    <3>2. ~(todo' = <<Code, ToRead>>' /\ ~Handed')
      BY <1>4, <2>3, TargetAt DEF Handed, Code, Phase, Aside, HandshakeInv, BusTypes, PlaceInv, SlaveTypes
    <3>3. ASSUME Preparing PROVE Preparing' \/ Answering'
      BY <1>4, <3>1, <3>3, TargetAt DEF Preparing, Answering, Given, Code, LenByte, DataByte, Taking, Phase, Aside,
         HandshakeInv, LineInv, PlaceInv, SlaveTypes
    <3>4. ASSUME Answering PROVE Answering'
      <4>1. Given' = Given
        BY <1>4, <3>4 DEF Answering, Given, PlaceInv, SlaveTypes
      <4>. QED BY <1>4, <2>3, <3>1, <3>4, <4>1, TargetAt DEF Answering, Handed, LenByte, DataByte, Phase, Aside,
         HandshakeInv, LineInv, PlaceInv, SlaveTypes
    <3>5. busState'[target] = "top" /\ target' = target
      BY <1>4, <3>1 DEF Preparing, Answering, Taking, PlaceInv, SlaveTypes
    <3>. QED BY <2>1, <3>1, <3>2, <3>3, <3>4, <3>5 DEF QueryInv
  <2>. QED BY <1>4, <2>2, <2>3 DEF QueryInv
<1>. QED BY <1>1, <1>2, <1>3, <1>4, SlaveStep DEF HandshakeInv, BusTypes

\* The block is that of the query the slave has latched.
LEMMA FillCommand ==
    ASSUME HandshakeInv, PlaceInv, CommandInv, NEW r \in Slaves, Fill(r) PROVE CommandInv'
<1>. USE DEF Fill, SGo, elsewhere, lines, master, slave, state
<1>1. \A s \in Slaves \ {r} :
         /\ spc'[s] = spc[s] /\ depth'[s] = depth[s] /\ busState'[s] = busState[s] /\ args'[s] = args[s]
         /\ latched'[s] = latched[s] /\ applied'[s] = applied[s] /\ offered'[s] = offered[s]
         /\ txBuf'[s] = txBuf[s] /\ txPtr'[s] = txPtr[s]
  BY DEF PlaceInv, SlaveTypes, PerSlave
<1>2. ASSUME ~astray[r], r # target \/ ~Begun, Settled(r) PROVE Settled(r)'
  BY <1>2 DEF Settled, Begun, HandshakeInv, LineInv, PlaceInv, SlaveTypes
<1>3. ASSUME r = target, ~astray[r], Begun, kind = "set", SetInv PROVE SetInv'
  <2>1. PICK j \in 0..3 : todo = Rest(j) /\ SlaveAt(IF Handed THEN j + 1 ELSE j)
    BY <1>3 DEF SetInv
  <2>2. todo' = Rest(j)'
    BY <2>1 DEF Rest, Code, Arg
  <2>3. SlaveAt(IF Handed THEN j + 1 ELSE j)'
    BY <1>3, <2>1, TargetAt DEF SlaveAt, Fresh, Settled, Handed, Got, Nth, Code, Arg, Taking, Waiting, Phase, Aside,
       HandshakeInv, LineInv, PlaceInv, SlaveTypes
  <2>. QED BY <2>2, <2>3 DEF SetInv
<1>4. ASSUME r = target, ~astray[r], Begun, kind = "query", QueryInv PROVE QueryInv'
  <2>1. ReadInv'
    BY <1>4 DEF QueryInv, ReadInv, Code, LenByte, DataByte
  <2>2. CASE todo = <<Code, ToRead>> /\ ~Handed /\ Fresh
    BY <1>4, <2>1, <2>2, TargetAt DEF QueryInv, Fresh, Settled, Handed, Code, Phase, Aside,
       HandshakeInv, LineInv, PlaceInv, SlaveTypes
  <2>3. CASE ~(todo = <<Code, ToRead>> /\ ~Handed)
    <3>1. busState[target] = "top" /\ (Preparing \/ Answering)
      BY <1>4, <2>3 DEF QueryInv
    <3>2. ~(todo' = <<Code, ToRead>>' /\ ~Handed')
      BY <1>4, <2>3, TargetAt DEF Handed, Code, Phase, Aside, HandshakeInv, BusTypes, PlaceInv, SlaveTypes
    <3>3. ASSUME Preparing PROVE Preparing' \/ Answering'
      <4>1. /\ depth[r] = 0 /\ answer = <<>> /\ txPtr[r] = 0
            /\ latched[r] = Code /\ txBuf[r][1] = LenByte
        BY <1>4, <3>3 DEF Preparing, Taking
      <4>2. latched[r][2] = number
        BY <4>1 DEF Code
      <4>3. txBuf'[r] = [txBuf[r] EXCEPT ![2] = DataByte]
        BY <4>2 DEF PlaceInv, SlaveTypes, DataByte
      <4>4. txBuf[r] \in Seq(Bytes) /\ Len(txBuf[r]) = 2 /\ LenByte \in Bytes /\ DataByte \in Bytes
        BY ProgramBytes DEF HandshakeInv, BusTypes, PlaceInv, SlaveTypes, LenByte, DataByte
      <4>5. txBuf'[r] = <<LenByte, DataByte>>
        BY <4>1, <4>3, <4>4, PairEqual
      <4>6. spc'[r] = "enable" /\ target' = target
        BY DEF PlaceInv, SlaveTypes
      <4>. QED BY <1>4, <4>1, <4>5, <4>6 DEF Preparing, LenByte, DataByte
    <3>4. ASSUME Answering PROVE Answering'
      <4>1. Given' = Given
        BY <1>4, <3>4 DEF Answering, Given, PlaceInv, SlaveTypes
      <4>. QED BY <1>4, <2>3, <3>1, <3>4, <4>1, TargetAt DEF Answering, Handed, LenByte, DataByte, Phase, Aside,
         HandshakeInv, LineInv, PlaceInv, SlaveTypes
    <3>5. busState'[target] = "top" /\ target' = target
      BY <1>4, <3>1 DEF Preparing, Answering, Taking, PlaceInv, SlaveTypes
    <3>. QED BY <2>1, <3>1, <3>2, <3>3, <3>4, <3>5 DEF QueryInv
  <2>. QED BY <1>4, <2>2, <2>3 DEF QueryInv
<1>. QED BY <1>1, <1>2, <1>3, <1>4, SlaveStep DEF HandshakeInv, BusTypes

\* The slave is ready to answer: nothing of the block has been given.
LEMMA EnableCommand ==
    ASSUME HandshakeInv, PlaceInv, CommandInv, NEW r \in Slaves, Enable(r) PROVE CommandInv'
<1>. USE DEF Enable, SGo, elsewhere, lines, master, slave, state
<1>1. \A s \in Slaves \ {r} :
         /\ spc'[s] = spc[s] /\ depth'[s] = depth[s] /\ busState'[s] = busState[s] /\ args'[s] = args[s]
         /\ latched'[s] = latched[s] /\ applied'[s] = applied[s] /\ offered'[s] = offered[s]
         /\ txBuf'[s] = txBuf[s] /\ txPtr'[s] = txPtr[s]
  BY DEF PlaceInv, SlaveTypes, PerSlave
<1>2. ASSUME ~astray[r], r # target \/ ~Begun, Settled(r) PROVE Settled(r)'
  BY <1>2 DEF Settled, Begun, HandshakeInv, LineInv, PlaceInv, SlaveTypes
<1>3. ASSUME r = target, ~astray[r], Begun, kind = "set", SetInv PROVE SetInv'
  <2>1. PICK j \in 0..3 : todo = Rest(j) /\ SlaveAt(IF Handed THEN j + 1 ELSE j)
    BY <1>3 DEF SetInv
  <2>2. todo' = Rest(j)'
    BY <2>1 DEF Rest, Code, Arg
  <2>3. SlaveAt(IF Handed THEN j + 1 ELSE j)'
    BY <1>3, <2>1, TargetAt DEF SlaveAt, Fresh, Settled, Handed, Got, Nth, Code, Arg, Taking, Waiting, Phase, Aside,
       HandshakeInv, LineInv, PlaceInv, SlaveTypes
  <2>. QED BY <2>2, <2>3 DEF SetInv
<1>4. ASSUME r = target, ~astray[r], Begun, kind = "query", QueryInv PROVE QueryInv'
  <2>1. ReadInv'
    BY <1>4 DEF QueryInv, ReadInv, Code, LenByte, DataByte
  <2>2. CASE todo = <<Code, ToRead>> /\ ~Handed /\ Fresh
    BY <1>4, <2>1, <2>2, TargetAt DEF QueryInv, Fresh, Settled, Handed, Code, Phase, Aside,
       HandshakeInv, LineInv, PlaceInv, SlaveTypes
  <2>3. CASE ~(todo = <<Code, ToRead>> /\ ~Handed)
    <3>1. busState[target] = "top" /\ (Preparing \/ Answering)
      BY <1>4, <2>3 DEF QueryInv
    <3>2. ~(todo' = <<Code, ToRead>>' /\ ~Handed')
      BY <1>4, <2>3, TargetAt DEF Handed, Code, Phase, Aside, HandshakeInv, BusTypes, PlaceInv, SlaveTypes
    <3>3. ASSUME Preparing PROVE Preparing' \/ Answering'
      BY <1>4, <3>1, <3>3, TargetAt DEF Preparing, Answering, Given, Code, LenByte, DataByte, Taking, Phase, Aside,
         HandshakeInv, LineInv, PlaceInv, SlaveTypes
    <3>4. ASSUME Answering PROVE Answering'
      <4>1. Given' = Given
        BY <1>4, <3>4 DEF Answering, Given, PlaceInv, SlaveTypes
      <4>. QED BY <1>4, <2>3, <3>1, <3>4, <4>1, TargetAt DEF Answering, Handed, LenByte, DataByte, Phase, Aside,
         HandshakeInv, LineInv, PlaceInv, SlaveTypes
    <3>5. busState'[target] = "top" /\ target' = target
      BY <1>4, <3>1 DEF Preparing, Answering, Taking, PlaceInv, SlaveTypes
    <3>. QED BY <2>1, <3>1, <3>2, <3>3, <3>4, <3>5 DEF QueryInv
  <2>. QED BY <1>4, <2>2, <2>3 DEF QueryInv
<1>. QED BY <1>1, <1>2, <1>3, <1>4, SlaveStep DEF HandshakeInv, BusTypes

\* A parameter goes where it belongs, and the last one puts the setting in force.
LEMMA ProcessParamCommand ==
    ASSUME HandshakeInv, PlaceInv, CommandInv, NEW r \in Slaves, ProcessParam(r) PROVE CommandInv'
<1>. USE DEF ProcessParam, SGo, elsewhere, lines, master, slave, state
<1>1. \A s \in Slaves \ {r} :
         /\ spc'[s] = spc[s] /\ depth'[s] = depth[s] /\ busState'[s] = busState[s] /\ args'[s] = args[s]
         /\ latched'[s] = latched[s] /\ applied'[s] = applied[s] /\ offered'[s] = offered[s]
         /\ txBuf'[s] = txBuf[s] /\ txPtr'[s] = txPtr[s]
  BY DEF PlaceInv, SlaveTypes, PerSlave
<1>2. ASSUME ~astray[r], r # target \/ ~Begun, Settled(r) PROVE Settled(r)'
  BY <1>2 DEF Settled, Begun, HandshakeInv, LineInv, PlaceInv, SlaveTypes
<1>3. ASSUME r = target, ~astray[r], Begun, kind = "set", SetInv PROVE SetInv'
  <2>1. PICK j \in 0..3 : todo = Rest(j) /\ SlaveAt(IF Handed THEN j + 1 ELSE j)
    BY <1>3 DEF SetInv
  <2>2. todo' = Rest(j)'
    BY <2>1 DEF Rest, Code, Arg
  <2>3. SlaveAt(IF Handed THEN j + 1 ELSE j)'
    <3>1. Handed' = Handed
      BY <1>3 DEF Handed, PlaceInv, SlaveTypes
    <3>. DEFINE n == IF Handed THEN j + 1 ELSE j
    <3>2. n \in 0..3 /\ SlaveAt(n)
      BY <1>3, <2>1, TakenShort
    <3>. HIDE DEF n
    <3>3. spc'[r] = "idle" /\ depth'[r] = 0 /\ target' = target /\ Arg(1)' = Arg(1) /\ Arg(2)' = Arg(2)
      BY DEF PlaceInv, SlaveTypes, Arg
    <3>4. ASSUME n = 0 PROVE SlaveAt(0)'
      BY <1>3, <3>2, <3>3, <3>4 DEF SlaveAt, Fresh, Settled, PlaceInv, SlaveTypes
    <3>5. ASSUME n = 1 PROVE SlaveAt(1)'
      BY <1>3, <3>2, <3>5 DEF SlaveAt, Got, Waiting
    <3>6. ASSUME n = 2 PROVE SlaveAt(2)'
      <4>1. latched[r] = Arg(1) /\ args[r] = <<>>
        BY <1>3, <3>2, <3>6 DEF SlaveAt, Got, Nth, Waiting
      <4>2. Len(args[r]) # Params - 1 /\ Append(args[r], Arg(1)) = <<Arg(1)>>
        BY <4>1 DEF Params
      <4>3. args'[r] = <<Arg(1)>> /\ busState'[r] = "params"
        BY <4>1, <4>2 DEF PlaceInv, SlaveTypes
      <4>. QED BY <1>3, <3>3, <3>6, <4>3 DEF SlaveAt, Got, Waiting
    <3>7. ASSUME n = 3 PROVE SlaveAt(3)'
      <4>1. latched[r] = Arg(2) /\ args[r] = <<Arg(1)>>
        BY <1>3, <3>2, <3>7 DEF SlaveAt, Got, Nth, Waiting
      <4>2. Len(args[r]) = Params - 1 /\ Append(args[r], Arg(2)) = <<Arg(1), Arg(2)>>
        <5>1. Len(<<Arg(1)>>) = 1 /\ Params - 1 = 1
          BY DEF Params
        <5>. QED BY <4>1, <5>1, AppendTwo
      <4>3. args'[r] = <<>> /\ busState'[r] = "top" /\ applied'[r] = <<Arg(1), Arg(2)>>
        BY <4>1, <4>2 DEF PlaceInv, SlaveTypes, PerSlave
      <4>. QED BY <1>3, <3>3, <3>7, <4>3 DEF SlaveAt, Got, Waiting
    <3>8. n = IF Handed' THEN j + 1 ELSE j
      BY <3>1 DEF n
    <3>. QED BY <3>2, <3>4, <3>5, <3>6, <3>7, <3>8
  <2>. QED BY <2>2, <2>3 DEF SetInv
<1>4. ASSUME r = target, ~astray[r], Begun, kind = "query", QueryInv PROVE QueryInv'
  <2>1. ReadInv'
    BY <1>4 DEF QueryInv, ReadInv, Code, LenByte, DataByte
  <2>2. CASE todo = <<Code, ToRead>> /\ ~Handed /\ Fresh
    BY <1>4, <2>1, <2>2, TargetAt DEF QueryInv, Fresh, Settled, Handed, Code, Phase, Aside,
       HandshakeInv, LineInv, PlaceInv, SlaveTypes
  <2>3. CASE ~(todo = <<Code, ToRead>> /\ ~Handed)
    <3>1. busState[target] = "top" /\ (Preparing \/ Answering)
      BY <1>4, <2>3 DEF QueryInv
    <3>2. ~(todo' = <<Code, ToRead>>' /\ ~Handed')
      BY <1>4, <2>3, TargetAt DEF Handed, Code, Phase, Aside, HandshakeInv, BusTypes, PlaceInv, SlaveTypes
    <3>3. ASSUME Preparing PROVE Preparing' \/ Answering'
      BY <1>4, <3>1, <3>3, TargetAt DEF Preparing, Answering, Given, Code, LenByte, DataByte, Taking, Phase, Aside,
         HandshakeInv, LineInv, PlaceInv, SlaveTypes
    <3>4. ASSUME Answering PROVE Answering'
      <4>1. Given' = Given
        BY <1>4, <3>4 DEF Answering, Given, PlaceInv, SlaveTypes
      <4>. QED BY <1>4, <2>3, <3>1, <3>4, <4>1, TargetAt DEF Answering, Handed, LenByte, DataByte, Phase, Aside,
         HandshakeInv, LineInv, PlaceInv, SlaveTypes
    <3>5. busState'[target] = "top" /\ target' = target
      BY <1>4, <3>1 DEF Preparing, Answering, Taking, PlaceInv, SlaveTypes
    <3>. QED BY <2>1, <3>1, <3>2, <3>3, <3>4, <3>5 DEF QueryInv
  <2>. QED BY <1>4, <2>2, <2>3 DEF QueryInv
<1>. QED BY <1>1, <1>2, <1>3, <1>4, SlaveStep DEF HandshakeInv, BusTypes

\* The code of a setting is followed by its parameters; no other code is met in step.
LEMMA ProcessCodeCommand ==
    ASSUME HandshakeInv, PlaceInv, CommandInv, NEW r \in Slaves, NEW what \in {"set", "unknown"}, ProcessCode(r, what)
    PROVE  CommandInv'
<1>. USE DEF ProcessCode, SGo, elsewhere, lines, master, slave, state
<1>1. \A s \in Slaves \ {r} :
         /\ spc'[s] = spc[s] /\ depth'[s] = depth[s] /\ busState'[s] = busState[s] /\ args'[s] = args[s]
         /\ latched'[s] = latched[s] /\ applied'[s] = applied[s] /\ offered'[s] = offered[s]
         /\ txBuf'[s] = txBuf[s] /\ txPtr'[s] = txPtr[s]
  BY DEF PlaceInv, SlaveTypes, PerSlave
<1>2. ASSUME ~astray[r], r # target \/ ~Begun, Settled(r) PROVE Settled(r)'
  BY <1>2 DEF Settled, Begun, HandshakeInv, LineInv, PlaceInv, SlaveTypes
<1>3. ASSUME r = target, ~astray[r], Begun, kind = "set", SetInv PROVE SetInv'
  <2>1. PICK j \in 0..3 : todo = Rest(j) /\ SlaveAt(IF Handed THEN j + 1 ELSE j)
    BY <1>3 DEF SetInv
  <2>2. todo' = Rest(j)'
    BY <2>1 DEF Rest, Code, Arg
  <2>3. SlaveAt(IF Handed THEN j + 1 ELSE j)'
    <3>1. Handed' = Handed
      BY <1>3 DEF Handed, PlaceInv, SlaveTypes
    <3>. DEFINE n == IF Handed THEN j + 1 ELSE j
    <3>2. n \in 0..3 /\ SlaveAt(n)
      BY <1>3, <2>1, TakenShort
    <3>. HIDE DEF n
    <3>3. n = 1 /\ latched[r] = Code /\ args[r] = <<>>
      BY <1>3, <3>2 DEF SlaveAt, Fresh, Settled, Got, Nth, Waiting
    <3>4. what = "set"
      BY <1>3, <3>3 DEF Means, Code
    <3>5. spc'[r] = "idle" /\ busState'[r] = "params" /\ depth'[r] = 0 /\ args' = args /\ target' = target
      BY <3>4 DEF PlaceInv, SlaveTypes
    <3>6. SlaveAt(1)'
      BY <1>3, <3>3, <3>5 DEF SlaveAt, Got, Waiting
    <3>7. n = IF Handed' THEN j + 1 ELSE j
      BY <3>1 DEF n
    <3>. QED BY <3>3, <3>6, <3>7
  <2>. QED BY <2>2, <2>3 DEF SetInv
<1>4. ASSUME r = target, ~astray[r], Begun, kind = "query", QueryInv PROVE QueryInv'
  <2>1. ReadInv'
    BY <1>4 DEF QueryInv, ReadInv, Code, LenByte, DataByte
  <2>2. CASE todo = <<Code, ToRead>> /\ ~Handed /\ Fresh
    BY <1>4, <2>1, <2>2, TargetAt DEF QueryInv, Fresh, Settled, Handed, Code, Phase, Aside,
       HandshakeInv, LineInv, PlaceInv, SlaveTypes
  <2>3. CASE ~(todo = <<Code, ToRead>> /\ ~Handed)
    <3>1. latched[r] = Code
      BY <1>4, <2>3 DEF QueryInv, Preparing, Answering, PlaceInv, SlaveTypes
    <3>2. Means(latched[r]) = {"query"}
      BY <1>4, <3>1 DEF Means, Code
    <3>. QED BY <3>2
  <2>. QED BY <1>4, <2>2, <2>3 DEF QueryInv
<1>. QED BY <1>1, <1>2, <1>3, <1>4, SlaveStep DEF HandshakeInv, BusTypes

\* What a step of the master within a command has to be shown for.
LEMMA MasterStep ==
    ASSUME HandshakeInv, PlaceInv, CommandInv, UNCHANGED <<slave, astray, target, kind, number>>,
           mpc # "idle", mpc' # "idle" \/ result' # "none",
           ~astray[target] /\ kind = "set" /\ SetInv => SetInv',
           ~astray[target] /\ kind = "query" /\ QueryInv => QueryInv'
    PROVE  CommandInv'
<1>. USE DEF slave, state
<1>1. Begun /\ Begun'
  BY DEF Begun
<1>2. \A s \in Slaves : Settled(s) => Settled(s)'
  BY DEF Settled
<1>. QED BY <1>1, <1>2 DEF CommandInv

\* The slaves do nothing in such a step.
LEMMA SlavesStay ==
    ASSUME UNCHANGED <<slave, target, kind, number>>
    PROVE  /\ Code' = Code /\ Arg(1)' = Arg(1) /\ Arg(2)' = Arg(2)
           /\ LenByte' = LenByte /\ DataByte' = DataByte
           /\ Fresh' = Fresh
           /\ \A j \in 0..3 : Rest(j)' = Rest(j) /\ Nth(j)' = Nth(j)
           /\ \A n \in 0..4 : SlaveAt(n) => SlaveAt(n)'
<1>. USE DEF slave, state
<1>1. Code' = Code /\ Arg(1)' = Arg(1) /\ Arg(2)' = Arg(2) /\ LenByte' = LenByte /\ DataByte' = DataByte
  BY DEF Code, Arg, LenByte, DataByte
<1>2. Fresh' = Fresh
  BY DEF Fresh, Settled
<1>3. \A j \in 0..3 : Rest(j)' = Rest(j) /\ Nth(j)' = Nth(j)
  BY DEF Rest, Nth, Code, Arg
<1>4. ASSUME NEW n \in 0..4, SlaveAt(n) PROVE SlaveAt(n)'
  BY <1>1, <1>2, <1>4 DEF SlaveAt, Got, Nth, Code, Arg
<1>. QED BY <1>1, <1>2, <1>3, <1>4

\* A step in which the master neither reads nor goes on to another byte.
LEMMA QuietStep ==
    ASSUME HandshakeInv, PlaceInv, CommandInv, UNCHANGED <<slave, astray, target, kind, number, todo, answer>>,
           mpc # "idle", mpc' # "idle" \/ result' # "none",
           ~astray[target] => Handed' = Handed /\ Given' = Given,
           mpc \in {"drop", "fall"} <=> mpc' \in {"drop", "fall"}
    PROVE  CommandInv'
<1>. USE DEF slave, state
<1>1. ASSUME ~astray[target], SetInv PROVE SetInv'
  <2>1. PICK j \in 0..3 : todo = Rest(j) /\ SlaveAt(IF Handed THEN j + 1 ELSE j)
    BY <1>1 DEF SetInv
  <2>. QED BY <1>1, <2>1, SlavesStay DEF SetInv
<1>2. ASSUME ~astray[target], QueryInv PROVE QueryInv'
  <2>1. ReadInv'
    BY <1>2, SlavesStay DEF QueryInv, ReadInv
  <2>2. Preparing => Preparing'
    BY SlavesStay DEF Preparing
  <2>3. Answering => Answering'
    BY <1>2, SlavesStay DEF Answering
  <2>. QED BY <1>2, <2>1, <2>2, <2>3, SlavesStay DEF QueryInv
<1>. QED BY <1>1, <1>2, MasterStep

\* A byte is presented.
LEMMA PresentCommand == ASSUME HandshakeInv, PlaceInv, CommandInv, Present PROVE CommandInv'
<1>. USE DEF Present, MGo
<1>1. Handed' = Handed /\ Given' = Given
  BY DEF Handed, Given, slave, PlaceInv, MasterTypes
<1>. QED BY <1>1, QuietStep

\* Req goes up.
LEMMA RaiseCommand == ASSUME HandshakeInv, PlaceInv, CommandInv, Raise PROVE CommandInv'
<1>. USE DEF Raise, MGo
<1>1. ASSUME ~astray[target] PROVE Handed' = Handed /\ Given' = Given
  <2>1. spc[target] \in Aside
    BY <1>1, TargetAt DEF Phase
  <2>. QED BY <2>1 DEF Handed, Given, slave, Aside, PlaceInv, MasterTypes
<1>. QED BY <1>1, QuietStep

\* Req goes down.
LEMMA DropCommand == ASSUME HandshakeInv, PlaceInv, CommandInv, Drop PROVE CommandInv'
<1>. USE DEF Drop, MGo
<1>1. Handed' = Handed /\ Given' = Given
  BY DEF Handed, Given, slave, PlaceInv, MasterTypes
<1>. QED BY <1>1, QuietStep

\* A command is over.
LEMMA FinishCommand == ASSUME HandshakeInv, PlaceInv, CommandInv, Finish PROVE CommandInv'
<1>. USE DEF Finish, MGo
<1>1. Handed' = Handed /\ Given' = Given
  BY DEF Handed, Given, slave, PlaceInv, MasterTypes
<1>2. result' # "none"
  OBVIOUS
<1>. QED BY <1>1, <1>2, QuietStep

\* The master sees Akn: the byte it reads is the next one of the block.
LEMMA AcknowledgedCommand == ASSUME HandshakeInv, PlaceInv, CommandInv, Acknowledged PROVE CommandInv'
<1>. USE DEF Acknowledged, MGo
<1>1. ASSUME ~astray[target]
      PROVE  /\ spc[target] = IF Reading THEN "waitGiven" ELSE "waitTaken"
             /\ todo # <<>> /\ (Reading <=> kind = "query" /\ todo # <<Code, ToRead>>)
             /\ Handed' /\ (~Reading => Handed)
             /\ Reading /\ offered[target] # None => OnBus = offered[target]
  BY <1>1, TargetAt, OnBusGiven DEF Handed
<1>2. ASSUME ~astray[target], kind = "set", SetInv PROVE SetInv'
  <2>1. PICK j \in 0..3 : todo = Rest(j) /\ SlaveAt(IF Handed THEN j + 1 ELSE j)
    BY <1>2 DEF SetInv
  <2>2. Handed /\ Handed'
    BY <1>1, <1>2
  <2>. QED BY <2>1, <2>2, SlavesStay DEF SetInv, slave
<1>3. ASSUME ~astray[target], kind = "query", QueryInv PROVE QueryInv'
  <2>1. CASE ~Reading
    <3>1. todo = <<Code, ToRead>> /\ answer' = answer /\ Handed
      BY <1>1, <1>3, <2>1
    <3>2. spc[target] = "waitTaken" /\ busState[target] = "top"
      BY <1>1, <1>3, <2>1, <3>1 DEF QueryInv
    <3>3. Preparing
      BY <1>3, <3>1, <3>2 DEF QueryInv, Answering
    <3>4. Preparing'
      BY <3>1, <3>3, SlavesStay DEF Preparing, slave, state
    <3>5. ReadInv'
      BY <3>1, <3>3, SlavesStay DEF ReadInv, Preparing
    <3>. QED BY <1>1, <1>3, <3>2, <3>4, <3>5, SlavesStay DEF QueryInv, slave, state
  <2>2. CASE Reading
    <3>1. spc[target] = "waitGiven" /\ todo # <<Code, ToRead>> /\ todo # <<>>
      BY <1>1, <1>3, <2>2
    <3>2. busState[target] = "top" /\ Answering
      BY <1>3, <3>1 DEF QueryInv, Preparing, Taking
    <3>3. /\ txBuf[target] = <<LenByte, DataByte>> /\ txPtr[target] = Given /\ Given = Len(answer) + 1
          /\ offered[target] = txBuf[target][txPtr[target]]
      BY <3>1, <3>2 DEF Answering, Given
    <3>4. LenByte \in Bytes /\ DataByte \in Bytes
      BY ProgramBytes DEF LenByte, DataByte, HandshakeInv, BusTypes
    <3>5. answer \in {<<>>, <<LenByte>>} /\ todo = <<ToRead>>
      BY <1>3, <3>1 DEF QueryInv, ReadInv
    <3>6. ASSUME answer = <<>> PROVE answer' = <<LenByte>> /\ Given = 1
      <4>1. Given = 1
        BY <3>3, <3>6
      <4>2. offered[target] = LenByte
        BY <3>3, <4>1
      <4>3. OnBus = LenByte
        BY <1>1, <1>3, <2>2, <3>4, <4>2, NoneAssumption
      <4>. QED BY <2>2, <3>6, <4>1, <4>3
    <3>7. ASSUME answer = <<LenByte>> PROVE answer' = <<LenByte, DataByte>> /\ Given = 2
      <4>1. Given = 2
        BY <3>3, <3>7
      <4>2. offered[target] = DataByte
        BY <3>3, <4>1
      <4>3. OnBus = DataByte
        BY <1>1, <1>3, <2>2, <3>4, <4>2, NoneAssumption
      <4>. QED BY <2>2, <3>4, <3>7, <4>1, <4>3, AppendTwo
    <3>8. ReadInv'
      BY <3>5, <3>6, <3>7, SlavesStay DEF ReadInv
    <3>9. Given' = Given
      <4>1. Given' = Len(answer')
        BY DEF Given
      <4>. QED BY <3>5, <3>6, <3>7, <4>1
    <3>10. Answering'
      BY <3>2, <3>9, SlavesStay DEF Answering, slave, state
    <3>. QED BY <1>1, <1>3, <3>2, <3>8, <3>10 DEF QueryInv, slave, state
  <2>. QED BY <2>1, <2>2
<1>. QED BY <1>2, <1>3, MasterStep

\* The master sees Akn go, and goes on to the next byte.
LEMMA FallenCommand == ASSUME HandshakeInv, PlaceInv, CommandInv, Fallen PROVE CommandInv'
<1>1. /\ Reading /\ Len(answer) = 1 /\ Head(answer)[1] = "len" => todo' = <<ToRead>>
      /\ ~(Reading /\ Len(answer) = 1) => todo' = Tail(todo)
  BY FallenTodo
<1>. USE DEF Fallen, MGo
<1>2. Handed /\ ~Handed'
  BY DEF Handed
<1>3. ASSUME ~astray[target], kind = "set", SetInv PROVE SetInv'
  <2>1. PICK j \in 0..3 : todo = Rest(j) /\ SlaveAt(j + 1)
    BY <1>2, <1>3 DEF SetInv
  <2>2. todo # <<>> /\ ~Reading
    BY <1>3, TargetAt
  <2>3. j # 3 /\ Tail(todo) = Rest(j + 1)
    BY <2>1, <2>2, RestShape
  <2>4. todo' = Tail(todo)
    BY <1>1, <2>2
  <2>5. j + 1 \in 0..3 /\ j + 1 \in 0..4
    BY <2>3
  <2>6. todo' = Rest(j + 1)' /\ SlaveAt(j + 1)'
    BY <2>1, <2>3, <2>4, <2>5, SlavesStay
  <2>. QED BY <1>2, <2>5, <2>6 DEF SetInv
<1>4. ASSUME ~astray[target], kind = "query", QueryInv PROVE QueryInv'
  <2>1. busState[target] = "top" /\ (Preparing \/ Answering)
    BY <1>2, <1>4 DEF QueryInv
  <2>2. todo # <<>>
    BY <1>4, TargetAt
  <2>3. Given' = Given
    BY DEF Given
  <2>4. Preparing => Preparing'
    BY SlavesStay DEF Preparing, slave, state
  <2>5. Answering => Answering'
    BY <2>3, SlavesStay DEF Answering, slave, state
  <2>6. ReadInv' /\ todo' # <<Code, ToRead>>
    <3>1. \A x, y : <<x, y>> # <<ToRead>> /\ <<x, y>> # <<>>
      OBVIOUS
    <3>2. CASE todo = <<Code, ToRead>>
      <4>1. ~Reading /\ todo' = <<ToRead>>
        BY <1>1, <1>4, <2>2, <3>2, TargetAt
      <4>2. answer = <<>>
        BY <1>4, <3>1, <3>2 DEF QueryInv, ReadInv
      <4>. QED BY <3>1, <4>1, <4>2, SlavesStay DEF ReadInv
    <3>3. CASE todo # <<Code, ToRead>>
      <4>1. Reading /\ todo = <<ToRead>> /\ answer \in {<<LenByte>>, <<LenByte, DataByte>>}
        <5>1. answer # <<>>
          BY <1>4, <3>3 DEF PlaceInv, TodoInv
        <5>. QED BY <1>4, <2>2, <3>3, <5>1, TargetAt DEF QueryInv, ReadInv
      <4>2. ASSUME answer = <<LenByte>> PROVE todo' = <<ToRead>>
        <5>1. Len(answer) = 1 /\ Head(answer) = LenByte /\ LenByte[1] = "len"
          BY <4>2 DEF LenByte
        <5>. QED BY <1>1, <4>1, <5>1
      <4>3. ASSUME answer = <<LenByte, DataByte>> PROVE todo' = <<>>
        <5>1. Len(answer) = 2
          BY <4>3
        <5>2. todo' = Tail(todo)
          BY <1>1, <5>1
        <5>3. Tail(<<ToRead>>) = <<>>
          OBVIOUS
        <5>. QED BY <4>1, <5>2, <5>3
      <4>. QED BY <3>1, <4>1, <4>2, <4>3, SlavesStay DEF ReadInv
    <3>. QED BY <3>2, <3>3
  <2>. QED BY <2>1, <2>4, <2>5, <2>6, SlavesStay DEF QueryInv, slave, state
<1>. QED BY <1>3, <1>4, MasterStep

\* Between two commands a slave that was not left behind is ready for the next.
LEMMA IdleSettled ==
    ASSUME HandshakeInv, PlaceInv, CommandInv, mpc = "idle", NEW s \in Slaves, ~astray[s]
    PROVE  Settled(s)
<1>1. CASE s # target \/ ~Begun
  BY <1>1 DEF CommandInv
<1>2. CASE s = target /\ Begun
  <2>1. todo = <<>> /\ spc[target] \in Aside /\ ~Handed
    BY <1>2, TargetAt DEF PlaceInv, TodoInv, Phase, Handed
  <2>2. CASE kind = "set"
    <3>1. PICK j \in 0..3 : todo = Rest(j) /\ SlaveAt(j)
      BY <1>2, <2>1, <2>2 DEF CommandInv, SetInv
    <3>2. j = 3
      BY <2>1, <3>1, RestShape
    <3>3. /\ depth[s] = 0
          /\ \/ spc[s] = "process" /\ busState[s] = "params" /\ args[s] = <<Arg(1)>>
             \/ spc[s] \in {"idle", "check"} /\ busState[s] = "top" /\ args[s] = <<>>
      BY <1>2, <2>1, <3>1, <3>2 DEF SlaveAt, Got, Aside, Taking, Waiting
    <3>4. Len(<<Arg(1)>>) = Params - 1
      BY DEF Params
    <3>. QED BY <1>2, <3>3, <3>4 DEF Settled
  <2>3. CASE kind = "query"
    <3>1. QueryInv
      BY <1>2, <2>3 DEF CommandInv
    <3>2. answer = <<LenByte, DataByte>> /\ todo # <<Code, ToRead>>
      BY <2>1, <3>1 DEF QueryInv, ReadInv
    <3>3. answer # <<>> /\ Len(answer) = 2
      BY <3>2
    <3>4. busState[s] = "top" /\ Answering
      BY <1>2, <3>1, <3>2, <3>3 DEF QueryInv, Preparing
    <3>5. Given = 2
      BY <3>3 DEF Given
    <3>. QED BY <1>2, <2>1, <3>4, <3>5 DEF Answering, Settled, Aside, PlaceInv, SlaveTypes
  <2>. QED BY <2>2, <2>3 DEF PlaceInv, MasterTypes
<1>. QED BY <1>1, <1>2

\* A command is begun.
LEMMA CommandCommand ==
    ASSUME HandshakeInv, PlaceInv, CommandInv, NEW r \in Slaves, NEW k \in {"query", "set"}, Command(r, k)
    PROVE  CommandInv'
<1>. USE DEF Command, MGo
<1>1. ASSUME NEW s \in Slaves, ~astray'[s] PROVE Settled(s)'
  <2>1. CASE ~astray[s]
    BY <2>1, IdleSettled DEF Settled, slave, state
  <2>2. CASE AllQuiet /\ busState[s] = "top"
    BY <2>2 DEF AllQuiet, Settled, PlaceInv, SlaveTypes, slave, state
  <2>. QED BY <1>1, <2>1, <2>2
<1>2. number + 1 \in Numbers
  BY BoundsAssumption DEF HandshakeInv, BusTypes, Numbers
<1>3. ~Handed'
  BY DEF Handed
<1>4. ASSUME ~astray'[target'] PROVE Fresh'
  BY <1>1, <1>4 DEF Fresh
<1>5. ASSUME k = "set", ~astray'[target'] PROVE SetInv'
  <2>1. todo' = Rest(0)'
    BY <1>2, <1>5, ProgramType DEF Rest, Code, Arg
  <2>2. SlaveAt(0)'
    BY <1>4, <1>5 DEF SlaveAt
  <2>. QED BY <1>3, <2>1, <2>2 DEF SetInv
<1>6. ASSUME k = "query", ~astray'[target'] PROVE QueryInv'
  <2>1. todo' = <<Code, ToRead>>'
    BY <1>2, <1>6, ProgramType DEF Code
  <2>. QED BY <1>3, <1>4, <1>6, <2>1 DEF QueryInv, ReadInv
<1>. QED BY <1>1, <1>5, <1>6 DEF CommandInv

\* Whoever gives up has left everybody behind.
LEMMA GiveUpCommand == ASSUME HandshakeInv, GiveUp PROVE CommandInv'
BY DEF GiveUp, CommandInv, HandshakeInv, BusTypes

-----------------------------------------------------------------------------

IInv == HandshakeInv /\ PlaceInv /\ CommandInv

\* It says what is wanted.
LEMMA IInvImplies == IInv => HardwareSpared /\ TakenOnce /\ SuccessIsOwn
<1>. SUFFICES ASSUME IInv PROVE HardwareSpared /\ TakenOnce /\ SuccessIsOwn
  OBVIOUS
<1>. USE DEF IInv
<1>1. TypeOK /\ OneDriver /\ TakenOnce
  BY PlaceImplies, HandshakeImplies
<1>2. ASSUME NEW s \in Slaves, ~astray[s] PROVE ~(depth[s] > 1)
  <2>1. CASE s # target \/ ~Begun
    BY <1>2, <2>1 DEF CommandInv, Settled
  <2>2. CASE s = target /\ Begun /\ kind = "set"
    <3>1. SetInv
      BY <1>2, <2>2 DEF CommandInv
    <3>. QED BY <2>2, <3>1 DEF SetInv, SlaveAt, Fresh, Settled
  <2>3. CASE s = target /\ Begun /\ kind = "query"
    <3>1. QueryInv
      BY <1>2, <2>3 DEF CommandInv
    <3>2. depth[s] \in Nat
      BY DEF PlaceInv, SlaveTypes
    <3>. QED BY <2>3, <3>1, <3>2 DEF QueryInv, Preparing, Answering, Fresh, Settled
  <2>. QED BY <2>1, <2>2, <2>3 DEF PlaceInv, MasterTypes
<1>3. ASSUME result = "success", ~astray[target]
      PROVE  /\ Begun /\ todo = <<>> /\ ~Handed
             /\ kind = "set" => SetInv
             /\ kind = "query" => QueryInv
  BY <1>3 DEF Begun, Handed, PlaceInv, TodoInv, CommandInv, HandshakeInv, BusTypes
<1>4. AnswerIsOwn
  BY <1>3 DEF AnswerIsOwn, QueryInv, ReadInv, LenByte, DataByte
<1>5. SettingInForce
  <2>. SUFFICES ASSUME result = "success", kind = "set", ~astray[target], spc[target] = "idle"
                PROVE  applied[target] = [i \in 1..Params |-> <<"arg", number, i>>]
    BY DEF SettingInForce
  <2>1. PICK j \in 0..3 : todo = Rest(j) /\ SlaveAt(j)
    BY <1>3 DEF SetInv
  <2>2. SlaveAt(3)
    BY <1>3, <2>1, RestShape
  <2>3. Got(3)
    BY <2>2 DEF SlaveAt, Taking
  <2>. QED BY <2>3 DEF Got, Arg, Params
<1>. QED BY <1>1, <1>2, <1>4, <1>5 DEF HardwareSpared, NestingBounded, SuccessIsOwn

\* Initially no slave was left behind.
LEMMA InitIInv == Init => IInv
<1>. SUFFICES ASSUME Init PROVE IInv
  OBVIOUS
<1>1. CommandInv
  BY DEF Init, CommandInv, Settled, Begun
<1>. QED BY <1>1, InitHandshake, InitPlace DEF IInv

\* A step in which nothing happens.
LEMMA StutterIInv == ASSUME IInv, UNCHANGED vars PROVE IInv'
<1>. USE DEF vars, lines, master, slave, state
<1>1. PlaceInv'
  BY DEF IInv, PlaceInv, MasterTypes, FlagTypes, SlaveTypes, PerSlave, TodoInv, Code, Arg
<1>2. CommandInv'
  <2>1. ASSUME SetInv PROVE SetInv'
    BY <2>1, SlavesStay DEF SetInv, Handed
  <2>2. ASSUME QueryInv PROVE QueryInv'
    BY <2>2 DEF QueryInv, ReadInv, Preparing, Answering, Given, Fresh, Settled, Handed, Code, LenByte, DataByte
  <2>. QED BY <2>1, <2>2 DEF IInv, CommandInv, Settled, Begun
<1>. QED BY <1>1, <1>2, StutterHandshake DEF IInv

\* Every step of the two processors.
LEMMA NextIInv == ASSUME IInv, [Next]_vars PROVE IInv'
<1>. USE DEF IInv
<1>1. ASSUME NEW s \in Slaves, NEW k \in {"query", "set"}, Command(s, k) PROVE IInv'
  BY <1>1, CommandHandshake, CommandPlace, CommandCommand
<1>2. CASE MasterWorks
  <2>1. CASE Present
    BY <2>1, PresentHandshake, PresentPlace, PresentCommand
  <2>2. CASE Raise
    BY <2>2, RaiseHandshake, RaisePlace, RaiseCommand
  <2>3. CASE Acknowledged
    BY <2>3, AcknowledgedHandshake, AcknowledgedPlace, AcknowledgedCommand
  <2>4. CASE Drop
    BY <2>4, DropHandshake, DropPlace, DropCommand
  <2>5. CASE Fallen
    BY <2>5, FallenHandshake, FallenPlace, FallenCommand
  <2>6. CASE Finish
    BY <2>6, FinishHandshake, FinishPlace, FinishCommand
  <2>. QED BY <1>2, <2>1, <2>2, <2>3, <2>4, <2>5, <2>6 DEF MasterWorks
<1>3. CASE NoAcknowledge
  BY <1>3, NoAcknowledgeHandshake, NoAcknowledgePlace, GiveUpCommand DEF NoAcknowledge
<1>4. CASE NoRelease
  BY <1>4, NoReleaseHandshake, NoReleasePlace, GiveUpCommand DEF NoRelease
<1>5. ASSUME NEW s \in Slaves, SlaveWorks(s) PROVE IInv'
  <2>1. CASE Interrupt(s)
    BY <2>1, InterruptHandshake, InterruptPlace, InterruptCommand
  <2>2. CASE CheckReq(s)
    BY <2>2, CheckReqHandshake, CheckReqPlace, CheckReqCommand
  <2>3. CASE CheckDirection(s)
    BY <2>3, CheckDirectionHandshake, CheckDirectionPlace, CheckDirectionCommand
  <2>4. CASE Take(s)
    BY <2>4, TakeHandshake, TakePlace, TakeCommand
  <2>5. CASE Give(s)
    BY <2>5, GiveHandshake, GivePlace, GiveCommand
  <2>6. CASE Acknowledge(s)
    BY <2>6, AcknowledgeHandshake, AcknowledgePlace, AcknowledgeCommand
  <2>7. CASE ReqFallen(s)
    BY <2>7, ReqFallenHandshake, ReqFallenPlace, ReqFallenCommand
  <2>8. CASE Free(s)
    BY <2>8, FreeHandshake, FreePlace, FreeCommand
  <2>9. CASE Release(s)
    BY <2>9, ReleaseHandshake, ReleasePlace, ReleaseCommand
  <2>10. CASE ReleaseTaken(s)
    BY <2>10, ReleaseTakenHandshake, ReleaseTakenPlace, ReleaseTakenCommand
  <2>11. CASE ProcessQuery(s)
    BY <2>11, ProcessQueryHandshake, ProcessQueryPlace, ProcessQueryCommand
  <2>12. CASE Fill(s)
    BY <2>12, FillHandshake, FillPlace, FillCommand
  <2>13. CASE Enable(s)
    BY <2>13, EnableHandshake, EnablePlace, EnableCommand
  <2>14. CASE ProcessParam(s)
    BY <2>14, ProcessParamHandshake, ProcessParamPlace, ProcessParamCommand
  <2>15. ASSUME NEW what \in {"set", "unknown"}, ProcessCode(s, what) PROVE IInv'
    BY <2>15, ProcessCodeHandshake, ProcessCodePlace, ProcessCodeCommand
  <2>. QED BY <1>5, <2>1, <2>2, <2>3, <2>4, <2>5, <2>6, <2>7, <2>8, <2>9, <2>10, <2>11, <2>12, <2>13, <2>14,
          <2>15 DEF SlaveWorks
<1>6. CASE UNCHANGED vars
  BY <1>6, StutterIInv
<1>. QED BY <1>1, <1>2, <1>3, <1>4, <1>5, <1>6 DEF Next

\* When the master sees a byte acknowledged, the slave it is for has taken that byte,
\* once, and nobody else has.
THEOREM SpecTakenOnce == Spec => []TakenOnce
<1>. QED
  BY InitIInv, NextIInv, IInvImplies, PTL DEF Spec

\* Two processors never drive the data lines against each other, and the routines of the
\* slave's interrupt call each other at most one level deep, unless a time-out has left
\* somebody behind; every buffer and every list of parameters keeps its size in any case.
THEOREM SpecHardwareSpared == Spec => []HardwareSpared
<1>. QED
  BY InitIInv, NextIInv, IInvImplies, PTL DEF Spec

\* An answer passed on to the host is that of its command and complete, and a setting
\* that was acknowledged is in force, unless a time-out has left the slave behind.
THEOREM SpecSuccessIsOwn == Spec => []SuccessIsOwn
<1>. QED
  BY InitIInv, NextIInv, IInvImplies, PTL DEF Spec

\* The data lines have one driver at most.
THEOREM SpecOneDriver == Spec => []OneDriver
<1>1. HardwareSpared => OneDriver
  BY DEF HardwareSpared
<1>. QED BY <1>1, SpecHardwareSpared, PTL

=============================================================================
