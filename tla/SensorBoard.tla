---------------------------- MODULE SensorBoard ----------------------------
(***************************************************************************)
(* packages/vehicle/src/device/SensorBoard.cpp: the object through which   *)
(* the threads of the vehicle share the sensor board.  Its own loop copies *)
(* the state, talks to the board (speeds, one item of telemetry, depth)    *)
(* and writes the state back; other threads set thruster values, which     *)
(* only changes the state, or have a command of their own to send.         *)
(*                                                                         *)
(* An exchange with the board has a beginning and an end here, and an end  *)
(* of two kinds; SensorProtocol has what happens in between.  An error     *)
(* makes handleReturn() close the file and call establishConnection(),     *)
(* which takes m_deviceMutex, a mutex that cannot be taken twice.          *)
(*                                                                         *)
(* m_stateMutex is a ReadWriteMutex held for one step.  The loop is the    *)
(* one of Updatable, of which only starting the next update, the request   *)
(* to stop and the join are left.                                          *)
(***************************************************************************)
EXTENDS SensorBoardState

state == <<commanded, copy>>
device == <<holder, fd, opened>>
thread == <<pc, call, todo, marker, using>>
history == <<sent, wanted, overtaken, picks>>
vars == <<state, device, dropped, thread, running, destroyed, calls, errors, history>>

ClientCalls == DOMAIN Exchanges \ {"update", "destructor", "none"}

Init ==
    /\ commanded = Initial /\ copy = Initial /\ sent = Initial /\ wanted = Initial
    /\ holder = Nobody /\ fd = 1 /\ opened = 1
    /\ dropped = {}
    /\ pc = [t \in Threads |-> "idle"]
    /\ call = [t \in Threads |-> "none"]
    /\ todo = [t \in Threads |-> <<>>]
    /\ marker = [t \in Threads |-> 0]
    /\ using = [t \in Threads |-> 0]
    /\ running = TRUE /\ destroyed = FALSE /\ overtaken = FALSE
    /\ calls = 0 /\ errors = 0
    /\ picks = [m \in Markers |-> 0]

Go(t, from, to) == pc[t] = from /\ pc' = [pc EXCEPT ![t] = to]

\* A thread that waits for the mutex it holds.
Stuck(t) == pc[t] = "reopen" /\ holder = t

Leaving == destroyed \/ \E c \in Clients : call[c] = "destructor"

-----------------------------------------------------------------------------
(* Calls *)

CallLocking(c, k, unlocked) ==
    /\ ~Leaving
    /\ calls < MaxCalls
    /\ calls' = calls + 1
    /\ Go(c, "idle", IF k \in unlocked THEN "ready" ELSE "lock")
    /\ call' = [call EXCEPT ![c] = k]
    /\ todo' = [todo EXCEPT ![c] = Exchanges[k]]
    /\ \E m \in IF k = "dropMarkerIndex" THEN Markers ELSE {0} : marker' = [marker EXCEPT ![c] = m]
    /\ UNCHANGED <<state, device, dropped, using, running, destroyed, errors, history>>

\* Mutants: no mutex for the marker, or for the thrusters.
CallMarkerUnlocked(c, k) == CallLocking(c, k, Unlocked \cup {"dropMarker"})
CallEnableUnlocked(c, k) == CallLocking(c, k, Unlocked \cup {"setThrusterEnable"})

Call(c, k) == CallLocking(c, k, Unlocked)

SetThrusterValue(c, v) ==
    /\ ~Leaving
    /\ calls < MaxCalls
    /\ calls' = calls + 1
    /\ pc[c] = "idle"
    /\ commanded' = v
    /\ wanted' = v
    /\ overtaken' = (call[Loop] = "update")
    /\ UNCHANGED <<copy, device, dropped, thread, running, destroyed, errors, sent, picks>>

\* The mutex is taken.
Lock(t) ==
    /\ holder = Nobody
    /\ Go(t, "lock", IF call[t] = "destructor" THEN "close" ELSE "ready")
    /\ holder' = t
    /\ UNCHANGED <<state, fd, opened, dropped, call, todo, using, marker, running, destroyed, calls, errors,
                   history>>

\* dropMarker() chooses the first marker that is left, if any.
PickMarker(c) ==
    /\ pc[c] = "ready" /\ call[c] = "dropMarker" /\ marker[c] = 0
    /\ \E m \in Markers \ dropped :
        /\ \A n \in Markers \ dropped : m <= n
        /\ marker' = [marker EXCEPT ![c] = m]
        /\ todo' = [todo EXCEPT ![c] = <<"marker">>]
        /\ picks' = [picks EXCEPT ![m] = @ + 1]
    /\ UNCHANGED <<state, device, dropped, pc, call, using, running, destroyed, calls, errors, sent, wanted,
                   overtaken>>

-----------------------------------------------------------------------------
(* Exchanges with the board *)

Begin(t) ==
    /\ todo[t] # <<>>
    /\ Go(t, "ready", "talk")
    /\ using' = [using EXCEPT ![t] = fd]
    /\ UNCHANGED <<state, device, dropped, call, todo, marker, running, destroyed, calls, errors, history>>

\* Both marker calls ignore what the driver returns.
Succeed(t) ==
    /\ using[t] = fd /\ fd # 0
    /\ Head(todo[t]) # "fireTorpedo(0)"
    /\ Go(t, "talk", "ready")
    /\ todo' = [todo EXCEPT ![t] = Tail(@)]
    /\ using' = [using EXCEPT ![t] = 0]
    /\ sent' = IF Head(todo[t]) = "setSpeeds" THEN copy ELSE sent
    /\ UNCHANGED <<state, device, dropped, call, marker, running, destroyed, calls, errors, wanted,
                   overtaken, picks>>

\* An error of the line, a file that was closed meanwhile, or a number the driver
\* refuses: handleReturn() closes the file.
Fail(t) ==
    /\ \/ /\ Head(todo[t]) = "fireTorpedo(0)" \/ using[t] # fd \/ fd = 0
          /\ UNCHANGED errors
       \/ errors < MaxErrors /\ errors' = errors + 1
    /\ todo' = [todo EXCEPT ![t] = Tail(@)]
    /\ using' = [using EXCEPT ![t] = 0]
    /\ IF Head(todo[t]) = "marker"
       THEN Go(t, "talk", "ready") /\ UNCHANGED fd
       ELSE Go(t, "talk", "reopen") /\ fd' = 0
    /\ UNCHANGED <<state, holder, opened, dropped, call, marker, running, destroyed, calls, history>>

\* establishConnection() has the mutex, opens the file if there is none ...
Reopen(t) ==
    /\ holder = Nobody
    /\ Go(t, "reopen", "sync")
    /\ holder' = t
    /\ IF fd = 0 THEN opened' = opened + 1 /\ fd' = opened + 1 ELSE UNCHANGED <<fd, opened>>
    /\ UNCHANGED <<state, dropped, call, todo, using, marker, running, destroyed, calls, errors, history>>

\* ... and syncs; a board that cannot be synced ends the program.
SyncBoard(t) ==
    /\ Go(t, "sync", "ready")
    /\ holder' = Nobody
    /\ UNCHANGED <<state, fd, opened, dropped, call, todo, using, marker, running, destroyed, calls, errors,
                   history>>

Done(t) == pc[t] = "ready" /\ todo[t] = <<>>

\* Mutant: the mutex is not released when there is nothing left to drop.
ReturnKeepsMutex(c) ==
    /\ c \in Clients /\ Done(c)
    /\ call[c] = "dropMarker" /\ marker[c] = 0 => dropped = Markers
    /\ Go(c, "ready", "idle")
    /\ holder' = IF call[c] \in Unlocked \cup {"dropMarker"} THEN holder ELSE Nobody
    /\ dropped' = dropped \cup ({marker[c]} \cap Markers)
    /\ call' = [call EXCEPT ![c] = "none"]
    /\ marker' = [marker EXCEPT ![c] = 0]
    /\ UNCHANGED <<state, fd, opened, todo, using, running, destroyed, calls, errors, sent, wanted,
                   overtaken, picks>>

\* A call returns; a marker is noted as dropped whatever the board said.
Return(c) ==
    /\ c \in Clients /\ Done(c)
    /\ call[c] = "dropMarker" /\ marker[c] = 0 => dropped = Markers
    /\ Go(c, "ready", "idle")
    /\ holder' = IF call[c] \in Unlocked THEN holder ELSE Nobody
    /\ dropped' = dropped \cup ({marker[c]} \cap Markers)
    /\ call' = [call EXCEPT ![c] = "none"]
    /\ marker' = [marker EXCEPT ![c] = 0]
    /\ UNCHANGED <<state, fd, opened, todo, using, running, destroyed, calls, errors, sent, wanted,
                   overtaken, picks>>

-----------------------------------------------------------------------------
(* update(), on the thread of the loop *)

\* Mutant: the state is copied once and for all.
CopyNothing ==
    /\ running
    /\ Go(Loop, "idle", "lock")
    /\ call' = [call EXCEPT ![Loop] = "update"]
    /\ todo' = [todo EXCEPT ![Loop] = Exchanges.update]
    /\ UNCHANGED <<state, device, dropped, using, marker, running, destroyed, calls, errors, history>>

CopyState ==
    /\ running
    /\ Go(Loop, "idle", "lock")
    /\ copy' = commanded
    /\ call' = [call EXCEPT ![Loop] = "update"]
    /\ todo' = [todo EXCEPT ![Loop] = Exchanges.update]
    /\ UNCHANGED <<commanded, device, dropped, using, marker, running, destroyed, calls, errors, history>>

\* The mutex is released; the handlers of the events run without it.
Unlock ==
    /\ Done(Loop)
    /\ Go(Loop, "ready", "events")
    /\ holder' = Nobody
    /\ UNCHANGED <<state, fd, opened, dropped, call, todo, using, marker, running, destroyed, calls, errors,
                   history>>

\* The whole state is written back, thruster values included.
WriteBack ==
    /\ Go(Loop, "events", "idle")
    /\ commanded' = copy
    /\ copy' = Initial
    /\ call' = [call EXCEPT ![Loop] = "none"]
    /\ UNCHANGED <<device, dropped, todo, using, marker, running, destroyed, calls, errors, history>>

EndLoop ==
    /\ ~running
    /\ Go(Loop, "idle", "ended")
    /\ UNCHANGED <<state, device, dropped, call, todo, using, marker, running, destroyed, calls, errors, history>>

-----------------------------------------------------------------------------
(* Destruction, when nobody else is in a call *)

\* Mutant: the destructor does not wait for the loop.
DestroyAtOnce(c) ==
    /\ ~Leaving
    /\ \A d \in Clients : pc[d] = "idle"
    /\ Go(c, "idle", "lock")
    /\ call' = [call EXCEPT ![c] = "destructor"]
    /\ running' = FALSE
    /\ UNCHANGED <<state, device, dropped, todo, using, marker, destroyed, calls, errors, history>>

Destroy(c) ==
    /\ ~Leaving
    /\ \A d \in Clients : pc[d] = "idle"
    /\ Go(c, "idle", "join")
    /\ call' = [call EXCEPT ![c] = "destructor"]
    /\ running' = FALSE
    /\ UNCHANGED <<state, device, dropped, todo, using, marker, destroyed, calls, errors, history>>

Joined(c) ==
    /\ pc[Loop] = "ended"
    /\ Go(c, "join", "lock")
    /\ UNCHANGED <<state, device, dropped, call, todo, using, marker, running, destroyed, calls, errors, history>>

CloseFile(c) ==
    /\ Go(c, "close", "ended")
    /\ fd' = 0
    /\ holder' = Nobody
    /\ destroyed' = TRUE
    /\ UNCHANGED <<state, opened, dropped, call, todo, using, marker, running, calls, errors, history>>

-----------------------------------------------------------------------------

Talk(t) == pc[t] = "talk" /\ (Succeed(t) \/ Fail(t))

ThreadStep(t) ==
    Lock(t) \/ PickMarker(t) \/ Begin(t) \/ Talk(t) \/ Reopen(t) \/ SyncBoard(t) \/ Return(t)

ClientStep(c) == ThreadStep(c) \/ Joined(c) \/ CloseFile(c)
LoopStep == ThreadStep(Loop) \/ CopyState \/ Unlock \/ WriteBack \/ EndLoop

Next ==
    \/ \E c \in Clients :
        \/ \E k \in ClientCalls : Call(c, k)
        \/ \E v \in Speeds : SetThrusterValue(c, v)
        \/ Destroy(c)
        \/ ClientStep(c)
    \/ LoopStep

Spec == Init /\ [][Next]_vars

\* Threads are scheduled, and a mutex that is released again and again is got
\* in the end.
FairSpec ==
    /\ Spec
    /\ \A c \in Clients : WF_vars(ClientStep(c)) /\ SF_vars(Lock(c) \/ Reopen(c))
    /\ WF_vars(LoopStep) /\ SF_vars(Lock(Loop))

-----------------------------------------------------------------------------
(* Properties *)

\* A value a client sets reaches the board, unless it is set while an update is
\* under way, whose copy of the state then overwrites it.
CommandsSent ==
    sent # wanted ~> sent = wanted \/ overtaken \/ ~running \/ \E t \in Threads : Stuck(t)

\* A call returns, the destructor's too, unless an error has left a thread waiting
\* for itself.
ClientReturns ==
    \A c \in Clients :
        pc[c] \notin {"idle", "ended"} ~> pc[c] \in {"idle", "ended"} \/ \E t \in Threads : Stuck(t)

\* "some kind of error.  reestablishing connection." (handleReturn)
NeverWaitsForItself == \A t \in Threads : ~Stuck(t)
=============================================================================
