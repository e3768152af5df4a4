-------------------------- MODULE UpdatableProofs --------------------------
(***************************************************************************)
(* The background thread of an Updatable with one controlling thread, the  *)
(* way the program uses it: whatever the order of the calls and however    *)
(* often it is started again, there is one loop, and none after a join or  *)
(* the destructor.  With two controllers this is false.                    *)
(*                                                                         *)
(* The second half is about the VisionRunner, which is an Updatable whose  *)
(* loop controls itself beside one client.  Its invariant has two layers:  *)
(*                                                                         *)
(*   RInv       whose turn it is: a loop that calls background() or        *)
(*              unbackground(true) waits for itself and gets no further,   *)
(*              and while the flag is down no loop looks at the detectors; *)
(*   ChangeInv  what is left to do: whoever empties the set of detectors   *)
(*              has noted that it was not empty, and will stop the loop.   *)
(*                                                                         *)
(* The names of the lemmas are those of the actions, with Type, IInv, Core *)
(* (the inherited state), Turn or Change for what they establish.          *)
(***************************************************************************)
EXTENDS VisionRunner, FiniteSetTheorems, TLAPS

OneController == \A c, d \in Controllers : c = d

\* Only m_backgroundThread can be in the loop, and while it is the latch is up: a
\* thread is forgotten only when the latch is down or it was joined.
LoopInv ==
    \A l \in Loops : lpc[l] \notin {"none", "exiting", "finished"} => thread = l /\ latchCount = 1

\* What a call in progress knows.
CallInv == \A c \in Controllers :
    /\ cpc[c] \in {"await", "awaiting"} => thread \in Loops
    /\ cpc[c] = "create" => thread = NoThread /\ ~quiet
    /\ cpc[c] \in {"clean", "await", "awaiting"} /\ onClean[c] = "start" => ~quiet
    /\ destroyed => cpc[c] = "idle"

IInv == TypeOK /\ LoopInv /\ CallInv /\ StoppedWhenJoined /\ NoLoopAfterDestruction

-----------------------------------------------------------------------------

\* Only one thread can be meant by m_backgroundThread.
LEMMA IInvImplies == IInv => LoopLifetime
<1>. SUFFICES ASSUME IInv PROVE OneLoop
  BY DEF IInv, LoopLifetime
<1>1. Running \subseteq {thread}
  BY DEF IInv, LoopInv, Running
<1>2. CASE Running = {}
  BY <1>2, FS_EmptySet DEF OneLoop
<1>3. CASE Running # {}
  <2>1. Running = {thread} BY <1>1, <1>3
  <2>2. Cardinality({thread}) = 1 BY FS_Singleton
  <2>. QED BY <2>1, <2>2 DEF OneLoop
<1>. QED BY <1>2, <1>3

\* Nothing runs at first.
LEMMA InitIInv == Init => IInv
<1>. SUFFICES ASSUME Init PROVE IInv
  OBVIOUS
<1>1. Latch!TypeOK
  BY DEF Init, Latch!Init, Latch!TypeOK, Latch!Calls, Latch!Results
<1>2. TypeOK
  BY <1>1, DefaultAssumption
     DEF Init, Latch!Init, TypeOK, ControllerLocations, LoopLocations, Continuations, Kinds
<1>. QED
  BY <1>2 DEF Init, IInv, LoopInv, CallInv, StoppedWhenJoined, NoLoopAfterDestruction, Running

-----------------------------------------------------------------------------
(* Types *)

\* A setting is changed.
LEMMA SetType ==
    ASSUME TypeOK, NEW c \in Controllers, NEW kind \in Kinds, NEW value \in Settings, Set(c, kind, value)
    PROVE  TypeOK'
BY DefaultAssumption
   DEF TypeOK, Latch!TypeOK, Latch!Calls, Latch!Results, ControllerLocations, Continuations, LoopLocations,
       Set, Ready, vars, stateVars, latchVars, loopVars, callVars

\* background(), up to the clean-up.
LEMMA BackgroundType ==
    ASSUME TypeOK, NEW c \in Controllers, Background(c)
    PROVE  TypeOK'
BY DefaultAssumption
   DEF TypeOK, Latch!TypeOK, Latch!Calls, Latch!Results, ControllerLocations, Continuations, LoopLocations,
       Background, Ready, Move, vars, stateVars, latchVars, loopVars, callVars

\* unbackground(), up to the clean-up.
LEMMA UnbackgroundType ==
    ASSUME TypeOK, NEW c \in Controllers, NEW join \in BOOLEAN, Unbackground(c, join)
    PROVE  TypeOK'
BY DefaultAssumption
   DEF TypeOK, Latch!TypeOK, Latch!Calls, Latch!Results, ControllerLocations, Continuations, LoopLocations,
       Unbackground, Ready, Move, vars, stateVars, latchVars, loopVars, callVars

\* The destructor, up to the clean-up.
LEMMA DestroyType ==
    ASSUME TypeOK, NEW c \in Controllers, Destroy(c)
    PROVE  TypeOK'
BY DefaultAssumption
   DEF TypeOK, Latch!TypeOK, Latch!Calls, Latch!Results, ControllerLocations, Continuations, LoopLocations,
       Destroy, Ready, Move, vars, stateVars, latchVars, loopVars, callVars

\* The clean-up finds no thread or a stopped one, or waits.
LEMMA CleanUpType ==
    ASSUME TypeOK, NEW c \in Controllers, CleanUp(c)
    PROVE  TypeOK'
<1>. USE DEF CleanUp, Cleaned, Move, vars, stateVars, latchVars, loopVars, callVars, TypeOK
<1>1. Latch!TypeOK' /\ latchCount' \in {0, 1}
  BY DEF Latch!TypeOK, Latch!Calls, Latch!Results
<1>2. /\ cpc' \in [Controllers -> ControllerLocations]
      /\ onClean' \in [Controllers -> Continuations]
      /\ owner' \in {Nobody} \cup {k \in Controllers : cpc'[k] \in {"await", "awaiting"}}
  BY DEF ControllerLocations, Continuations
<1>3. /\ thread' \in Loops \cup {NoThread}
      /\ lpc' \in [Loops -> LoopLocations] /\ inBackground' \in [Loops -> BOOLEAN]
      /\ applied' \in [Loops -> [Kinds -> Settings]]
  BY DefaultAssumption DEF LoopLocations
<1>. QED BY <1>1, <1>2, <1>3

\* It waits for the latch.
LEMMA AwaitStoppedType ==
    ASSUME TypeOK, NEW c \in Controllers, AwaitStopped(c)
    PROVE  TypeOK'
BY DefaultAssumption
   DEF TypeOK, Latch!TypeOK, Latch!Calls, Latch!Results, ControllerLocations, Continuations, LoopLocations,
       AwaitStopped, Move, Latch!Await, vars, stateVars, latchVars, loopVars, callVars

\* It is woken.
LEMMA WokenType ==
    ASSUME TypeOK, NEW c \in Controllers, Woken(c)
    PROVE  TypeOK'
BY DefaultAssumption
   DEF TypeOK, Latch!TypeOK, Latch!Calls, Latch!Results, ControllerLocations, Continuations, LoopLocations,
       Woken, Latch!Woken, Latch!Return, vars, stateVars, latchVars, loopVars, callVars

\* It is woken by nobody.
LEMMA SpuriousWakeupType ==
    ASSUME TypeOK, NEW c \in Controllers, SpuriousWakeup(c)
    PROVE  TypeOK'
BY DefaultAssumption
   DEF TypeOK, Latch!TypeOK, Latch!Calls, Latch!Results, ControllerLocations, Continuations, LoopLocations,
       SpuriousWakeup, Latch!SpuriousWakeup, vars, stateVars, latchVars, loopVars, callVars

\* It has joined the thread.
LEMMA JoinType ==
    ASSUME TypeOK, NEW c \in Controllers, Join(c)
    PROVE  TypeOK'
BY DefaultAssumption
   DEF TypeOK, Latch!TypeOK, Latch!Calls, Latch!Results, ControllerLocations, Continuations, LoopLocations,
       Join, Cleaned, Move, vars, stateVars, latchVars, loopVars, callVars

\* A new thread is created.
LEMMA CreateType ==
    ASSUME TypeOK, NEW c \in Controllers, Create(c)
    PROVE  TypeOK'
BY DefaultAssumption
   DEF TypeOK, Latch!TypeOK, Latch!Calls, Latch!Results, ControllerLocations, Continuations, LoopLocations,
       Create, Move, Latch!ResetCount, vars, stateVars, latchVars, loopVars, callVars

\* A round of the loop begins.
LEMMA ReadStateType ==
    ASSUME TypeOK, NEW l \in Loops, ReadState(l)
    PROVE  TypeOK'
BY DefaultAssumption
   DEF TypeOK, Latch!TypeOK, Latch!Calls, Latch!Results, ControllerLocations, Continuations, LoopLocations,
       ReadState, Step, vars, stateVars, latchVars, loopVars, callVars

\* The settings are applied.
LEMMA ApplySettingsType ==
    ASSUME TypeOK, NEW l \in Loops, ApplySettings(l)
    PROVE  TypeOK'
BY DefaultAssumption
   DEF TypeOK, Latch!TypeOK, Latch!Calls, Latch!Results, ControllerLocations, Continuations, LoopLocations,
       ApplySettings, Step, vars, stateVars, latchVars, loopVars, callVars

\* update() stops its loop.
LEMMA StopSelfType ==
    ASSUME TypeOK, NEW l \in Loops, StopSelf(l)
    PROVE  TypeOK'
BY DefaultAssumption
   DEF TypeOK, Latch!TypeOK, Latch!Calls, Latch!Results, ControllerLocations, Continuations, LoopLocations,
       StopSelf, vars, stateVars, latchVars, loopVars, callVars

\* update() returns.
LEMMA UpdateDoneType ==
    ASSUME TypeOK, NEW l \in Loops, UpdateDone(l)
    PROVE  TypeOK'
BY DefaultAssumption
   DEF TypeOK, Latch!TypeOK, Latch!Calls, Latch!Results, ControllerLocations, Continuations, LoopLocations,
       UpdateDone, Step, vars, stateVars, latchVars, loopVars, callVars

\* The loop sleeps no more.
LEMMA AwakesType ==
    ASSUME TypeOK, NEW l \in Loops, Awakes(l)
    PROVE  TypeOK'
BY DefaultAssumption
   DEF TypeOK, Latch!TypeOK, Latch!Calls, Latch!Results, ControllerLocations, Continuations, LoopLocations,
       Awakes, Step, vars, stateVars, latchVars, loopVars, callVars

\* The loop lets go of the object.
LEMMA SignalStoppedType ==
    ASSUME TypeOK, NEW l \in Loops, SignalStopped(l)
    PROVE  TypeOK'
BY DefaultAssumption
   DEF TypeOK, Latch!TypeOK, Latch!Calls, Latch!Results, ControllerLocations, Continuations, LoopLocations,
       SignalStopped, Step, Latch!CountDown, Latch!InAwait, vars, stateVars, latchVars, loopVars, callVars

\* The thread ends.
LEMMA FinishType ==
    ASSUME TypeOK, NEW l \in Loops, Finish(l)
    PROVE  TypeOK'
BY DefaultAssumption
   DEF TypeOK, Latch!TypeOK, Latch!Calls, Latch!Results, ControllerLocations, Continuations, LoopLocations,
       Finish, Step, vars, stateVars, latchVars, loopVars, callVars

-----------------------------------------------------------------------------
(* One controller *)

\* A setting is changed.
LEMMA SetIInv ==
    ASSUME IInv, OneController, NEW c \in Controllers, NEW kind \in Kinds, NEW value \in Settings, Set(c, kind, value)
    PROVE  IInv'
<1>. USE DEF Set, Ready, vars, stateVars, latchVars, loopVars, callVars
<1>1. TypeOK'
  BY SetType DEF IInv
<1>2. LoopInv'
  BY NoThreadAssumption DEF IInv, TypeOK, LoopInv, CallInv
<1>3. CallInv'
  BY NoThreadAssumption DEF IInv, TypeOK, CallInv, OneController
<1>4. StoppedWhenJoined' /\ NoLoopAfterDestruction'
  BY NoThreadAssumption DEF IInv, TypeOK, LoopInv, CallInv, StoppedWhenJoined, NoLoopAfterDestruction, Running
<1>. QED BY <1>1, <1>2, <1>3, <1>4 DEF IInv

\* background(), up to the clean-up.
LEMMA BackgroundIInv ==
    ASSUME IInv, OneController, NEW c \in Controllers, Background(c)
    PROVE  IInv'
<1>. USE DEF Background, Ready, Move, vars, stateVars, latchVars, loopVars, callVars
<1>1. TypeOK'
  BY BackgroundType DEF IInv
<1>2. LoopInv'
  BY NoThreadAssumption DEF IInv, TypeOK, LoopInv, CallInv
<1>3. CallInv'
  BY NoThreadAssumption DEF IInv, TypeOK, CallInv, OneController
<1>4. StoppedWhenJoined' /\ NoLoopAfterDestruction'
  BY NoThreadAssumption DEF IInv, TypeOK, LoopInv, CallInv, StoppedWhenJoined, NoLoopAfterDestruction, Running
<1>. QED BY <1>1, <1>2, <1>3, <1>4 DEF IInv

\* unbackground(), up to the clean-up.
LEMMA UnbackgroundIInv ==
    ASSUME IInv, OneController, NEW c \in Controllers, NEW join \in BOOLEAN, Unbackground(c, join)
    PROVE  IInv'
<1>. USE DEF Unbackground, Ready, Move, vars, stateVars, latchVars, loopVars, callVars
<1>1. TypeOK'
  BY UnbackgroundType DEF IInv
<1>2. LoopInv'
  BY NoThreadAssumption DEF IInv, TypeOK, LoopInv, CallInv
<1>3. CallInv'
  BY NoThreadAssumption DEF IInv, TypeOK, CallInv, OneController
<1>4. StoppedWhenJoined' /\ NoLoopAfterDestruction'
  BY NoThreadAssumption DEF IInv, TypeOK, LoopInv, CallInv, StoppedWhenJoined, NoLoopAfterDestruction, Running
<1>. QED BY <1>1, <1>2, <1>3, <1>4 DEF IInv

\* The destructor, up to the clean-up.
LEMMA DestroyIInv ==
    ASSUME IInv, OneController, NEW c \in Controllers, Destroy(c)
    PROVE  IInv'
<1>. USE DEF Destroy, Ready, Move, vars, stateVars, latchVars, loopVars, callVars
<1>1. TypeOK'
  BY DestroyType DEF IInv
<1>2. LoopInv'
  BY NoThreadAssumption DEF IInv, TypeOK, LoopInv, CallInv
<1>3. CallInv'
  BY NoThreadAssumption DEF IInv, TypeOK, CallInv, OneController
<1>4. StoppedWhenJoined' /\ NoLoopAfterDestruction'
  BY NoThreadAssumption DEF IInv, TypeOK, LoopInv, CallInv, StoppedWhenJoined, NoLoopAfterDestruction, Running
<1>. QED BY <1>1, <1>2, <1>3, <1>4 DEF IInv

\* The clean-up finds no thread or a stopped one, or waits.
LEMMA CleanUpIInv ==
    ASSUME IInv, OneController, NEW c \in Controllers, CleanUp(c)
    PROVE  IInv'
<1>. USE DEF CleanUp, Cleaned, Move, vars, stateVars, latchVars, loopVars, callVars
<1>1. TypeOK'
  BY CleanUpType DEF IInv
<1>2. LoopInv'
  BY NoThreadAssumption DEF IInv, TypeOK, LoopInv, CallInv
<1>3. CallInv'
  BY NoThreadAssumption DEF IInv, TypeOK, CallInv, OneController
<1>4. StoppedWhenJoined' /\ NoLoopAfterDestruction'
  BY NoThreadAssumption DEF IInv, TypeOK, LoopInv, CallInv, StoppedWhenJoined, NoLoopAfterDestruction, Running
<1>. QED BY <1>1, <1>2, <1>3, <1>4 DEF IInv

\* It waits for the latch.
LEMMA AwaitStoppedIInv ==
    ASSUME IInv, OneController, NEW c \in Controllers, AwaitStopped(c)
    PROVE  IInv'
<1>. USE DEF AwaitStopped, Move, Latch!Await, vars, stateVars, latchVars, loopVars, callVars
<1>1. TypeOK'
  BY AwaitStoppedType DEF IInv
<1>2. LoopInv'
  BY NoThreadAssumption DEF IInv, TypeOK, LoopInv, CallInv
<1>3. CallInv'
  BY NoThreadAssumption DEF IInv, TypeOK, CallInv, OneController
<1>4. StoppedWhenJoined' /\ NoLoopAfterDestruction'
  BY NoThreadAssumption DEF IInv, TypeOK, LoopInv, CallInv, StoppedWhenJoined, NoLoopAfterDestruction, Running
<1>. QED BY <1>1, <1>2, <1>3, <1>4 DEF IInv

\* It is woken.
LEMMA WokenIInv ==
    ASSUME IInv, OneController, NEW c \in Controllers, Woken(c)
    PROVE  IInv'
<1>. USE DEF Woken, Latch!Woken, Latch!Return, vars, stateVars, latchVars, loopVars, callVars
<1>1. TypeOK'
  BY WokenType DEF IInv
<1>2. LoopInv'
  BY NoThreadAssumption DEF IInv, TypeOK, LoopInv, CallInv
<1>3. CallInv'
  BY NoThreadAssumption DEF IInv, TypeOK, CallInv, OneController
<1>4. StoppedWhenJoined' /\ NoLoopAfterDestruction'
  BY NoThreadAssumption DEF IInv, TypeOK, LoopInv, CallInv, StoppedWhenJoined, NoLoopAfterDestruction, Running
<1>. QED BY <1>1, <1>2, <1>3, <1>4 DEF IInv

\* It is woken by nobody.
LEMMA SpuriousWakeupIInv ==
    ASSUME IInv, OneController, NEW c \in Controllers, SpuriousWakeup(c)
    PROVE  IInv'
<1>. USE DEF SpuriousWakeup, Latch!SpuriousWakeup, vars, stateVars, latchVars, loopVars, callVars
<1>1. TypeOK'
  BY SpuriousWakeupType DEF IInv
<1>2. LoopInv'
  BY NoThreadAssumption DEF IInv, TypeOK, LoopInv, CallInv
<1>3. CallInv'
  BY NoThreadAssumption DEF IInv, TypeOK, CallInv, OneController
<1>4. StoppedWhenJoined' /\ NoLoopAfterDestruction'
  BY NoThreadAssumption DEF IInv, TypeOK, LoopInv, CallInv, StoppedWhenJoined, NoLoopAfterDestruction, Running
<1>. QED BY <1>1, <1>2, <1>3, <1>4 DEF IInv

\* It has joined the thread.
LEMMA JoinIInv ==
    ASSUME IInv, OneController, NEW c \in Controllers, Join(c)
    PROVE  IInv'
<1>. USE DEF Join, Cleaned, Move, vars, stateVars, latchVars, loopVars, callVars
<1>1. TypeOK'
  BY JoinType DEF IInv
<1>2. LoopInv'
  BY NoThreadAssumption DEF IInv, TypeOK, LoopInv, CallInv
<1>3. CallInv'
  BY NoThreadAssumption DEF IInv, TypeOK, CallInv, OneController
<1>4. StoppedWhenJoined' /\ NoLoopAfterDestruction'
  BY NoThreadAssumption DEF IInv, TypeOK, LoopInv, CallInv, StoppedWhenJoined, NoLoopAfterDestruction, Running
<1>. QED BY <1>1, <1>2, <1>3, <1>4 DEF IInv

\* A new thread is created.
LEMMA CreateIInv ==
    ASSUME IInv, OneController, NEW c \in Controllers, Create(c)
    PROVE  IInv'
<1>. USE DEF Create, Move, Latch!ResetCount, vars, stateVars, latchVars, loopVars, callVars
<1>1. TypeOK'
  BY CreateType DEF IInv
<1>2. LoopInv'
  BY NoThreadAssumption DEF IInv, TypeOK, LoopInv, CallInv
<1>3. CallInv'
  BY NoThreadAssumption DEF IInv, TypeOK, CallInv, OneController
<1>4. StoppedWhenJoined' /\ NoLoopAfterDestruction'
  BY NoThreadAssumption DEF IInv, TypeOK, LoopInv, CallInv, StoppedWhenJoined, NoLoopAfterDestruction, Running
<1>. QED BY <1>1, <1>2, <1>3, <1>4 DEF IInv

\* A round of the loop begins.
LEMMA ReadStateIInv ==
    ASSUME IInv, OneController, NEW l \in Loops, ReadState(l)
    PROVE  IInv'
<1>. USE DEF ReadState, Step, vars, stateVars, latchVars, loopVars, callVars
<1>1. TypeOK'
  BY ReadStateType DEF IInv
<1>2. LoopInv'
  BY NoThreadAssumption DEF IInv, TypeOK, LoopInv, CallInv
<1>3. CallInv'
  BY NoThreadAssumption DEF IInv, TypeOK, CallInv, OneController
<1>4. StoppedWhenJoined' /\ NoLoopAfterDestruction'
  BY NoThreadAssumption DEF IInv, TypeOK, LoopInv, CallInv, StoppedWhenJoined, NoLoopAfterDestruction, Running
<1>. QED BY <1>1, <1>2, <1>3, <1>4 DEF IInv

\* The settings are applied.
LEMMA ApplySettingsIInv ==
    ASSUME IInv, OneController, NEW l \in Loops, ApplySettings(l)
    PROVE  IInv'
<1>. USE DEF ApplySettings, Step, vars, stateVars, latchVars, loopVars, callVars
<1>1. TypeOK'
  BY ApplySettingsType DEF IInv
<1>2. LoopInv'
  BY NoThreadAssumption DEF IInv, TypeOK, LoopInv, CallInv
<1>3. CallInv'
  BY NoThreadAssumption DEF IInv, TypeOK, CallInv, OneController
<1>4. StoppedWhenJoined' /\ NoLoopAfterDestruction'
  BY NoThreadAssumption DEF IInv, TypeOK, LoopInv, CallInv, StoppedWhenJoined, NoLoopAfterDestruction, Running
<1>. QED BY <1>1, <1>2, <1>3, <1>4 DEF IInv

\* update() stops its loop.
LEMMA StopSelfIInv ==
    ASSUME IInv, OneController, NEW l \in Loops, StopSelf(l)
    PROVE  IInv'
<1>. USE DEF StopSelf, vars, stateVars, latchVars, loopVars, callVars
<1>1. TypeOK'
  BY StopSelfType DEF IInv
<1>2. LoopInv'
  BY NoThreadAssumption DEF IInv, TypeOK, LoopInv, CallInv
<1>3. CallInv'
  BY NoThreadAssumption DEF IInv, TypeOK, CallInv, OneController
<1>4. StoppedWhenJoined' /\ NoLoopAfterDestruction'
  BY NoThreadAssumption DEF IInv, TypeOK, LoopInv, CallInv, StoppedWhenJoined, NoLoopAfterDestruction, Running
<1>. QED BY <1>1, <1>2, <1>3, <1>4 DEF IInv

\* update() returns.
LEMMA UpdateDoneIInv ==
    ASSUME IInv, OneController, NEW l \in Loops, UpdateDone(l)
    PROVE  IInv'
<1>. USE DEF UpdateDone, Step, vars, stateVars, latchVars, loopVars, callVars
<1>1. TypeOK'
  BY UpdateDoneType DEF IInv
<1>2. LoopInv'
  BY NoThreadAssumption DEF IInv, TypeOK, LoopInv, CallInv
<1>3. CallInv'
  BY NoThreadAssumption DEF IInv, TypeOK, CallInv, OneController
<1>4. StoppedWhenJoined' /\ NoLoopAfterDestruction'
  BY NoThreadAssumption DEF IInv, TypeOK, LoopInv, CallInv, StoppedWhenJoined, NoLoopAfterDestruction, Running
<1>. QED BY <1>1, <1>2, <1>3, <1>4 DEF IInv

\* The loop sleeps no more.
LEMMA AwakesIInv ==
    ASSUME IInv, OneController, NEW l \in Loops, Awakes(l)
    PROVE  IInv'
<1>. USE DEF Awakes, Step, vars, stateVars, latchVars, loopVars, callVars
<1>1. TypeOK'
  BY AwakesType DEF IInv
<1>2. LoopInv'
  BY NoThreadAssumption DEF IInv, TypeOK, LoopInv, CallInv
<1>3. CallInv'
  BY NoThreadAssumption DEF IInv, TypeOK, CallInv, OneController
<1>4. StoppedWhenJoined' /\ NoLoopAfterDestruction'
  BY NoThreadAssumption DEF IInv, TypeOK, LoopInv, CallInv, StoppedWhenJoined, NoLoopAfterDestruction, Running
<1>. QED BY <1>1, <1>2, <1>3, <1>4 DEF IInv

\* The loop lets go of the object.
LEMMA SignalStoppedIInv ==
    ASSUME IInv, OneController, NEW l \in Loops, SignalStopped(l)
    PROVE  IInv'
<1>. USE DEF SignalStopped, Step, Latch!CountDown, Latch!InAwait, vars, stateVars, latchVars, loopVars, callVars
<1>1. TypeOK'
  BY SignalStoppedType DEF IInv
<1>2. LoopInv'
  BY NoThreadAssumption DEF IInv, TypeOK, LoopInv, CallInv
<1>3. CallInv'
  BY NoThreadAssumption DEF IInv, TypeOK, CallInv, OneController
<1>4. StoppedWhenJoined' /\ NoLoopAfterDestruction'
  BY NoThreadAssumption DEF IInv, TypeOK, LoopInv, CallInv, StoppedWhenJoined, NoLoopAfterDestruction, Running
<1>. QED BY <1>1, <1>2, <1>3, <1>4 DEF IInv

\* The thread ends.
LEMMA FinishIInv ==
    ASSUME IInv, OneController, NEW l \in Loops, Finish(l)
    PROVE  IInv'
<1>. USE DEF Finish, Step, vars, stateVars, latchVars, loopVars, callVars
<1>1. TypeOK'
  BY FinishType DEF IInv
<1>2. LoopInv'
  BY NoThreadAssumption DEF IInv, TypeOK, LoopInv, CallInv
<1>3. CallInv'
  BY NoThreadAssumption DEF IInv, TypeOK, CallInv, OneController
<1>4. StoppedWhenJoined' /\ NoLoopAfterDestruction'
  BY NoThreadAssumption DEF IInv, TypeOK, LoopInv, CallInv, StoppedWhenJoined, NoLoopAfterDestruction, Running
<1>. QED BY <1>1, <1>2, <1>3, <1>4 DEF IInv

\* Every step preserves the invariant.
LEMMA NextIInv == ASSUME OneController, IInv, [Next]_vars PROVE IInv'
<1>1. CASE UNCHANGED vars
  BY <1>1 DEF vars, stateVars, latchVars, loopVars, callVars, IInv, TypeOK, Latch!TypeOK, LoopInv, CallInv,
              StoppedWhenJoined, NoLoopAfterDestruction, Running
<1>2. ASSUME NEW c \in Controllers, NEW k \in Kinds, NEW v \in Settings, Set(c, k, v) PROVE IInv'
  BY <1>2, SetIInv
<1>3. ASSUME NEW c \in Controllers, NEW join \in JoinArgs, Unbackground(c, join) PROVE IInv'
  BY <1>3, UnbackgroundIInv, JoinArgsAssumption
<1>4. ASSUME NEW c \in Controllers,
             Background(c) \/ Destroy(c) \/ CleanUp(c) \/ AwaitStopped(c) \/ Woken(c) \/ SpuriousWakeup(c)
             \/ Join(c) \/ Create(c)
      PROVE  IInv'
  BY <1>4, BackgroundIInv, DestroyIInv, CleanUpIInv, AwaitStoppedIInv, WokenIInv, SpuriousWakeupIInv, JoinIInv,
     CreateIInv
<1>5. ASSUME NEW l \in Loops,
             ReadState(l) \/ ApplySettings(l) \/ StopSelf(l) \/ UpdateDone(l) \/ Awakes(l) \/ SignalStopped(l)
             \/ Finish(l)
      PROVE  IInv'
  BY <1>5, ReadStateIInv, ApplySettingsIInv, StopSelfIInv, UpdateDoneIInv, AwakesIInv, SignalStoppedIInv, FinishIInv
<1>. QED BY <1>1, <1>2, <1>3, <1>4, <1>5 DEF Next

\* background() "only start[s] up the background thread if we aren't already running", and
\* after unbackground(true) or the destructor no thread is inside loop(): for one
\* controlling thread, any number of restarts and an update() that may stop itself.
THEOREM SpecLoopLifetime == ASSUME OneController PROVE Spec => []LoopLifetime
<1>1. Init => IInv
  BY InitIInv
<1>2. IInv /\ [Next]_vars => IInv'
  BY OneController, NextIInv
<1>3. IInv => LoopLifetime
  BY IInvImplies
<1>. QED BY <1>1, <1>2, <1>3, PTL DEF Spec

-----------------------------------------------------------------------------
(* A runner with one client: the inherited state *)

OneClient == \E c \in Controllers : Clients = {c}

\* The mutex of the clean-up is with whoever waits for the old thread.  A loop never gets
\* further than that, for it is the thread it waits for.
WaitInv ==
    /\ \A t \in Controllers : cpc[t] \in {"await", "awaiting"} => owner = t /\ thread \in Loops
    /\ \A l \in Loops : cpc[l] # "idle" => lpc[l] = "update" /\ cpc[l] # "create"
    /\ \A c \in Clients : cpc[c] = "create" => thread = NoThread
    /\ \A c \in Clients : destroyed => cpc[c] = "idle"

CoreInv == TypeOK /\ LoopInv /\ WaitInv /\ NoLoopAfterDestruction

\* background() is called: by a loop only from its update().
LEMMA BackgroundCore ==
    ASSUME CoreInv, NEW t \in Controllers, t \in Loops => lpc[t] = "update", Background(t)
    PROVE  CoreInv'
<1>. USE LoopsAreControllers DEF Background, Ready, Move, vars, stateVars, latchVars, loopVars, callVars
<1>1. TypeOK'
  BY BackgroundType DEF CoreInv
<1>2. LoopInv'
  BY NoThreadAssumption DEF CoreInv, TypeOK, LoopInv, WaitInv, Clients, OneClient
<1>3. WaitInv'
  BY NoThreadAssumption DEF CoreInv, TypeOK, LoopInv, WaitInv, Clients, OneClient
<1>4. NoLoopAfterDestruction'
  BY NoThreadAssumption DEF CoreInv, TypeOK, LoopInv, WaitInv, NoLoopAfterDestruction, Running, Clients
<1>. QED BY <1>1, <1>2, <1>3, <1>4 DEF CoreInv

\* unbackground() is called, as well.
LEMMA UnbackgroundCore ==
    ASSUME CoreInv, NEW t \in Controllers, t \in Loops => lpc[t] = "update",
           NEW join \in BOOLEAN, Unbackground(t, join)
    PROVE  CoreInv'
<1>. USE LoopsAreControllers DEF Unbackground, Ready, Move, vars, stateVars, latchVars, loopVars, callVars
<1>1. TypeOK'
  BY UnbackgroundType DEF CoreInv
<1>2. LoopInv'
  BY NoThreadAssumption DEF CoreInv, TypeOK, LoopInv, WaitInv, Clients, OneClient
<1>3. WaitInv'
  BY NoThreadAssumption DEF CoreInv, TypeOK, LoopInv, WaitInv, Clients, OneClient
<1>4. NoLoopAfterDestruction'
  BY NoThreadAssumption DEF CoreInv, TypeOK, LoopInv, WaitInv, NoLoopAfterDestruction, Running, Clients
<1>. QED BY <1>1, <1>2, <1>3, <1>4 DEF CoreInv

\* A loop finds itself and waits.
LEMMA CleanUpCore ==
    ASSUME CoreInv, OneClient, NEW t \in Controllers, CleanUp(t)
    PROVE  CoreInv'
<1>. USE LoopsAreControllers DEF CleanUp, Cleaned, Move, vars, stateVars, latchVars, loopVars, callVars
<1>1. TypeOK'
  BY CleanUpType DEF CoreInv
<1>2. LoopInv'
  BY NoThreadAssumption DEF CoreInv, TypeOK, LoopInv, WaitInv, Clients, OneClient
<1>3. WaitInv' /\ NoLoopAfterDestruction'
  <2>1. CASE thread = NoThread \/ latchCount = 0
    <3>1. t \notin Loops
      BY <2>1, NoThreadAssumption DEF CoreInv, LoopInv, WaitInv
    <3>2. Running = {}
      BY <2>1, NoThreadAssumption DEF CoreInv, LoopInv, Running
    <3>3. cpc' = [cpc EXCEPT ![t] = cpc'[t]] /\ cpc'[t] \in {"create", "clean", "idle"}
      BY <2>1 DEF CoreInv, TypeOK
    <3>4. \A u \in Controllers : cpc'[u] \notin {"await", "awaiting"}
      BY <3>3, NobodyAssumption DEF CoreInv, TypeOK, WaitInv
    <3>5. \A c \in Clients : destroyed' => cpc'[c] = "idle"
      <4>1. ASSUME NEW c \in Clients PROVE c = t
        BY <3>1 DEF Clients, OneClient
      <4>2. destroyed' => onClean[t] = "base"
        BY <2>1, <3>1 DEF CoreInv, WaitInv, Clients
      <4>3. onClean[t] = "base" => cpc'[t] = "idle"
        BY <2>1 DEF CoreInv, TypeOK
      <4>. QED BY <4>1, <4>2, <4>3
    <3>6. \A l \in Loops : cpc'[l] = cpc[l]
      BY <3>1, <3>3 DEF CoreInv, TypeOK
    <3>. QED BY <2>1, <3>2, <3>4, <3>5, <3>6 DEF CoreInv, WaitInv, NoLoopAfterDestruction, Running
  <2>2. CASE thread # NoThread /\ latchCount # 0
    <3>1. cpc' = [cpc EXCEPT ![t] = "await"] /\ owner' = t /\ thread' = thread /\ destroyed' = destroyed
      BY <2>2
    <3>2. \A u \in Controllers : cpc[u] \notin {"await", "awaiting"}
      BY NobodyAssumption DEF CoreInv, TypeOK, WaitInv
    <3>. QED
      BY <2>2, <3>1, <3>2 DEF CoreInv, TypeOK, WaitInv, NoLoopAfterDestruction, Running, Clients
  <2>. QED BY <2>1, <2>2
<1>. QED BY <1>1, <1>2, <1>3 DEF CoreInv

\* It waits for the latch.
LEMMA AwaitStoppedCore ==
    ASSUME CoreInv, NEW t \in Controllers, AwaitStopped(t)
    PROVE  CoreInv'
<1>. USE LoopsAreControllers DEF AwaitStopped, Move, Latch!Await, vars, stateVars, latchVars, loopVars,
     callVars
<1>1. TypeOK'
  BY AwaitStoppedType DEF CoreInv
<1>2. LoopInv'
  BY NoThreadAssumption DEF CoreInv, TypeOK, LoopInv, WaitInv, Clients, OneClient
<1>3. WaitInv'
  BY NoThreadAssumption DEF CoreInv, TypeOK, LoopInv, WaitInv, Clients, OneClient
<1>4. NoLoopAfterDestruction'
  BY NoThreadAssumption DEF CoreInv, TypeOK, LoopInv, WaitInv, NoLoopAfterDestruction, Running, Clients
<1>. QED BY <1>1, <1>2, <1>3, <1>4 DEF CoreInv

\* It is woken.
LEMMA WokenCore ==
    ASSUME CoreInv, NEW t \in Controllers, Woken(t)
    PROVE  CoreInv'
<1>. USE LoopsAreControllers DEF Woken, Latch!Woken, Latch!Return, vars, stateVars, latchVars, loopVars,
     callVars
<1>1. TypeOK'
  BY WokenType DEF CoreInv
<1>2. LoopInv'
  BY NoThreadAssumption DEF CoreInv, TypeOK, LoopInv, WaitInv, Clients, OneClient
<1>3. WaitInv'
  BY NoThreadAssumption DEF CoreInv, TypeOK, LoopInv, WaitInv, Clients, OneClient
<1>4. NoLoopAfterDestruction'
  BY NoThreadAssumption DEF CoreInv, TypeOK, LoopInv, WaitInv, NoLoopAfterDestruction, Running, Clients
<1>. QED BY <1>1, <1>2, <1>3, <1>4 DEF CoreInv

\* It is woken by nobody.
LEMMA SpuriousWakeupCore ==
    ASSUME CoreInv, NEW t \in Controllers, SpuriousWakeup(t)
    PROVE  CoreInv'
<1>. USE LoopsAreControllers DEF SpuriousWakeup, Latch!SpuriousWakeup, vars, stateVars, latchVars,
     loopVars, callVars
<1>1. TypeOK'
  BY SpuriousWakeupType DEF CoreInv
<1>2. LoopInv'
  BY NoThreadAssumption DEF CoreInv, TypeOK, LoopInv, WaitInv, Clients, OneClient
<1>3. WaitInv'
  BY NoThreadAssumption DEF CoreInv, TypeOK, LoopInv, WaitInv, Clients, OneClient
<1>4. NoLoopAfterDestruction'
  BY NoThreadAssumption DEF CoreInv, TypeOK, LoopInv, WaitInv, NoLoopAfterDestruction, Running, Clients
<1>. QED BY <1>1, <1>2, <1>3, <1>4 DEF CoreInv

\* Only a client sees the end of the thread it waits for.
LEMMA JoinCore ==
    ASSUME CoreInv, OneClient, NEW t \in Controllers, Join(t)
    PROVE  CoreInv'
<1>. USE LoopsAreControllers DEF Join, Cleaned, Move, vars, stateVars, latchVars, loopVars, callVars
<1>1. TypeOK'
  BY JoinType DEF CoreInv
<1>2. LoopInv'
  BY NoThreadAssumption DEF CoreInv, TypeOK, LoopInv, WaitInv, Clients, OneClient
<1>3. WaitInv'
  <2>1. t \notin Loops
    BY DEF CoreInv, TypeOK, LoopInv, WaitInv, Clients
  <2>2. owner = t
    BY DEF CoreInv, WaitInv
  <2>3. cpc' = [cpc EXCEPT ![t] = cpc'[t]] /\ cpc'[t] \in {"create", "clean", "idle"}
    BY DEF CoreInv, TypeOK
  <2>4. \A u \in Controllers \ {t} : cpc'[u] = cpc[u] /\ cpc[u] \notin {"await", "awaiting"}
    BY <2>2, <2>3 DEF CoreInv, TypeOK, WaitInv
  <2>5. \A u \in Controllers : cpc'[u] \notin {"await", "awaiting"}
    BY <2>3, <2>4
  <2>6. \A l \in Loops : cpc'[l] = cpc[l]
    BY <2>1, <2>4
  <2>7. \A c \in Clients : destroyed' => cpc'[c] = "idle"
    <3>1. ASSUME NEW c \in Clients PROVE c = t
      BY <2>1 DEF Clients, OneClient
    <3>2. destroyed' => onClean[t] = "base"
      BY <2>1 DEF CoreInv, WaitInv, Clients
    <3>3. onClean[t] = "base" => cpc'[t] = "idle"
      BY DEF CoreInv, TypeOK
    <3>. QED BY <3>1, <3>2, <3>3
  <2>. QED BY <2>5, <2>6, <2>7 DEF CoreInv, WaitInv
<1>4. NoLoopAfterDestruction'
  BY NoThreadAssumption DEF CoreInv, TypeOK, LoopInv, WaitInv, NoLoopAfterDestruction, Running, Clients
<1>. QED BY <1>1, <1>2, <1>3, <1>4 DEF CoreInv

\* Only the client creates a thread.
LEMMA CreateCore ==
    ASSUME CoreInv, OneClient, NEW t \in Controllers, Create(t)
    PROVE  CoreInv'
<1>. USE LoopsAreControllers DEF Create, Move, Latch!ResetCount, vars, stateVars, latchVars, loopVars,
     callVars
<1>1. TypeOK'
  BY CreateType DEF CoreInv
<1>2. LoopInv'
  BY NoThreadAssumption DEF CoreInv, TypeOK, LoopInv, WaitInv, Clients, OneClient
<1>3. WaitInv'
  BY NoThreadAssumption DEF CoreInv, TypeOK, LoopInv, WaitInv, Clients, OneClient
<1>4. NoLoopAfterDestruction'
  BY NoThreadAssumption DEF CoreInv, TypeOK, LoopInv, WaitInv, NoLoopAfterDestruction, Running, Clients
<1>. QED BY <1>1, <1>2, <1>3, <1>4 DEF CoreInv

\* A round of the loop begins.
LEMMA ReadStateCore ==
    ASSUME CoreInv, NEW l \in Loops, ReadState(l)
    PROVE  CoreInv'
<1>. USE LoopsAreControllers DEF ReadState, Step, vars, stateVars, latchVars, loopVars, callVars
<1>1. TypeOK'
  BY ReadStateType DEF CoreInv
<1>2. LoopInv'
  BY NoThreadAssumption DEF CoreInv, TypeOK, LoopInv, WaitInv, Clients, OneClient
<1>3. WaitInv'
  BY NoThreadAssumption DEF CoreInv, TypeOK, LoopInv, WaitInv, Clients, OneClient
<1>4. NoLoopAfterDestruction'
  BY NoThreadAssumption DEF CoreInv, TypeOK, LoopInv, WaitInv, NoLoopAfterDestruction, Running, Clients
<1>. QED BY <1>1, <1>2, <1>3, <1>4 DEF CoreInv

\* The settings are applied.
LEMMA ApplySettingsCore ==
    ASSUME CoreInv, NEW l \in Loops, ApplySettings(l)
    PROVE  CoreInv'
<1>. USE LoopsAreControllers DEF ApplySettings, Step, vars, stateVars, latchVars, loopVars, callVars
<1>1. TypeOK'
  BY ApplySettingsType DEF CoreInv
<1>2. LoopInv'
  BY NoThreadAssumption DEF CoreInv, TypeOK, LoopInv, WaitInv, Clients, OneClient
<1>3. WaitInv'
  BY NoThreadAssumption DEF CoreInv, TypeOK, LoopInv, WaitInv, Clients, OneClient
<1>4. NoLoopAfterDestruction'
  BY NoThreadAssumption DEF CoreInv, TypeOK, LoopInv, WaitInv, NoLoopAfterDestruction, Running, Clients
<1>. QED BY <1>1, <1>2, <1>3, <1>4 DEF CoreInv

\* update() returns, with no call of its own under way.
LEMMA UpdateDoneCore ==
    ASSUME CoreInv, NEW l \in Loops, cpc[l] = "idle", UpdateDone(l)
    PROVE  CoreInv'
<1>. USE LoopsAreControllers DEF UpdateDone, Step, vars, stateVars, latchVars, loopVars, callVars
<1>1. TypeOK'
  BY UpdateDoneType DEF CoreInv
<1>2. LoopInv'
  BY NoThreadAssumption DEF CoreInv, TypeOK, LoopInv, WaitInv, Clients, OneClient
<1>3. WaitInv'
  BY NoThreadAssumption DEF CoreInv, TypeOK, LoopInv, WaitInv, Clients, OneClient
<1>4. NoLoopAfterDestruction'
  BY NoThreadAssumption DEF CoreInv, TypeOK, LoopInv, WaitInv, NoLoopAfterDestruction, Running, Clients
<1>. QED BY <1>1, <1>2, <1>3, <1>4 DEF CoreInv

\* The loop sleeps no more.
LEMMA AwakesCore ==
    ASSUME CoreInv, NEW l \in Loops, Awakes(l)
    PROVE  CoreInv'
<1>. USE LoopsAreControllers DEF Awakes, Step, vars, stateVars, latchVars, loopVars, callVars
<1>1. TypeOK'
  BY AwakesType DEF CoreInv
<1>2. LoopInv'
  BY NoThreadAssumption DEF CoreInv, TypeOK, LoopInv, WaitInv, Clients, OneClient
<1>3. WaitInv'
  BY NoThreadAssumption DEF CoreInv, TypeOK, LoopInv, WaitInv, Clients, OneClient
<1>4. NoLoopAfterDestruction'
  BY NoThreadAssumption DEF CoreInv, TypeOK, LoopInv, WaitInv, NoLoopAfterDestruction, Running, Clients
<1>. QED BY <1>1, <1>2, <1>3, <1>4 DEF CoreInv

\* The loop lets go of the object.
LEMMA SignalStoppedCore ==
    ASSUME CoreInv, NEW l \in Loops, SignalStopped(l)
    PROVE  CoreInv'
<1>. USE LoopsAreControllers DEF SignalStopped, Step, Latch!CountDown, Latch!InAwait, vars, stateVars,
     latchVars, loopVars, callVars
<1>1. TypeOK'
  BY SignalStoppedType DEF CoreInv
<1>2. LoopInv'
  BY NoThreadAssumption DEF CoreInv, TypeOK, LoopInv, WaitInv, Clients, OneClient
<1>3. WaitInv'
  BY NoThreadAssumption DEF CoreInv, TypeOK, LoopInv, WaitInv, Clients, OneClient
<1>4. NoLoopAfterDestruction'
  BY NoThreadAssumption DEF CoreInv, TypeOK, LoopInv, WaitInv, NoLoopAfterDestruction, Running, Clients
<1>. QED BY <1>1, <1>2, <1>3, <1>4 DEF CoreInv

\* The thread ends.
LEMMA FinishCore ==
    ASSUME CoreInv, NEW l \in Loops, Finish(l)
    PROVE  CoreInv'
<1>. USE LoopsAreControllers DEF Finish, Step, vars, stateVars, latchVars, loopVars, callVars
<1>1. TypeOK'
  BY FinishType DEF CoreInv
<1>2. LoopInv'
  BY NoThreadAssumption DEF CoreInv, TypeOK, LoopInv, WaitInv, Clients, OneClient
<1>3. WaitInv'
  BY NoThreadAssumption DEF CoreInv, TypeOK, LoopInv, WaitInv, Clients, OneClient
<1>4. NoLoopAfterDestruction'
  BY NoThreadAssumption DEF CoreInv, TypeOK, LoopInv, WaitInv, NoLoopAfterDestruction, Running, Clients
<1>. QED BY <1>1, <1>2, <1>3, <1>4 DEF CoreInv

\* Nothing inherited changes.
LEMMA StutterCore == ASSUME CoreInv, UNCHANGED vars PROVE CoreInv'
BY DEF vars, stateVars, latchVars, loopVars, callVars, CoreInv, TypeOK, Latch!TypeOK, LoopInv, WaitInv,
     NoLoopAfterDestruction, Running

-----------------------------------------------------------------------------
(* A runner with one client: whose turn it is *)

\* Where a call of the inherited code can be made from.
PlaceInv ==
    /\ \A l \in Loops : cpc[l] # "idle" => at[l] \in {"called", "leaving"}
    /\ \A c \in Clients :
        /\ at[c] \in {"idle", "pushed", "apply", "called"}
        /\ at[c] # "idle" => ~Leaving
        /\ cpc[c] # "idle" /\ ~Leaving => at[c] = "called"

\* A loop that will not look at the detectors again before it has read the flag.
Inert(l) ==
    \/ lpc[l] \in {"none", "top", "sleep", "exit", "exiting", "finished"}
    \/ lpc[l] = "settings" /\ ~inBackground[l]
    \/ lpc[l] = "update" /\ (at[l] = "leaving" \/ (at[l] = "called" /\ cpc[l] # "idle"))

\* While the flag is down the detectors are the client's.
TurnInv == \A c \in Clients :
    /\ ~backgrounded /\ cpc[c] = "idle" /\ ~Leaving => \A l \in Loops : Inert(l)
    /\ at[c] = "apply" /\ ~joining[c] => ~backgrounded

RInv == RunnerTypeOK /\ CoreInv /\ PlaceInv /\ TurnInv

\* A step of the inherited code in which nobody's call begins or ends.
LEMMA TurnKept ==
    ASSUME RInv, CoreInv', UNCHANGED runnerVars, UNCHANGED <<backgrounded, onClean, destroyed>>,
           \A t \in Controllers : cpc'[t] = "idle" <=> cpc[t] = "idle",
           \A l \in Loops : at[l] # "idle" => lpc'[l] = "update",
           \A l \in Loops : Inert(l) /\ ~backgrounded => Inert(l)'
    PROVE  RInv'
<1>1. Leaving' = Leaving
  BY DEF Leaving
<1>2. RunnerTypeOK'
  BY DEF RInv, RunnerTypeOK, CoreInv, runnerVars
<1>3. PlaceInv'
  BY <1>1, LoopsAreControllers DEF RInv, PlaceInv, Clients, runnerVars
<1>4. TurnInv'
  BY <1>1 DEF RInv, TurnInv, Clients, runnerVars
<1>. QED BY <1>2, <1>3, <1>4 DEF RInv

\* A call finds no thread, a stopped one, or waits.
LEMMA CleanUpTurn ==
    ASSUME RInv, OneClient, NEW t \in Controllers, CleanUp(t), UNCHANGED runnerVars
    PROVE  RInv'
<1>. USE LoopsAreControllers DEF CleanUp, Cleaned, Move, vars, stateVars, latchVars, loopVars, callVars,
     runnerVars
<1>1. CoreInv'
  BY CleanUpCore DEF RInv
<1>2. RunnerTypeOK'
  BY <1>1, NoThreadAssumption DEF RInv, RunnerTypeOK, CoreInv, TypeOK, WaitInv, LoopInv
<1>3. PlaceInv'
  <2>1. Leaving' => Leaving
    <3>1. CASE thread = NoThread \/ latchCount = 0
      <4>1. t \in Clients
        BY <3>1, NoThreadAssumption DEF RInv, CoreInv, LoopInv, WaitInv, Clients
      <4>2. \A c \in Clients : onClean'[c] \in {"destructor", "base"} => onClean[c] \in {"destructor", "base"}
        BY <3>1 DEF RInv, CoreInv, TypeOK, Clients
      <4>3. destroyed' => destroyed \/ onClean[t] = "base"
        BY <3>1
      <4>. QED BY <4>1, <4>2, <4>3 DEF Leaving
    <3>2. CASE thread # NoThread /\ latchCount # 0
      BY <3>2 DEF Leaving
    <3>. QED BY <3>1, <3>2
  <2>2. \A c \in Controllers : cpc'[c] # "idle" => cpc[c] # "idle"
    BY DEF RInv, RunnerTypeOK, CoreInv, TypeOK
  <2>3. Leaving => Leaving'
    BY DEF RInv, RunnerTypeOK, CoreInv, TypeOK, Leaving, WaitInv, Clients
  <2>. QED BY <2>1, <2>2, <2>3 DEF RInv, PlaceInv, Clients
<1>4. TurnInv'
  BY <1>1, NoThreadAssumption DEF RInv, RunnerTypeOK, CoreInv, TypeOK, LoopInv, WaitInv, PlaceInv,
       TurnInv, Inert, Leaving, Clients, OneClient
<1>. QED BY <1>1, <1>2, <1>3, <1>4 DEF RInv

\* It waits for the latch.
LEMMA AwaitStoppedTurn ==
    ASSUME RInv, OneClient, NEW t \in Controllers, AwaitStopped(t), UNCHANGED runnerVars
    PROVE  RInv'
<1>1. CoreInv'
  BY AwaitStoppedCore DEF RInv
<1>2. /\ UNCHANGED <<backgrounded, onClean, destroyed>>
      /\ \A u \in Controllers : cpc'[u] = "idle" <=> cpc[u] = "idle"
      /\ \A l \in Loops : at[l] # "idle" => lpc'[l] = "update"
      /\ \A l \in Loops : Inert(l) /\ ~backgrounded => Inert(l)'
  BY DEF AwaitStopped, Move, stateVars, loopVars, callVars, runnerVars, RInv, RunnerTypeOK, CoreInv,
       TypeOK, Inert
<1>. QED BY <1>1, <1>2, TurnKept

\* It is woken.
LEMMA WokenTurn ==
    ASSUME RInv, OneClient, NEW t \in Controllers, Woken(t), UNCHANGED runnerVars
    PROVE  RInv'
<1>1. CoreInv'
  BY WokenCore DEF RInv
<1>2. /\ UNCHANGED <<backgrounded, onClean, destroyed>>
      /\ \A u \in Controllers : cpc'[u] = "idle" <=> cpc[u] = "idle"
      /\ \A l \in Loops : at[l] # "idle" => lpc'[l] = "update"
      /\ \A l \in Loops : Inert(l) /\ ~backgrounded => Inert(l)'
  BY DEF Woken, stateVars, loopVars, callVars, runnerVars, RInv, RunnerTypeOK, CoreInv, TypeOK, Inert
<1>. QED BY <1>1, <1>2, TurnKept

\* It is woken by nobody.
LEMMA SpuriousWakeupTurn ==
    ASSUME RInv, OneClient, NEW t \in Controllers, SpuriousWakeup(t), UNCHANGED runnerVars
    PROVE  RInv'
<1>1. CoreInv'
  BY SpuriousWakeupCore DEF RInv
<1>2. /\ UNCHANGED <<backgrounded, onClean, destroyed>>
      /\ \A u \in Controllers : cpc'[u] = "idle" <=> cpc[u] = "idle"
      /\ \A l \in Loops : at[l] # "idle" => lpc'[l] = "update"
      /\ \A l \in Loops : Inert(l) /\ ~backgrounded => Inert(l)'
  BY DEF SpuriousWakeup, stateVars, loopVars, callVars, runnerVars, RInv, RunnerTypeOK, CoreInv, TypeOK,
       Inert
<1>. QED BY <1>1, <1>2, TurnKept

\* It has joined the thread.
LEMMA JoinTurn ==
    ASSUME RInv, OneClient, NEW t \in Controllers, Join(t), UNCHANGED runnerVars
    PROVE  RInv'
<1>. USE LoopsAreControllers DEF Join, Cleaned, Move, vars, stateVars, latchVars, loopVars, callVars,
     runnerVars
<1>1. CoreInv'
  BY JoinCore DEF RInv
<1>2. RunnerTypeOK'
  BY <1>1, NoThreadAssumption DEF RInv, RunnerTypeOK, CoreInv, TypeOK, WaitInv, LoopInv
<1>3. PlaceInv'
  <2>1. t \in Clients
    BY DEF RInv, CoreInv, LoopInv, WaitInv, Clients
  <2>2. Leaving' => Leaving
    <3>1. \A c \in Clients : onClean'[c] \in {"destructor", "base"} => onClean[c] \in {"destructor", "base"}
      BY DEF RInv, CoreInv, TypeOK, Clients
    <3>2. destroyed' => destroyed \/ onClean[t] = "base"
      OBVIOUS
    <3>. QED BY <2>1, <3>1, <3>2 DEF Leaving
  <2>3. \A c \in Controllers : cpc'[c] # "idle" => cpc[c] # "idle"
    BY DEF RInv, CoreInv, TypeOK
  <2>4. Leaving => Leaving'
    BY DEF RInv, CoreInv, TypeOK, Leaving, WaitInv, Clients
  <2>. QED BY <2>2, <2>3, <2>4 DEF RInv, PlaceInv, Clients
<1>4. TurnInv'
  BY <1>1, NoThreadAssumption DEF RInv, RunnerTypeOK, CoreInv, TypeOK, LoopInv, WaitInv, PlaceInv,
       TurnInv, Inert, Leaving, Clients, OneClient
<1>. QED BY <1>1, <1>2, <1>3, <1>4 DEF RInv

\* A new loop has the flag still to read.
LEMMA CreateTurn ==
    ASSUME RInv, OneClient, NEW t \in Controllers, Create(t), UNCHANGED runnerVars
    PROVE  RInv'
<1>. USE LoopsAreControllers DEF Create, Move, vars, stateVars, latchVars, loopVars, callVars, runnerVars
<1>1. CoreInv'
  BY CreateCore DEF RInv
<1>2. RunnerTypeOK'
  BY <1>1, NoThreadAssumption DEF RInv, RunnerTypeOK, CoreInv, TypeOK, WaitInv, LoopInv
<1>3. PlaceInv'
  BY <1>1, NoThreadAssumption DEF RInv, RunnerTypeOK, CoreInv, TypeOK, LoopInv, WaitInv, PlaceInv,
       Leaving, Clients, OneClient
<1>4. TurnInv'
  BY <1>1, NoThreadAssumption DEF RInv, RunnerTypeOK, CoreInv, TypeOK, LoopInv, WaitInv, PlaceInv,
       TurnInv, Inert, Leaving, Clients, OneClient
<1>. QED BY <1>1, <1>2, <1>3, <1>4 DEF RInv

\* A loop reads the flag.
LEMMA ReadStateTurn ==
    ASSUME RInv, OneClient, NEW l \in Loops, ReadState(l), UNCHANGED runnerVars
    PROVE  RInv'
<1>1. CoreInv'
  BY ReadStateCore DEF RInv
<1>2. /\ UNCHANGED <<backgrounded, onClean, destroyed>>
      /\ \A t \in Controllers : cpc'[t] = "idle" <=> cpc[t] = "idle"
      /\ \A k \in Loops : at[k] # "idle" => lpc'[k] = "update"
      /\ \A k \in Loops : Inert(k) /\ ~backgrounded => Inert(k)'
  BY DEF ReadState, Step, stateVars, loopVars, callVars, runnerVars, RInv, RunnerTypeOK, CoreInv, TypeOK,
       Inert
<1>. QED BY <1>1, <1>2, TurnKept

\* It goes on, or ends, as the flag was.
LEMMA ApplySettingsTurn ==
    ASSUME RInv, OneClient, NEW l \in Loops, ApplySettings(l), UNCHANGED runnerVars
    PROVE  RInv'
<1>1. CoreInv'
  BY ApplySettingsCore DEF RInv
<1>2. /\ UNCHANGED <<backgrounded, onClean, destroyed>>
      /\ \A t \in Controllers : cpc'[t] = "idle" <=> cpc[t] = "idle"
      /\ \A k \in Loops : at[k] # "idle" => lpc'[k] = "update"
      /\ \A k \in Loops : Inert(k) /\ ~backgrounded => Inert(k)'
  BY DEF ApplySettings, Step, stateVars, loopVars, callVars, runnerVars, RInv, RunnerTypeOK, CoreInv,
       TypeOK, Inert
<1>. QED BY <1>1, <1>2, TurnKept

\* It sleeps no more.
LEMMA AwakesTurn ==
    ASSUME RInv, OneClient, NEW l \in Loops, Awakes(l), UNCHANGED runnerVars
    PROVE  RInv'
<1>1. CoreInv'
  BY AwakesCore DEF RInv
<1>2. /\ UNCHANGED <<backgrounded, onClean, destroyed>>
      /\ \A t \in Controllers : cpc'[t] = "idle" <=> cpc[t] = "idle"
      /\ \A k \in Loops : at[k] # "idle" => lpc'[k] = "update"
      /\ \A k \in Loops : Inert(k) /\ ~backgrounded => Inert(k)'
  BY DEF Awakes, Step, stateVars, loopVars, callVars, runnerVars, RInv, RunnerTypeOK, CoreInv, TypeOK, Inert
<1>. QED BY <1>1, <1>2, TurnKept

\* It lets go of the object.
LEMMA SignalStoppedTurn ==
    ASSUME RInv, OneClient, NEW l \in Loops, SignalStopped(l), UNCHANGED runnerVars
    PROVE  RInv'
<1>1. CoreInv'
  BY SignalStoppedCore DEF RInv
<1>2. /\ UNCHANGED <<backgrounded, onClean, destroyed>>
      /\ \A t \in Controllers : cpc'[t] = "idle" <=> cpc[t] = "idle"
      /\ \A k \in Loops : at[k] # "idle" => lpc'[k] = "update"
      /\ \A k \in Loops : Inert(k) /\ ~backgrounded => Inert(k)'
  BY DEF SignalStopped, Step, stateVars, loopVars, callVars, runnerVars, RInv, RunnerTypeOK, CoreInv,
       TypeOK, Inert
<1>. QED BY <1>1, <1>2, TurnKept

\* Its thread ends.
LEMMA FinishTurn ==
    ASSUME RInv, OneClient, NEW l \in Loops, Finish(l), UNCHANGED runnerVars
    PROVE  RInv'
<1>1. CoreInv'
  BY FinishCore DEF RInv
<1>2. /\ UNCHANGED <<backgrounded, onClean, destroyed>>
      /\ \A t \in Controllers : cpc'[t] = "idle" <=> cpc[t] = "idle"
      /\ \A k \in Loops : at[k] # "idle" => lpc'[k] = "update"
      /\ \A k \in Loops : Inert(k) /\ ~backgrounded => Inert(k)'
  BY DEF Finish, Step, stateVars, loopVars, callVars, runnerVars, RInv, RunnerTypeOK, CoreInv, TypeOK, Inert
<1>. QED BY <1>1, <1>2, TurnKept

\* A change is pushed while the runner lives.
LEMMA PushTurn ==
    ASSUME RInv, OneClient, NEW c \in Clients, NEW change \in Changes, NEW join \in BOOLEAN, Push(c,
         change, join)
    PROVE  RInv'
<1>. USE LoopsAreControllers DEF Push, Go, vars, stateVars, latchVars, loopVars, callVars, runnerVars
<1>1. CoreInv'
  BY StutterCore DEF RInv
<1>2. RunnerTypeOK'
  BY <1>1, NoThreadAssumption, MaxCallsAssumption DEF RInv, RunnerTypeOK, CoreInv, TypeOK, Clients,
       Locations, Processing, Changed
<1>3. PlaceInv'
  BY <1>1 DEF RInv, RunnerTypeOK, CoreInv, TypeOK, LoopInv, WaitInv, PlaceInv, Leaving, Clients,
       OneClient, Processing
<1>4. TurnInv'
  BY <1>1, NoThreadAssumption, MaxCallsAssumption DEF RInv, RunnerTypeOK, CoreInv, TypeOK, LoopInv,
       WaitInv, PlaceInv, TurnInv, Inert, Leaving, Clients, OneClient, Processing
<1>. QED BY <1>1, <1>2, <1>3, <1>4 DEF RInv

\* The destructor begins, with no other call under way.
LEMMA DestroyRunnerTurn ==
    ASSUME RInv, OneClient, NEW c \in Clients, DestroyRunner(c)
    PROVE  RInv'
<1>. USE LoopsAreControllers DEF DestroyRunner, Move, vars, stateVars, latchVars, loopVars, callVars,
     runnerVars
<1>1. CoreInv'
  <2>1. TypeOK'
    BY DEF RInv, CoreInv, TypeOK, Latch!TypeOK, Latch!Calls, Latch!Results, ControllerLocations,
         Continuations,
           LoopLocations, Clients
  <2>2. LoopInv' /\ WaitInv' /\ NoLoopAfterDestruction'
    BY DEF RInv, CoreInv, TypeOK, LoopInv, WaitInv, NoLoopAfterDestruction, Running, Leaving, Clients
  <2>. QED BY <2>1, <2>2 DEF CoreInv
<1>2. RunnerTypeOK'
  BY <1>1, NoThreadAssumption DEF RInv, RunnerTypeOK, CoreInv, TypeOK, Clients, Locations, Processing,
       Changed
<1>3. PlaceInv'
  BY <1>1 DEF RInv, RunnerTypeOK, CoreInv, TypeOK, LoopInv, WaitInv, PlaceInv, Leaving, Clients,
       OneClient, Processing
<1>4. TurnInv'
  BY <1>1, NoThreadAssumption DEF RInv, RunnerTypeOK, CoreInv, TypeOK, LoopInv, WaitInv, PlaceInv,
       TurnInv, Inert, Leaving, Clients, OneClient, Processing
<1>. QED BY <1>1, <1>2, <1>3, <1>4 DEF RInv

\* Without joining, a client takes the changes only when the flag is down.
LEMMA AskTurn ==
    ASSUME RInv, OneClient, NEW c \in Clients, Ask(c)
    PROVE  RInv'
<1>. USE LoopsAreControllers DEF Ask, Go, vars, stateVars, latchVars, loopVars, callVars, runnerVars
<1>1. CoreInv'
  BY StutterCore DEF RInv
<1>2. RunnerTypeOK'
  BY <1>1, NoThreadAssumption DEF RInv, RunnerTypeOK, CoreInv, TypeOK, Clients, Locations, Processing,
       Changed
<1>3. PlaceInv'
  BY <1>1 DEF RInv, RunnerTypeOK, CoreInv, TypeOK, LoopInv, WaitInv, PlaceInv, Leaving, Clients,
       OneClient, Processing
<1>4. TurnInv'
  BY <1>1, NoThreadAssumption DEF RInv, RunnerTypeOK, CoreInv, TypeOK, LoopInv, WaitInv, PlaceInv,
       TurnInv, Inert, Leaving, Clients, OneClient, Processing
<1>. QED BY <1>1, <1>2, <1>3, <1>4 DEF RInv

\* A change is applied.
LEMMA ApplyTurn ==
    ASSUME RInv, OneClient, NEW t \in Controllers, Apply(t)
    PROVE  RInv'
<1>. USE LoopsAreControllers DEF Apply, vars, stateVars, latchVars, loopVars, callVars, runnerVars
<1>1. CoreInv'
  BY StutterCore DEF RInv
<1>2. RunnerTypeOK'
  <2>1. Head(changes) \in Changes /\ Tail(changes) \in Seq(Changes)
    BY DEF RInv, RunnerTypeOK
  <2>2. Result(Head(changes)) \subseteq Detectors
    BY <2>1 DEF RInv, RunnerTypeOK, Result, Changes
  <2>. QED BY <1>1, <2>1, <2>2 DEF RInv, RunnerTypeOK, CoreInv
<1>3. PlaceInv'
  BY <1>1 DEF RInv, RunnerTypeOK, CoreInv, TypeOK, LoopInv, WaitInv, PlaceInv, Leaving, Clients,
       OneClient, Processing
<1>4. TurnInv'
  BY <1>1, NoThreadAssumption DEF RInv, RunnerTypeOK, CoreInv, TypeOK, LoopInv, WaitInv, PlaceInv,
       TurnInv, Inert, Leaving, Clients, OneClient, Processing
<1>. QED BY <1>1, <1>2, <1>3, <1>4 DEF RInv

\* What was done to the detectors starts the loop, stops it or neither.
LEMMA AppliedTurn ==
    ASSUME RInv, OneClient, NEW t \in Controllers, Applied(t)
    PROVE  RInv'
<1>. USE LoopsAreControllers DEF Applied, Go, Start, Stop, Background, Unbackground, Ready, Move, vars,
     stateVars, latchVars, loopVars, callVars, runnerVars
<1>1. CoreInv'
  BY BackgroundCore, UnbackgroundCore, StutterCore DEF RInv, RunnerTypeOK, CoreInv, TypeOK, PlaceInv
<1>2. RunnerTypeOK'
  BY <1>1, NoThreadAssumption DEF RInv, RunnerTypeOK, CoreInv, TypeOK, Clients, Locations, Processing,
       Changed
<1>3. PlaceInv' /\ TurnInv'
  <2>1. /\ at[t] = "apply" /\ at' = [at EXCEPT ![t] = at'[t]] /\ joining' = joining /\ lpc' = lpc
        /\ t \in Loops => lpc[t] = "update" /\ ~Inert(t)
    BY DEF RInv, RunnerTypeOK, CoreInv, TypeOK, Inert, Clients
  <2>2. \A l \in Loops \ {t} : t \in Loops => lpc[l] \in {"none", "exiting", "finished"}
    BY <2>1 DEF RInv, RunnerTypeOK, CoreInv, TypeOK, LoopInv
  <2>3. \A c \in Clients : t \notin Loops => c = t
    BY DEF OneClient, Clients
  <2>4. ~backgrounded => t \notin Loops \/ \A c \in Clients : Leaving \/ cpc[c] # "idle"
    BY <2>1 DEF RInv, TurnInv
  <2>5. \A c \in Clients : t \in Loops /\ at[c] = "apply" /\ ~joining[c] => backgrounded = FALSE /\ FALSE
    BY <2>1, <2>4 DEF RInv, PlaceInv, TurnInv
  <2>6. CASE Background(t)
    <3>1. /\ backgrounded' /\ at'[t] = "called" /\ destroyed' = destroyed
          /\ cpc' = [cpc EXCEPT ![t] = "clean"] /\ onClean' = [onClean EXCEPT ![t] = "start"]
      BY <2>6 DEF RInv, RunnerTypeOK, CoreInv, TypeOK
    <3>2. PlaceInv'
      BY <1>1, <2>1, <2>3, <3>1 DEF RInv, RunnerTypeOK, CoreInv, TypeOK, PlaceInv, Leaving, Clients
    <3>3. TurnInv'
      BY <2>1, <2>3, <2>5, <3>1 DEF RInv, RunnerTypeOK, CoreInv, TypeOK, TurnInv, Clients
    <3>. QED BY <3>2, <3>3
  <2>7. CASE Unbackground(t, TRUE)
    <3>1. /\ ~backgrounded' /\ at'[t] = "called" /\ destroyed' = destroyed
          /\ cpc' = [cpc EXCEPT ![t] = "clean"] /\ onClean' = [onClean EXCEPT ![t] = "return"]
      BY <2>7 DEF RInv, RunnerTypeOK, CoreInv, TypeOK
    <3>2. PlaceInv'
      BY <1>1, <2>1, <2>3, <3>1 DEF RInv, RunnerTypeOK, CoreInv, TypeOK, PlaceInv, Leaving, Clients
    <3>3. TurnInv'
      BY <2>1, <2>2, <2>3, <3>1 DEF RInv, RunnerTypeOK, CoreInv, TypeOK, TurnInv, Inert, Clients
    <3>. QED BY <3>2, <3>3
  <2>8. CASE UNCHANGED vars
    <3>1. PlaceInv'
      BY <2>1, <2>8 DEF RInv, RunnerTypeOK, CoreInv, TypeOK, PlaceInv, Leaving, Clients, WaitInv
    <3>2. at'[t] # "apply"
      BY <2>1, <2>8 DEF RInv, RunnerTypeOK, CoreInv, TypeOK, Clients
    <3>3. UNCHANGED <<backgrounded, cpc, joining, lpc, inBackground>> /\ Leaving' = Leaving
      BY <2>1, <2>8 DEF Leaving
    <3>4. \A c \in Clients : at'[c] = "apply" => at[c] = "apply"
      BY <2>1, <3>2 DEF RInv, RunnerTypeOK, CoreInv, TypeOK, Clients
    <3>5. ASSUME NEW c \in Clients, ~backgrounded, cpc[c] = "idle", ~Leaving, NEW k \in Loops PROVE Inert(k)'
      <4>1. t \notin Loops /\ Inert(k)
        BY <2>4, <3>5 DEF RInv, TurnInv
      <4>2. at'[k] = at[k]
        BY <2>1, <4>1 DEF RInv, RunnerTypeOK, CoreInv, TypeOK
      <4>. QED BY <3>3, <4>1, <4>2 DEF Inert
    <3>. QED BY <3>1, <3>3, <3>4, <3>5 DEF RInv, TurnInv
  <2>. QED BY <2>6, <2>7, <2>8
<1>. QED BY <1>1, <1>2, <1>3 DEF RInv

\* A call of the inherited code is over.
LEMMA ReturnedTurn ==
    ASSUME RInv, OneClient, NEW t \in Controllers, Returned(t)
    PROVE  RInv'
<1>. USE LoopsAreControllers DEF Returned, Go, vars, stateVars, latchVars, loopVars, callVars, runnerVars
<1>1. CoreInv'
  BY StutterCore DEF RInv
<1>2. RunnerTypeOK'
  BY <1>1, NoThreadAssumption DEF RInv, RunnerTypeOK, CoreInv, TypeOK, Clients, Locations, Processing,
       Changed
<1>3. PlaceInv'
  BY <1>1 DEF RInv, RunnerTypeOK, CoreInv, TypeOK, LoopInv, WaitInv, PlaceInv, Leaving, Clients,
       OneClient, Processing
<1>4. TurnInv'
  BY <1>1, NoThreadAssumption DEF RInv, RunnerTypeOK, CoreInv, TypeOK, LoopInv, WaitInv, PlaceInv,
       TurnInv, Inert, Leaving, Clients, OneClient, Processing
<1>. QED BY <1>1, <1>2, <1>3, <1>4 DEF RInv

\* update() begins.
LEMMA EnterUpdateTurn ==
    ASSUME RInv, OneClient, NEW l \in Loops, EnterUpdate(l)
    PROVE  RInv'
<1>. USE LoopsAreControllers DEF EnterUpdate, Go, vars, stateVars, latchVars, loopVars, callVars, runnerVars
<1>1. CoreInv'
  BY StutterCore DEF RInv
<1>2. RunnerTypeOK'
  BY <1>1, NoThreadAssumption DEF RInv, RunnerTypeOK, CoreInv, TypeOK, Clients, Locations, Processing,
       Changed
<1>3. PlaceInv'
  BY <1>1 DEF RInv, RunnerTypeOK, CoreInv, TypeOK, LoopInv, WaitInv, PlaceInv, Leaving, Clients,
       OneClient, Processing
<1>4. TurnInv'
  BY <1>1, NoThreadAssumption DEF RInv, RunnerTypeOK, CoreInv, TypeOK, LoopInv, WaitInv, PlaceInv,
       TurnInv, Inert, Leaving, Clients, OneClient, Processing
<1>. QED BY <1>1, <1>2, <1>3, <1>4 DEF RInv

\* The changes are in.
LEMMA SyncedTurn ==
    ASSUME RInv, OneClient, NEW l \in Loops, Synced(l)
    PROVE  RInv'
<1>. USE LoopsAreControllers DEF Synced, Go, vars, stateVars, latchVars, loopVars, callVars, runnerVars
<1>1. CoreInv'
  BY StutterCore DEF RInv
<1>2. RunnerTypeOK'
  BY <1>1, NoThreadAssumption DEF RInv, RunnerTypeOK, CoreInv, TypeOK, Clients, Locations, Processing,
       Changed
<1>3. PlaceInv'
  BY <1>1 DEF RInv, RunnerTypeOK, CoreInv, TypeOK, LoopInv, WaitInv, PlaceInv, Leaving, Clients,
       OneClient, Processing
<1>4. TurnInv'
  BY <1>1, NoThreadAssumption DEF RInv, RunnerTypeOK, CoreInv, TypeOK, LoopInv, WaitInv, PlaceInv,
       TurnInv, Inert, Leaving, Clients, OneClient, Processing
<1>. QED BY <1>1, <1>2, <1>3, <1>4 DEF RInv

\* A frame is there or not.
LEMMA LookForFrameTurn ==
    ASSUME RInv, OneClient, NEW l \in Loops, LookForFrame(l)
    PROVE  RInv'
<1>. USE LoopsAreControllers DEF LookForFrame, Go, vars, stateVars, latchVars, loopVars, callVars,
     runnerVars
<1>1. CoreInv'
  BY StutterCore DEF RInv
<1>2. RunnerTypeOK'
  BY <1>1, NoThreadAssumption DEF RInv, RunnerTypeOK, CoreInv, TypeOK, Clients, Locations, Processing,
       Changed
<1>3. PlaceInv'
  BY <1>1 DEF RInv, RunnerTypeOK, CoreInv, TypeOK, LoopInv, WaitInv, PlaceInv, Leaving, Clients,
       OneClient, Processing
<1>4. TurnInv'
  BY <1>1, NoThreadAssumption DEF RInv, RunnerTypeOK, CoreInv, TypeOK, LoopInv, WaitInv, PlaceInv,
       TurnInv, Inert, Leaving, Clients, OneClient, Processing
<1>. QED BY <1>1, <1>2, <1>3, <1>4 DEF RInv

\* The detectors have seen it.
LEMMA DetectedTurn ==
    ASSUME RInv, OneClient, NEW l \in Loops, Detected(l)
    PROVE  RInv'
<1>. USE LoopsAreControllers DEF Detected, Go, vars, stateVars, latchVars, loopVars, callVars, runnerVars
<1>1. CoreInv'
  BY StutterCore DEF RInv
<1>2. RunnerTypeOK'
  BY <1>1, NoThreadAssumption DEF RInv, RunnerTypeOK, CoreInv, TypeOK, Clients, Locations, Processing,
       Changed
<1>3. PlaceInv'
  BY <1>1 DEF RInv, RunnerTypeOK, CoreInv, TypeOK, LoopInv, WaitInv, PlaceInv, Leaving, Clients,
       OneClient, Processing
<1>4. TurnInv'
  BY <1>1, NoThreadAssumption DEF RInv, RunnerTypeOK, CoreInv, TypeOK, LoopInv, WaitInv, PlaceInv,
       TurnInv, Inert, Leaving, Clients, OneClient, Processing
<1>. QED BY <1>1, <1>2, <1>3, <1>4 DEF RInv

\* Its flag is taken down.
LEMMA ClearFrameTurn ==
    ASSUME RInv, OneClient, NEW l \in Loops, ClearFrame(l)
    PROVE  RInv'
<1>. USE LoopsAreControllers DEF ClearFrame, Go, vars, stateVars, latchVars, loopVars, callVars, runnerVars
<1>1. CoreInv'
  BY StutterCore DEF RInv
<1>2. RunnerTypeOK'
  BY <1>1, NoThreadAssumption DEF RInv, RunnerTypeOK, CoreInv, TypeOK, Clients, Locations, Processing,
       Changed
<1>3. PlaceInv'
  BY <1>1 DEF RInv, RunnerTypeOK, CoreInv, TypeOK, LoopInv, WaitInv, PlaceInv, Leaving, Clients,
       OneClient, Processing
<1>4. TurnInv'
  BY <1>1, NoThreadAssumption DEF RInv, RunnerTypeOK, CoreInv, TypeOK, LoopInv, WaitInv, PlaceInv,
       TurnInv, Inert, Leaving, Clients, OneClient, Processing
<1>. QED BY <1>1, <1>2, <1>3, <1>4 DEF RInv

\* The loop stops itself, or calls background() and waits for itself.
LEMMA ToggleTurn ==
    ASSUME RInv, OneClient, NEW l \in Loops, Toggle(l)
    PROVE  RInv'
<1>. USE LoopsAreControllers DEF Toggle, Go, Start, Stop, Background, Unbackground, Ready, Move, vars,
     stateVars, latchVars, loopVars, callVars, runnerVars
<1>1. CoreInv'
  BY BackgroundCore, UnbackgroundCore, StutterCore DEF RInv, RunnerTypeOK, CoreInv, TypeOK, PlaceInv
<1>2. RunnerTypeOK'
  BY <1>1, NoThreadAssumption DEF RInv, RunnerTypeOK, CoreInv, TypeOK, Clients, Locations, Processing,
       Changed
<1>3. PlaceInv' /\ TurnInv'
  <2>1. /\ at[l] = "toggle" /\ at' = [at EXCEPT ![l] = at'[l]] /\ joining' = joining /\ lpc' = lpc
        /\ lpc[l] = "update" /\ ~Inert(l)
    BY DEF RInv, RunnerTypeOK, CoreInv, TypeOK, Inert, Clients
  <2>2. \A k \in Loops \ {l} : lpc[k] \in {"none", "exiting", "finished"}
    BY <2>1 DEF RInv, RunnerTypeOK, CoreInv, TypeOK, LoopInv
  <2>3. ~backgrounded => \A c \in Clients : Leaving \/ cpc[c] # "idle"
    BY <2>1 DEF RInv, TurnInv
  <2>4. \A c \in Clients : at[c] = "apply" => joining[c]
    BY <2>1, <2>3 DEF RInv, PlaceInv, TurnInv
  <2>5. CASE Background(l)
    <3>1. /\ backgrounded' /\ at'[l] = "leaving" /\ destroyed' = destroyed
          /\ cpc' = [cpc EXCEPT ![l] = "clean"] /\ onClean' = [onClean EXCEPT ![l] = "start"]
      BY <2>5 DEF RInv, RunnerTypeOK, CoreInv, TypeOK
    <3>2. PlaceInv'
      BY <1>1, <2>1, <3>1 DEF RInv, RunnerTypeOK, CoreInv, TypeOK, PlaceInv, Leaving, Clients
    <3>3. TurnInv'
      BY <2>1, <2>4, <3>1 DEF RInv, RunnerTypeOK, CoreInv, TypeOK, TurnInv, Clients
    <3>. QED BY <3>2, <3>3
  <2>6. CASE Unbackground(l, FALSE)
    <3>1. /\ ~backgrounded' /\ at'[l] = "leaving" /\ destroyed' = destroyed
          /\ cpc' = cpc /\ onClean' = [onClean EXCEPT ![l] = "return"]
      BY <2>6 DEF RInv, RunnerTypeOK, CoreInv, TypeOK
    <3>2. PlaceInv'
      BY <1>1, <2>1, <3>1 DEF RInv, RunnerTypeOK, CoreInv, TypeOK, PlaceInv, Leaving, Clients
    <3>3. TurnInv'
      BY <2>1, <2>2, <3>1 DEF RInv, RunnerTypeOK, CoreInv, TypeOK, TurnInv, Inert, Clients
    <3>. QED BY <3>2, <3>3
  <2>7. CASE UNCHANGED vars
    <3>1. PlaceInv'
      BY <2>1, <2>7 DEF RInv, RunnerTypeOK, CoreInv, TypeOK, PlaceInv, Leaving, Clients, WaitInv
    <3>2. at'[l] # "apply"
      BY <2>1, <2>7 DEF RInv, RunnerTypeOK, CoreInv, TypeOK, Clients
    <3>3. UNCHANGED <<backgrounded, cpc, joining, lpc, inBackground>> /\ Leaving' = Leaving
      BY <2>1, <2>7 DEF Leaving
    <3>4. \A c \in Clients : at'[c] = "apply" => at[c] = "apply"
      BY <2>1, <3>2 DEF RInv, RunnerTypeOK, CoreInv, TypeOK, Clients
    <3>5. ASSUME NEW c \in Clients, ~backgrounded, cpc[c] = "idle", ~Leaving, NEW k \in Loops PROVE Inert(k)'
      <4>1. Inert(k)
        BY <3>5 DEF RInv, TurnInv
      <4>2. at'[k] = at[k]
        BY <2>1, <2>3, <3>5 DEF RInv, RunnerTypeOK, CoreInv, TypeOK
      <4>. QED BY <3>3, <4>1, <4>2 DEF Inert
    <3>. QED BY <3>1, <3>3, <3>4, <3>5 DEF RInv, TurnInv
  <2>. QED BY <2>5, <2>6, <2>7
<1>. QED BY <1>1, <1>2, <1>3 DEF RInv

\* update() is over.
LEMMA LeaveUpdateTurn ==
    ASSUME RInv, OneClient, NEW l \in Loops, LeaveUpdate(l)
    PROVE  RInv'
<1>. USE LoopsAreControllers DEF LeaveUpdate, Go, UpdateDone, Step, vars, stateVars, latchVars, loopVars,
     callVars, runnerVars
<1>1. CoreInv'
  BY UpdateDoneCore DEF RInv, LeaveUpdate, Go
<1>2. RunnerTypeOK'
  BY <1>1, NoThreadAssumption DEF RInv, RunnerTypeOK, CoreInv, TypeOK, Clients, Locations, Processing,
       Changed
<1>3. PlaceInv'
  BY <1>1 DEF RInv, RunnerTypeOK, CoreInv, TypeOK, LoopInv, WaitInv, PlaceInv, Leaving, Clients,
       OneClient, Processing
<1>4. TurnInv'
  BY <1>1, NoThreadAssumption DEF RInv, RunnerTypeOK, CoreInv, TypeOK, LoopInv, WaitInv, PlaceInv,
       TurnInv, Inert, Leaving, Clients, OneClient, Processing
<1>. QED BY <1>1, <1>2, <1>3, <1>4 DEF RInv

\* The camera has a frame.
LEMMA FrameArrivesTurn ==
    ASSUME RInv, OneClient, FrameArrives
    PROVE  RInv'
<1>. USE LoopsAreControllers DEF FrameArrives, vars, stateVars, latchVars, loopVars, callVars, runnerVars
<1>1. CoreInv'
  BY StutterCore DEF RInv
<1>2. RunnerTypeOK'
  BY <1>1, NoThreadAssumption DEF RInv, RunnerTypeOK, CoreInv, TypeOK, Clients, Locations, Processing,
       Changed
<1>3. PlaceInv'
  BY <1>1 DEF RInv, RunnerTypeOK, CoreInv, TypeOK, LoopInv, WaitInv, PlaceInv, Leaving, Clients,
       OneClient, Processing
<1>4. TurnInv'
  BY <1>1, NoThreadAssumption DEF RInv, RunnerTypeOK, CoreInv, TypeOK, LoopInv, WaitInv, PlaceInv,
       TurnInv, Inert, Leaving, Clients, OneClient, Processing
<1>. QED BY <1>1, <1>2, <1>3, <1>4 DEF RInv

-----------------------------------------------------------------------------
(* A runner with one client: the changes and the detectors *)

\* Nothing is promised any more.
Void == Conflict \/ Leaving \/ overtaken \/ \E l \in Loops : cpc[l] # "idle"

\* A loop that has not read that it is to end.
Live(l) == lpc[l] \in {"top", "update", "sleep"} \/ (lpc[l] = "settings" /\ inBackground[l])

Left == detectors # {}

\* Where a loop is while it knows that it is to be toggled.
Decided == {"frame", "apply", "called", "detect", "clear", "toggle"}

ToggleInv == \A l \in Loops : toggle[l] =>
    /\ at[l] \in Decided
    /\ ~Left /\ changes = <<>>
    /\ \A c \in Clients : at[c] = "apply" => ~hadSome[c]

\* A client's call ...
CallingInv == \A c \in Clients : cpc[c] # "idle" =>
    /\ changes = <<>>
    /\ IF onClean[c] = "start" THEN backgrounded /\ Left ELSE ~backgrounded /\ ~Left

\* ... with no loop to leave the changes to ...
StoppedInv == \A c \in Clients : ~backgrounded /\ cpc[c] = "idle" =>
    /\ at[c] \in {"idle", "called"} => ~Left /\ changes = <<>>
    /\ at[c] = "pushed" => ~Left
    /\ at[c] = "apply" => ~hadSome[c]

\* ... and with one.
StartedInv == \A c \in Clients : backgrounded /\ cpc[c] = "idle" =>
    /\ \E l \in Loops : Live(l)
    /\ at[c] = "apply" /\ ~hadSome[c] => changes = <<>>
    /\ \/ Left
       \/ at[c] = "apply" /\ hadSome[c]
       \/ \E l \in Loops : toggle[l] \/ (at[l] \in {"sync", "apply"} /\ hadSome[l])

\* What a loop that is at the changes remembers of the detectors.
SyncInv == \A l \in Loops, c \in Clients :
    /\ at[l] \in {"sync", "apply"} /\ ~hadSome[l] =>
        /\ ~Left /\ changes = <<>>
        /\ toggle[l] \/ (at[c] = "apply" /\ hadSome[c]) \/ cpc[c] # "idle"
    /\ at[l] = "sync" /\ hadSome[l] /\ ~Left /\ at[c] = "apply" => ~hadSome[c]

ChangeInv == Void \/ (ToggleInv /\ CallingInv /\ StoppedInv /\ StartedInv /\ SyncInv)
\* A step that is about neither the changes nor the detectors, and in which nobody's call
\* begins or ends.
LEMMA ChangeKept ==
    ASSUME ChangeInv, ~Conflict,
           UNCHANGED <<backgrounded, onClean, destroyed, changes, detectors, hadSome, toggle, overtaken>>,
           \A t \in Controllers : cpc'[t] = "idle" <=> cpc[t] = "idle",
           \A c \in Clients : at'[c] = at[c],
           \A l \in Loops : \/ at'[l] = at[l]
                            \/ /\ {at[l], at'[l]} \cap {"sync", "apply"} = {}
                               /\ at[l] \in Decided => at'[l] \in Decided,
           \A l \in Loops : Live(l) /\ backgrounded => Live(l)'
    PROVE  ChangeInv'
<1>1. Leaving' = Leaving /\ Left' = Left
  BY DEF Leaving, Left
<1>2. Void => Void'
  BY <1>1, LoopsAreControllers DEF Void
<1>. SUFFICES ASSUME ~Void PROVE ToggleInv' /\ CallingInv' /\ StoppedInv' /\ StartedInv' /\ SyncInv'
  BY <1>2 DEF ChangeInv
<1>3. ToggleInv /\ CallingInv /\ StoppedInv /\ StartedInv /\ SyncInv
  BY DEF ChangeInv
<1>4. ToggleInv' /\ CallingInv' /\ StoppedInv'
  BY <1>1, <1>3 DEF ToggleInv, CallingInv, StoppedInv, Clients
<1>5. StartedInv'
  BY <1>1, <1>3 DEF StartedInv, Clients
<1>6. SyncInv'
  BY <1>1, <1>3 DEF SyncInv, Clients
<1>. QED BY <1>4, <1>5, <1>6

\* A loop that finds no detectors as update() or the look for a frame begins: it has noted
\* so itself, or the client is about to stop it.
LEMMA NoneFound ==
    ASSUME RInv, OneClient, ~Void, ToggleInv, CallingInv, StartedInv, ~Left,
           NEW l \in Loops, NEW c \in Clients, lpc[l] = "update", at[l] \in {"idle", "frame"}
    PROVE  \/ toggle[l] /\ changes = <<>>
           \/ at[c] = "apply" /\ hadSome[c]
           \/ cpc[c] # "idle" /\ changes = <<>>
<1>1. CASE cpc[c] # "idle"
  BY <1>1 DEF CallingInv
<1>2. ASSUME cpc[c] = "idle", ~backgrounded PROVE FALSE
  BY <1>2 DEF RInv, TurnInv, Inert, Void
<1>3. \A k \in Loops : at[k] # "idle" => k = l
  BY DEF RInv, RunnerTypeOK, CoreInv, TypeOK, LoopInv
<1>4. CASE cpc[c] = "idle" /\ backgrounded
  <2>1. \/ at[c] = "apply" /\ hadSome[c]
        \/ \E k \in Loops : toggle[k] \/ at[k] \in {"sync", "apply"}
    BY <1>4 DEF StartedInv
  <2>2. ASSUME NEW k \in Loops, toggle[k] PROVE k = l /\ changes = <<>>
    BY <1>3, <2>2 DEF ToggleInv, Decided
  <2>3. ASSUME NEW k \in Loops PROVE at[k] \notin {"sync", "apply"}
    BY <1>3
  <2>. QED BY <2>1, <2>2, <2>3
<1>. QED BY <1>1, <1>2, <1>4

\* A call finds no thread, a stopped one, or waits.
LEMMA CleanUpChange ==
    ASSUME RInv, OneClient, ~Conflict, ChangeInv, NEW t \in Controllers, CleanUp(t), UNCHANGED runnerVars
    PROVE  ChangeInv'
<1>. USE LoopsAreControllers DEF CleanUp, Cleaned, Move, vars, stateVars, latchVars, loopVars, callVars,
     runnerVars
<1>1. Void => Void'
  <2>1. Leaving => Leaving'
    BY DEF RInv, RunnerTypeOK, CoreInv, TypeOK, Leaving, WaitInv, Clients
  <2>2. ASSUME NEW l \in Loops, cpc[l] # "idle" PROVE cpc'[l] # "idle"
    <3>1. thread = l /\ latchCount # 0 /\ thread # NoThread
      BY <2>2, NoThreadAssumption DEF RInv, CoreInv, LoopInv, WaitInv
    <3>2. cpc' = [cpc EXCEPT ![t] = "await"]
      BY <3>1
    <3>. QED BY <2>2, <3>2 DEF RInv, RunnerTypeOK, CoreInv, TypeOK
  <2>. QED BY <2>1, <2>2 DEF Void
<1>. SUFFICES ASSUME ~Void' PROVE ToggleInv' /\ CallingInv' /\ StoppedInv' /\ StartedInv' /\ SyncInv'
  BY DEF ChangeInv
<1>2. ~Void /\ ToggleInv /\ CallingInv /\ StoppedInv /\ StartedInv /\ SyncInv
  BY <1>1 DEF ChangeInv
<1>3. ToggleInv'
  BY <1>2 DEF RInv, RunnerTypeOK, CoreInv, TypeOK, Void, Left, ToggleInv, Decided, PlaceInv, Clients,
       OneClient
<1>4. CallingInv'
  BY <1>2 DEF RInv, RunnerTypeOK, CoreInv, TypeOK, Void, Left, LoopInv, WaitInv, CallingInv, Leaving,
       PlaceInv, Clients, OneClient
<1>5. StoppedInv'
  BY <1>2 DEF RInv, RunnerTypeOK, CoreInv, TypeOK, Void, Left, StoppedInv, CallingInv, Leaving, PlaceInv,
       Clients, OneClient
<1>6. StartedInv'
  BY <1>2 DEF RInv, RunnerTypeOK, CoreInv, TypeOK, Void, Left, StartedInv, CallingInv, ToggleInv, Live,
       Leaving, PlaceInv, Clients, OneClient
<1>7. SyncInv'
  <2>1. CASE thread = NoThread \/ latchCount = 0
    <3>1. \A l \in Loops : lpc[l] # "update"
      BY <2>1, NoThreadAssumption DEF RInv, CoreInv, LoopInv
    <3>2. \A l \in Loops : at[l] = "idle"
      BY <3>1 DEF RInv, RunnerTypeOK
    <3>. QED BY <3>2 DEF SyncInv
  <2>2. CASE thread # NoThread /\ latchCount # 0
    <3>1. cpc' = [cpc EXCEPT ![t] = "await"]
      BY <2>2
    <3>2. \A c \in Clients : cpc[c] # "idle" => cpc'[c] # "idle"
      BY <3>1 DEF RInv, RunnerTypeOK, CoreInv, TypeOK, Clients
    <3>. QED BY <1>2, <3>2 DEF SyncInv, Left
  <2>. QED BY <2>1, <2>2
<1>. QED BY <1>3, <1>4, <1>5, <1>6, <1>7

\* It waits for the latch.
LEMMA AwaitStoppedChange ==
    ASSUME RInv, OneClient, ~Conflict, ChangeInv, NEW t \in Controllers, AwaitStopped(t),
         UNCHANGED runnerVars
    PROVE  ChangeInv'
<1>1. /\ UNCHANGED <<backgrounded, onClean, destroyed, changes, detectors, hadSome, toggle, overtaken>>
      /\ \A u \in Controllers : cpc'[u] = "idle" <=> cpc[u] = "idle"
      /\ \A c \in Clients : at'[c] = at[c]
      /\ \A l \in Loops : \/ at'[l] = at[l]
                          \/ /\ {at[l], at'[l]} \cap {"sync", "apply"} = {}
                             /\ at[l] \in Decided => at'[l] \in Decided
      /\ \A l \in Loops : Live(l) /\ backgrounded => Live(l)'
  BY LoopsAreControllers
     DEF AwaitStopped, Move, vars, stateVars, loopVars, callVars, runnerVars, RInv, RunnerTypeOK,
          CoreInv, TypeOK, ChangeInv,
         Decided, Clients, Live
<1>. QED BY <1>1, ChangeKept

\* It is woken.
LEMMA WokenChange ==
    ASSUME RInv, OneClient, ~Conflict, ChangeInv, NEW t \in Controllers, Woken(t), UNCHANGED runnerVars
    PROVE  ChangeInv'
<1>1. /\ UNCHANGED <<backgrounded, onClean, destroyed, changes, detectors, hadSome, toggle, overtaken>>
      /\ \A u \in Controllers : cpc'[u] = "idle" <=> cpc[u] = "idle"
      /\ \A c \in Clients : at'[c] = at[c]
      /\ \A l \in Loops : \/ at'[l] = at[l]
                          \/ /\ {at[l], at'[l]} \cap {"sync", "apply"} = {}
                             /\ at[l] \in Decided => at'[l] \in Decided
      /\ \A l \in Loops : Live(l) /\ backgrounded => Live(l)'
  BY LoopsAreControllers
     DEF Woken, vars, stateVars, loopVars, callVars, runnerVars, RInv, RunnerTypeOK, CoreInv, TypeOK,
          ChangeInv,
         Decided, Clients, Live
<1>. QED BY <1>1, ChangeKept

\* It is woken by nobody.
LEMMA SpuriousWakeupChange ==
    ASSUME RInv, OneClient, ~Conflict, ChangeInv, NEW t \in Controllers, SpuriousWakeup(t),
         UNCHANGED runnerVars
    PROVE  ChangeInv'
<1>1. /\ UNCHANGED <<backgrounded, onClean, destroyed, changes, detectors, hadSome, toggle, overtaken>>
      /\ \A u \in Controllers : cpc'[u] = "idle" <=> cpc[u] = "idle"
      /\ \A c \in Clients : at'[c] = at[c]
      /\ \A l \in Loops : \/ at'[l] = at[l]
                          \/ /\ {at[l], at'[l]} \cap {"sync", "apply"} = {}
                             /\ at[l] \in Decided => at'[l] \in Decided
      /\ \A l \in Loops : Live(l) /\ backgrounded => Live(l)'
  BY LoopsAreControllers
     DEF SpuriousWakeup, vars, stateVars, loopVars, callVars, runnerVars, RInv, RunnerTypeOK, CoreInv,
          TypeOK, ChangeInv,
         Decided, Clients, Live
<1>. QED BY <1>1, ChangeKept

\* It has joined the thread.
LEMMA JoinChange ==
    ASSUME RInv, OneClient, ~Conflict, ChangeInv, NEW t \in Controllers, Join(t), UNCHANGED runnerVars
    PROVE  ChangeInv'
<1>. USE LoopsAreControllers DEF Join, Cleaned, Move, vars, stateVars, latchVars, loopVars, callVars,
     runnerVars
<1>1. Void => Void'
  BY DEF RInv, RunnerTypeOK, CoreInv, TypeOK, LoopInv, WaitInv, PlaceInv, Void, Leaving, Clients, OneClient
<1>. SUFFICES ASSUME ~Void' PROVE ToggleInv' /\ CallingInv' /\ StoppedInv' /\ StartedInv' /\ SyncInv'
  BY DEF ChangeInv
<1>2. ~Void /\ ToggleInv /\ CallingInv /\ StoppedInv /\ StartedInv /\ SyncInv
  BY <1>1 DEF ChangeInv
<1>3. ToggleInv'
  BY <1>2 DEF RInv, RunnerTypeOK, CoreInv, TypeOK, Void, Left, ToggleInv, Decided, PlaceInv, Clients,
       OneClient
<1>4. CallingInv'
  BY <1>2 DEF RInv, RunnerTypeOK, CoreInv, TypeOK, Void, Left, LoopInv, WaitInv, CallingInv, Leaving,
       PlaceInv, Clients, OneClient
<1>5. StoppedInv'
  BY <1>2 DEF RInv, RunnerTypeOK, CoreInv, TypeOK, Void, Left, StoppedInv, CallingInv, Leaving, PlaceInv,
       Clients, OneClient
<1>6. StartedInv'
  BY <1>2 DEF RInv, RunnerTypeOK, CoreInv, TypeOK, Void, Left, StartedInv, CallingInv, ToggleInv, Live,
       Leaving, PlaceInv, Clients, OneClient
<1>7. SyncInv'
  BY <1>2 DEF RInv, RunnerTypeOK, CoreInv, TypeOK, Void, Left, SyncInv, LoopInv, WaitInv, PlaceInv,
       Clients, OneClient
<1>. QED BY <1>3, <1>4, <1>5, <1>6, <1>7

\* A new loop has the flag still to read.
LEMMA CreateChange ==
    ASSUME RInv, OneClient, ~Conflict, ChangeInv, NEW t \in Controllers, Create(t), UNCHANGED runnerVars
    PROVE  ChangeInv'
<1>. USE LoopsAreControllers DEF Create, Move, vars, stateVars, latchVars, loopVars, callVars, runnerVars
<1>1. Void => Void'
  BY DEF RInv, RunnerTypeOK, CoreInv, TypeOK, LoopInv, WaitInv, PlaceInv, Void, Leaving, Clients, OneClient
<1>. SUFFICES ASSUME ~Void' PROVE ToggleInv' /\ CallingInv' /\ StoppedInv' /\ StartedInv' /\ SyncInv'
  BY DEF ChangeInv
<1>2. ~Void /\ ToggleInv /\ CallingInv /\ StoppedInv /\ StartedInv /\ SyncInv
  BY <1>1 DEF ChangeInv
<1>3. ToggleInv'
  BY <1>2 DEF RInv, RunnerTypeOK, CoreInv, TypeOK, Void, Left, ToggleInv, Decided, PlaceInv, Clients,
       OneClient
<1>4. CallingInv'
  BY <1>2 DEF RInv, RunnerTypeOK, CoreInv, TypeOK, Void, Left, LoopInv, WaitInv, CallingInv, Leaving,
       PlaceInv, Clients, OneClient
<1>5. StoppedInv'
  BY <1>2 DEF RInv, RunnerTypeOK, CoreInv, TypeOK, Void, Left, StoppedInv, CallingInv, Leaving, PlaceInv,
       Clients, OneClient
<1>6. StartedInv'
  BY <1>2 DEF RInv, RunnerTypeOK, CoreInv, TypeOK, Void, Left, StartedInv, CallingInv, ToggleInv, Live,
       Leaving, PlaceInv, Clients, OneClient
<1>7. SyncInv'
  <2>1. \A l \in Loops : at[l] = "idle"
    BY NoThreadAssumption DEF RInv, RunnerTypeOK, CoreInv, TypeOK, LoopInv, WaitInv, Clients
  <2>. QED BY <2>1 DEF SyncInv
<1>. QED BY <1>3, <1>4, <1>5, <1>6, <1>7

\* A loop reads the flag.
LEMMA ReadStateChange ==
    ASSUME RInv, OneClient, ~Conflict, ChangeInv, NEW l \in Loops, ReadState(l), UNCHANGED runnerVars
    PROVE  ChangeInv'
<1>1. /\ UNCHANGED <<backgrounded, onClean, destroyed, changes, detectors, hadSome, toggle, overtaken>>
      /\ \A t \in Controllers : cpc'[t] = "idle" <=> cpc[t] = "idle"
      /\ \A c \in Clients : at'[c] = at[c]
      /\ \A k \in Loops : \/ at'[k] = at[k]
                          \/ /\ {at[k], at'[k]} \cap {"sync", "apply"} = {}
                             /\ at[k] \in Decided => at'[k] \in Decided
      /\ \A k \in Loops : Live(k) /\ backgrounded => Live(k)'
  BY LoopsAreControllers
     DEF ReadState, Step, vars, stateVars, loopVars, callVars, runnerVars, RInv, RunnerTypeOK, CoreInv,
          TypeOK, ChangeInv,
         Decided, Clients, Live
<1>. QED BY <1>1, ChangeKept

\* It goes on, or ends, as the flag was.
LEMMA ApplySettingsChange ==
    ASSUME RInv, OneClient, ~Conflict, ChangeInv, NEW l \in Loops, ApplySettings(l), UNCHANGED runnerVars
    PROVE  ChangeInv'
<1>1. /\ UNCHANGED <<backgrounded, onClean, destroyed, changes, detectors, hadSome, toggle, overtaken>>
      /\ \A t \in Controllers : cpc'[t] = "idle" <=> cpc[t] = "idle"
      /\ \A c \in Clients : at'[c] = at[c]
      /\ \A k \in Loops : \/ at'[k] = at[k]
                          \/ /\ {at[k], at'[k]} \cap {"sync", "apply"} = {}
                             /\ at[k] \in Decided => at'[k] \in Decided
      /\ \A k \in Loops : Live(k) /\ backgrounded => Live(k)'
  BY LoopsAreControllers
     DEF ApplySettings, Step, vars, stateVars, loopVars, callVars, runnerVars, RInv, RunnerTypeOK,
          CoreInv, TypeOK, ChangeInv,
         Decided, Clients, Live
<1>. QED BY <1>1, ChangeKept

\* It sleeps no more.
LEMMA AwakesChange ==
    ASSUME RInv, OneClient, ~Conflict, ChangeInv, NEW l \in Loops, Awakes(l), UNCHANGED runnerVars
    PROVE  ChangeInv'
<1>1. /\ UNCHANGED <<backgrounded, onClean, destroyed, changes, detectors, hadSome, toggle, overtaken>>
      /\ \A t \in Controllers : cpc'[t] = "idle" <=> cpc[t] = "idle"
      /\ \A c \in Clients : at'[c] = at[c]
      /\ \A k \in Loops : \/ at'[k] = at[k]
                          \/ /\ {at[k], at'[k]} \cap {"sync", "apply"} = {}
                             /\ at[k] \in Decided => at'[k] \in Decided
      /\ \A k \in Loops : Live(k) /\ backgrounded => Live(k)'
  BY LoopsAreControllers
     DEF Awakes, Step, vars, stateVars, loopVars, callVars, runnerVars, RInv, RunnerTypeOK, CoreInv,
          TypeOK, ChangeInv,
         Decided, Clients, Live
<1>. QED BY <1>1, ChangeKept

\* It lets go of the object.
LEMMA SignalStoppedChange ==
    ASSUME RInv, OneClient, ~Conflict, ChangeInv, NEW l \in Loops, SignalStopped(l), UNCHANGED runnerVars
    PROVE  ChangeInv'
<1>1. /\ UNCHANGED <<backgrounded, onClean, destroyed, changes, detectors, hadSome, toggle, overtaken>>
      /\ \A t \in Controllers : cpc'[t] = "idle" <=> cpc[t] = "idle"
      /\ \A c \in Clients : at'[c] = at[c]
      /\ \A k \in Loops : \/ at'[k] = at[k]
                          \/ /\ {at[k], at'[k]} \cap {"sync", "apply"} = {}
                             /\ at[k] \in Decided => at'[k] \in Decided
      /\ \A k \in Loops : Live(k) /\ backgrounded => Live(k)'
  BY LoopsAreControllers
     DEF SignalStopped, Step, vars, stateVars, loopVars, callVars, runnerVars, RInv, RunnerTypeOK,
          CoreInv, TypeOK, ChangeInv,
         Decided, Clients, Live
<1>. QED BY <1>1, ChangeKept

\* Its thread ends.
LEMMA FinishChange ==
    ASSUME RInv, OneClient, ~Conflict, ChangeInv, NEW l \in Loops, Finish(l), UNCHANGED runnerVars
    PROVE  ChangeInv'
<1>1. /\ UNCHANGED <<backgrounded, onClean, destroyed, changes, detectors, hadSome, toggle, overtaken>>
      /\ \A t \in Controllers : cpc'[t] = "idle" <=> cpc[t] = "idle"
      /\ \A c \in Clients : at'[c] = at[c]
      /\ \A k \in Loops : \/ at'[k] = at[k]
                          \/ /\ {at[k], at'[k]} \cap {"sync", "apply"} = {}
                             /\ at[k] \in Decided => at'[k] \in Decided
      /\ \A k \in Loops : Live(k) /\ backgrounded => Live(k)'
  BY LoopsAreControllers
     DEF Finish, Step, vars, stateVars, loopVars, callVars, runnerVars, RInv, RunnerTypeOK, CoreInv,
          TypeOK, ChangeInv,
         Decided, Clients, Live
<1>. QED BY <1>1, ChangeKept

\* A change is pushed while the runner lives.
LEMMA PushChange ==
    ASSUME RInv, OneClient, ~Conflict, ChangeInv, NEW c \in Clients, NEW change \in Changes,
         NEW join \in BOOLEAN, Push(c, change, join)
    PROVE  ChangeInv'
<1>. USE LoopsAreControllers DEF Push, Go, vars, stateVars, latchVars, loopVars, callVars, runnerVars
<1>1. Void => Void'
  BY DEF RInv, RunnerTypeOK, CoreInv, TypeOK, LoopInv, WaitInv, PlaceInv, Void, Leaving, Clients, OneClient
<1>. SUFFICES ASSUME ~Void' PROVE ToggleInv' /\ CallingInv' /\ StoppedInv' /\ StartedInv' /\ SyncInv'
  BY DEF ChangeInv
<1>2. ~Void /\ ToggleInv /\ CallingInv /\ StoppedInv /\ StartedInv /\ SyncInv
  BY <1>1 DEF ChangeInv
<1>3. ToggleInv'
  BY <1>2 DEF RInv, RunnerTypeOK, CoreInv, TypeOK, Void, Left, ToggleInv, Decided, PlaceInv, Clients,
       OneClient
<1>4. CallingInv'
  BY <1>2 DEF RInv, RunnerTypeOK, CoreInv, TypeOK, Void, Left, LoopInv, WaitInv, CallingInv, Leaving,
       PlaceInv, Clients, OneClient
<1>5. StoppedInv'
  BY <1>2 DEF RInv, RunnerTypeOK, CoreInv, TypeOK, Void, Left, StoppedInv, CallingInv, Leaving, PlaceInv,
       Clients, OneClient
<1>6. StartedInv'
  BY <1>2 DEF RInv, RunnerTypeOK, CoreInv, TypeOK, Void, Left, StartedInv, CallingInv, ToggleInv, Live,
       Leaving, PlaceInv, Clients, OneClient
<1>7. SyncInv'
  BY <1>2 DEF RInv, RunnerTypeOK, CoreInv, TypeOK, Void, Left, SyncInv, LoopInv, WaitInv, PlaceInv,
       Clients, OneClient
<1>. QED BY <1>3, <1>4, <1>5, <1>6, <1>7

\* The destructor begins, with no other call under way.
LEMMA DestroyRunnerChange ==
    ASSUME RInv, OneClient, ~Conflict, ChangeInv, NEW c \in Clients, DestroyRunner(c)
    PROVE  ChangeInv'
<1>. USE LoopsAreControllers DEF DestroyRunner, Move, vars, stateVars, latchVars, loopVars, callVars,
     runnerVars
<1>1. Void => Void'
  BY DEF RInv, RunnerTypeOK, CoreInv, TypeOK, LoopInv, WaitInv, PlaceInv, Void, Leaving, Clients, OneClient
<1>. SUFFICES ASSUME ~Void' PROVE ToggleInv' /\ CallingInv' /\ StoppedInv' /\ StartedInv' /\ SyncInv'
  BY DEF ChangeInv
<1>2. ~Void /\ ToggleInv /\ CallingInv /\ StoppedInv /\ StartedInv /\ SyncInv
  BY <1>1 DEF ChangeInv
<1>3. ToggleInv'
  BY <1>2 DEF RInv, RunnerTypeOK, CoreInv, TypeOK, Void, Left, ToggleInv, Decided, PlaceInv, Clients,
       OneClient
<1>4. CallingInv'
  BY <1>2 DEF RInv, RunnerTypeOK, CoreInv, TypeOK, Void, Left, LoopInv, WaitInv, CallingInv, Leaving,
       PlaceInv, Clients, OneClient
<1>5. StoppedInv'
  BY <1>2 DEF RInv, RunnerTypeOK, CoreInv, TypeOK, Void, Left, StoppedInv, CallingInv, Leaving, PlaceInv,
       Clients, OneClient
<1>6. StartedInv'
  BY <1>2 DEF RInv, RunnerTypeOK, CoreInv, TypeOK, Void, Left, StartedInv, CallingInv, ToggleInv, Live,
       Leaving, PlaceInv, Clients, OneClient
<1>7. SyncInv'
  BY <1>2 DEF RInv, RunnerTypeOK, CoreInv, TypeOK, Void, Left, SyncInv, LoopInv, WaitInv, PlaceInv,
       Clients, OneClient
<1>. QED BY <1>3, <1>4, <1>5, <1>6, <1>7

\* Without joining, a client takes the changes only when the flag is down.
LEMMA AskChange ==
    ASSUME RInv, OneClient, ~Conflict, ChangeInv, NEW c \in Clients, Ask(c)
    PROVE  ChangeInv'
<1>. USE LoopsAreControllers DEF Ask, Go, vars, stateVars, latchVars, loopVars, callVars, runnerVars
<1>1. Void => Void'
  BY DEF RInv, RunnerTypeOK, CoreInv, TypeOK, LoopInv, WaitInv, PlaceInv, Void, Leaving, Clients, OneClient
<1>. SUFFICES ASSUME ~Void' PROVE ToggleInv' /\ CallingInv' /\ StoppedInv' /\ StartedInv' /\ SyncInv'
  BY DEF ChangeInv
<1>2. ~Void /\ ToggleInv /\ CallingInv /\ StoppedInv /\ StartedInv /\ SyncInv
  BY <1>1 DEF ChangeInv
<1>3. ToggleInv'
  BY <1>2 DEF RInv, RunnerTypeOK, CoreInv, TypeOK, Void, Left, ToggleInv, Decided, PlaceInv, Clients,
       OneClient
<1>4. CallingInv'
  BY <1>2 DEF RInv, RunnerTypeOK, CoreInv, TypeOK, Void, Left, LoopInv, WaitInv, CallingInv, Leaving,
       PlaceInv, Clients, OneClient
<1>5. StoppedInv'
  BY <1>2 DEF RInv, RunnerTypeOK, CoreInv, TypeOK, Void, Left, StoppedInv, CallingInv, Leaving, PlaceInv,
       Clients, OneClient
<1>6. StartedInv'
  <2>. SUFFICES ASSUME NEW d \in Clients, backgrounded, cpc[d] = "idle"
                PROVE  /\ \E l \in Loops : Live(l)
                       /\ at'[d] = "apply" /\ ~hadSome'[d] => changes = <<>>
                       /\ \/ Left
                          \/ at'[d] = "apply" /\ hadSome'[d]
                          \/ \E l \in Loops : toggle[l] \/ (at'[l] \in {"sync", "apply"} /\ hadSome'[l])
    BY DEF StartedInv, Live, Left
  <2>1. d = c /\ hadSome' = [hadSome EXCEPT ![c] = Left] /\ at'[c] \in {"apply", "idle"}
    BY DEF OneClient, Left, RInv, RunnerTypeOK, CoreInv, TypeOK, Clients
  <2>2. \A l \in Loops : at'[l] = at[l] /\ hadSome'[l] = hadSome[l]
    BY <2>1 DEF RInv, RunnerTypeOK, CoreInv, TypeOK, Clients
  <2>3. \/ Left
        \/ \E l \in Loops : toggle[l]
        \/ \E l \in Loops : at[l] \in {"sync", "apply"} /\ hadSome[l]
    BY <1>2, <2>1 DEF StartedInv
  <2>4. ASSUME at'[c] = "apply", ~Left PROVE changes = <<>>
    <3>1. CASE \E l \in Loops : toggle[l]
      BY <1>2, <3>1 DEF ToggleInv
    <3>2. CASE \E l \in Loops : at[l] \in {"sync", "apply"}
      BY <2>2, <2>4, <3>2 DEF Void, Conflict, Processing, Clients
    <3>. QED BY <2>3, <2>4, <3>1, <3>2
  <2>5. hadSome'[c] = Left
    BY <2>1 DEF RInv, RunnerTypeOK, CoreInv, TypeOK, Clients
  <2>6. \E l \in Loops : Live(l)
    BY <1>2 DEF StartedInv
  <2>. QED BY <2>1, <2>2, <2>3, <2>4, <2>5, <2>6
<1>7. SyncInv'
  BY <1>2 DEF RInv, RunnerTypeOK, CoreInv, TypeOK, Void, Left, SyncInv, LoopInv, WaitInv, PlaceInv,
       Clients, OneClient
<1>. QED BY <1>3, <1>4, <1>5, <1>6, <1>7

\* A change is applied.
LEMMA ApplyChange ==
    ASSUME RInv, OneClient, ~Conflict, ChangeInv, NEW t \in Controllers, Apply(t)
    PROVE  ChangeInv'
<1>. USE LoopsAreControllers DEF Apply, vars, stateVars, latchVars, loopVars, callVars, runnerVars
<1>1. Void => Void'
  BY DEF RInv, RunnerTypeOK, CoreInv, TypeOK, LoopInv, WaitInv, PlaceInv, Void, Leaving, Clients, OneClient
<1>. SUFFICES ASSUME ~Void' PROVE ToggleInv' /\ CallingInv' /\ StoppedInv' /\ StartedInv' /\ SyncInv'
  BY DEF ChangeInv
<1>2. ~Void /\ ToggleInv /\ CallingInv /\ StoppedInv /\ StartedInv /\ SyncInv
  BY <1>1 DEF ChangeInv
<1>3. ToggleInv'
  BY <1>2 DEF RInv, RunnerTypeOK, CoreInv, TypeOK, Void, Left, ToggleInv, Decided, PlaceInv, Clients,
       OneClient
<1>4. CallingInv'
  BY <1>2 DEF RInv, RunnerTypeOK, CoreInv, TypeOK, Void, Left, LoopInv, WaitInv, CallingInv, Leaving,
       PlaceInv, Clients, OneClient
<1>5. StoppedInv'
  <2>1. ASSUME NEW c \in Clients, ~backgrounded, cpc[c] = "idle" PROVE t = c
    <3>1. \A l \in Loops : Inert(l)
      BY <1>2, <2>1 DEF RInv, TurnInv, Void
    <3>2. ASSUME t \in Loops PROVE FALSE
      BY <3>1, <3>2 DEF RInv, RunnerTypeOK, Inert, Processing
    <3>. QED BY <3>2 DEF Clients, OneClient
  <2>. QED BY <1>2, <2>1 DEF StoppedInv, Processing, PlaceInv, RInv
<1>6. StartedInv'
  <2>1. ASSUME NEW c \in Clients PROVE at[t] \in {"sync", "apply"} /\ (t \in Loops \/ (t = c /\ at[t] = "apply"))
    BY DEF Processing, Clients, OneClient, RInv, PlaceInv
  <2>2. ASSUME NEW c \in Clients, backgrounded, cpc[c] = "idle" PROVE at[c] = "apply" => hadSome[c]
    BY <1>2, <2>2 DEF StartedInv
  <2>3. ASSUME NEW c \in Clients, backgrounded, cpc[c] = "idle" PROVE hadSome[t]
    BY <1>2, <2>1, <2>2, <2>3 DEF SyncInv
  <2>. QED BY <1>2, <2>1, <2>2, <2>3 DEF StartedInv, Live
<1>7. SyncInv'
  <2>1. \A l \in Loops, c \in Clients : at[l] = "sync" => at[c] # "apply"
    BY DEF Conflict, Processing, Clients
  <2>. QED BY <1>2, <2>1 DEF SyncInv
<1>. QED BY <1>3, <1>4, <1>5, <1>6, <1>7

\* What was done to the detectors starts the loop, stops it or neither.
LEMMA AppliedChange ==
    ASSUME RInv, OneClient, ~Conflict, ChangeInv, NEW t \in Controllers, Applied(t)
    PROVE  ChangeInv'
<1>. USE LoopsAreControllers DEF Applied, Go, Start, Stop, Background, Unbackground, Ready, Move, vars,
     stateVars, latchVars, loopVars, callVars, runnerVars
<1>1. Void => Void'
  BY DEF RInv, RunnerTypeOK, CoreInv, TypeOK, LoopInv, WaitInv, PlaceInv, Void, Leaving, Clients, OneClient
<1>. SUFFICES ASSUME ~Void' PROVE ToggleInv' /\ CallingInv' /\ StoppedInv' /\ StartedInv' /\ SyncInv'
  BY DEF ChangeInv
<1>2. ~Void /\ ToggleInv /\ CallingInv /\ StoppedInv /\ StartedInv /\ SyncInv
  BY <1>1 DEF ChangeInv
<1>3. ToggleInv'
  BY <1>2 DEF RInv, RunnerTypeOK, CoreInv, TypeOK, Void, Left, ToggleInv, Decided, PlaceInv, Clients,
       OneClient
<1>4. CallingInv'
  BY <1>2 DEF RInv, RunnerTypeOK, CoreInv, TypeOK, Void, Left, LoopInv, WaitInv, CallingInv, Leaving,
       PlaceInv, Clients, OneClient
<1>5. ASSUME t \in Loops PROVE StoppedInv' /\ StartedInv' /\ SyncInv'
  <2>1. UNCHANGED vars /\ (~Changed(t) \/ backgrounded)
    BY <1>5 DEF RInv, RunnerTypeOK, CoreInv, TypeOK, Void
  <2>2. at' = [at EXCEPT ![t] = at'[t]] /\ at'[t] \notin {"sync", "apply"} /\ at[t] = "apply"
    BY <1>5 DEF RInv, RunnerTypeOK, CoreInv, TypeOK, Clients
  <2>3. \A c \in Clients : at'[c] = at[c]
    BY <1>5, <2>2 DEF RInv, RunnerTypeOK, CoreInv, TypeOK, Clients
  <2>4. \A l \in Loops : at'[l] \in {"sync", "apply"} => at'[l] = at[l]
    BY <2>2 DEF RInv, RunnerTypeOK, CoreInv, TypeOK
  <2>5. \A l \in Loops : l # t => at[l] = "idle"
    BY <1>5, <2>2 DEF RInv, RunnerTypeOK, CoreInv, TypeOK, LoopInv
  <2>6. StoppedInv'
    BY <1>2, <2>1, <2>3 DEF StoppedInv, Left
  <2>7. SyncInv'
    BY <1>2, <2>1, <2>3, <2>4 DEF SyncInv, Left
  <2>8. Changed(t) => Left
    BY <2>1 DEF RInv, RunnerTypeOK, CoreInv, TypeOK, Void, Changed, Left
  <2>9. ~Changed(t) => hadSome[t] = Left
    BY DEF RInv, RunnerTypeOK, CoreInv, TypeOK, Changed, Left
  <2>10. StartedInv'
    BY <1>2, <2>1, <2>2, <2>3, <2>5, <2>8, <2>9 DEF StartedInv, Left, Live
  <2>. QED BY <2>6, <2>7, <2>10
<1>6. ASSUME t \notin Loops PROVE StoppedInv' /\ StartedInv' /\ SyncInv'
  <2>1. t \in Clients /\ \A c \in Clients : c = t
    BY <1>6 DEF Clients, OneClient
  <2>2. at[t] = "apply" /\ at'[t] # "apply" /\ \A l \in Loops : at'[l] = at[l]
    BY <1>6 DEF RInv, RunnerTypeOK, CoreInv, TypeOK, Clients
  <2>3. CASE Changed(t) /\ Left
    <3>1. Start(t) /\ at'[t] = "called"
      BY <2>1, <2>3 DEF Left, RInv, RunnerTypeOK, CoreInv, TypeOK
    <3>2. backgrounded'
      BY <3>1
    <3>3. Left' /\ (cpc'[t] = "idle" => backgrounded /\ UNCHANGED vars)
      BY <2>1, <2>3, <3>1 DEF Left, RInv, RunnerTypeOK, CoreInv, TypeOK
    <3>4. StoppedInv'
      BY <3>2 DEF StoppedInv
    <3>5. StartedInv'
      BY <1>2, <2>1, <2>2, <3>2, <3>3 DEF StartedInv, Live
    <3>6. SyncInv'
      BY <1>2, <2>1, <2>2, <2>3, <3>3 DEF SyncInv, Left
    <3>. QED BY <3>4, <3>5, <3>6
  <2>4. CASE Changed(t) /\ ~Left
    <3>1. ~backgrounded' /\ cpc'[t] # "idle" /\ ~Left' /\ UNCHANGED <<changes, toggle, hadSome>>
      BY <2>1, <2>4 DEF Left, RInv, RunnerTypeOK, CoreInv, TypeOK
    <3>. QED BY <1>2, <2>1, <2>2, <3>1 DEF StoppedInv, StartedInv, SyncInv
  <2>5. CASE ~Changed(t)
    <3>1. UNCHANGED vars /\ at'[t] = "idle" /\ hadSome[t] = Left /\ changes = <<>>
      BY <2>1, <2>5 DEF Left, RInv, RunnerTypeOK, CoreInv, TypeOK, Changed, Clients
    <3>2. Left' = Left /\ hadSome' = hadSome /\ toggle' = toggle
      BY DEF Left
    <3>3. cpc[t] = "idle"
      BY <1>2, <2>1, <2>2 DEF RInv, PlaceInv, Void
    <3>4. StoppedInv'
      BY <1>2, <2>1, <2>2, <3>1, <3>2 DEF StoppedInv
    <3>5. StartedInv'
      BY <1>2, <2>1, <2>2, <3>1, <3>2 DEF StartedInv, Live
    <3>6. SyncInv'
      BY <1>2, <2>1, <2>2, <3>1, <3>2 DEF SyncInv
    <3>. QED BY <3>4, <3>5, <3>6
  <2>. QED BY <2>3, <2>4, <2>5
<1>. QED BY <1>3, <1>4, <1>5, <1>6

\* A call of the inherited code is over.
LEMMA ReturnedChange ==
    ASSUME RInv, OneClient, ~Conflict, ChangeInv, NEW t \in Controllers, Returned(t)
    PROVE  ChangeInv'
<1>. USE LoopsAreControllers DEF Returned, Go, vars, stateVars, latchVars, loopVars, callVars, runnerVars
<1>1. Void => Void'
  BY DEF RInv, RunnerTypeOK, CoreInv, TypeOK, LoopInv, WaitInv, PlaceInv, Void, Leaving, Clients, OneClient
<1>. SUFFICES ASSUME ~Void' PROVE ToggleInv' /\ CallingInv' /\ StoppedInv' /\ StartedInv' /\ SyncInv'
  BY DEF ChangeInv
<1>2. ~Void /\ ToggleInv /\ CallingInv /\ StoppedInv /\ StartedInv /\ SyncInv
  BY <1>1 DEF ChangeInv
<1>3. ToggleInv'
  BY <1>2 DEF RInv, RunnerTypeOK, CoreInv, TypeOK, Void, Left, ToggleInv, Decided, PlaceInv, Clients,
       OneClient
<1>4. CallingInv'
  BY <1>2 DEF RInv, RunnerTypeOK, CoreInv, TypeOK, Void, Left, LoopInv, WaitInv, CallingInv, Leaving,
       PlaceInv, Clients, OneClient
<1>5. StoppedInv'
  BY <1>2 DEF RInv, RunnerTypeOK, CoreInv, TypeOK, Void, Left, StoppedInv, CallingInv, Leaving, PlaceInv,
       Clients, OneClient
<1>6. StartedInv'
  <2>1. at' = [at EXCEPT ![t] = at'[t]] /\ at[t] = "called" /\ at'[t] \in {"idle", "clear"} /\ Left' = Left
    BY DEF RInv, RunnerTypeOK, CoreInv, TypeOK, Left
  <2>2. \A c \in Clients : at'[c] = "apply" <=> at[c] = "apply"
    BY <2>1 DEF RInv, RunnerTypeOK, CoreInv, TypeOK, Clients
  <2>3. \A l \in Loops : at[l] \in {"sync", "apply"} => at'[l] = at[l]
    BY <2>1 DEF RInv, RunnerTypeOK, CoreInv, TypeOK
  <2>. QED BY <1>2, <2>1, <2>2, <2>3 DEF StartedInv, Live
<1>7. SyncInv'
  BY <1>2 DEF RInv, RunnerTypeOK, CoreInv, TypeOK, Void, Left, SyncInv, LoopInv, WaitInv, PlaceInv,
       Clients, OneClient
<1>. QED BY <1>3, <1>4, <1>5, <1>6, <1>7

\* update() begins.
LEMMA EnterUpdateChange ==
    ASSUME RInv, OneClient, ~Conflict, ChangeInv, NEW l \in Loops, EnterUpdate(l)
    PROVE  ChangeInv'
<1>. USE LoopsAreControllers DEF EnterUpdate, Go, vars, stateVars, latchVars, loopVars, callVars, runnerVars
<1>1. Void => Void'
  BY DEF RInv, RunnerTypeOK, CoreInv, TypeOK, LoopInv, WaitInv, PlaceInv, Void, Leaving, Clients, OneClient
<1>. SUFFICES ASSUME ~Void' PROVE ToggleInv' /\ CallingInv' /\ StoppedInv' /\ StartedInv' /\ SyncInv'
  BY DEF ChangeInv
<1>2. ~Void /\ ToggleInv /\ CallingInv /\ StoppedInv /\ StartedInv /\ SyncInv
  BY <1>1 DEF ChangeInv
<1>3. ToggleInv'
  BY <1>2 DEF RInv, RunnerTypeOK, CoreInv, TypeOK, Void, Left, ToggleInv, Decided, PlaceInv, Clients,
       OneClient
<1>4. CallingInv'
  BY <1>2 DEF RInv, RunnerTypeOK, CoreInv, TypeOK, Void, Left, LoopInv, WaitInv, CallingInv, Leaving,
       PlaceInv, Clients, OneClient
<1>5. StoppedInv'
  BY <1>2 DEF RInv, RunnerTypeOK, CoreInv, TypeOK, Void, Left, StoppedInv, CallingInv, Leaving, PlaceInv,
       Clients, OneClient
<1>6. StartedInv'
  <2>1. \A k \in Loops : at[k] \in {"sync", "apply"} => at'[k] = at[k] /\ hadSome'[k] = hadSome[k]
    BY DEF RInv, RunnerTypeOK, CoreInv, TypeOK
  <2>2. \A c \in Clients : at'[c] = at[c] /\ hadSome'[c] = hadSome[c]
    BY DEF RInv, RunnerTypeOK, CoreInv, TypeOK, Clients
  <2>. QED BY <1>2, <2>1, <2>2 DEF StartedInv, Live, Left
<1>7. SyncInv'
  <2>. SUFFICES ASSUME NEW k \in Loops, NEW c \in Clients
                PROVE  /\ at'[k] \in {"sync", "apply"} /\ ~hadSome'[k] =>
                           /\ ~Left /\ changes = <<>>
                           /\ toggle[k] \/ (at'[c] = "apply" /\ hadSome'[c]) \/ cpc[c] # "idle"
                       /\ at'[k] = "sync" /\ hadSome'[k] /\ ~Left /\ at'[c] = "apply" => ~hadSome'[c]
    BY DEF SyncInv, Left
  <2>1. lpc[l] = "update" /\ \A m \in Loops : at[m] # "idle" => m = l
    BY DEF RInv, RunnerTypeOK, CoreInv, TypeOK, LoopInv
  <2>2. at'[k] # "idle" => k = l
    BY <2>1 DEF RInv, RunnerTypeOK, CoreInv, TypeOK
  <2>3. at'[c] = at[c] /\ hadSome'[c] = hadSome[c]
    BY DEF RInv, RunnerTypeOK, CoreInv, TypeOK, Clients
  <2>4. hadSome'[l] = Left
    BY DEF RInv, RunnerTypeOK, CoreInv, TypeOK, Left
  <2>5. ASSUME at'[l] \in {"sync", "apply"}, ~Left
        PROVE  changes = <<>> /\ (toggle[l] \/ (at[c] = "apply" /\ hadSome[c]) \/ cpc[c] # "idle")
    <3>1. \/ toggle[l] /\ changes = <<>>
          \/ at[c] = "apply" /\ hadSome[c]
          \/ cpc[c] # "idle" /\ changes = <<>>
      BY <1>2, <2>1, <2>5, NoneFound
    <3>2. at[c] = "apply" => changes = <<>>
      BY <2>3, <2>5 DEF Void, Conflict, Processing, Clients
    <3>. QED BY <3>1, <3>2
  <2>. QED BY <2>2, <2>3, <2>4, <2>5
<1>. QED BY <1>3, <1>4, <1>5, <1>6, <1>7

\* The changes are in.
LEMMA SyncedChange ==
    ASSUME RInv, OneClient, ~Conflict, ChangeInv, NEW l \in Loops, Synced(l)
    PROVE  ChangeInv'
<1>. USE LoopsAreControllers DEF Synced, Go, vars, stateVars, latchVars, loopVars, callVars, runnerVars
<1>1. Void => Void'
  BY DEF RInv, RunnerTypeOK, CoreInv, TypeOK, LoopInv, WaitInv, PlaceInv, Void, Leaving, Clients, OneClient
<1>. SUFFICES ASSUME ~Void' PROVE ToggleInv' /\ CallingInv' /\ StoppedInv' /\ StartedInv' /\ SyncInv'
  BY DEF ChangeInv
<1>2. ~Void /\ ToggleInv /\ CallingInv /\ StoppedInv /\ StartedInv /\ SyncInv
  BY <1>1 DEF ChangeInv
<1>3. ToggleInv'
  <2>1. ASSUME NEW c \in Clients, Changed(l) PROVE hadSome[l] /\ ~Left /\ (at[c] = "apply" => ~hadSome[c])
    BY <1>2, <2>1 DEF SyncInv, Changed, Left, RInv, RunnerTypeOK
  <2>2. \E c \in Controllers : c \in Clients
    BY DEF OneClient
  <2>3. toggle' = [toggle EXCEPT ![l] = Changed(l)] /\ Left' = Left /\ \A c \in Clients : at'[c] = at[c]
    BY DEF Left, RInv, RunnerTypeOK, CoreInv, TypeOK, Clients
  <2>4. at'[l] = "frame" /\ \A k \in Loops \ {l} : at'[k] = at[k] /\ toggle'[k] = toggle[k]
    BY DEF RInv, RunnerTypeOK, CoreInv, TypeOK
  <2>5. toggle'[l] = Changed(l)
    BY <2>3 DEF RInv, RunnerTypeOK, CoreInv, TypeOK
  <2>. QED BY <1>2, <2>1, <2>2, <2>3, <2>4, <2>5 DEF ToggleInv, Decided
<1>4. CallingInv'
  BY <1>2 DEF RInv, RunnerTypeOK, CoreInv, TypeOK, Void, Left, LoopInv, WaitInv, CallingInv, Leaving,
       PlaceInv, Clients, OneClient
<1>5. StoppedInv'
  BY <1>2 DEF RInv, RunnerTypeOK, CoreInv, TypeOK, Void, Left, StoppedInv, CallingInv, Leaving, PlaceInv,
       Clients, OneClient
<1>6. StartedInv'
  <2>1. \A k \in Loops : at[k] # "idle" => k = l
    BY DEF RInv, RunnerTypeOK, CoreInv, TypeOK, LoopInv
  <2>2. ~toggle[l] /\ \A k \in Loops : toggle[k] => k = l
    BY <1>2, <2>1 DEF ToggleInv, Decided
  <2>3. toggle'[l] = Changed(l)
    BY DEF RInv, RunnerTypeOK, CoreInv, TypeOK
  <2>4. hadSome[l] /\ ~Left => Changed(l)
    BY DEF RInv, RunnerTypeOK, CoreInv, TypeOK, Changed, Left
  <2>5. \A c \in Clients : at'[c] = at[c]
    BY DEF RInv, RunnerTypeOK, CoreInv, TypeOK, Clients
  <2>6. Left' = Left /\ (Changed(l) => toggle'[l])
    BY <2>3 DEF Left
  <2>. QED BY <1>2, <2>1, <2>2, <2>4, <2>5, <2>6 DEF StartedInv, Live
<1>7. SyncInv'
  BY <1>2 DEF RInv, RunnerTypeOK, CoreInv, TypeOK, Void, Left, SyncInv, LoopInv, WaitInv, PlaceInv,
       Clients, OneClient
<1>. QED BY <1>3, <1>4, <1>5, <1>6, <1>7

\* A frame is there or not.
LEMMA LookForFrameChange ==
    ASSUME RInv, OneClient, ~Conflict, ChangeInv, NEW l \in Loops, LookForFrame(l)
    PROVE  ChangeInv'
<1>. USE LoopsAreControllers DEF LookForFrame, Go, vars, stateVars, latchVars, loopVars, callVars,
     runnerVars
<1>1. Void => Void'
  BY DEF RInv, RunnerTypeOK, CoreInv, TypeOK, LoopInv, WaitInv, PlaceInv, Void, Leaving, Clients, OneClient
<1>. SUFFICES ASSUME ~Void' PROVE ToggleInv' /\ CallingInv' /\ StoppedInv' /\ StartedInv' /\ SyncInv'
  BY DEF ChangeInv
<1>2. ~Void /\ ToggleInv /\ CallingInv /\ StoppedInv /\ StartedInv /\ SyncInv
  BY <1>1 DEF ChangeInv
<1>3. ToggleInv'
  BY <1>2 DEF RInv, RunnerTypeOK, CoreInv, TypeOK, Void, Left, ToggleInv, Decided, PlaceInv, Clients,
       OneClient
<1>4. CallingInv'
  BY <1>2 DEF RInv, RunnerTypeOK, CoreInv, TypeOK, Void, Left, LoopInv, WaitInv, CallingInv, Leaving,
       PlaceInv, Clients, OneClient
<1>5. StoppedInv'
  BY <1>2 DEF RInv, RunnerTypeOK, CoreInv, TypeOK, Void, Left, StoppedInv, CallingInv, Leaving, PlaceInv,
       Clients, OneClient
<1>6. StartedInv'
  BY <1>2 DEF RInv, RunnerTypeOK, CoreInv, TypeOK, Void, Left, StartedInv, CallingInv, ToggleInv, Live,
       Leaving, PlaceInv, Clients, OneClient
<1>7. SyncInv'
  <2>. SUFFICES ASSUME NEW k \in Loops, NEW c \in Clients
                PROVE  /\ at'[k] \in {"sync", "apply"} /\ ~hadSome'[k] =>
                           /\ ~Left /\ changes = <<>>
                           /\ toggle[k] \/ (at'[c] = "apply" /\ hadSome'[c]) \/ cpc[c] # "idle"
                       /\ at'[k] = "sync" /\ hadSome'[k] /\ ~Left /\ at'[c] = "apply" => ~hadSome'[c]
    BY DEF SyncInv, Left
  <2>1. lpc[l] = "update" /\ \A m \in Loops : at[m] # "idle" => m = l
    BY DEF RInv, RunnerTypeOK, CoreInv, TypeOK, LoopInv
  <2>2. at'[k] # "idle" => k = l
    BY <2>1 DEF RInv, RunnerTypeOK, CoreInv, TypeOK
  <2>3. at'[c] = at[c] /\ hadSome'[c] = hadSome[c]
    BY DEF RInv, RunnerTypeOK, CoreInv, TypeOK, Clients
  <2>4. hadSome'[l] = Left
    BY DEF RInv, RunnerTypeOK, CoreInv, TypeOK, Left
  <2>5. ASSUME at'[l] \in {"sync", "apply"}, ~Left
        PROVE  changes = <<>> /\ (toggle[l] \/ (at[c] = "apply" /\ hadSome[c]) \/ cpc[c] # "idle")
    <3>1. \/ toggle[l] /\ changes = <<>>
          \/ at[c] = "apply" /\ hadSome[c]
          \/ cpc[c] # "idle" /\ changes = <<>>
      BY <1>2, <2>1, <2>5, NoneFound
    <3>2. at[c] = "apply" => changes = <<>>
      BY <2>3, <2>5 DEF Void, Conflict, Processing, Clients
    <3>. QED BY <3>1, <3>2
  <2>. QED BY <2>2, <2>3, <2>4, <2>5
<1>. QED BY <1>3, <1>4, <1>5, <1>6, <1>7

\* The detectors have seen it.
LEMMA DetectedChange ==
    ASSUME RInv, OneClient, ~Conflict, ChangeInv, NEW l \in Loops, Detected(l)
    PROVE  ChangeInv'
<1>1. /\ UNCHANGED <<backgrounded, onClean, destroyed, changes, detectors, hadSome, toggle, overtaken>>
      /\ \A t \in Controllers : cpc'[t] = "idle" <=> cpc[t] = "idle"
      /\ \A c \in Clients : at'[c] = at[c]
      /\ \A k \in Loops : \/ at'[k] = at[k]
                          \/ /\ {at[k], at'[k]} \cap {"sync", "apply"} = {}
                             /\ at[k] \in Decided => at'[k] \in Decided
      /\ \A k \in Loops : Live(k) /\ backgrounded => Live(k)'
  BY LoopsAreControllers
     DEF Detected, Go, vars, stateVars, loopVars, callVars, runnerVars, RInv, RunnerTypeOK, CoreInv,
          TypeOK, ChangeInv,
         Decided, Clients, Live
<1>. QED BY <1>1, ChangeKept

\* Its flag is taken down.
LEMMA ClearFrameChange ==
    ASSUME RInv, OneClient, ~Conflict, ChangeInv, NEW l \in Loops, ClearFrame(l)
    PROVE  ChangeInv'
<1>1. /\ UNCHANGED <<backgrounded, onClean, destroyed, changes, detectors, hadSome, toggle, overtaken>>
      /\ \A t \in Controllers : cpc'[t] = "idle" <=> cpc[t] = "idle"
      /\ \A c \in Clients : at'[c] = at[c]
      /\ \A k \in Loops : \/ at'[k] = at[k]
                          \/ /\ {at[k], at'[k]} \cap {"sync", "apply"} = {}
                             /\ at[k] \in Decided => at'[k] \in Decided
      /\ \A k \in Loops : Live(k) /\ backgrounded => Live(k)'
  BY LoopsAreControllers
     DEF ClearFrame, Go, vars, stateVars, loopVars, callVars, runnerVars, RInv, RunnerTypeOK, CoreInv,
          TypeOK, ChangeInv,
         Decided, Clients, Live
<1>. QED BY <1>1, ChangeKept

\* The loop stops itself, or calls background() and waits for itself.
LEMMA ToggleChange ==
    ASSUME RInv, OneClient, ~Conflict, ChangeInv, NEW l \in Loops, Toggle(l)
    PROVE  ChangeInv'
<1>. USE LoopsAreControllers DEF Toggle, Go, Start, Stop, Background, Unbackground, Ready, Move, vars,
     stateVars, latchVars, loopVars, callVars, runnerVars
<1>1. Void => Void'
  BY DEF RInv, RunnerTypeOK, CoreInv, TypeOK, LoopInv, WaitInv, PlaceInv, Void, Leaving, Clients, OneClient
<1>. SUFFICES ASSUME ~Void' PROVE ToggleInv' /\ CallingInv' /\ StoppedInv' /\ StartedInv' /\ SyncInv'
  BY DEF ChangeInv
<1>2. ~Void /\ ToggleInv /\ CallingInv /\ StoppedInv /\ StartedInv /\ SyncInv
  BY <1>1 DEF ChangeInv
<1>3. ToggleInv'
  BY <1>2 DEF RInv, RunnerTypeOK, CoreInv, TypeOK, Void, Left, ToggleInv, Decided, PlaceInv, Clients,
       OneClient
<1>4. ASSUME toggle[l] PROVE CallingInv' /\ StoppedInv' /\ StartedInv'
  <2>1. backgrounded /\ Unbackground(l, FALSE)
    BY <1>4 DEF RInv, RunnerTypeOK, CoreInv, TypeOK, Void
  <2>2. \A c \in Clients : cpc[c] = "idle"
    BY <1>2, <1>4, <2>1 DEF CallingInv, ToggleInv
  <2>3. ~backgrounded' /\ cpc' = cpc /\ Left' = Left /\ \A c \in Clients : at'[c] = at[c]
    BY <2>1 DEF Left, RInv, RunnerTypeOK, CoreInv, TypeOK, Clients
  <2>4. CallingInv' /\ StartedInv'
    BY <2>2, <2>3 DEF CallingInv, StartedInv
  <2>5. changes' = changes /\ hadSome' = hadSome
    OBVIOUS
  <2>6. /\ ~Left /\ changes = <<>>
        /\ \A c \in Clients : at[c] = "apply" => ~hadSome[c]
    BY <1>2, <1>4 DEF ToggleInv
  <2>7. StoppedInv'
    BY <2>3, <2>5, <2>6 DEF StoppedInv
  <2>. QED BY <2>4, <2>7
<1>5. ASSUME ~toggle[l] PROVE CallingInv' /\ StoppedInv' /\ StartedInv'
  <2>1. UNCHANGED vars /\ Left' = Left /\ (\A c \in Clients : at'[c] = at[c]) /\ toggle' = toggle
    BY <1>5 DEF Left, RInv, RunnerTypeOK, CoreInv, TypeOK, Clients
  <2>2. \A k \in Loops : at[k] \in {"sync", "apply"} => at'[k] = at[k]
    BY DEF RInv, RunnerTypeOK, CoreInv, TypeOK
  <2>3. UNCHANGED <<changes, hadSome, backgrounded, cpc, onClean, lpc, inBackground>>
    BY <2>1
  <2>4. CallingInv' /\ StoppedInv'
    BY <1>2, <2>1, <2>3 DEF CallingInv, StoppedInv
  <2>5. StartedInv'
    BY <1>2, <2>1, <2>2, <2>3 DEF StartedInv, Live
  <2>. QED BY <2>4, <2>5
<1>7. SyncInv'
  BY <1>2 DEF RInv, RunnerTypeOK, CoreInv, TypeOK, Void, Left, SyncInv, LoopInv, WaitInv, PlaceInv,
       Clients, OneClient
<1>. QED BY <1>3, <1>4, <1>5, <1>7

\* update() is over.
LEMMA LeaveUpdateChange ==
    ASSUME RInv, OneClient, ~Conflict, ChangeInv, NEW l \in Loops, LeaveUpdate(l)
    PROVE  ChangeInv'
<1>1. /\ UNCHANGED <<backgrounded, onClean, destroyed, changes, detectors, hadSome, toggle, overtaken>>
      /\ \A t \in Controllers : cpc'[t] = "idle" <=> cpc[t] = "idle"
      /\ \A c \in Clients : at'[c] = at[c]
      /\ \A k \in Loops : \/ at'[k] = at[k]
                          \/ /\ {at[k], at'[k]} \cap {"sync", "apply"} = {}
                             /\ at[k] \in Decided => at'[k] \in Decided
      /\ \A k \in Loops : Live(k) /\ backgrounded => Live(k)'
  BY LoopsAreControllers
     DEF LeaveUpdate, Go, UpdateDone, Step, vars, stateVars, loopVars, callVars, runnerVars, RInv,
          RunnerTypeOK, CoreInv, TypeOK, ChangeInv,
         Decided, Clients, Live
<1>. QED BY <1>1, ChangeKept

\* The camera has a frame.
LEMMA FrameArrivesChange ==
    ASSUME RInv, OneClient, ~Conflict, ChangeInv, FrameArrives
    PROVE  ChangeInv'
<1>1. /\ UNCHANGED <<backgrounded, onClean, destroyed, changes, detectors, hadSome, toggle, overtaken>>
      /\ \A t \in Controllers : cpc'[t] = "idle" <=> cpc[t] = "idle"
      /\ \A c \in Clients : at'[c] = at[c]
      /\ \A l \in Loops : \/ at'[l] = at[l]
                          \/ /\ {at[l], at'[l]} \cap {"sync", "apply"} = {}
                             /\ at[l] \in Decided => at'[l] \in Decided
      /\ \A l \in Loops : Live(l) /\ backgrounded => Live(l)'
  BY LoopsAreControllers
     DEF FrameArrives, vars, stateVars, loopVars, callVars, runnerVars, RInv, RunnerTypeOK, CoreInv,
          TypeOK, ChangeInv,
         Decided, Clients, Live
<1>. QED BY <1>1, ChangeKept

\* Nothing happens.
LEMMA StutterRunner == ASSUME RInv, ChangeInv, UNCHANGED allVars PROVE RInv' /\ ChangeInv'
<1>. USE DEF allVars, vars, stateVars, latchVars, loopVars, callVars, runnerVars
<1>1. CoreInv'
  BY StutterCore DEF RInv
<1>2. RunnerTypeOK'
  BY <1>1 DEF RInv, RunnerTypeOK, CoreInv
<1>3. Leaving' = Leaving /\ Conflict' = Conflict
  BY DEF Leaving, Conflict, Processing
<1>4. PlaceInv' /\ TurnInv'
  BY <1>3 DEF RInv, PlaceInv, TurnInv, Inert
<1>5. ChangeInv'
  BY <1>3 DEF ChangeInv, Void, Left, ToggleInv, CallingInv, StoppedInv, StartedInv, SyncInv, Live
<1>. QED BY <1>1, <1>2, <1>4, <1>5 DEF RInv

\* Nobody has called anything at first.
LEMMA InitRunner == RunnerInit => RInv /\ ChangeInv
<1>. SUFFICES ASSUME RunnerInit PROVE RInv /\ ChangeInv
  OBVIOUS
<1>. USE DEF RunnerInit, Init
<1>1. TypeOK
  BY InitIInv DEF IInv
<1>2. CoreInv
  BY <1>1, LoopsAreControllers DEF CoreInv, LoopInv, WaitInv, NoLoopAfterDestruction, Running, Clients
<1>3. RunnerTypeOK
  <2>1. changes \in Seq(Changes) /\ calls \in 0..MaxCalls /\ detectors \in SUBSET Detectors
    BY MaxCallsAssumption
  <2>2. at \in [Controllers -> Locations] /\ \A l \in Loops : at[l] = "idle"
    BY LoopsAreControllers DEF Locations
  <2>. QED BY <1>1, <2>1, <2>2 DEF RunnerTypeOK
<1>4. ~Leaving /\ PlaceInv /\ TurnInv
  BY LoopsAreControllers DEF PlaceInv, TurnInv, Inert, Leaving, Clients
<1>5. ChangeInv
  BY LoopsAreControllers DEF ChangeInv, Left, ToggleInv, CallingInv, StoppedInv, StartedInv, SyncInv,
       Clients
<1>. QED BY <1>2, <1>3, <1>4, <1>5 DEF RInv

\* Every step of a runner with one client.
LEMMA NextRunner == ASSUME OneClient, RInv, ChangeInv, [RunnerNext]_allVars PROVE RInv' /\ ChangeInv'
<1>1. CASE UNCHANGED allVars
  BY <1>1, StutterRunner
<1>. SUFFICES ASSUME RunnerNext PROVE RInv' /\ ChangeInv'
  BY <1>1
<1>2. ~Conflict
  BY DEF RunnerNext
<1>3. ASSUME NEW t \in Controllers, Apply(t) \/ Applied(t) \/ Returned(t) PROVE RInv' /\ ChangeInv'
  BY <1>2, <1>3, ApplyTurn, ApplyChange, AppliedTurn, AppliedChange, ReturnedTurn, ReturnedChange
<1>4. ASSUME NEW c \in Clients PROVE c \in Controllers
  BY DEF Clients
<1>5. ASSUME NEW c \in Clients, NEW change \in Changes, NEW join \in JoinArgs, Push(c, change, join)
      PROVE  RInv' /\ ChangeInv'
  BY <1>2, <1>5, JoinArgsAssumption, PushTurn, PushChange
<1>6. ASSUME NEW c \in Clients, DestroyRunner(c) \/ ClientCode(c) PROVE RInv' /\ ChangeInv'
  BY <1>2, <1>3, <1>4, <1>6, DestroyRunnerTurn, DestroyRunnerChange, AskTurn, AskChange DEF ClientCode
<1>7. ASSUME NEW l \in Loops, LoopCode(l) PROVE RInv' /\ ChangeInv'
  <2>1. CASE EnterUpdate(l)
    BY <1>2, <2>1, EnterUpdateTurn, EnterUpdateChange
  <2>2. CASE Synced(l)
    BY <1>2, <2>2, SyncedTurn, SyncedChange
  <2>3. CASE LookForFrame(l)
    BY <1>2, <2>3, LookForFrameTurn, LookForFrameChange
  <2>4. CASE Detected(l)
    BY <1>2, <2>4, DetectedTurn, DetectedChange
  <2>5. CASE ClearFrame(l)
    BY <1>2, <2>5, ClearFrameTurn, ClearFrameChange
  <2>6. CASE Toggle(l)
    BY <1>2, <2>6, ToggleTurn, ToggleChange
  <2>7. CASE LeaveUpdate(l)
    BY <1>2, <2>7, LeaveUpdateTurn, LeaveUpdateChange
  <2>. QED BY <1>3, <1>7, <2>1, <2>2, <2>3, <2>4, <2>5, <2>6, <2>7, LoopsAreControllers DEF LoopCode
<1>8. ASSUME Inherited PROVE RInv' /\ ChangeInv'
  <2>1. UNCHANGED runnerVars
    BY <1>8 DEF Inherited
  <2>2. ASSUME NEW t \in Controllers, CleanUpStep(t) \/ SpuriousWakeup(t) PROVE RInv' /\ ChangeInv'
    <3>1. CASE CleanUp(t)
      BY <1>2, <2>1, <3>1, CleanUpTurn, CleanUpChange
    <3>2. CASE AwaitStopped(t)
      BY <1>2, <2>1, <3>2, AwaitStoppedTurn, AwaitStoppedChange
    <3>3. CASE Woken(t)
      BY <1>2, <2>1, <3>3, WokenTurn, WokenChange
    <3>4. CASE SpuriousWakeup(t)
      BY <1>2, <2>1, <3>4, SpuriousWakeupTurn, SpuriousWakeupChange
    <3>5. CASE Join(t)
      BY <1>2, <2>1, <3>5, JoinTurn, JoinChange
    <3>6. CASE Create(t)
      BY <1>2, <2>1, <3>6, CreateTurn, CreateChange
    <3>. QED BY <2>2, <3>1, <3>2, <3>3, <3>4, <3>5, <3>6 DEF CleanUpStep
  <2>3. ASSUME NEW l \in Loops,
               ReadState(l) \/ ApplySettings(l) \/ Awakes(l) \/ SignalStopped(l) \/ Finish(l)
        PROVE  RInv' /\ ChangeInv'
    <3>1. CASE ReadState(l)
      BY <1>2, <2>1, <3>1, ReadStateTurn, ReadStateChange
    <3>2. CASE ApplySettings(l)
      BY <1>2, <2>1, <3>2, ApplySettingsTurn, ApplySettingsChange
    <3>3. CASE Awakes(l)
      BY <1>2, <2>1, <3>3, AwakesTurn, AwakesChange
    <3>4. CASE SignalStopped(l)
      BY <1>2, <2>1, <3>4, SignalStoppedTurn, SignalStoppedChange
    <3>5. CASE Finish(l)
      BY <1>2, <2>1, <3>5, FinishTurn, FinishChange
    <3>. QED BY <2>3, <3>1, <3>2, <3>3, <3>4, <3>5
  <2>. QED BY <1>8, <2>2, <2>3 DEF Inherited
<1>9. ASSUME FrameArrives PROVE RInv' /\ ChangeInv'
  BY <1>2, <1>9, FrameArrivesTurn, FrameArrivesChange
<1>. QED BY <1>5, <1>6, <1>7, <1>8, <1>9 DEF RunnerNext

\* What the invariant says of the life of the loop: two threads at the detectors are the
\* client and a loop, and then the client did not wait for its turn.
LEMMA RInvLifetime == ASSUME OneClient, RInv PROVE RunnerLifetime
<1>1. OneLoop
  <2>1. Running \subseteq {thread}
    BY DEF RInv, CoreInv, LoopInv, Running
  <2>2. CASE Running = {}
    BY <2>2, FS_EmptySet DEF OneLoop
  <2>3. CASE Running # {}
    <3>1. Running = {thread}
      BY <2>1, <2>3
    <3>2. Cardinality({thread}) = 1
      BY FS_Singleton
    <3>. QED BY <3>1, <3>2 DEF OneLoop
  <2>. QED BY <2>2, <2>3
<1>2. RacesOnlyWhenJoining
  <2>. SUFFICES ASSUME NEW t \in Controllers, NEW u \in Controllers, t # u,
                       Processing(t), Processing(u) \/ at[u] = "detect"
                PROVE  \E c \in Clients : Processing(c) /\ joining[c]
    BY DEF RacesOnlyWhenJoining, Conflict
  <2>1. \A l \in Loops : at[l] # "idle" => lpc[l] = "update" /\ thread = l
    BY DEF RInv, RunnerTypeOK, CoreInv, LoopInv
  <2>2. \A l \in Loops : at[l] \in {"sync", "apply", "detect"} => ~Inert(l)
    BY <2>1 DEF Inert
  <2>3. ASSUME NEW c \in Clients, NEW l \in Loops, at[l] \in {"sync", "apply", "detect"}, Processing(c)
        PROVE  joining[c]
    <3>1. at[c] = "apply" /\ ~Leaving /\ cpc[c] = "idle"
      BY <2>3 DEF RInv, PlaceInv, Processing
    <3>. QED BY <2>2, <2>3, <3>1 DEF RInv, TurnInv
  <2>4. ~(t \in Clients /\ u \in Clients) /\ ~(t \in Loops /\ u \in Loops)
    BY <2>1 DEF OneClient, Processing
  <2>5. \A c \in Clients : at[c] # "detect"
    BY DEF RInv, PlaceInv
  <2>. QED BY <2>3, <2>4, <2>5 DEF Processing, Clients
<1>. QED BY <1>1, <1>2 DEF RunnerLifetime, RInv, CoreInv

\* What it says of a runner at rest.
LEMMA ChangeInvStopped == ASSUME OneClient, RInv, ChangeInv PROVE StoppedMeansEmpty
<1>. SUFFICES ASSUME Running = {}, ~Leaving, \A t \in Controllers : at[t] = "idle" /\ cpc[t] = "idle", ~overtaken
              PROVE  detectors = {} /\ changes = <<>>
  BY DEF StoppedMeansEmpty
<1>1. ~Void
  BY LoopsAreControllers DEF Void, Conflict, Processing
<1>2. PICK c \in Clients : at[c] = "idle" /\ cpc[c] = "idle"
  BY DEF OneClient
<1>3. \A l \in Loops : ~Live(l)
  BY DEF Live, Running
<1>. QED BY <1>1, <1>2, <1>3 DEF ChangeInv, StoppedInv, StartedInv, Left

\* With one client the runner has one loop at a time and none once it is destroyed, and
\* m_detectors is shared only while a removal that asks to join works on it.
THEOREM SpecRunnerLifetime == ASSUME OneClient PROVE RunnerSpec => []RunnerLifetime
<1>1. RunnerInit => RInv /\ ChangeInv
  BY InitRunner
<1>2. RInv /\ ChangeInv /\ [RunnerNext]_allVars => RInv' /\ ChangeInv'
  BY OneClient, NextRunner
<1>3. RInv => RunnerLifetime
  BY OneClient, RInvLifetime
<1>. QED BY <1>1, <1>2, <1>3, PTL DEF RunnerSpec

\* With one client, and whatever the camera does, a runner that has come to rest has no
\* detectors and no change left over, unless a change came while a loop was stopping.
THEOREM SpecStoppedMeansEmpty == ASSUME OneClient PROVE RunnerSpec => []StoppedMeansEmpty
<1>1. RunnerInit => RInv /\ ChangeInv
  BY InitRunner
<1>2. RInv /\ ChangeInv /\ [RunnerNext]_allVars => RInv' /\ ChangeInv'
  BY OneClient, NextRunner
<1>3. RInv /\ ChangeInv => StoppedMeansEmpty
  BY OneClient, ChangeInvStopped
<1>. QED BY <1>1, <1>2, <1>3, PTL DEF RunnerSpec

=============================================================================
