--------------------------- MODULE MCStateMachine ---------------------------
EXTENDS StateMachine, TLC

\* The tasks Gate and PipeGate of ai/course.py and the branches they start, from
\* ai/gate.py and ai/pipe.py, without centering.
MCTable ==
    "Gate" :> ("complete" :> "PipeGate" @@ "found" :> "PipeGate" @@ "pipeOn" :> "Gate")
    @@ "PipeGate" :> ("pipe" :> "Seeking" @@ "taskTimeout" :> "TaskEnd")
    @@ "TaskEnd" :> <<>>
    @@ "GateStart" :> ("finished" :> "Forward")
    @@ "Forward" :> ("finished" :> "GateEnd")
    @@ "GateEnd" :> <<>>
    @@ "Searching" :> ("found" :> "Seeking" @@ "finished" :> "Searching")
    @@ "Seeking" :> ("found" :> "Seeking" @@ "lost" :> "FindAttempt")
    @@ "FindAttempt" :> ("found" :> "Seeking" @@ "timeout" :> "Searching")

MCBranching == {<<"PipeGate", "pipe">>}
MCVetoes == {<<"Searching", "found">>}

For(pairs) == [s \in DOMAIN MCTable |-> IF s \in DOMAIN pairs THEN pairs[s] ELSE None]
MCBranchOf == For("Gate" :> "GateStart" @@ "PipeGate" :> "Searching")
MCTimerOf == For("Gate" :> "pipeOn" @@ "PipeGate" :> "taskTimeout" @@ "FindAttempt" :> "timeout")
MCForgetful == {"Gate"}
MCAnnounces == For("GateEnd" :> "complete")
MCExternal == {"found", "lost", "finished", "pipe"}
MCForeign == {"found", "lost"}
=============================================================================
