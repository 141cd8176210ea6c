-------------------------------- MODULE Rounds --------------------------------
(***************************************************************************)
(* The rounds of an adapter (Start in src/src/state/state.go) as those see *)
(* them who end the receiver: which tsp is due, whether the adapter may    *)
(* end the process, and which process sm.tspCmd refers to, which is all    *)
(* that StopStreaming can reach.  StateMachine implements this module, and *)
(* so does each adapter of Shutdown until the first termination signal.    *)
(***************************************************************************)
CONSTANT Others   \* may anything but the adapter itself end the process?

VARIABLES
    place,     \* "Listen", "Analyse", "Started", "Monitor", or "Ended"
    command    \* the tsp of this place that sm.tspCmd refers to

vars == <<place, command>>

\* The listening tsp is never in sm.tspCmd.
Init ==
    /\ place = "Listen"
    /\ command = "none"

Step(from, to, cmd) == place = from /\ place' = to /\ command' = cmd

Detect         == Step("Listen", "Analyse", "analysing")
Retry          == Step("Analyse", "Listen", "none")
StartStreaming == Step("Analyse", "Started", "streaming")
MonitorSignal  == Step("Started", "Monitor", command)
HandleLockLost == Step("Monitor", "Listen", "none")

\* log.Fatal and os.Exit(1): none of them while the adapter monitors.
Fatal == \E from \in {"Listen", "Analyse", "Started"} : Step(from, "Ended", "none")

EndedByOthers ==
    /\ Others
    /\ place # "Ended"
    /\ Step(place, "Ended", "none")

Next ==
    \/ Detect \/ Retry \/ StartStreaming \/ MonitorSignal \/ HandleLockLost
    \/ Fatal \/ EndedByOthers

Spec == Init /\ [][Next]_vars
==============================================================================
