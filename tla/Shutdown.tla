------------------------------ MODULE Shutdown ------------------------------
(***************************************************************************)
(* How the receiver ends (src/src/main.go:86-130 and the parts of state.go *)
(* that take part).  main starts one goroutine per adapter, the web server *)
(* and the UDP sender, installs a handler for SIGINT and SIGTERM and waits *)
(* on a WaitGroup.  Every MonitorSignal listens for the same signals on a  *)
(* channel of its own, so a signal is handled by main and by each adapter  *)
(* that is streaming, in any order.                                        *)
(*                                                                         *)
(* An adapter that loses its stream calls Start again from inside Start:   *)
(* frames counts those calls, each of which runs a deferred Wg.Done when   *)
(* the adapter finally returns.  What an adapter does while it tunes is    *)
(* module StateMachine; here it only may end the process (log.Fatal,       *)
(* os.Exit(1)).  The model begins when main's handler is installed.        *)
(***************************************************************************)
EXTENDS Integers

CONSTANTS
    N,           \* number of adapters in config.yaml
    MaxFrames,   \* bound on the Start calls nested in one goroutine
    MaxSignals   \* bound on the termination signals sent

ASSUME ShutdownAssumption ==
    N \in Nat \ {0} /\ MaxFrames \in Nat \ {0} /\ MaxSignals \in Nat \ {0}

Adapters == 1 .. N

VARIABLES
    pc,        \* where each adapter's goroutine is
    frames,    \* Start calls on its stack
    chan,      \* sm.StopMonitorChan: closed twice or closed while nil, it panics
    pending,   \* a signal waits in the sigChan of its current MonitorSignal
    tsp,       \* the tsp it has running, "streaming" and "analysing" in sm.tspCmd
    late,      \* its stream was begun after the handler had passed it: a history
               \* variable, which the code has no need of
    web,       \* the goroutine of the web server has not returned
    wg,        \* the WaitGroup's counter
    handler,   \* main's signal goroutine
    next,      \* the adapter its loop has come to
    signals,   \* termination signals sent so far
    outcome    \* how the process ended

adapterVars == <<pc, frames, chan, pending, tsp, late>>
handlerVars == <<handler, next>>
vars == <<adapterVars, web, wg, handlerVars, signals, outcome>>

Alive == outcome = "running"

TypeOK ==
    /\ pc \in [Adapters -> {"Listen", "Analyse", "Started", "Monitor", "Unwind", "Gone"}]
    /\ frames \in [Adapters -> 0 .. MaxFrames]
    /\ chan \in [Adapters -> {"nil", "open", "closed"}]
    /\ pending \in [Adapters -> BOOLEAN]
    /\ tsp \in [Adapters -> {"none", "listening", "analysing", "streaming"}]
    /\ late \in [Adapters -> BOOLEAN]
    /\ web \in BOOLEAN
    /\ wg \in 0 .. N + 2
    /\ handler \in {"Idle", "Signalled", "Close", "Stop", "Exit"}
    /\ next \in 1 .. N
    /\ signals \in 0 .. MaxSignals
    /\ outcome \in {"running", "fatal", "exit0", "returned", "panic"}

Init ==
    /\ pc = [a \in Adapters |-> "Listen"]
    /\ frames = [a \in Adapters |-> 1]
    /\ chan = [a \in Adapters |-> "nil"]
    /\ pending = [a \in Adapters |-> FALSE]
    /\ tsp = [a \in Adapters |-> "listening"]
    /\ late = [a \in Adapters |-> FALSE]
    /\ web = TRUE
    /\ wg = N + 2
    /\ handler = "Idle" /\ next = 1
    /\ signals = 0
    /\ outcome = "running"

------------------------------------------------------------------------------
(* An adapter.                                                              *)

Step(a, from, to) == Alive /\ pc[a] = from /\ pc' = [pc EXCEPT ![a] = to]

\* The listening tsp has exited and FindServices starts the analysing one.
Detect(a) ==
    /\ Step(a, "Listen", "Analyse")
    /\ tsp' = [tsp EXCEPT ![a] = "analysing"]
    /\ UNCHANGED <<frames, chan, pending, late, web, wg, handlerVars, signals, outcome>>

\* An error in FindServices or StartStreaming: stop, and listen again.
Retry(a) ==
    /\ Step(a, "Analyse", "Listen")
    /\ tsp' = [tsp EXCEPT ![a] = "listening"]
    /\ UNCHANGED <<frames, chan, pending, late, web, wg, handlerVars, signals, outcome>>

\* main's handler has closed the adapter's channel and stopped its stream.
Passed(a) == handler \in {"Close", "Stop", "Exit"} /\ (a < next \/ handler = "Exit")

\* Mutant: the channel is made once, so a stream is monitored right away.
StartMonitored(a) ==
    /\ Step(a, "Analyse", "Monitor")
    /\ tsp' = [tsp EXCEPT ![a] = "streaming"]
    /\ late' = [late EXCEPT ![a] = Passed(a)]
    /\ UNCHANGED <<frames, chan, pending, web, wg, handlerVars, signals, outcome>>

\* The streaming tsp runs before there is a channel to stop it by.
StartStreaming(a) ==
    /\ Step(a, "Analyse", "Started")
    /\ tsp' = [tsp EXCEPT ![a] = "streaming"]
    /\ late' = [late EXCEPT ![a] = Passed(a)]
    /\ UNCHANGED <<frames, chan, pending, web, wg, handlerVars, signals, outcome>>

\* A new StopMonitorChan, then MonitorSignal with a new sigChan.
MonitorSignal(a) ==
    /\ Step(a, "Started", "Monitor")
    /\ chan' = [chan EXCEPT ![a] = "open"]
    /\ pending' = [pending EXCEPT ![a] = FALSE]
    /\ UNCHANGED <<frames, tsp, late, web, wg, handlerVars, signals, outcome>>

\* log.Fatal or os.Exit(1) in AwaitSignal, StartStreaming or MonitorSignal.
Fatal(a) ==
    /\ Alive
    /\ pc[a] \in {"Listen", "Analyse", "Started"}
    /\ outcome' = "fatal"
    /\ UNCHANGED <<adapterVars, web, wg, handlerVars, signals>>

\* Mutant: Start is called in a goroutine of its own and this one returns.
Restarted(a)   == frames' = frames /\ wg' = wg - 1
NestedStart(a) == frames' = [frames EXCEPT ![a] = @ + 1] /\ wg' = wg

\* handleLockLost: stop the stream and call Start from within Start.  The
\* select may take lockLost although a signal is waiting as well.
HandleLockLost(a) ==
    /\ frames[a] < MaxFrames
    /\ Step(a, "Monitor", "Listen")
    /\ tsp' = [tsp EXCEPT ![a] = "listening"]
    /\ NestedStart(a)
    /\ UNCHANGED <<chan, pending, late, web, handlerVars, signals, outcome>>

\* close(sm.StopMonitorChan)
CloseChan(a) ==
    IF chan[a] = "open"
    THEN chan' = [chan EXCEPT ![a] = "closed"] /\ UNCHANGED outcome
    ELSE outcome' = "panic" /\ UNCHANGED chan

\* The adapter's own handling: it closes the channel and leaves the stream on.
ReceiveSignal(a) ==
    /\ pending[a]
    /\ Step(a, "Monitor", "Unwind")
    /\ CloseChan(a)
    /\ pending' = [pending EXCEPT ![a] = FALSE]
    /\ UNCHANGED <<frames, tsp, late, web, wg, handlerVars, signals>>

\* Wg.Done panics when it would make the counter negative.
Done ==
    IF wg > 0
    THEN wg' = wg - 1 /\ UNCHANGED outcome
    ELSE outcome' = "panic" /\ UNCHANGED wg

\* One of the nested Start calls returns.
Return(a) ==
    /\ Step(a, "Unwind", IF frames[a] = 1 THEN "Gone" ELSE "Unwind")
    /\ frames' = [frames EXCEPT ![a] = @ - 1]
    /\ Done
    /\ UNCHANGED <<chan, pending, tsp, late, web, handlerVars, signals>>

AdapterNext(a) ==
    \/ Detect(a) \/ Retry(a) \/ StartStreaming(a) \/ MonitorSignal(a) \/ Fatal(a)
    \/ HandleLockLost(a) \/ ReceiveSignal(a) \/ Return(a)

------------------------------------------------------------------------------
(* main, the web server and the signals.                                    *)

\* ListenAndServe returns (the address is taken): its error is dropped.
WebServerEnds ==
    /\ Alive
    /\ web
    /\ web' = FALSE
    /\ Done
    /\ UNCHANGED <<adapterVars, handlerVars, signals>>

\* Every registered channel gets the signal, if it has room (capacity 1).
Signal ==
    /\ Alive
    /\ signals < MaxSignals
    /\ signals' = signals + 1
    /\ handler' = IF handler = "Idle" THEN "Signalled" ELSE handler
    /\ pending' = [a \in Adapters |-> pending[a] \/ pc[a] = "Monitor"]
    /\ UNCHANGED <<pc, frames, chan, tsp, late, web, wg, next, outcome>>

HandleSignal ==
    /\ Alive
    /\ handler = "Signalled"
    /\ handler' = "Close"
    /\ UNCHANGED <<adapterVars, web, wg, next, signals, outcome>>

CloseNext ==
    /\ Alive
    /\ handler = "Close"
    /\ CloseChan(next)
    /\ handler' = "Stop"
    /\ UNCHANGED <<pc, frames, pending, tsp, late, web, wg, next, signals>>

\* Mutant: only the channel is closed, the stream is left to the adapter.
StreamLeft(t) == t

\* StopStreaming reaches only what sm.tspCmd refers to, never the listening tsp.
Stopped(t)    == IF t = "listening" THEN t ELSE "none"

StopNext ==
    /\ Alive
    /\ handler = "Stop"
    /\ tsp' = [tsp EXCEPT ![next] = Stopped(@)]
    /\ IF next < N
       THEN handler' = "Close" /\ next' = next + 1
       ELSE handler' = "Exit" /\ next' = next
    /\ UNCHANGED <<pc, frames, chan, pending, late, web, wg, signals, outcome>>

\* Mutant: no os.Exit, the goroutine just ends.
NoExit == UNCHANGED outcome
Exit0  == outcome' = "exit0"

ExitProcess ==
    /\ Alive
    /\ handler = "Exit"
    /\ Exit0
    /\ UNCHANGED <<adapterVars, web, wg, handlerVars, signals>>

\* wg.Wait returns: main returns, which ends the process.
MainReturns ==
    /\ Alive
    /\ wg = 0
    /\ outcome' = "returned"
    /\ UNCHANGED <<adapterVars, web, wg, handlerVars, signals>>

HandlerNext == HandleSignal \/ CloseNext \/ StopNext \/ ExitProcess

Ended == ~Alive /\ UNCHANGED vars

Next ==
    \/ \E a \in Adapters : AdapterNext(a)
    \/ WebServerEnds \/ Signal \/ HandlerNext \/ MainReturns \/ Ended

Spec == Init /\ [][Next]_vars

\* Nothing in main's signal goroutine blocks once the signal is there.
FairSpec == Spec /\ WF_vars(HandlerNext)

------------------------------------------------------------------------------
(* What an adapter does until then: module Rounds.                          *)
BeforeSignal == Alive /\ signals = 0

Round(a) == INSTANCE Rounds WITH
    Others  <- TRUE,
    place   <- IF BeforeSignal THEN pc[a] ELSE "Ended",
    command <- IF BeforeSignal /\ tsp[a] # "listening" THEN tsp[a] ELSE "none"

\* Each adapter goes the rounds that StateMachine goes, until the process
\* ends or is told to: the streams main's handler and the adapters find to
\* be stopped are those StateMachine leaves in sm.tspCmd.
AdaptersGoRound ==
    /\ \A a \in Adapters : Round(a)!Init
    /\ [][\A a \in Adapters : [Round(a)!Next]_(Round(a)!vars)]_vars

\* Before a termination signal neither relocks nor a failing web server make
\* main return or any goroutine panic: the WaitGroup still counts every
\* adapter and the UDP sender, however deeply Start is nested, and no
\* channel has been closed.
QuietUntilSignal ==
    signals = 0 =>
        /\ outcome \in {"running", "fatal"}
        /\ wg = N + 1 + (IF web THEN 1 ELSE 0)
        /\ \A a \in Adapters : chan[a] # "closed" /\ frames[a] >= 1

\* The handler gets to os.Exit(0) only if every adapter has streamed once, and
\* wherever the adapters are by then, it has stopped every stream that ran when
\* it came to its adapter: those it leaves running were begun behind its back.
\* If there was but one signal no adapter has taken it to itself: main's
\* handler and an adapter that handles the same signal never both succeed.
OrderlyExit ==
    outcome = "exit0" =>
        \A a \in Adapters :
            /\ chan[a] # "nil"
            /\ tsp[a] = "streaming" => late[a]
            /\ pc[a] \in {"Unwind", "Gone"} => signals > 1

\* A termination signal ends the process, whatever the adapters do meanwhile.
SignalEndsProcess == signals > 0 ~> ~Alive

\* The log says "shutting down gracefully...": the signal does not make the
\* process panic.
GracefulShutdown == outcome # "panic"
==============================================================================
