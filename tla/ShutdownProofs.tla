--------------------------- MODULE ShutdownProofs ---------------------------
(***************************************************************************)
(* Theorems about Shutdown, for any number of adapters and any bounds.     *)
(***************************************************************************)
EXTENDS Shutdown, TLAPS

\* A goroutine that has not returned has a Start call on its stack.
FramesLive == \A a \in Adapters : pc[a] # "Gone" => frames[a] >= 1

TypeInv == TypeOK /\ FramesLive

\* Until a signal is sent nothing waits for one, and no Start returns.
CalmBeforeSignal ==
    signals = 0 =>
        /\ handler = "Idle"
        /\ \A a \in Adapters : ~pending[a] /\ pc[a] \notin {"Unwind", "Gone"}

Quiet == TypeInv /\ CalmBeforeSignal /\ QuietUntilSignal

\* The counter never leaves the range main gave it.
LEMMA DoneType ==
    ASSUME wg \in 0 .. N + 2, Alive, Done
    PROVE  wg' \in 0 .. N + 2 /\ outcome' \in {"running", "panic"}
  BY ShutdownAssumption DEF Done, Alive

\* The variables keep their types in the steps of an adapter.
LEMMA AdapterType ==
    ASSUME TypeInv, NEW a \in Adapters, AdapterNext(a)
    PROVE  TypeInv'
  <1> USE ShutdownAssumption DEF TypeInv, TypeOK, FramesLive, Step, adapterVars, handlerVars
  <1>0. CASE StartStreaming(a)
    <2>1. Passed(a) \in BOOLEAN
      BY DEF Passed
    <2> QED
      BY <1>0, <2>1 DEF StartStreaming
  <1>1. CASE Detect(a) \/ Retry(a)
    BY <1>1 DEF Detect, Retry
  <1>2. CASE MonitorSignal(a)
    BY <1>2 DEF MonitorSignal
  <1>3. CASE Fatal(a)
    BY <1>3 DEF Fatal
  <1>4. CASE HandleLockLost(a)
    BY <1>4 DEF HandleLockLost, NestedStart
  <1>5. CASE ReceiveSignal(a)
    BY <1>5 DEF ReceiveSignal, CloseChan
  <1>6. CASE Return(a)
    <2>1. frames[a] \in 1 .. MaxFrames
      BY <1>6 DEF Return
    <2>2. /\ pc' = [pc EXCEPT ![a] = IF frames[a] = 1 THEN "Gone" ELSE "Unwind"]
          /\ frames' = [frames EXCEPT ![a] = @ - 1]
          /\ UNCHANGED <<chan, pending, tsp, late, web, handler, next, signals>>
      BY <1>6 DEF Return
    <2>3. wg' \in 0 .. N + 2 /\ outcome' \in {"running", "panic"}
      BY <1>6, DoneType DEF Return
    <2>4. frames[a] - 1 \in 0 .. MaxFrames
      BY <2>1
    <2>5. TypeOK'
      BY <2>2, <2>3, <2>4
    <2>6. FramesLive'
      BY <2>1, <2>2
    <2> QED
      BY <2>5, <2>6
  <1> QED
    BY <1>0, <1>1, <1>2, <1>3, <1>4, <1>5, <1>6 DEF AdapterNext

\* The variables keep their types in the steps of main and its goroutines.
LEMMA MainType ==
    ASSUME TypeInv, WebServerEnds \/ Signal \/ HandlerNext \/ MainReturns \/ Ended
    PROVE  TypeInv'
  <1> USE ShutdownAssumption DEF TypeInv, TypeOK, FramesLive, Adapters, adapterVars, handlerVars
  <1>1. CASE WebServerEnds
    BY <1>1, DoneType DEF WebServerEnds
  <1>2. CASE Signal
    BY <1>2 DEF Signal
  <1>3. CASE HandleSignal
    BY <1>3 DEF HandleSignal
  <1>4. CASE CloseNext
    BY <1>4 DEF CloseNext, CloseChan
  <1>5. CASE StopNext
    BY <1>5 DEF StopNext, Stopped
  <1>6. CASE ExitProcess
    BY <1>6 DEF ExitProcess, Exit0
  <1>7. CASE MainReturns \/ Ended
    BY <1>7 DEF MainReturns, Ended, vars
  <1> QED
    BY <1>1, <1>2, <1>3, <1>4, <1>5, <1>6, <1>7 DEF HandlerNext

\* An adapter's steps leave the receiver quiet while there is no signal.
LEMMA AdapterQuiet ==
    ASSUME Quiet, NEW a \in Adapters, AdapterNext(a)
    PROVE  CalmBeforeSignal' /\ QuietUntilSignal'
  <1> USE DEF Quiet, TypeInv, TypeOK, CalmBeforeSignal, QuietUntilSignal, Step, adapterVars,
              handlerVars
  <1>0. CASE StartStreaming(a)
    <2>1. /\ pc' = [pc EXCEPT ![a] = "Started"]
          /\ UNCHANGED <<frames, chan, pending, web, wg, handler, signals, outcome>>
      BY <1>0 DEF StartStreaming
    <2> QED
      BY <2>1
  <1>1. CASE Detect(a) \/ Retry(a)
    BY <1>1 DEF Detect, Retry
  <1>2. CASE MonitorSignal(a)
    BY <1>2 DEF MonitorSignal
  <1>3. CASE Fatal(a)
    BY <1>3 DEF Fatal
  <1>4. CASE HandleLockLost(a)
    BY <1>4 DEF HandleLockLost, NestedStart
  <1>5. CASE ReceiveSignal(a) \/ Return(a)
    \* there is a signal: nothing to show
    BY <1>5 DEF ReceiveSignal, Return
  <1> QED
    BY <1>0, <1>1, <1>2, <1>3, <1>4, <1>5 DEF AdapterNext

\* So do the steps of main and its goroutines.
LEMMA MainQuiet ==
    ASSUME Quiet, WebServerEnds \/ Signal \/ HandlerNext \/ MainReturns \/ Ended
    PROVE  CalmBeforeSignal' /\ QuietUntilSignal'
  <1> USE ShutdownAssumption DEF Quiet, TypeInv, TypeOK, CalmBeforeSignal, QuietUntilSignal,
              adapterVars, handlerVars
  <1>1. CASE WebServerEnds
    BY <1>1 DEF WebServerEnds, Done
  <1>2. CASE Signal
    BY <1>2 DEF Signal
  <1>3. CASE HandlerNext
    BY <1>3 DEF HandlerNext, HandleSignal, CloseNext, StopNext, ExitProcess
  <1>4. CASE MainReturns \/ Ended
    BY <1>4 DEF MainReturns, Ended, vars
  <1> QED
    BY <1>1, <1>2, <1>3, <1>4

LEMMA QuietInit == Init => Quiet
  BY ShutdownAssumption DEF Init, Quiet, TypeInv, TypeOK, FramesLive, CalmBeforeSignal,
     QuietUntilSignal, Adapters

LEMMA QuietStep == Quiet /\ [Next]_vars => Quiet'
  <1> SUFFICES ASSUME Quiet, [Next]_vars
               PROVE  Quiet'
    OBVIOUS
  <1>1. ASSUME NEW a \in Adapters, AdapterNext(a)
        PROVE  Quiet'
    BY <1>1, AdapterType, AdapterQuiet DEF Quiet
  <1>2. CASE WebServerEnds \/ Signal \/ HandlerNext \/ MainReturns \/ Ended
    BY <1>2, MainType, MainQuiet DEF Quiet
  <1>3. CASE UNCHANGED vars
    BY <1>3 DEF Quiet, TypeInv, TypeOK, FramesLive, CalmBeforeSignal, QuietUntilSignal, vars,
       adapterVars, handlerVars
  <1> QED
    BY <1>1, <1>2, <1>3 DEF Next

LEMMA QuietAlways == Spec => []Quiet
  BY QuietInit, QuietStep, PTL DEF Spec

\* The WaitGroup's counter stays within what main added, and no Start
\* returns twice, for any number of adapters, relocks and signals.
THEOREM ShutdownTypeCorrect == Spec => []TypeOK
  BY QuietAlways, PTL DEF Quiet, TypeInv

\* However often adapters relock, which nests Start in Start, main neither
\* returns nor panics before a termination signal.
THEOREM NoEarlyEnd == Spec => []QuietUntilSignal
  BY QuietAlways, PTL DEF Quiet

------------------------------------------------------------------------------
(* An exit with status 0.  The handler stops one adapter after another, and *)
(* behind its back the adapters go on; what it has passed must stay in      *)
(* order until it has passed them all.                                      *)

\* The handler has closed the adapter's channel, and may yet have to stop it.
Closed(a) == Passed(a) \/ (handler = "Stop" /\ a = next)

\* What the handler leaves behind: no stream but those begun since.
InOrder(a) == chan[a] # "nil" /\ (tsp[a] = "streaming" => late[a])

\* After a single signal an adapter the handler has closed neither has taken
\* the signal nor can: it would close the channel a second time.
LeftTheSignal(a) ==
    signals <= 1 =>
        /\ pc[a] \notin {"Unwind", "Gone"}
        /\ ~(pc[a] = "Monitor" /\ pending[a] /\ chan[a] = "open")

\* The channel the handler has just closed is there for good, unless that was
\* a panic, and an adapter on its way out has closed its own.
Progress ==
    /\ outcome = "exit0" => handler = "Exit"
    /\ handler \in {"Idle", "Signalled"} => next = 1
    /\ handler # "Idle" => signals >= 1
    /\ Alive =>
          /\ handler = "Stop" => chan[next] # "nil"
          /\ \A a \in Adapters :
                /\ pc[a] \in {"Unwind", "Gone"} => chan[a] = "closed"
                /\ Passed(a) => InOrder(a)
                /\ Closed(a) => LeftTheSignal(a)

ExitInv == TypeInv /\ Progress /\ OrderlyExit

\* What an adapter does keeps what the handler has done in order.
LEMMA AdapterOrder ==
    ASSUME ExitInv, NEW a \in Adapters, AdapterNext(a)
    PROVE  Progress' /\ OrderlyExit'
  <1> USE DEF ExitInv, TypeInv, TypeOK, Progress, Passed, Closed, InOrder,
              LeftTheSignal, OrderlyExit, Step, Alive,
              adapterVars, handlerVars
  <1>0. CASE StartStreaming(a)
    <2> DEFINE P == Passed(a)
    <2>1. P \in BOOLEAN
      OBVIOUS
    <2>2. /\ pc' = [pc EXCEPT ![a] = "Started"]
          /\ tsp' = [tsp EXCEPT ![a] = "streaming"]
          /\ late' = [late EXCEPT ![a] = P]
          /\ outcome = "running"
          /\ UNCHANGED <<chan, pending, handler, next, signals, outcome>>
      BY <1>0 DEF StartStreaming
    <2>3. Passed(a) => late'[a]
      <3> HIDE DEF P
      <3>1. P => late'[a]
        BY <2>1, <2>2
      <3> QED
        BY <3>1 DEF P
    <2>4. \A b \in Adapters \ {a} : late'[b] = late[b]
      BY <2>2
    <2> QED
      BY <2>2, <2>3, <2>4
  <1>1. CASE Detect(a) \/ Retry(a)
    BY <1>1 DEF Detect, Retry
  <1>2. CASE MonitorSignal(a)
    BY <1>2 DEF MonitorSignal
  <1>3. CASE Fatal(a)
    BY <1>3 DEF Fatal
  <1>4. CASE HandleLockLost(a)
    BY <1>4 DEF HandleLockLost
  <1>5. CASE ReceiveSignal(a)
    <2>1. CASE chan[a] = "open"
      <3>1. /\ Alive /\ pc[a] = "Monitor" /\ pending[a]
            /\ pc' = [pc EXCEPT ![a] = "Unwind"]
            /\ chan' = [chan EXCEPT ![a] = "closed"]
            /\ pending' = [pending EXCEPT ![a] = FALSE]
            /\ UNCHANGED <<tsp, late, handler, next, signals, outcome>>
        BY <1>5, <2>1 DEF ReceiveSignal, CloseChan
      <3>2. Closed(a) => signals > 1
        BY <2>1, <3>1, ShutdownAssumption
      <3> QED
        BY <3>1, <3>2
    <2>2. CASE chan[a] # "open"
      <3>1. /\ pc' = [pc EXCEPT ![a] = "Unwind"]
            /\ outcome' = "panic"
            /\ UNCHANGED <<tsp, late, handler, next, signals>>
        BY <1>5, <2>2 DEF ReceiveSignal, CloseChan
      <3> QED
        BY <3>1
    <2> QED
      BY <2>1, <2>2
  <1>6. CASE Return(a)
    BY <1>6 DEF Return, Done
  <1> QED
    BY <1>0, <1>1, <1>2, <1>3, <1>4, <1>5, <1>6 DEF AdapterNext

\* The handler leaves each adapter in order as it passes it.
LEMMA HandlerOrder ==
    ASSUME ExitInv, WebServerEnds \/ Signal \/ HandlerNext \/ MainReturns \/ Ended
    PROVE  Progress' /\ OrderlyExit'
  <1> USE ShutdownAssumption DEF ExitInv, TypeInv, TypeOK, Progress, Passed, Closed, InOrder,
              LeftTheSignal, OrderlyExit,
              Alive, Adapters, adapterVars, handlerVars
  <1>1. CASE WebServerEnds
    BY <1>1 DEF WebServerEnds, Done
  <1>2. CASE Signal
    BY <1>2 DEF Signal
  <1>3. CASE HandleSignal
    BY <1>3 DEF HandleSignal
  <1>4. CASE CloseNext
    BY <1>4 DEF CloseNext, CloseChan
  <1>5. CASE StopNext
    BY <1>5 DEF StopNext, Stopped
  <1>6. CASE ExitProcess
    <2>1. /\ handler = "Exit" /\ Alive
          /\ UNCHANGED <<pc, chan, tsp, late, handler, next, signals>>
          /\ outcome' = "exit0"
      BY <1>6 DEF ExitProcess, Exit0
    <2>2. ASSUME NEW a \in Adapters
          PROVE  InOrder(a) /\ (pc[a] \in {"Unwind", "Gone"} => signals > 1)
      <3>1. Passed(a) /\ Closed(a)
        BY <2>1
      <3>2. InOrder(a) /\ LeftTheSignal(a)
        BY <2>1, <3>1
      <3>3. signals \in 0 .. MaxSignals
        OBVIOUS
      <3> QED
        BY <3>2, <3>3
    <2> QED
      BY <2>1, <2>2
  <1>7. CASE MainReturns \/ Ended
    BY <1>7 DEF MainReturns, Ended, vars
  <1> QED
    BY <1>1, <1>2, <1>3, <1>4, <1>5, <1>6, <1>7 DEF HandlerNext

LEMMA ExitInvStep == ExitInv /\ [Next]_vars => ExitInv'
  <1> SUFFICES ASSUME ExitInv, [Next]_vars
               PROVE  ExitInv'
    OBVIOUS
  <1>1. ASSUME NEW a \in Adapters, AdapterNext(a)
        PROVE  ExitInv'
    BY <1>1, AdapterType, AdapterOrder DEF ExitInv
  <1>2. CASE WebServerEnds \/ Signal \/ HandlerNext \/ MainReturns \/ Ended
    BY <1>2, MainType, HandlerOrder DEF ExitInv
  <1>3. CASE UNCHANGED vars
    BY <1>3 DEF ExitInv, TypeInv, TypeOK, FramesLive, Progress, Passed, Closed, InOrder,
              LeftTheSignal, OrderlyExit,
       Alive, vars, adapterVars, handlerVars
  <1> QED
    BY <1>1, <1>2, <1>3 DEF Next

\* When the receiver exits with status 0 the handler has stopped every stream
\* that ran when it came to its adapter, however many adapters there are and
\* however they relock while it passes from one to the next; and after a
\* single signal no adapter has handled it as well.
THEOREM ExitInOrder == Spec => []OrderlyExit
  <1>1. Init => ExitInv
    BY ShutdownAssumption DEF Init, ExitInv, TypeInv, TypeOK, FramesLive, Progress, Passed,
       Closed, OrderlyExit, Adapters
  <1> QED
    BY <1>1, ExitInvStep, PTL DEF Spec, ExitInv

------------------------------------------------------------------------------
(* Until a signal each adapter goes the rounds StateMachine goes.           *)

\* Each place of a round has its tsp.
TspAtPlace ==
    BeforeSignal =>
        \A a \in Adapters :
            /\ pc[a] = "Listen" => tsp[a] = "listening"
            /\ pc[a] = "Analyse" => tsp[a] = "analysing"
            /\ pc[a] \in {"Started", "Monitor"} => tsp[a] = "streaming"

\* A signal and the end of the process are for good.
LEMMA SignalForGood ==
    ASSUME TypeOK, Next, ~BeforeSignal
    PROVE  ~BeforeSignal'
  <1> USE DEF TypeOK, BeforeSignal, Alive, Step
  <1>1. ASSUME NEW a \in Adapters, AdapterNext(a)
        PROVE  ~BeforeSignal'
    BY <1>1 DEF AdapterNext, Detect, Retry, StartStreaming, MonitorSignal, Fatal, HandleLockLost, ReceiveSignal, Return
  <1>2. CASE WebServerEnds \/ Signal \/ MainReturns \/ Ended
    BY <1>2, ShutdownAssumption DEF WebServerEnds, Signal, MainReturns, Ended, vars
  <1>3. CASE HandlerNext
    BY <1>3 DEF HandlerNext, HandleSignal, CloseNext, StopNext, ExitProcess
  <1> QED
    BY <1>1, <1>2, <1>3 DEF Next

\* What a step without a signal does to the places: one adapter goes one step
\* of its round, or none does.
LEMMA StepsBeforeSignal ==
    ASSUME Quiet, TspAtPlace, Next, BeforeSignal, BeforeSignal'
    PROVE  /\ TspAtPlace'
           /\ \A b \in Adapters : Round(b)!Next \/ UNCHANGED Round(b)!vars
  <1> USE DEF Quiet, TypeInv, TypeOK, BeforeSignal, Alive, TspAtPlace, Step
  <1>1. ASSUME NEW a \in Adapters, NEW to, NEW p, NEW t,
               pc' = [pc EXCEPT ![a] = p], tsp' = [tsp EXCEPT ![a] = t],
               NEW b \in Adapters \ {a}
        PROVE  UNCHANGED Round(b)!vars
    BY <1>1 DEF Round!vars
  <1>2. ASSUME NEW a \in Adapters, AdapterNext(a)
        PROVE  TspAtPlace' /\ Round(a)!Next /\ \A b \in Adapters \ {a} : UNCHANGED Round(b)!vars
    <2>1. CASE Detect(a)
      <3>1. /\ pc[a] = "Listen" /\ tsp[a] = "listening" /\ pc' = [pc EXCEPT ![a] = "Analyse"]
            /\ tsp' = [tsp EXCEPT ![a] = "analysing"]
        BY <2>1 DEF Detect
      <3> QED
        BY <3>1 DEF Round!Next, Round!Detect, Round!Step, Round!vars
    <2>2. CASE Retry(a)
      <3>1. /\ pc[a] = "Analyse" /\ tsp[a] = "analysing" /\ pc' = [pc EXCEPT ![a] = "Listen"]
            /\ tsp' = [tsp EXCEPT ![a] = "listening"]
        BY <2>2 DEF Retry
      <3> QED
        BY <3>1 DEF Round!Next, Round!Retry, Round!Step, Round!vars
    <2>3. CASE StartStreaming(a)
      <3>1. /\ pc[a] = "Analyse" /\ tsp[a] = "analysing" /\ pc' = [pc EXCEPT ![a] = "Started"]
            /\ tsp' = [tsp EXCEPT ![a] = "streaming"]
        BY <2>3 DEF StartStreaming
      <3> QED
        BY <3>1 DEF Round!Next, Round!StartStreaming, Round!Step, Round!vars
    <2>4. CASE MonitorSignal(a)
      <3>1. pc[a] = "Started" /\ tsp[a] = "streaming" /\ pc' = [pc EXCEPT ![a] = "Monitor"] /\ tsp' = tsp
        BY <2>4 DEF MonitorSignal
      <3> QED
        BY <3>1 DEF Round!Next, Round!MonitorSignal, Round!Step, Round!vars
    <2>5. CASE HandleLockLost(a)
      <3>1. /\ pc[a] = "Monitor" /\ tsp[a] = "streaming" /\ pc' = [pc EXCEPT ![a] = "Listen"]
            /\ tsp' = [tsp EXCEPT ![a] = "listening"]
        BY <2>5 DEF HandleLockLost
      <3> QED
        BY <3>1 DEF Round!Next, Round!HandleLockLost, Round!Step, Round!vars
    <2>6. CASE Fatal(a) \/ ReceiveSignal(a) \/ Return(a)
      \* the first ends the process, the others need a signal
      BY <2>6 DEF Fatal, ReceiveSignal, Return, CalmBeforeSignal
    <2> QED
      BY <1>2, <2>1, <2>2, <2>3, <2>4, <2>5, <2>6 DEF AdapterNext
  <1>3. CASE WebServerEnds \/ Signal \/ HandlerNext \/ MainReturns \/ Ended
    <2>1. UNCHANGED <<pc, tsp>>
      BY <1>3 DEF WebServerEnds, Signal, HandlerNext, HandleSignal, CloseNext, StopNext, ExitProcess, MainReturns,
         Ended, vars, adapterVars, CalmBeforeSignal
    <2> QED
      BY <2>1 DEF Round!vars
  <1> QED
    BY <1>2, <1>3 DEF Next

\* The signal, and an end brought about by another goroutine.
LEMMA StepsToTheEnd ==
    ASSUME Quiet, Next, ~BeforeSignal', NEW b \in Adapters
    PROVE  Round(b)!Next \/ UNCHANGED Round(b)!vars
  <1>1. CASE BeforeSignal
    <2>1. pc[b] \in {"Listen", "Analyse", "Started", "Monitor"}
      BY <1>1 DEF Quiet, TypeInv, TypeOK, CalmBeforeSignal, BeforeSignal
    <2>2. Round(b)!EndedByOthers
      BY <1>1, <2>1 DEF Round!EndedByOthers, Round!Step
    <2> QED
      BY <2>2 DEF Round!Next
  <1>2. CASE ~BeforeSignal
    BY <1>2 DEF Round!vars
  <1> QED
    BY <1>1, <1>2

\* For any number of adapters: each goes its round alone, and has the tsp of
\* its place, until a signal or the end of the process.
THEOREM RoundsUntilSignal == Spec => AdaptersGoRound
  <1>1. Init => TspAtPlace /\ \A a \in Adapters : Round(a)!Init
    BY DEF Init, TspAtPlace, BeforeSignal, Alive, Round!Init
  <1>2. Quiet /\ TspAtPlace /\ [Next]_vars =>
            TspAtPlace' /\ [\A a \in Adapters : [Round(a)!Next]_(Round(a)!vars)]_vars
    <2> SUFFICES ASSUME Quiet, TspAtPlace, [Next]_vars
                 PROVE  TspAtPlace' /\ \/ \A a \in Adapters : Round(a)!Next \/ UNCHANGED Round(a)!vars
                                       \/ UNCHANGED vars
      OBVIOUS
    <2>1. CASE UNCHANGED vars
      BY <2>1 DEF vars, adapterVars, TspAtPlace, BeforeSignal, Alive
    <2>2. CASE Next /\ BeforeSignal'
      BY <2>2, SignalForGood, StepsBeforeSignal DEF Quiet, TypeInv
    <2>3. CASE Next /\ ~BeforeSignal'
      BY <2>3, StepsToTheEnd DEF TspAtPlace
    <2> QED
      BY <2>1, <2>2, <2>3
  <1> QED
    BY <1>1, <1>2, QuietAlways, PTL DEF Spec, AdaptersGoRound
==============================================================================
