------------------------- MODULE StateMachineProofs -------------------------
(***************************************************************************)
(* Theorems about StateMachine, for every set of transport streams, every  *)
(* loss limit and every number of retries.                                 *)
(*                                                                         *)
(* The argument goes through two inductive invariants: Control ties the    *)
(* reported state, the monitor loop and the published copies to the place  *)
(* where main is; FilesOfThisRound ties the working files to  *)
(* the tsp that writes them.                                               *)
(***************************************************************************)
EXTENDS StateMachine, TLAPS

\* The monitor loop runs exactly while main waits in MonitorSignal, and its
\* count says how far it has come.
LoopControl ==
    /\ loopPc # "Idle" <=> Place = "Select"
    /\ loopPc = "Idle" => lockCount = 0
    /\ loopPc = "GetStats" => lockCount < LossLimit
    /\ loopPc = "Stopping" => lockCount = LossLimit

\* Only a service that was selected is reported on.
ReportsSelected == analyser = "writing" => target \in Streams

\* What TypeOK needs to be inductive: the count at which the loop stops
\* reading bounds lockCount, and only a selected service is written to
\* service(x).json.
TypeInv == TypeOK /\ LoopControl /\ ReportsSelected

\* The state main and the loop have left in sm.OsdStats.  Only a failed
\* reading can bring main back to listening straight from STREAMING.
StateAtPlace ==
    /\ Place \in {"Listen", "Listening", "Find"} => osd.state = LISTENING
    /\ Place \in {"GetService", "Analyse", "Modulation"} => osd.state = ANALYSING
    /\ Place \in {"PidFile", "Stream", "Monitor"} => osd.state = FINDPIDS
    /\ Place = "Retry" => osd.state \in {ANALYSING, FINDPIDS}
    /\ Place = "Open" => osd.state = STREAMING
    /\ loopPc \in {"GetStats", "Stopping"} => osd.state = STREAMING
    /\ loopPc \in {"Clear", "Snapshot", "Publish", "Sleep"} => osd.state = STOPPING
    /\ (loopPc = "Send" \/ Place \in {"Stop", "Delete"}) =>
           \/ osd.state = STOPPING
           \/ StatsFail /\ osd.state = STREAMING
    /\ Place = "Await" => (osd.state # STREAMING \/ StatsFail)

\* The flags are dark from ClearOsdStats to the first reading of the next
\* stream, unless the loop gave up on a failed reading.
DarkAfterClear ==
    ~StatsFail /\ loopPc \notin {"GetStats", "Stopping", "Clear"} => ~osd.lock /\ ~osd.carrier

\* A copy waiting to be published holds the current service, because the
\* service changes only where nobody is publishing; and when main is alone
\* its copy is current altogether.
SnapshotsCurrent ==
    /\ mainPc = "Publish" =>
           /\ mainSnap \in CombinedStats
           /\ mainSnap.service = service
           /\ loopPc = "Idle" => mainSnap.osd = osd
    /\ loopPc = "Publish" => loopSnap \in CombinedStats /\ loopSnap.service = service

Control ==
    /\ TypeInv
    /\ StateAtPlace
    /\ DarkAfterClear
    /\ SnapshotsCurrent
    /\ BoardCurrentWhenAlone
    /\ BoardShowsStreamedService

\* Without failing tsp starts every round begins without service(x).json;
\* the one that appears is the current analyser's, which wrote it for the
\* service main has selected.
BeforeAnalysis == {"Await", "Listen", "Listening", "Find", "GetService", "Analyse"}
DuringAnalysis == {"Modulation", "PidFile"}
AfterAnalysis  == {"Stream", "Monitor", "Open", "Select", "Stop", "Delete"}

FilesOfThisRound ==
    /\ Place \in BeforeAnalysis =>
           serviceJson = "NoFile" /\ analyser \in {"reported", "none"}
    /\ Place \in DuringAnalysis =>
           /\ target = service
           /\ serviceJson \in Streams => serviceJson = target /\ analyser \in {"reported", "none"}
           /\ serviceJson = "NoFile" => analyser \in {"starting", "tuned", "none"}
           /\ serviceJson = "Torn" => analyser = "writing"
           /\ serviceJson = "NoServices" => analyser = "none"
    /\ Place \in AfterAnalysis =>
           /\ serviceJson = target
           /\ service = target
           /\ analyser \in {"reported", "none"}
    /\ Place \in {"Monitor", "Open", "Select", "Stop"} => tspCmd = "streamer"
    /\ Place # "Retry"

------------------------------------------------------------------------------
(* Type correctness.                                                        *)

\* The records main and the loop build from sm.OsdStats are OsdStats again.
LEMMA StateField ==
    ASSUME NEW o \in OsdStats, NEW st \in LISTENING .. STOPPING
    PROVE  /\ [o EXCEPT !.state = st] \in OsdStats
           /\ [o EXCEPT !.tuned = TRUE, !.state = st] \in OsdStats
  BY DEF OsdStats

LEMMA FlagFields ==
    ASSUME NEW o \in OsdStats, NEW l \in BOOLEAN, NEW c \in BOOLEAN
    PROVE  [o EXCEPT !.lock = l, !.carrier = c] \in OsdStats
  BY DEF OsdStats

LEMMA ClearedType ==
    ASSUME NEW o \in OsdStats
    PROVE  Cleared(o) \in OsdStats
  BY DEF OsdStats, Cleared

\* The state numbers lie in the range of the State field.
LEMMA StateRange ==
    /\ LISTENING \in LISTENING .. STOPPING
    /\ ANALYSING \in LISTENING .. STOPPING
    /\ FINDPIDS \in LISTENING .. STOPPING
    /\ STREAMING \in LISTENING .. STOPPING
    /\ STOPPING \in LISTENING .. STOPPING
  BY DEF LISTENING, ANALYSING, FINDPIDS, STREAMING, STOPPING

\* A copy of the statistics and the service is a map entry.
LEMMA CombinedType ==
    ASSUME TypeOK
    PROVE  Combined \in CombinedStats
  BY DEF TypeOK, Combined, CombinedStats

\* A killed tsp is a process in one of the known stages.
LEMMA StopStreamingType ==
    ASSUME TypeOK, StopStreaming
    PROVE  analyser' \in Processes /\ streamer' \in Processes /\ target' = target
  BY DEF TypeOK, StopStreaming, Killed, Processes

\* Entering a state and publishing keeps the type.
LEMMA EnterStateType ==
    ASSUME TypeOK, NEW from, NEW state \in LISTENING .. STOPPING, NEW to \in MainLabels \ {"Snapshot", "Publish", "Exited"},
           EnterState(from, state, to)
    PROVE  TypeOK'
  <1>1. osd' \in OsdStats
    BY StateField DEF EnterState, TypeOK
  <1> QED
    BY <1>1 DEF EnterState, UpdateAdapterStatus, TypeOK, MainLabels, loopVars, fileVars, tspVars

\* Every variable keeps its type in every step of main.
LEMMA MainType ==
    ASSUME TypeOK, MainNext
    PROVE  TypeOK'
  <1> USE DEF TypeOK, MainLabels, Goto, UpdateAdapterStatus, mainVars, loopVars, smVars,
              fileVars, tspVars
  <1>1. CASE MainSnapshot
    BY <1>1, CombinedType DEF MainSnapshot
  <1>2. CASE MainPublish
    BY <1>2 DEF MainPublish
  <1>3. CASE AwaitSignal
    BY <1>3, EnterStateType, StateRange DEF AwaitSignal
  <1>4. CASE Listen
    BY <1>4 DEF Listen
  <1>5. CASE ListenFails
    BY <1>5, StopStreamingType DEF ListenFails
  <1>6. CASE Listened
    BY <1>6 DEF Listened
  <1>7. CASE FindServices
    BY <1>7, EnterStateType, StateRange DEF FindServices
  <1>8. CASE GetService
    BY <1>8, Assumptions DEF GetService, Selected
  <1>9. CASE Analyse
    BY <1>9 DEF Analyse, Processes
  <1>10. CASE AnalyseFails
    BY <1>10 DEF AnalyseFails
  <1>11. CASE Modulation
    <2>1. osd' \in OsdStats
      BY <1>11, StateField, StateRange DEF Modulation
    <2> QED
      BY <1>11, <2>1 DEF Modulation
  <1>12. CASE ModulationMissing
    BY <1>12 DEF ModulationMissing
  <1>13. CASE CheckForPIDFile
    BY <1>13 DEF CheckForPIDFile, Extracted
  <1>14. CASE StartStreaming
    BY <1>14 DEF Assigned, StartStreaming, Processes
  <1>15. CASE StartStreamingFails
    BY <1>15 DEF StartStreamingFails
  <1>16. CASE Retry
    BY <1>16, StopStreamingType DEF Retry
  <1>17. CASE MonitorSignal
    BY <1>17, EnterStateType, StateRange DEF MonitorSignal
  <1>18. CASE OpenFrontend
    BY <1>18 DEF OpenFrontend, LoopLabels
  <1>19. CASE OpenFrontendFails
    BY <1>19 DEF OpenFrontendFails
  <1>20. CASE SelectDefault
    BY <1>20 DEF SelectDefault
  <1>21. CASE ReceiveLockLost
    BY <1>21, Assumptions DEF ReceiveLockLost, LoopReturns, LoopLabels
  <1>22. CASE HandleLockLost
    BY <1>22, StopStreamingType DEF HandleLockLost
  <1>23. CASE DeleteAdapterFiles
    BY <1>23 DEF DeleteAdapterFiles, NoFilesLeft, Files
  <1> QED
    BY <1>1, <1>2, <1>3, <1>4, <1>5, <1>6, <1>7, <1>8, <1>9, <1>10, <1>11, <1>12, <1>13,
       <1>14, <1>15, <1>16, <1>17, <1>18, <1>19, <1>20, <1>21, <1>22, <1>23 DEF MainNext

\* Every variable keeps its type in every step of the monitor loop.
LEMMA LoopType ==
    ASSUME TypeOK, LoopControl, LoopNext
    PROVE  TypeOK'
  <1> USE DEF TypeOK, LoopLabels, LoopGoto, mainVars, smVars, fileVars, tspVars
  <1>1. ASSUME NEW l \in BOOLEAN, NEW c \in BOOLEAN, Reading(l, c)
        PROVE  TypeOK'
    <2>1. osd' \in OsdStats
      BY <1>1, FlagFields DEF Reading
    <2>2. lockCount' \in 0 .. LossLimit
      \* at the limit the loop is no longer reading
      BY <1>1, Assumptions DEF Reading, Misses, LoopControl
    <2>3. attempts' \in 0 .. MaxRetries - 1
      BY <1>1, Assumptions DEF Reading
    <2> QED
      BY <1>1, <2>1, <2>2, <2>3 DEF Reading
  <1>2. CASE ReadingFails
    BY <1>2, Assumptions DEF ReadingFails, AttemptsLeft
  <1>3. CASE LoopStopping
    <2>1. osd' \in OsdStats
      BY <1>3, StateField, StateRange DEF LoopStopping
    <2> QED
      BY <1>3, <2>1 DEF LoopStopping
  <1>4. CASE ClearOsdStats
    <2>1. osd' \in OsdStats
      BY <1>4, ClearedType DEF ClearOsdStats
    <2> QED
      BY <1>4, <2>1 DEF ClearOsdStats
  <1>5. CASE LoopSnapshot
    BY <1>5, CombinedType DEF LoopSnapshot
  <1>6. CASE LoopPublish
    BY <1>6 DEF LoopPublish, AfterLoss
  <1>7. CASE LoopSleeps
    BY <1>7 DEF LoopSleeps
  <1> QED
    BY <1>1, <1>2, <1>3, <1>4, <1>5, <1>6, <1>7 DEF LoopNext

\* Every variable keeps its type in every step of tsp and the transmitter.
LEMMA EnvironmentType ==
    ASSUME TypeOK, ReportsSelected,
           AnalyserNext \/ StreamerNext \/ KeyUp \/ KeyDown \/ Ended
    PROVE  TypeOK'
  <1> USE DEF TypeOK, Processes, Files, mainVars, loopVars, smVars, fileVars, tspVars
  <1>1. CASE AnalyserNext
    <2>1. CASE AnalyserLogs
      BY <2>1 DEF AnalyserLogs
    <2>2. CASE AnalyserTunes
      BY <2>2 DEF AnalyserTunes
    <2>3. CASE AnalyserCannotTune
      BY <2>3 DEF AnalyserCannotTune
    <2>4. CASE AnalyserLosesService
      BY <2>4 DEF AnalyserLosesService
    <2>5. CASE AnalyserReports
      BY <2>5 DEF AnalyserReports
    <2>6. CASE AnalyserCompletes
      BY <2>6 DEF AnalyserCompletes, ReportsSelected
    <2>7. CASE AnalyserExits
      BY <2>7 DEF AnalyserExits
    <2> QED
      BY <1>1, <2>1, <2>2, <2>3, <2>4, <2>5, <2>6, <2>7 DEF AnalyserNext
  <1>2. CASE StreamerNext
    BY <1>2 DEF StreamerNext, StreamerTunes, StreamerEnds
  <1>3. CASE KeyUp
    BY <1>3 DEF KeyUp
  <1>4. CASE KeyDown
    BY <1>4 DEF KeyDown
  <1>5. CASE Ended
    BY <1>5 DEF Ended, vars
  <1> QED
    BY <1>1, <1>2, <1>3, <1>4, <1>5

\* Where main is does not change when others move.
LEMMA PlaceUnchanged ==
    ASSUME UNCHANGED <<mainPc, ret>>
    PROVE  Place' = Place
  BY DEF Place

\* tsp and the transmitter write no variable of the two goroutines.
LEMMA EnvironmentFrame ==
    ASSUME AnalyserNext \/ StreamerNext \/ KeyUp \/ KeyDown \/ Ended
    PROVE  UNCHANGED <<mainVars, loopVars, smVars, board>>
  BY DEF AnalyserNext, AnalyserLogs, AnalyserTunes, AnalyserCannotTune,
     AnalyserLosesService, AnalyserReports, AnalyserCompletes, AnalyserExits,
     StreamerNext, StreamerTunes, StreamerEnds, KeyUp, KeyDown, Ended, vars

\* The monitor loop and main's place stay tied in every step.
LEMMA LoopControlStep ==
    ASSUME TypeOK, LoopControl, Next
    PROVE  LoopControl'
  <1> USE DEF LoopControl, mainVars, loopVars
  <1>1. CASE MainNext
    <2> USE DEF Goto, UpdateAdapterStatus, Place
    <2>1. CASE MainSnapshot
      BY <1>1, <2>1 DEF MainSnapshot
    <2>2. CASE MainPublish
      BY <2>2 DEF MainPublish
    <2>3. CASE AwaitSignal \/ FindServices \/ MonitorSignal
      BY <2>3 DEF AwaitSignal, FindServices, MonitorSignal, EnterState
    <2>4. CASE Listen \/ ListenFails \/ Listened
      BY <2>4 DEF Listen, ListenFails, Listened
    <2>5. CASE GetService \/ Analyse \/ AnalyseFails
      BY <2>5 DEF GetService, Analyse, AnalyseFails
    <2>6. CASE Modulation \/ ModulationMissing \/ CheckForPIDFile
      BY <2>6 DEF Modulation, ModulationMissing, CheckForPIDFile
    <2>7. CASE StartStreaming \/ StartStreamingFails \/ Retry
      BY <2>7 DEF StartStreaming, StartStreamingFails, Retry
    <2>8. CASE OpenFrontend
      BY <2>8, Assumptions DEF OpenFrontend
    <2>9. CASE OpenFrontendFails \/ SelectDefault
      BY <2>9 DEF OpenFrontendFails, SelectDefault
    <2>10. CASE ReceiveLockLost
      BY <2>10 DEF ReceiveLockLost, LoopReturns
    <2>11. CASE HandleLockLost \/ DeleteAdapterFiles
      BY <2>11 DEF HandleLockLost, DeleteAdapterFiles
    <2> QED
      BY <1>1, <2>1, <2>2, <2>3, <2>4, <2>5, <2>6, <2>7, <2>8, <2>9, <2>10, <2>11 DEF MainNext
  <1>2. CASE LoopNext
    <2> USE PlaceUnchanged DEF LoopGoto
    <2>1. ASSUME NEW l \in BOOLEAN, NEW c \in BOOLEAN, Reading(l, c)
          PROVE  LoopControl'
      BY <2>1, Assumptions DEF Reading, Misses, Lost, TypeOK
    <2>2. CASE ReadingFails
      BY <2>2 DEF ReadingFails
    <2>3. CASE LoopStopping \/ ClearOsdStats \/ LoopSnapshot \/ LoopPublish \/ LoopSleeps
      BY <2>3 DEF LoopStopping, ClearOsdStats, LoopSnapshot, LoopPublish, LoopSleeps, AfterLoss
    <2> QED
      BY <1>2, <2>1, <2>2, <2>3 DEF LoopNext
  <1>3. CASE AnalyserNext \/ StreamerNext \/ KeyUp \/ KeyDown \/ Ended
    BY <1>3, EnvironmentFrame, PlaceUnchanged
  <1> QED
    BY <1>1, <1>2, <1>3 DEF Next

\* A tsp starts to write its report only for a clear service.
LEMMA ReportsSelectedStep ==
    ASSUME ReportsSelected, Next
    PROVE  ReportsSelected'
  <1> USE DEF ReportsSelected, tspVars
  <1>1. CASE MainNext
    <2>1. CASE Analyse
      BY <2>1 DEF Analyse
    <2>2. CASE ListenFails \/ Retry \/ HandleLockLost
      BY <2>2 DEF ListenFails, Retry, HandleLockLost, StopStreaming, Killed
    <2>3. CASE ~(Analyse \/ ListenFails \/ Retry \/ HandleLockLost)
      BY <1>1, <2>3 DEF MainNext, MainSnapshot, MainPublish, AwaitSignal, FindServices,
         MonitorSignal, EnterState, Listen, Listened, GetService, AnalyseFails, Modulation,
         ModulationMissing, CheckForPIDFile, StartStreaming, StartStreamingFails,
         OpenFrontend, OpenFrontendFails, SelectDefault, ReceiveLockLost, DeleteAdapterFiles
    <2> QED
      BY <2>1, <2>2, <2>3
  <1>2. CASE LoopNext
    BY <1>2 DEF LoopNext, Reading, ReadingFails, LoopStopping, ClearOsdStats, LoopSnapshot,
       LoopPublish, LoopSleeps
  <1>3. CASE AnalyserNext
    BY <1>3, Assumptions DEF AnalyserNext, AnalyserLogs, AnalyserTunes, AnalyserCannotTune,
       AnalyserLosesService, AnalyserReports, AnalyserCompletes, AnalyserExits
  <1>4. CASE StreamerNext \/ KeyUp \/ KeyDown \/ Ended
    BY <1>4 DEF StreamerNext, StreamerTunes, StreamerEnds, KeyUp, KeyDown, Ended, vars
  <1> QED
    BY <1>1, <1>2, <1>3, <1>4 DEF Next

LEMMA TypeInvInit == Init => TypeInv
  <1> SUFFICES ASSUME Init
               PROVE  TypeInv
    OBVIOUS
  <1>1. osd \in OsdStats
    BY DEF Init, OsdStats, LISTENING, STOPPING
  <1> QED
    BY <1>1, Assumptions DEF Init, TypeInv, TypeOK, LoopControl, ReportsSelected, Place,
       MainLabels, LoopLabels, Files, Processes

LEMMA TypeInvStep == TypeInv /\ [Next]_vars => TypeInv'
  <1> SUFFICES ASSUME TypeInv, [Next]_vars
               PROVE  TypeInv'
    OBVIOUS
  <1>1. CASE Next
    BY <1>1, MainType, LoopType, EnvironmentType, LoopControlStep, ReportsSelectedStep
       DEF TypeInv, Next
  <1>2. CASE UNCHANGED vars
    BY <1>2 DEF TypeInv, TypeOK, LoopControl, ReportsSelected, Place, vars, mainVars,
       loopVars, smVars, fileVars, tspVars
  <1> QED
    BY <1>1, <1>2

LEMMA TypeInvAlways == Spec => []TypeInv
  BY TypeInvInit, TypeInvStep, PTL DEF Spec

\* Every variable of the adapter keeps to its type, for every set of streams
\* and every limit: the counts never pass LossLimit (the 10 of
\* monitorSignalLoop) and MaxRetries, and the files hold only what a tsp of
\* this adapter writes.
THEOREM TypeCorrect == Spec => []TypeOK
  BY TypeInvAlways, PTL DEF TypeInv

\* A frontend has one poller: no monitor loop outlives its MonitorSignal, so
\* the flags of a new round are never written by the loop of the old one.
THEOREM OnePoller == Spec => []LoopOnlyWhileMonitoring
  BY TypeInvAlways, PTL DEF TypeInv, LoopControl, LoopOnlyWhileMonitoring

------------------------------------------------------------------------------
(* The reported state, the flags and the published entry.                   *)

\* What the assignments to sm.OsdStats do to its fields.
LEMMA OsdAfter ==
    ASSUME NEW o \in OsdStats, NEW st, NEW l, NEW c
    PROVE  /\ [o EXCEPT !.state = st].state = st
           /\ [o EXCEPT !.state = st].lock = o.lock
           /\ [o EXCEPT !.state = st].carrier = o.carrier
           /\ [o EXCEPT !.tuned = TRUE, !.state = st].state = st
           /\ [o EXCEPT !.tuned = TRUE, !.state = st].lock = o.lock
           /\ [o EXCEPT !.tuned = TRUE, !.state = st].carrier = o.carrier
           /\ [o EXCEPT !.lock = l, !.carrier = c].state = o.state
           /\ [o EXCEPT !.lock = l, !.carrier = c].lock = l
           /\ [o EXCEPT !.lock = l, !.carrier = c].carrier = c
           /\ Cleared(o).state = o.state
           /\ ~Cleared(o).lock
           /\ ~Cleared(o).carrier
  BY DEF OsdStats, Cleared

\* Entering a state sets it and leaves the flags and the loop alone.
LEMMA EnterStateEffect ==
    ASSUME TypeOK, NEW from, NEW state, NEW to, EnterState(from, state, to)
    PROVE  /\ mainPc = from /\ mainPc' = "Snapshot" /\ ret' = to
           /\ osd'.state = state
           /\ osd'.lock = osd.lock /\ osd'.carrier = osd.carrier
           /\ UNCHANGED <<loopVars, mainSnap, service, pids, board>>
  BY OsdAfter DEF EnterState, UpdateAdapterStatus, TypeOK

\* Each phase of Start and each step of the loop leaves the state that the
\* next one expects.
LEMMA StateAtPlaceStep ==
    ASSUME TypeInv, StateAtPlace, Next
    PROVE  StateAtPlace'
  <1> USE DEF TypeInv, LoopControl, StateAtPlace, Place, LISTENING, ANALYSING, FINDPIDS,
              STREAMING, STOPPING
  <1>1. CASE MainNext
    <2> USE DEF Goto, UpdateAdapterStatus, mainVars, loopVars, smVars
    <2>1. CASE MainSnapshot
      BY <2>1 DEF MainSnapshot
    <2>2. CASE MainPublish
      BY <2>2 DEF MainPublish
    <2>3. CASE AwaitSignal
      BY <2>3, EnterStateEffect DEF AwaitSignal
    <2>4. CASE FindServices
      BY <2>4, EnterStateEffect DEF FindServices
    <2>5. CASE MonitorSignal
      BY <2>5, EnterStateEffect DEF MonitorSignal
    <2>6. CASE Listen \/ ListenFails \/ Listened
      BY <2>6 DEF Listen, ListenFails, Listened
    <2>7. CASE GetService \/ Analyse \/ AnalyseFails
      BY <2>7 DEF GetService, Analyse, AnalyseFails
    <2>8. CASE Modulation
      BY <2>8, OsdAfter DEF Modulation, TypeOK
    <2>9. CASE ModulationMissing \/ CheckForPIDFile
      BY <2>9 DEF ModulationMissing, CheckForPIDFile
    <2>10. CASE StartStreaming \/ StartStreamingFails \/ Retry
      BY <2>10 DEF StartStreaming, StartStreamingFails, Retry
    <2>11. CASE OpenFrontend \/ OpenFrontendFails \/ SelectDefault
      BY <2>11 DEF OpenFrontend, OpenFrontendFails, SelectDefault
    <2>12. CASE ReceiveLockLost
      BY <2>12 DEF ReceiveLockLost, LoopReturns
    <2>13. CASE HandleLockLost \/ DeleteAdapterFiles
      BY <2>13 DEF HandleLockLost, DeleteAdapterFiles
    <2> QED
      BY <1>1, <2>1, <2>2, <2>3, <2>4, <2>5, <2>6, <2>7, <2>8, <2>9, <2>10, <2>11, <2>12, <2>13
         DEF MainNext
  <1>2. CASE LoopNext
    <2> USE DEF LoopGoto, mainVars, smVars
    <2>1. ASSUME NEW l \in BOOLEAN, NEW c \in BOOLEAN, Reading(l, c)
          PROVE  StateAtPlace'
      BY <2>1, OsdAfter DEF Reading, TypeOK
    <2>2. CASE ReadingFails
      BY <2>2 DEF ReadingFails
    <2>3. CASE LoopStopping
      BY <2>3, OsdAfter DEF LoopStopping, TypeOK
    <2>4. CASE ClearOsdStats
      BY <2>4, OsdAfter DEF ClearOsdStats, TypeOK
    <2>5. CASE LoopSnapshot \/ LoopPublish \/ LoopSleeps
      BY <2>5 DEF LoopSnapshot, LoopPublish, LoopSleeps, AfterLoss
    <2> QED
      BY <1>2, <2>1, <2>2, <2>3, <2>4, <2>5 DEF LoopNext
  <1>3. CASE AnalyserNext \/ StreamerNext \/ KeyUp \/ KeyDown \/ Ended
    BY <1>3, EnvironmentFrame DEF mainVars, loopVars, smVars
  <1> QED
    BY <1>1, <1>2, <1>3 DEF Next

\* The flags stay dark outside the loop's readings, unless one may fail.
LEMMA DarkAfterClearStep ==
    ASSUME TypeInv, DarkAfterClear, Next
    PROVE  DarkAfterClear'
  <1> USE DEF TypeInv, LoopControl, DarkAfterClear, mainVars, loopVars, smVars
  <1>1. CASE MainNext
    <2>1. CASE AwaitSignal \/ FindServices \/ MonitorSignal
      BY <2>1, EnterStateEffect DEF AwaitSignal, FindServices, MonitorSignal
    <2>2. CASE Modulation
      BY <2>2, OsdAfter DEF Modulation, TypeOK
    <2>3. CASE OpenFrontend
      BY <2>3 DEF OpenFrontend
    <2>4. CASE ReceiveLockLost
      BY <2>4 DEF ReceiveLockLost
    <2>5. CASE ~(AwaitSignal \/ FindServices \/ MonitorSignal \/ Modulation
                 \/ OpenFrontend \/ ReceiveLockLost)
      BY <1>1, <2>5 DEF MainNext, MainSnapshot, MainPublish, Listen, ListenFails, Listened,
         GetService, Analyse, AnalyseFails, ModulationMissing, CheckForPIDFile, StartStreaming,
         StartStreamingFails, Retry, OpenFrontendFails, SelectDefault, HandleLockLost,
         DeleteAdapterFiles
    <2> QED
      BY <2>1, <2>2, <2>3, <2>4, <2>5
  <1>2. CASE LoopNext
    <2> USE DEF LoopGoto
    <2>1. ASSUME NEW l \in BOOLEAN, NEW c \in BOOLEAN, Reading(l, c)
          PROVE  DarkAfterClear'
      BY <2>1 DEF Reading
    <2>2. CASE ReadingFails
      BY <2>2 DEF ReadingFails
    <2>3. CASE LoopStopping
      BY <2>3 DEF LoopStopping
    <2>4. CASE ClearOsdStats
      BY <2>4, OsdAfter DEF ClearOsdStats, TypeOK
    <2>5. CASE LoopSnapshot \/ LoopPublish \/ LoopSleeps
      BY <2>5 DEF LoopSnapshot, LoopPublish, LoopSleeps, AfterLoss
    <2> QED
      BY <1>2, <2>1, <2>2, <2>3, <2>4, <2>5 DEF LoopNext
  <1>3. CASE AnalyserNext \/ StreamerNext \/ KeyUp \/ KeyDown \/ Ended
    BY <1>3, EnvironmentFrame
  <1> QED
    BY <1>1, <1>2, <1>3 DEF Next

\* No step makes a copy that waits to be published show another service, and
\* when main is alone its copy is current.
LEMMA SnapshotsCurrentStep ==
    ASSUME TypeInv, SnapshotsCurrent, Next
    PROVE  SnapshotsCurrent'
  <1> USE DEF TypeInv, LoopControl, SnapshotsCurrent, Place, mainVars, loopVars, smVars
  <1>1. CASE MainNext
    <2> USE DEF Goto, UpdateAdapterStatus
    <2>1. CASE MainSnapshot
      BY <2>1, CombinedType DEF MainSnapshot, Combined
    <2>2. CASE MainPublish
      BY <2>2 DEF MainPublish, TypeOK
    <2>3. CASE AwaitSignal \/ FindServices \/ MonitorSignal
      BY <2>3 DEF AwaitSignal, FindServices, MonitorSignal, EnterState
    <2>4. CASE Listen \/ ListenFails \/ Listened
      BY <2>4 DEF Listen, ListenFails, Listened
    <2>5. CASE GetService \/ Analyse \/ AnalyseFails
      BY <2>5 DEF GetService, Analyse, AnalyseFails
    <2>6. CASE Modulation \/ ModulationMissing \/ CheckForPIDFile
      BY <2>6 DEF Modulation, ModulationMissing, CheckForPIDFile
    <2>7. CASE StartStreaming \/ StartStreamingFails \/ Retry
      BY <2>7 DEF StartStreaming, StartStreamingFails, Retry
    <2>8. CASE OpenFrontend \/ OpenFrontendFails \/ SelectDefault
      BY <2>8 DEF OpenFrontend, OpenFrontendFails, SelectDefault
    <2>9. CASE ReceiveLockLost
      BY <2>9 DEF ReceiveLockLost, LoopReturns
    <2>10. CASE HandleLockLost \/ DeleteAdapterFiles
      BY <2>10 DEF HandleLockLost, DeleteAdapterFiles
    <2> QED
      BY <1>1, <2>1, <2>2, <2>3, <2>4, <2>5, <2>6, <2>7, <2>8, <2>9, <2>10 DEF MainNext
  <1>2. CASE LoopNext
    <2> USE DEF LoopGoto
    <2>1. ASSUME NEW l \in BOOLEAN, NEW c \in BOOLEAN, Reading(l, c)
          PROVE  SnapshotsCurrent'
      BY <2>1 DEF Reading
    <2>2. CASE ReadingFails \/ LoopStopping \/ ClearOsdStats
      BY <2>2 DEF ReadingFails, LoopStopping, ClearOsdStats
    <2>3. CASE LoopSnapshot
      BY <2>3, CombinedType DEF LoopSnapshot, Combined
    <2>4. CASE LoopPublish \/ LoopSleeps
      BY <2>4 DEF LoopPublish, LoopSleeps, AfterLoss
    <2> QED
      BY <1>2, <2>1, <2>2, <2>3, <2>4 DEF LoopNext
  <1>3. CASE AnalyserNext \/ StreamerNext \/ KeyUp \/ KeyDown \/ Ended
    BY <1>3, EnvironmentFrame
  <1> QED
    BY <1>1, <1>2, <1>3 DEF Next

\* The entry is current again once main, alone, has published.
LEMMA BoardCurrentStep ==
    ASSUME TypeInv, SnapshotsCurrent, BoardCurrentWhenAlone, Next
    PROVE  BoardCurrentWhenAlone'
  <1> USE DEF TypeInv, LoopControl, BoardCurrentWhenAlone, Place, mainVars, loopVars, smVars
  <1>1. CASE MainNext
    <2> USE DEF Goto, UpdateAdapterStatus
    <2>1. CASE MainSnapshot
      BY <2>1 DEF MainSnapshot
    <2>2. CASE MainPublish
      BY <2>2, Assumptions DEF MainPublish, SnapshotsCurrent
    <2>3. CASE AwaitSignal \/ FindServices \/ MonitorSignal
      BY <2>3 DEF AwaitSignal, FindServices, MonitorSignal, EnterState
    <2>4. CASE Listen \/ ListenFails \/ Listened
      BY <2>4 DEF Listen, ListenFails, Listened
    <2>5. CASE GetService \/ Analyse \/ AnalyseFails
      BY <2>5 DEF GetService, Analyse, AnalyseFails
    <2>6. CASE Modulation \/ ModulationMissing \/ CheckForPIDFile
      BY <2>6 DEF Modulation, ModulationMissing, CheckForPIDFile
    <2>7. CASE StartStreaming \/ StartStreamingFails \/ Retry
      BY <2>7 DEF StartStreaming, StartStreamingFails, Retry
    <2>8. CASE OpenFrontend \/ OpenFrontendFails \/ SelectDefault
      BY <2>8 DEF OpenFrontend, OpenFrontendFails, SelectDefault
    <2>9. CASE ReceiveLockLost \/ HandleLockLost \/ DeleteAdapterFiles
      BY <2>9 DEF ReceiveLockLost, HandleLockLost, DeleteAdapterFiles
    <2> QED
      BY <1>1, <2>1, <2>2, <2>3, <2>4, <2>5, <2>6, <2>7, <2>8, <2>9 DEF MainNext
  <1>2. CASE LoopNext
    \* the loop runs only while main waits in MonitorSignal
    BY <1>2 DEF LoopNext, Reading, ReadingFails, LoopStopping, ClearOsdStats, LoopSnapshot,
       LoopPublish, LoopSleeps
  <1>3. CASE AnalyserNext \/ StreamerNext \/ KeyUp \/ KeyDown \/ Ended
    BY <1>3, EnvironmentFrame
  <1> QED
    BY <1>1, <1>2, <1>3 DEF Next

\* The service changes only while the entry shows ANALYSING or FINDPIDS.
LEMMA BoardServiceStep ==
    ASSUME TypeInv, StateAtPlace, SnapshotsCurrent, BoardCurrentWhenAlone,
           BoardShowsStreamedService, Next
    PROVE  BoardShowsStreamedService'
  <1> USE DEF BoardShowsStreamedService, mainVars, loopVars, smVars
  <1>1. CASE GetService \/ CheckForPIDFile
    <2>1. board # NoEntry /\ board.osd.state # STREAMING
      BY <1>1 DEF GetService, CheckForPIDFile, BoardCurrentWhenAlone, StateAtPlace, TypeInv,
         LoopControl, Place, ANALYSING, FINDPIDS, STREAMING
    <2> QED
      BY <1>1, <2>1 DEF GetService, CheckForPIDFile
  <1>2. CASE MainPublish
    BY <1>2 DEF MainPublish, SnapshotsCurrent
  <1>3. CASE LoopPublish
    BY <1>3 DEF LoopPublish, SnapshotsCurrent
  <1>4. CASE MainNext /\ ~(GetService \/ CheckForPIDFile \/ MainPublish)
    BY <1>4 DEF MainNext, MainSnapshot, AwaitSignal, FindServices, MonitorSignal, EnterState,
       Listen, ListenFails, Listened, Analyse, AnalyseFails, Modulation, ModulationMissing,
       StartStreaming, StartStreamingFails, Retry, OpenFrontend, OpenFrontendFails,
       SelectDefault, ReceiveLockLost, HandleLockLost, DeleteAdapterFiles
  <1>5. CASE LoopNext /\ ~LoopPublish
    BY <1>5 DEF LoopNext, Reading, ReadingFails, LoopStopping, ClearOsdStats, LoopSnapshot, LoopSleeps
  <1>6. CASE AnalyserNext \/ StreamerNext \/ KeyUp \/ KeyDown \/ Ended
    BY <1>6, EnvironmentFrame
  <1> QED
    BY <1>1, <1>2, <1>3, <1>4, <1>5, <1>6 DEF Next

LEMMA ControlInit == Init => Control
  <1> SUFFICES ASSUME Init
               PROVE  Control
    OBVIOUS
  <1> QED
    BY TypeInvInit, Assumptions DEF Init, Control, StateAtPlace, DarkAfterClear, SnapshotsCurrent,
       BoardCurrentWhenAlone, BoardShowsStreamedService, Place, LISTENING, STREAMING

LEMMA ControlStep == Control /\ [Next]_vars => Control'
  <1> SUFFICES ASSUME Control, [Next]_vars
               PROVE  Control'
    OBVIOUS
  <1>1. CASE Next
    BY <1>1, TypeInvStep, StateAtPlaceStep, DarkAfterClearStep, SnapshotsCurrentStep,
       BoardCurrentStep, BoardServiceStep DEF Control
  <1>2. CASE UNCHANGED vars
    <2>1. TypeInv'
      BY <1>2, TypeInvStep DEF Control
    <2> QED
      BY <1>2, <2>1 DEF Control, StateAtPlace, DarkAfterClear, SnapshotsCurrent,
         BoardCurrentWhenAlone, BoardShowsStreamedService, Place, vars, mainVars, loopVars, smVars
  <1> QED
    BY <1>1, <1>2

LEMMA ControlAlways == Spec => []Control
  BY ControlInit, ControlStep, PTL DEF Spec

\* The published entry is the adapter's current statistics whenever main
\* runs alone and is not publishing: an old copy written late by one of the
\* two goroutines never survives the return to LISTENING.
THEOREM BoardCurrent == Spec => []BoardCurrentWhenAlone
  BY ControlAlways, PTL DEF Control

\* An entry that shows STREAMING, however old the copy, names the service
\* that is streamed, although sm.Service is written without the mutex.
THEOREM BoardService == Spec => []BoardShowsStreamedService
  BY ControlAlways, PTL DEF Control

\* If no reading of the frontend fails three times over, an adapter that is
\* not streaming reports no lock.  (With such a failure it may: run
\* stale_lock shows it.)
THEOREM LockTruthful == ~StatsFail /\ Spec => []LockOnlyWhileStreaming
  <1> SUFFICES ASSUME ~StatsFail
               PROVE  Spec => []LockOnlyWhileStreaming
    OBVIOUS
  <1>1. Control => LockOnlyWhileStreaming
    BY DEF Control, DarkAfterClear, StateAtPlace, LockOnlyWhileStreaming, LISTENING, ANALYSING,
       FINDPIDS, STREAMING, STOPPING
  <1> QED
    BY <1>1, ControlAlways, PTL

------------------------------------------------------------------------------
(* The service fields on the OSD page.                                      *)

\* A copy that shows a lock describes one service.
NamesOne(copy) == copy.osd.lock /\ copy.osd.carrier => copy.pids = copy.service

\* From CheckForPIDFile until the stream is lost and its files are deleted
\* sm.Service holds one service; only then can there be a lock to publish.
OneService ==
    /\ Place \in {"Stream", "Monitor", "Open", "Select", "Stop", "Delete"} => pids = service
    /\ mainPc = "Publish" => NamesOne(mainSnap)
    /\ loopPc = "Publish" => NamesOne(loopSnap)
    /\ board # NoEntry => NamesOne(board)

\* sm.Service is a mixture only where the flags are dark.
LEMMA CombinedNamesOne ==
    ASSUME ~StatsFail, Control, OneService
    PROVE  NamesOne(Combined)
  <1>1. CASE Place \in {"Stream", "Monitor", "Open", "Select", "Stop", "Delete"}
    BY <1>1 DEF OneService, NamesOne, Combined
  <1>2. CASE Place \notin {"Stream", "Monitor", "Open", "Select", "Stop", "Delete"}
    <2>1. ~osd.lock
      BY <1>2 DEF Control, TypeInv, LoopControl, DarkAfterClear
    <2>2. Combined.osd = osd
      BY DEF Combined
    <2> QED
      BY <2>1, <2>2 DEF NamesOne
  <1> QED
    BY <1>1, <1>2

\* No step publishes a mixture next to a lock.
LEMMA OneServiceStep ==
    ASSUME ~StatsFail, Control, OneService, Next
    PROVE  OneService'
  <1> USE DEF OneService, Place, mainVars, loopVars, smVars
  <1>1. CASE MainSnapshot
    BY <1>1, CombinedNamesOne DEF MainSnapshot, NamesOne
  <1>2. CASE LoopSnapshot
    BY <1>2, CombinedNamesOne DEF LoopSnapshot, NamesOne
  <1>3. CASE MainPublish \/ LoopPublish
    BY <1>3 DEF MainPublish, LoopPublish, AfterLoss, NamesOne, Control, TypeInv, TypeOK
  <1>4. CASE MainNext /\ ~(MainSnapshot \/ MainPublish)
    <2> USE DEF Goto, UpdateAdapterStatus, NamesOne
    <2>1. CASE AwaitSignal \/ FindServices \/ MonitorSignal
      BY <2>1 DEF AwaitSignal, FindServices, MonitorSignal, EnterState
    <2>2. CASE Listen \/ ListenFails \/ Listened
      BY <2>2 DEF Listen, ListenFails, Listened
    <2>3. CASE GetService \/ Analyse \/ AnalyseFails
      BY <2>3 DEF GetService, Analyse, AnalyseFails
    <2>4. CASE Modulation \/ ModulationMissing \/ CheckForPIDFile
      <3>1. CASE Modulation \/ ModulationMissing
        BY <3>1 DEF Modulation, ModulationMissing
      <3>2. CASE CheckForPIDFile
        <4>1. mainPc = "PidFile" /\ mainPc' \in {"Stream", "Exited"}
          BY <3>2 DEF CheckForPIDFile
        <4>2. UNCHANGED <<mainSnap, loopVars, board, ret>>
          BY <3>2 DEF CheckForPIDFile
        <4>3. mainPc' = "Stream" => pids' = service'
          BY <3>2 DEF CheckForPIDFile, Extracted
        <4> QED
          BY <4>1, <4>2, <4>3
      <3> QED
        BY <2>4, <3>1, <3>2
    <2>5. CASE StartStreaming \/ StartStreamingFails \/ Retry
      BY <2>5 DEF StartStreaming, StartStreamingFails, Retry
    <2>6. CASE OpenFrontend \/ OpenFrontendFails \/ SelectDefault
      BY <2>6 DEF OpenFrontend, OpenFrontendFails, SelectDefault
    <2>7. CASE ReceiveLockLost \/ HandleLockLost \/ DeleteAdapterFiles
      BY <2>7 DEF ReceiveLockLost, LoopReturns, HandleLockLost, DeleteAdapterFiles
    <2> QED
      BY <1>4, <2>1, <2>2, <2>3, <2>4, <2>5, <2>6, <2>7 DEF MainNext
  <1>5. CASE LoopNext /\ ~(LoopSnapshot \/ LoopPublish)
    BY <1>5 DEF LoopNext, Reading, ReadingFails, LoopStopping, ClearOsdStats, LoopSleeps, LoopGoto, NamesOne
  <1>6. CASE AnalyserNext \/ StreamerNext \/ KeyUp \/ KeyDown \/ Ended
    BY <1>6, EnvironmentFrame DEF NamesOne
  <1> QED
    BY <1>1, <1>2, <1>3, <1>4, <1>5, <1>6 DEF Next

\* If no reading fails three times over, whatever the page prints next to a
\* lock (ID, name, PIDs and types) belongs to one service, although the
\* record is filled in two steps and without the mutex.
THEOREM OneServicePrinted == ~StatsFail /\ Spec => []LockedEntryNamesOneService
  <1> SUFFICES ASSUME ~StatsFail
               PROVE  Spec => []LockedEntryNamesOneService
    OBVIOUS
  <1>1. Init => OneService
    BY DEF Init, OneService, Place
  <1>2. Control /\ OneService /\ [Next]_vars => OneService'
    <2>1. CASE UNCHANGED vars
      BY <2>1 DEF OneService, NamesOne, Place, vars, mainVars, loopVars, smVars
    <2> QED
      BY <2>1, OneServiceStep
  <1>3. OneService => LockedEntryNamesOneService
    BY DEF OneService, NamesOne, LockedEntryNamesOneService
  <1> QED
    BY <1>1, <1>2, <1>3, ControlAlways, PTL DEF Spec

------------------------------------------------------------------------------
(* The adapter keeps the promise of SetTopBox.                              *)

\* The part of the state the promise is about.
Count == IF osd.state = STREAMING THEN lockCount ELSE 0
Shown == <<Running, osd.state, osd.lock, osd.carrier, Count>>

\* Both modules number the states as state.go does.
LEMMA SameStates ==
    /\ STB!LISTENING = LISTENING /\ STB!ANALYSING = ANALYSING /\ STB!FINDPIDS = FINDPIDS
    /\ STB!STREAMING = STREAMING /\ STB!STOPPING = STOPPING
  BY DEF STB!LISTENING, STB!ANALYSING, STB!FINDPIDS, STB!STREAMING, STB!STOPPING,
     LISTENING, ANALYSING, FINDPIDS, STREAMING, STOPPING

LEMMA ShownUnchanged ==
    ASSUME Shown' = Shown
    PROVE  UNCHANGED STB!vars
  BY DEF Shown, Count, STB!vars

\* Main's steps: a change of state is a move of the promise, the end of the
\* process its PowerOff, everything else none of its business.
LEMMA MainKeepsPromise ==
    ASSUME ~StatsFail, Control, MainNext
    PROVE  STB!Next \/ UNCHANGED STB!vars
  <1> USE DEF Control, TypeInv, LoopControl, StateAtPlace, Place, LISTENING, ANALYSING,
              FINDPIDS, STREAMING, STOPPING, mainVars, loopVars, smVars, Running
  <1>1. CASE AwaitSignal
    <2>1. /\ mainPc = "Await" /\ Running /\ Running'
          /\ osd.state \in {LISTENING, ANALYSING, FINDPIDS, STOPPING}
          /\ osd'.state = LISTENING /\ osd'.lock = osd.lock /\ osd'.carrier = osd.carrier
          /\ ~osd.lock /\ ~osd.carrier
      BY <1>1, EnterStateEffect DEF AwaitSignal, DarkAfterClear, TypeOK, OsdStats
    <2>2. CASE osd.state = LISTENING
      BY <2>1, <2>2, ShownUnchanged DEF Shown, Count
    <2>3. CASE osd.state \in {ANALYSING, FINDPIDS}
      BY <2>1, <2>3, SameStates DEF STB!Next, STB!GiveUp, STB!Move
    <2>4. CASE osd.state = STOPPING
      BY <2>1, <2>4, SameStates DEF STB!Next, STB!Release, STB!Move
    <2> QED
      BY <2>1, <2>2, <2>3, <2>4
  <1>2. CASE FindServices
    <2>1. /\ Running /\ Running' /\ osd.state = LISTENING /\ osd'.state = ANALYSING
          /\ osd'.lock = osd.lock /\ osd'.carrier = osd.carrier
      BY <1>2, EnterStateEffect DEF FindServices
    <2> QED
      BY <2>1, SameStates DEF STB!Next, STB!Detect, STB!Move
  <1>3. CASE Modulation
    <2>1. /\ Running /\ Running' /\ osd.state = ANALYSING /\ osd'.state = FINDPIDS
          /\ osd'.lock = osd.lock /\ osd'.carrier = osd.carrier
      BY <1>3, OsdAfter DEF Modulation, UpdateAdapterStatus, TypeOK
    <2> QED
      BY <2>1, SameStates DEF STB!Next, STB!Identify, STB!Move
  <1>4. CASE MonitorSignal
    <2>1. /\ Running /\ Running' /\ osd.state = FINDPIDS /\ osd'.state = STREAMING
          /\ osd'.lock = osd.lock /\ osd'.carrier = osd.carrier
          /\ lockCount = 0 /\ lockCount' = 0
      BY <1>4, EnterStateEffect DEF MonitorSignal
    <2> QED
      BY <2>1, SameStates DEF STB!Next, STB!Stream, STB!Move
  <1>5. CASE ListenFails \/ ModulationMissing \/ CheckForPIDFile \/ OpenFrontendFails
    <2>1. UNCHANGED <<osd, lockCount>> /\ Running
      BY <1>5 DEF ListenFails, ModulationMissing, CheckForPIDFile, OpenFrontendFails
    <2>2. CASE Running'
      BY <2>1, <2>2, ShownUnchanged DEF Shown, Count
    <2>3. CASE ~Running'
      BY <2>1, <2>3, SameStates DEF STB!Next, STB!PowerOff
    <2> QED
      BY <2>2, <2>3
  <1>6. CASE ReceiveLockLost
    \* the loop's count is dropped, and is no longer counted as the state is STOPPING
    <2>1. UNCHANGED osd /\ osd.state = STOPPING /\ Running /\ Running'
      BY <1>6 DEF ReceiveLockLost, Goto
    <2> QED
      BY <2>1, ShownUnchanged DEF Shown, Count
  <1>7. CASE ~(\/ AwaitSignal \/ FindServices \/ Modulation \/ MonitorSignal \/ ListenFails
               \/ ModulationMissing \/ CheckForPIDFile \/ OpenFrontendFails \/ ReceiveLockLost)
    <2>1. UNCHANGED <<osd, lockCount>> /\ Running /\ mainPc' # "Exited"
      BY <1>7 DEF MainNext, MainSnapshot, MainPublish, Listen, Listened,
         GetService, Analyse, AnalyseFails, StartStreaming, StartStreamingFails, Retry,
         OpenFrontend, SelectDefault, HandleLockLost, DeleteAdapterFiles, Goto,
         UpdateAdapterStatus, TypeOK
    <2> QED
      BY <2>1, ShownUnchanged DEF Shown, Count
  <1> QED
    BY <1>1, <1>2, <1>3, <1>4, <1>5, <1>6, <1>7

\* The loop's steps: readings, the loss after exactly LossLimit of them, and
\* the clearing of the flags.
LEMMA LoopKeepsPromise ==
    ASSUME ~StatsFail, Control, LoopNext
    PROVE  STB!Next \/ UNCHANGED STB!vars
  <1> USE DEF Control, TypeInv, LoopControl, StateAtPlace, LoopGoto, LISTENING, ANALYSING,
              FINDPIDS, STREAMING, STOPPING, mainVars, smVars, Running
  <1>1. ASSUME NEW l \in BOOLEAN, NEW c \in BOOLEAN, Reading(l, c)
        PROVE  STB!Next
    <2>1. /\ Running /\ Running' /\ osd.state = STREAMING /\ osd'.state = STREAMING
          /\ osd'.lock = l /\ osd'.carrier = c
          /\ lockCount < LossLimit
          /\ lockCount' = IF l /\ c THEN 0 ELSE lockCount + 1
      BY <1>1, OsdAfter DEF Reading, Misses, TypeOK
    <2>2. STB!Reading(l, c)
      BY <2>1, SameStates DEF STB!Reading, STB!NotYetLost
    <2> QED
      BY <2>2 DEF STB!Next
  <1>2. CASE LoopStopping
    <2>1. /\ Running /\ Running' /\ osd.state = STREAMING /\ osd'.state = STOPPING
          /\ osd'.lock = osd.lock /\ osd'.carrier = osd.carrier
          /\ lockCount = LossLimit
      BY <1>2, OsdAfter DEF LoopStopping, TypeOK
    <2> QED
      BY <2>1, SameStates DEF STB!Next, STB!Lose, STB!Move
  <1>3. CASE ClearOsdStats
    <2>1. /\ Running /\ Running' /\ osd.state = STOPPING /\ osd'.state = STOPPING
          /\ osd'.lock = FALSE /\ osd'.carrier = FALSE
      BY <1>3 DEF ClearOsdStats, Cleared, TypeOK, OsdStats
    <2> QED
      BY <2>1, SameStates DEF STB!Next, STB!Darken
  <1>4. CASE LoopSnapshot \/ LoopPublish \/ LoopSleeps
    BY <1>4, ShownUnchanged DEF LoopSnapshot, LoopPublish, LoopSleeps, Shown, Count
  <1>5. CASE ReadingFails
    BY <1>5 DEF ReadingFails
  <1> QED
    BY <1>1, <1>2, <1>3, <1>4, <1>5 DEF LoopNext

\* If no reading of the frontend fails three times over, the adapter does
\* what SetTopBox promises: the five states in their order, a loss after
\* exactly LossLimit unlocked readings, no listening before the lock flags
\* are withdrawn.
THEOREM Implementation == ~StatsFail /\ Spec => ImplementsSetTopBox
  <1> SUFFICES ASSUME ~StatsFail
               PROVE  Spec => STB!Spec
    BY DEF ImplementsSetTopBox
  <1>1. Init => STB!Init
    BY DEF Init, STB!Init, STB!LISTENING, LISTENING, STREAMING, Running
  <1>2. Control /\ [Next]_vars => [STB!Next]_(STB!vars)
    <2> SUFFICES ASSUME Control, [Next]_vars
                 PROVE  STB!Next \/ UNCHANGED STB!vars
      OBVIOUS
    <2>1. CASE AnalyserNext \/ StreamerNext \/ KeyUp \/ KeyDown \/ Ended \/ UNCHANGED vars
      <3>1. UNCHANGED <<mainPc, osd, lockCount>>
        BY <2>1, EnvironmentFrame DEF vars, mainVars, loopVars, smVars
      <3> QED
        BY <3>1, ShownUnchanged DEF Shown, Count, Running
    <2> QED
      BY <2>1, MainKeepsPromise, LoopKeepsPromise DEF Next
  <1> QED
    BY <1>1, <1>2, ControlAlways, PTL DEF Spec, STB!Spec

------------------------------------------------------------------------------
(* The adapter goes the rounds that module Shutdown is built on.            *)

\* From the start of the analysing tsp sm.tspCmd refers to it, from the start
\* of the streaming tsp to that one, until StopStreaming has used it.
CommandAtPlace ==
    /\ Place \in {"Modulation", "PidFile", "Stream"} => tspCmd = "analyser"
    /\ Place \in {"Monitor", "Open", "Select", "Stop"} => tspCmd = "streamer"

\* Moves within one place of a round.
LEMMA WithinPlace ==
    ASSUME Running, Running', tspCmd' = tspCmd, RoundPlace' = RoundPlace
    PROVE  UNCHANGED Round!vars
  BY DEF Round!vars, RoundCommand, RoundPlace

\* The end of the process, which main brings about only before it monitors.
LEMMA MainEnds ==
    ASSUME TypeOK, mainPc \in {"Listen", "Modulation", "PidFile", "Open"}, mainPc' = "Exited", ret' = ret
    PROVE  CommandAtPlace' /\ Round!Next
  <1>1. RoundPlace \in {"Listen", "Analyse", "Started"} /\ RoundPlace' = "Ended" /\ RoundCommand' = "none"
    BY DEF RoundPlace, RoundCommand, Running, Place
  <1> QED
    BY <1>1 DEF Round!Next, Round!Fatal, Round!Step, CommandAtPlace, Place

\* Each step of main is a step of the round, or within one of its places.
LEMMA MainGoesRound ==
    ASSUME TypeOK, CommandAtPlace, MainNext
    PROVE  CommandAtPlace' /\ (Round!Next \/ UNCHANGED Round!vars)
  <1> USE DEF CommandAtPlace, Place, RoundPlace, Running, Goto, UpdateAdapterStatus, smVars
  <1>1. CASE MainSnapshot \/ MainPublish \/ SelectDefault
    <2>1. UNCHANGED tspCmd /\ Place' = Place /\ Running /\ Running'
      BY <1>1 DEF MainSnapshot, MainPublish, SelectDefault, TypeOK
    <2> QED
      BY <2>1, WithinPlace
  <1>2. CASE AwaitSignal \/ FindServices \/ MonitorSignal \/ Modulation
    <2>1. UNCHANGED tspCmd /\ RoundPlace' = RoundPlace /\ Running /\ Running' /\ CommandAtPlace'
      BY <1>2 DEF AwaitSignal, FindServices, MonitorSignal, EnterState, Modulation
    <2> QED
      BY <2>1, WithinPlace
  <1>3. CASE Listen \/ Listened \/ GetService \/ Retry \/ DeleteAdapterFiles \/ ReceiveLockLost
    <2>1. UNCHANGED tspCmd /\ RoundPlace' = RoundPlace /\ Running /\ Running' /\ CommandAtPlace'
      BY <1>3 DEF Listen, Listened, GetService, Retry, DeleteAdapterFiles, ReceiveLockLost
    <2> QED
      BY <2>1, WithinPlace
  <1>4. CASE ListenFails \/ ModulationMissing \/ OpenFrontendFails
    BY <1>4, MainEnds DEF ListenFails, ModulationMissing, OpenFrontendFails
  <1>5. CASE CheckForPIDFile
    <2>1. CASE serviceJson \in Streams
      BY <1>5, <2>1, WithinPlace DEF CheckForPIDFile
    <2>2. CASE serviceJson \notin Streams
      BY <1>5, <2>2, MainEnds DEF CheckForPIDFile
    <2> QED
      BY <2>1, <2>2
  <1>6. CASE Analyse
    <2>1. RoundPlace = "Listen" /\ RoundPlace' = "Analyse" /\ tspCmd' = "analyser" /\ CommandAtPlace'
      BY <1>6 DEF Analyse
    <2> QED
      BY <2>1 DEF Round!Next, Round!Detect, Round!Step, RoundCommand
  <1>7. CASE AnalyseFails
    <2>1. RoundPlace = "Listen" /\ RoundPlace' = "Listen" /\ CommandAtPlace'
      BY <1>7 DEF AnalyseFails
    <2> QED
      BY <2>1 DEF Round!vars, RoundCommand
  <1>8. CASE StartStreaming
    <2>1. RoundPlace = "Analyse" /\ RoundPlace' = "Started" /\ tspCmd' = "streamer" /\ CommandAtPlace'
      BY <1>8 DEF StartStreaming, Assigned
    <2> QED
      BY <2>1 DEF Round!Next, Round!StartStreaming, Round!Step, RoundCommand
  <1>9. CASE StartStreamingFails
    <2>1. RoundPlace = "Analyse" /\ RoundPlace' = "Listen" /\ CommandAtPlace'
      BY <1>9 DEF StartStreamingFails
    <2> QED
      BY <2>1 DEF Round!Next, Round!Retry, Round!Step, RoundCommand
  <1>10. CASE OpenFrontend
    <2>1. RoundPlace = "Started" /\ RoundPlace' = "Monitor" /\ tspCmd' = tspCmd /\ CommandAtPlace'
      BY <1>10 DEF OpenFrontend
    <2> QED
      BY <2>1 DEF Round!Next, Round!MonitorSignal, Round!Step, RoundCommand
  <1>11. CASE HandleLockLost
    <2>1. RoundPlace = "Monitor" /\ RoundPlace' = "Listen" /\ CommandAtPlace'
      BY <1>11 DEF HandleLockLost
    <2> QED
      BY <2>1 DEF Round!Next, Round!HandleLockLost, Round!Step, RoundCommand
  <1> QED
    BY <1>1, <1>2, <1>3, <1>4, <1>5, <1>6, <1>7, <1>8, <1>9, <1>10, <1>11 DEF MainNext

\* Nothing but main changes its place or sm.tspCmd.
LEMMA RoundFrame ==
    ASSUME LoopNext \/ AnalyserNext \/ StreamerNext \/ KeyUp \/ KeyDown \/ Ended \/ UNCHANGED vars
    PROVE  UNCHANGED <<mainPc, ret, tspCmd>>
  <1>1. CASE LoopNext
    BY <1>1 DEF LoopNext, Reading, ReadingFails, LoopStopping, ClearOsdStats, LoopSnapshot, LoopPublish, LoopSleeps,
       mainVars, smVars
  <1>2. CASE AnalyserNext \/ StreamerNext \/ KeyUp \/ KeyDown \/ Ended \/ UNCHANGED vars
    BY <1>2, EnvironmentFrame DEF vars, mainVars, smVars
  <1> QED
    BY <1>1, <1>2

\* Whatever fails, StopStreaming reaches the tsp it is called for, and an
\* adapter that monitors a stream does not end the process.
THEOREM RoundsKept == Spec => ImplementsRounds
  <1>1. Init => CommandAtPlace /\ Round!Init
    BY DEF Init, CommandAtPlace, Place, Round!Init, RoundPlace, RoundCommand, Running
  <1>2. TypeOK /\ CommandAtPlace /\ [Next]_vars => CommandAtPlace' /\ [Round!Next]_(Round!vars)
    <2> SUFFICES ASSUME TypeOK, CommandAtPlace, [Next]_vars
                 PROVE  CommandAtPlace' /\ (Round!Next \/ UNCHANGED Round!vars)
      OBVIOUS
    <2>1. CASE MainNext
      BY <2>1, MainGoesRound
    <2>2. CASE LoopNext \/ AnalyserNext \/ StreamerNext \/ KeyUp \/ KeyDown \/ Ended \/ UNCHANGED vars
      BY <2>2, RoundFrame DEF CommandAtPlace, Place, Round!vars, RoundPlace, RoundCommand, Running
    <2> QED
      BY <2>1, <2>2 DEF Next
  <1> QED
    BY <1>1, <1>2, TypeCorrect, PTL DEF Spec, ImplementsRounds, Round!Spec

------------------------------------------------------------------------------
(* The loop keeps the contract that Figures keeps in detail.                *)

\* A loop begins with no failed reading counted.
FreshAttempts == loopPc = "Idle" => attempts = 0

\* The loop's own steps.
LEMMA LoopKeepsContract ==
    ASSUME TypeInv, LoopNext
    PROVE  Signal!Next \/ UNCHANGED Signal!vars
  <1> USE DEF TypeInv, LoopControl, LoopGoto, smVars
  <1>1. ASSUME NEW l \in BOOLEAN, NEW c \in BOOLEAN, Reading(l, c)
        PROVE  Signal!Next
    <2>1. /\ loopPc = "GetStats" /\ lockCount \in Nat /\ lockCount < LossLimit /\ attempts' = 0
          /\ (osd'.lock /\ osd'.carrier) = (l /\ c)
          /\ lockCount' = IF l /\ c THEN 0 ELSE lockCount + 1
          /\ loopPc' = IF ~(l /\ c) /\ lockCount' >= LossLimit THEN "Stopping" ELSE "GetStats"
      BY <1>1, OsdAfter DEF Reading, Misses, Lost, TypeOK
    <2>2. Signal!Reading(l /\ c)
      BY <2>1, Assumptions DEF Signal!Reading
    <2> QED
      BY <2>2 DEF Signal!Next
  <1>2. CASE ReadingFails
    <2>1. /\ loopPc = "GetStats" /\ attempts \in Nat /\ attempts < MaxRetries /\ MaxRetries \in Nat
          /\ UNCHANGED <<osd, lockCount>>
      BY <1>2, Assumptions DEF ReadingFails, TypeOK
    <2>2. CASE attempts + 1 < MaxRetries
      <3>1. attempts' = attempts + 1 /\ loopPc' = "GetStats"
        BY <1>2, <2>2 DEF ReadingFails, AttemptsLeft
      <3> QED
        BY <2>1, <2>2, <3>1 DEF Signal!Next, Signal!TryAgain
    <2>3. CASE ~(attempts + 1 < MaxRetries)
      <3>1. attempts' = 0 /\ loopPc' = "Send" /\ attempts + 1 = MaxRetries
        BY <1>2, <2>1, <2>3 DEF ReadingFails, AttemptsLeft
      <3> QED
        BY <2>1, <3>1 DEF Signal!Next, Signal!GiveUp
    <2> QED
      BY <2>2, <2>3
  <1>3. CASE LoopStopping
    <2>1. /\ loopPc = "Stopping" /\ loopPc' = "Clear" /\ UNCHANGED <<attempts, lockCount>>
          /\ osd'.lock = osd.lock /\ osd'.carrier = osd.carrier
      BY <1>3, OsdAfter DEF LoopStopping, TypeOK
    <2> QED
      BY <2>1 DEF Signal!vars
  <1>4. CASE ClearOsdStats
    <2>1. loopPc = "Clear" /\ loopPc' = "Snapshot" /\ UNCHANGED <<attempts, lockCount>> /\ ~osd'.lock
      BY <1>4, OsdAfter DEF ClearOsdStats, TypeOK
    <2> QED
      BY <2>1 DEF Signal!Next, Signal!Withdraw
  <1>5. CASE LoopSnapshot \/ LoopPublish \/ LoopSleeps
    BY <1>5 DEF LoopSnapshot, LoopPublish, LoopSleeps, AfterLoss, Signal!vars
  <1> QED
    BY <1>1, <1>2, <1>3, <1>4, <1>5 DEF LoopNext

\* Main starts the loop and hears it out; it sets no lock.
LEMMA MainKeepsContract ==
    ASSUME TypeInv, FreshAttempts, MainNext
    PROVE  Signal!Next \/ UNCHANGED Signal!vars
  <1> USE DEF TypeInv, LoopControl, FreshAttempts, Goto, loopVars, smVars
  <1>1. CASE OpenFrontend
    <2>1. loopPc = "Idle" /\ loopPc' = "GetStats" /\ attempts = 0 /\ lockCount = 0
          /\ UNCHANGED <<attempts, lockCount, osd>>
      BY <1>1 DEF OpenFrontend, Place
    <2> QED
      BY <2>1 DEF Signal!Next, Signal!Start
  <1>2. CASE ReceiveLockLost
    BY <1>2 DEF ReceiveLockLost, LoopReturns, Signal!vars
  <1>3. CASE ~(OpenFrontend \/ ReceiveLockLost)
    <2>1. UNCHANGED <<loopPc, attempts, lockCount>> /\ osd'.lock = osd.lock /\ osd'.carrier = osd.carrier
      <3>1. CASE AwaitSignal \/ FindServices \/ MonitorSignal
        BY <3>1, EnterStateEffect DEF AwaitSignal, FindServices, MonitorSignal
      <3>2. CASE Modulation
        BY <3>2, OsdAfter DEF Modulation, TypeOK
      <3>3. CASE ~(AwaitSignal \/ FindServices \/ MonitorSignal \/ Modulation)
        BY <1>3, <3>3 DEF MainNext, MainSnapshot, MainPublish, Listen, ListenFails, Listened, GetService, Analyse,
           AnalyseFails, ModulationMissing, CheckForPIDFile, StartStreaming, StartStreamingFails, Retry,
           OpenFrontendFails, SelectDefault, HandleLockLost, DeleteAdapterFiles
      <3> QED
        BY <3>1, <3>2, <3>3
    <2> QED
      BY <2>1 DEF Signal!vars
  <1> QED
    BY <1>1, <1>2, <1>3

LEMMA FreshAttemptsStep == FreshAttempts /\ [Next]_vars => FreshAttempts'
  <1> SUFFICES ASSUME FreshAttempts, [Next]_vars
               PROVE  FreshAttempts'
    OBVIOUS
  <1> USE DEF FreshAttempts, loopVars
  <1>1. CASE LoopNext
    BY <1>1 DEF LoopNext, Reading, ReadingFails, LoopStopping, ClearOsdStats, LoopSnapshot, LoopPublish, LoopSleeps,
       LoopGoto, AfterLoss
  <1>2. CASE MainNext
    BY <1>2 DEF MainNext, AwaitSignal, FindServices, MonitorSignal, EnterState, MainSnapshot, MainPublish, Listen,
       ListenFails, Listened, GetService, Analyse, AnalyseFails, Modulation, ModulationMissing, CheckForPIDFile,
       StartStreaming, StartStreamingFails, Retry, OpenFrontend, OpenFrontendFails, SelectDefault,
       ReceiveLockLost, LoopReturns, HandleLockLost, DeleteAdapterFiles
  <1>3. CASE AnalyserNext \/ StreamerNext \/ KeyUp \/ KeyDown \/ Ended \/ UNCHANGED vars
    BY <1>3, EnvironmentFrame DEF vars
  <1> QED
    BY <1>1, <1>2, <1>3 DEF Next

\* With readings that fail at any time: the loop counts as its contract says,
\* whatever main does meanwhile.
THEOREM LoopContract == Spec => ImplementsSignalMonitor
  <1>1. Init => FreshAttempts /\ Signal!Init
    BY DEF Init, FreshAttempts, Signal!Init
  <1>2. Spec => []FreshAttempts
    BY <1>1, FreshAttemptsStep, PTL DEF Spec
  <1>3. TypeInv /\ FreshAttempts /\ [Next]_vars => [Signal!Next]_(Signal!vars)
    <2> SUFFICES ASSUME TypeInv, FreshAttempts, [Next]_vars
                 PROVE  Signal!Next \/ UNCHANGED Signal!vars
      OBVIOUS
    <2>1. CASE AnalyserNext \/ StreamerNext \/ KeyUp \/ KeyDown \/ Ended \/ UNCHANGED vars
      BY <2>1, EnvironmentFrame DEF vars, loopVars, smVars, Signal!vars
    <2> QED
      BY <2>1, LoopKeepsContract, MainKeepsContract DEF Next
  <1> QED
    BY <1>1, <1>2, <1>3, TypeInvAlways, PTL DEF Spec, ImplementsSignalMonitor, Signal!Spec

------------------------------------------------------------------------------
(* What is streamed was reported in this round.                             *)

\* Main's steps hand the working files on: created after the selection,
\* complete when streaming starts, gone before the next round.
LEMMA MainKeepsFiles ==
    ASSUME ~ExecFail, TypeInv, FilesOfThisRound, MainNext
    PROVE  FilesOfThisRound'
  <1> USE DEF FilesOfThisRound, BeforeAnalysis, DuringAnalysis, AfterAnalysis, Place, Goto,
              UpdateAdapterStatus, smVars, fileVars, tspVars
  <1>1. CASE MainSnapshot \/ MainPublish
    BY <1>1 DEF MainSnapshot, MainPublish, TypeInv, TypeOK
  <1>2. CASE AwaitSignal \/ FindServices \/ MonitorSignal
    BY <1>2 DEF AwaitSignal, FindServices, MonitorSignal, EnterState
  <1>3. CASE Listen \/ ListenFails \/ Listened
    BY <1>3 DEF Listen, ListenFails, Listened
  <1>4. CASE GetService
    BY <1>4 DEF GetService
  <1>5. CASE Analyse
    BY <1>5, Assumptions DEF Analyse
  <1>6. CASE Modulation \/ ModulationMissing
    BY <1>6 DEF Modulation, ModulationMissing
  <1>7. CASE CheckForPIDFile
    BY <1>7 DEF CheckForPIDFile
  <1>8. CASE StartStreaming
    BY <1>8 DEF Assigned, StartStreaming
  <1>9. CASE OpenFrontend \/ SelectDefault \/ ReceiveLockLost
    BY <1>9 DEF OpenFrontend, SelectDefault, ReceiveLockLost
  <1>10. CASE HandleLockLost
    BY <1>10 DEF HandleLockLost, StopStreaming
  <1>11. CASE DeleteAdapterFiles
    BY <1>11 DEF DeleteAdapterFiles, NoFilesLeft
  <1>12. CASE AnalyseFails \/ StartStreamingFails \/ Retry \/ OpenFrontendFails
    BY <1>12 DEF AnalyseFails, StartStreamingFails, Retry, OpenFrontendFails
  <1> QED
    BY <1>1, <1>2, <1>3, <1>4, <1>5, <1>6, <1>7, <1>8, <1>9, <1>10, <1>11, <1>12 DEF MainNext

\* The analysing tsp writes one report, for the service it was started with.
LEMMA AnalyserKeepsFiles ==
    ASSUME TypeInv, FilesOfThisRound, AnalyserNext
    PROVE  FilesOfThisRound'
  <1>1. /\ Running
        /\ UNCHANGED <<mainPc, ret, service, tspCmd, target>>
    BY DEF AnalyserNext, AnalyserLogs, AnalyserTunes, AnalyserCannotTune,
       AnalyserLosesService, AnalyserReports, AnalyserCompletes, AnalyserExits, mainVars, smVars,
       tspVars
  <1>2. Place' = Place
    BY <1>1, PlaceUnchanged
  <1> USE <1>1, <1>2, Assumptions DEF FilesOfThisRound, BeforeAnalysis, DuringAnalysis,
              AfterAnalysis, TypeInv, TypeOK, Files, Processes, fileVars
  <1>3. CASE AnalyserLogs \/ AnalyserTunes
    BY <1>3 DEF AnalyserLogs, AnalyserTunes, tspVars
  <1>4. CASE AnalyserCannotTune
    BY <1>4 DEF AnalyserCannotTune
  <1>5. CASE AnalyserLosesService
    BY <1>5 DEF AnalyserLosesService
  <1>6. CASE AnalyserReports
    BY <1>6 DEF AnalyserReports
  <1>7. CASE AnalyserCompletes
    BY <1>7 DEF AnalyserCompletes, ReportsSelected
  <1>8. CASE AnalyserExits
    BY <1>8 DEF AnalyserExits
  <1> QED
    BY <1>3, <1>4, <1>5, <1>6, <1>7, <1>8 DEF AnalyserNext

LEMMA FilesStep ==
    ASSUME ~ExecFail, TypeInv, FilesOfThisRound, [Next]_vars
    PROVE  FilesOfThisRound'
  <1>1. CASE MainNext
    BY <1>1, MainKeepsFiles
  <1>2. CASE AnalyserNext
    BY <1>2, AnalyserKeepsFiles
  <1>3. CASE LoopNext \/ StreamerNext \/ KeyUp \/ KeyDown \/ Ended \/ UNCHANGED vars
    <2>1. UNCHANGED <<mainPc, ret, service, tspCmd, serviceJson, analyser, target>>
      BY <1>3 DEF LoopNext, Reading, ReadingFails, LoopStopping, ClearOsdStats, LoopSnapshot,
         LoopPublish, LoopSleeps, StreamerNext, StreamerTunes, StreamerEnds, KeyUp, KeyDown, Ended, vars,
         mainVars, smVars, fileVars, tspVars
    <2> QED
      BY <2>1, PlaceUnchanged DEF FilesOfThisRound
  <1> QED
    BY <1>1, <1>2, <1>3 DEF Next

\* If every tsp can be started, the receiver never zaps to the service of an
\* earlier round: the service(x).json it reads was written, completely, by
\* the analysis of this round for the service selected in this round.
THEOREM StreamsReported == ~ExecFail /\ ~Leftovers /\ Spec => []StreamsWhatWasReported
  <1> SUFFICES ASSUME ~ExecFail, ~Leftovers
               PROVE  Spec => []StreamsWhatWasReported
    OBVIOUS
  <1>1. Init => FilesOfThisRound
    BY DEF Init, FilesOfThisRound, BeforeAnalysis, DuringAnalysis, AfterAnalysis, Place
  <1>2. TypeInv /\ FilesOfThisRound /\ [Next]_vars => FilesOfThisRound'
    BY FilesStep
  <1>3. FilesOfThisRound => StreamsWhatWasReported
    BY DEF FilesOfThisRound, AfterAnalysis, Place, StreamsWhatWasReported
  <1> QED
    BY <1>1, <1>2, <1>3, TypeInvAlways, PTL DEF Spec
==============================================================================
