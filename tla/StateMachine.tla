---------------------------- MODULE StateMachine ----------------------------
(***************************************************************************)
(* One adapter of the receiver (src/src/state/state.go): the goroutine     *)
(* that runs Start (here "main") and the goroutine it starts to poll the   *)
(* frontend, monitorSignalLoop (here "loop").  They share the fields of    *)
(* StateMachine and the adapter's entry of AdapterStatusMap (board).  The  *)
(* tsp processes they start, the working files those write and the signal  *)
(* on the air are the environment, modelled from how the code uses them.   *)
(*                                                                         *)
(* A goroutine's step is the code between two points at which another      *)
(* goroutine, a tsp process or the transmitter can interfere: a mutex      *)
(* region, a file or process operation, a channel operation.  Termination  *)
(* signals are left to module Shutdown.                                    *)
(***************************************************************************)
EXTENDS Naturals

CONSTANTS
    Streams,     \* transport streams that may be on the air, each standing
                 \* for the service ID of its first service
    Clear,       \* those whose analysis lists a clear service
    NoSignal,    \* nothing on the air
    NoService,   \* the zero Service of a new StateMachine
    NoEntry,     \* no entry in AdapterStatusMap, no snapshot in a local
    LossLimit,   \* the 10 of monitorSignalLoop
    MaxRetries,  \* the 3 attempts of getStatsWithRetries
    StatsFail,   \* may reading the frontend fail?
    ExecFail,    \* may creating adapter(x).txt, starting a tsp or opening
                 \* the frontend fail?
    Leftovers    \* may a crashed instance have left its service(x).json?

VARIABLES
    air,          \* the transport stream on this adapter's frequency
    mainPc, ret,  \* control of main; where updateAdapterStatus returns to
    mainSnap,     \* main's local copy in updateAdapterStatus
    loopPc,       \* control of the monitor loop, "Idle" when not started
    loopSnap,     \* its local copy in updateAdapterStatus
    attempts,     \* failed reads so far in getStatsWithRetries
    lockCount,    \* unlocked readings in a row
    osd,          \* sm.OsdStats
    service,      \* the service whose ID and name sm.Service holds
    pids,         \* the one whose PIDs and types it holds
    tspCmd,       \* the command sm.tspCmd refers to
    board,        \* AdapterStatusMap[sm.AdapterIndex]
    adapterJson, adapterTxt, serviceJson,   \* files under config.TmpDir
    analyser, target,   \* tsp of FindServices and the service it zaps to
    streamer            \* tsp of StartStreaming

mainVars == <<mainPc, ret, mainSnap>>
loopVars == <<loopPc, loopSnap, attempts, lockCount>>
smVars   == <<osd, service, pids, tspCmd>>
fileVars == <<adapterJson, adapterTxt, serviceJson>>
tspVars  == <<analyser, target, streamer>>
vars     == <<air, mainVars, loopVars, smVars, board, fileVars, tspVars>>

LISTENING == 0
ANALYSING == 1
FINDPIDS  == 2
STREAMING == 3
STOPPING  == 4

Files == {"NoFile", "Torn", "NoServices"}   \* a JSON file without a service

\* "tuned" and "writing": inside analyze; "reported": the report is complete
\* but the process is still there; "killed": SIGKILL was sent, same.
Processes == {"none", "starting", "tuned", "writing", "reported", "killed"}
HoldsFrontend(p) == p \in {"tuned", "writing", "reported", "killed"}

\* The frontend is open for tuning by one tsp at a time.
FrontendBusy ==
    mainPc = "Listening" \/ HoldsFrontend(analyser) \/ HoldsFrontend(streamer)

Running == mainPc # "Exited"

MainLabels ==
    {"Await", "Listen", "Listening", "Find", "GetService", "Analyse",
     "Modulation", "PidFile", "Stream", "Retry", "Monitor", "Open", "Select",
     "Stop", "Delete", "Snapshot", "Publish", "Exited"}
LoopLabels ==
    {"Idle", "GetStats", "Stopping", "Clear", "Snapshot", "Publish", "Sleep", "Send"}

\* Readers of the record see only whether Modulation is filled in ("tuned").
OsdStats ==
    [state : LISTENING .. STOPPING, lock : BOOLEAN, carrier : BOOLEAN, tuned : BOOLEAN]
CombinedStats ==
    [osd : OsdStats, service : Streams \cup {NoService},
     pids : Streams \cup {NoService}]

ASSUME Assumptions ==
    /\ Clear \subseteq Streams
    /\ NoSignal \notin Streams
    /\ NoService \notin Streams
    /\ Streams \cap {"NoFile", "Torn", "NoServices"} = {}
    /\ LossLimit \in Nat \ {0}
    /\ MaxRetries \in Nat \ {0}
    /\ StatsFail \in BOOLEAN
    /\ ExecFail \in BOOLEAN
    /\ Leftovers \in BOOLEAN
    /\ NoEntry \notin CombinedStats

TypeOK ==
    /\ air \in Streams \cup {NoSignal}
    /\ mainPc \in MainLabels
    /\ ret \in MainLabels \ {"Snapshot", "Publish", "Exited"}
    /\ mainSnap \in CombinedStats \cup {NoEntry}
    /\ loopPc \in LoopLabels
    /\ loopSnap \in CombinedStats \cup {NoEntry}
    /\ attempts \in 0 .. MaxRetries - 1
    /\ lockCount \in 0 .. LossLimit
    /\ osd \in OsdStats
    /\ service \in Streams \cup {NoService}
    /\ pids \in Streams \cup {NoService}
    /\ tspCmd \in {"none", "analyser", "streamer", "unstarted"}
    /\ board \in CombinedStats \cup {NoEntry}
    /\ adapterJson \in Streams \cup {"NoFile"}
    /\ adapterTxt \in {"empty", "partial", "full"}
    /\ serviceJson \in Streams \cup Files
    /\ analyser \in Processes
    /\ target \in Streams \cup {NoService}
    /\ streamer \in Processes

\* Start-up deletes no working files (module Startup).  Of those that can be
\* there, only service(x).json is read before this process has written it.
Init ==
    /\ air \in Streams \cup {NoSignal}
    /\ mainPc = "Await" /\ ret = "Await" /\ mainSnap = NoEntry
    /\ loopPc = "Idle" /\ loopSnap = NoEntry
    /\ attempts = 0 /\ lockCount = 0
    /\ osd = [state |-> LISTENING, lock |-> FALSE, carrier |-> FALSE, tuned |-> FALSE]
    /\ service = NoService /\ pids = NoService
    /\ tspCmd = "none"
    /\ board = NoEntry
    /\ adapterJson = "NoFile" /\ adapterTxt = "empty"
    /\ serviceJson \in IF Leftovers THEN Streams \cup Files ELSE {"NoFile"}
    /\ analyser = "none" /\ target = NoService /\ streamer = "none"

------------------------------------------------------------------------------
(* Publishing to the OSD.  updateAdapterStatus copies the fields under      *)
(* sm.Mu, releases it, and writes the copy to the map under LockStatusMu:   *)
(* between the two the other goroutine may change the fields or publish.    *)

Combined == [osd |-> osd, service |-> service, pids |-> pids]

\* Mutant: the call is forgotten.
NoAdapterStatus(label)     == mainPc' = label /\ ret' = ret
UpdateAdapterStatus(label) == mainPc' = "Snapshot" /\ ret' = label

MainSnapshot ==
    /\ mainPc = "Snapshot"
    /\ mainSnap' = Combined
    /\ mainPc' = "Publish"
    /\ UNCHANGED <<air, ret, loopVars, smVars, board, fileVars, tspVars>>

MainPublish ==
    /\ mainPc = "Publish"
    /\ board' = mainSnap
    /\ mainSnap' = NoEntry
    /\ mainPc' = ret
    /\ UNCHANGED <<air, ret, loopVars, smVars, fileVars, tspVars>>

\* Mutant: only MonitorSignal publishes, the other phases leave it to that.
EnterStateQuietly(from, state, to) ==
    /\ mainPc = from
    /\ osd' = [osd EXCEPT !.state = state]
    /\ IF state = STREAMING THEN UpdateAdapterStatus(to) ELSE NoAdapterStatus(to)
    /\ UNCHANGED <<air, mainSnap, loopVars, service, pids, tspCmd, board, fileVars, tspVars>>

\* updateState followed by updateAdapterStatus, as every phase begins.
EnterState(from, state, to) ==
    /\ mainPc = from
    /\ osd' = [osd EXCEPT !.state = state]
    /\ UpdateAdapterStatus(to)
    /\ UNCHANGED <<air, mainSnap, loopVars, service, pids, tspCmd, board, fileVars, tspVars>>

------------------------------------------------------------------------------
(* StopStreaming: Kill only sends the signal, nothing waits for the process *)
(* to go, so a tsp that was tuned keeps the frontend a little longer.       *)

Killed(p) == IF HoldsFrontend(p) THEN "killed" ELSE "none"

StopStreaming ==
    /\ analyser' = IF tspCmd = "analyser" THEN Killed(analyser) ELSE analyser
    /\ streamer' = IF tspCmd = "streamer" THEN Killed(streamer) ELSE streamer
    /\ target' = target

------------------------------------------------------------------------------
(* Main: Start and the functions it calls in turn.                          *)

Goto(label) == mainPc' = label /\ UNCHANGED <<ret, mainSnap>>

AwaitSignal == EnterState("Await", LISTENING, "Listen")

\* cmd.Run starts the listening tsp.
Listen ==
    /\ mainPc = "Listen"
    /\ ~FrontendBusy
    /\ Goto("Listening")
    /\ UNCHANGED <<air, loopVars, smVars, board, fileVars, tspVars>>

\* If the frontend is still taken, or tsp cannot be started, Start ends the
\* whole receiver with os.Exit(1).
ListenFails ==
    /\ mainPc = "Listen"
    /\ FrontendBusy \/ ExecFail
    /\ StopStreaming
    /\ Goto("Exited")
    /\ UNCHANGED <<air, loopVars, smVars, board, fileVars>>

\* The listening tsp waits for a signal without a timeout, analyses it for
\* two seconds, writes adapter(x).json and exits: cmd.Run returns.
Listened ==
    /\ mainPc = "Listening"
    /\ air # NoSignal
    /\ adapterJson' = air
    /\ Goto("Find")
    /\ UNCHANGED <<air, loopVars, smVars, board, adapterTxt, serviceJson, tspVars>>

FindServices == EnterState("Find", ANALYSING, "GetService")

\* Mutant: the service found is not stored.
Unselected(stream) == service

\* What GetService(0) leaves in sm.Service: an error is logged and dropped
\* by FindServices, and the service of an earlier stream stays.  ID and name
\* are taken as one: a name that is no string, which would leave the new ID
\* beside the old name, is left out.
Selected(stream)   == IF stream \in Clear THEN stream ELSE service

GetService ==
    /\ mainPc = "GetService"
    /\ adapterJson # "NoFile"
    /\ service' = Selected(adapterJson)
    /\ Goto("Analyse")
    /\ UNCHANGED <<air, loopVars, osd, pids, tspCmd, board, fileVars, tspVars>>

\* os.Create truncates adapter(x).txt; tsp is started and not waited for.
Analyse ==
    /\ mainPc = "Analyse"
    /\ adapterTxt' = "empty"
    /\ tspCmd' = "analyser"
    /\ analyser' = "starting"
    /\ target' = service
    /\ Goto("Modulation")
    /\ UNCHANGED <<air, loopVars, osd, service, pids, board, adapterJson, serviceJson, streamer>>

\* Either os.Create fails and sm.tspCmd keeps its old value, or cmd.Start
\* does and sm.tspCmd has no process.
AnalyseFails ==
    /\ ExecFail
    /\ mainPc = "Analyse"
    /\ \/ UNCHANGED <<adapterTxt, tspCmd>>
       \/ adapterTxt' = "empty" /\ tspCmd' = "unstarted"
    /\ Goto("Retry")
    /\ UNCHANGED <<air, loopVars, osd, service, pids, board, adapterJson, serviceJson, tspVars>>

\* StartStreaming waits until adapter(x).txt has data, then looks once for
\* the modulation: if the line is not there yet, log.Fatalf.
Modulation ==
    /\ mainPc = "Modulation"
    /\ adapterTxt = "full"
    /\ osd' = [osd EXCEPT !.tuned = TRUE, !.state = FINDPIDS]
    /\ UpdateAdapterStatus("PidFile")
    /\ UNCHANGED <<air, mainSnap, loopVars, service, pids, tspCmd, board, fileVars, tspVars>>

ModulationMissing ==
    /\ mainPc = "Modulation"
    /\ adapterTxt = "partial"
    /\ Goto("Exited")
    /\ UNCHANGED <<air, loopVars, smVars, board, fileVars, tspVars>>

\* Mutant: only what is still zero is filled in.
FilledIn(stream)  == IF pids = NoService THEN stream ELSE pids
\* ExtractService starts from a new record.
Extracted(stream) == stream

\* CheckForPIDFile waits, without a limit, until service(x).json has data.
\* A file that does not decode, or lists no service, is fatal.
CheckForPIDFile ==
    /\ mainPc = "PidFile"
    /\ serviceJson # "NoFile"
    /\ IF serviceJson \in Streams
       THEN service' = serviceJson /\ pids' = Extracted(serviceJson) /\ Goto("Stream")
       ELSE UNCHANGED <<service, pids>> /\ Goto("Exited")
    /\ UNCHANGED <<air, loopVars, osd, tspCmd, board, fileVars, tspVars>>

\* Mutant: the command is declared anew (:=), sm.tspCmd keeps the analysing one.
Shadowed(cmd) == tspCmd
Assigned(cmd) == cmd

\* The streaming tsp zaps to sm.Service.ID; it is never waited for.
StartStreaming ==
    /\ mainPc = "Stream"
    /\ tspCmd' = Assigned("streamer")
    /\ streamer' = "starting"
    /\ Goto("Monitor")
    /\ UNCHANGED <<air, loopVars, osd, service, pids, board, fileVars, analyser, target>>

StartStreamingFails ==
    /\ ExecFail
    /\ mainPc = "Stream"
    /\ tspCmd' = "unstarted"
    /\ Goto("Retry")
    /\ UNCHANGED <<air, loopVars, osd, service, pids, board, fileVars, tspVars>>

\* The error branches of Start: StopStreaming and continue.
Retry ==
    /\ mainPc = "Retry"
    /\ StopStreaming
    /\ Goto("Await")
    /\ UNCHANGED <<air, loopVars, smVars, board, fileVars>>

\* MonitorSignal: state STREAMING, open the frontend, start the loop.
MonitorSignal == EnterState("Monitor", STREAMING, "Open")

OpenFrontend ==
    /\ mainPc = "Open"
    /\ loopPc' = "GetStats"
    /\ Goto("Select")
    /\ UNCHANGED <<air, loopSnap, attempts, lockCount, smVars, board, fileVars, tspVars>>

OpenFrontendFails ==
    /\ ExecFail
    /\ mainPc = "Open"
    /\ Goto("Exited")
    /\ UNCHANGED <<air, loopVars, smVars, board, fileVars, tspVars>>

\* The default branch of the select: taken only when lockLost is not ready.
SelectDefault ==
    /\ mainPc = "Select"
    /\ loopPc # "Send"
    /\ UpdateAdapterStatus("Select")
    /\ UNCHANGED <<air, mainSnap, loopVars, smVars, board, fileVars, tspVars>>

\* Mutant: the return after the send is forgotten.
LoopStaysOn == loopPc' = "GetStats" /\ attempts' = 0 /\ lockCount' = 0

\* lockLost has no buffer: the receive is the loop's send, after which the
\* loop returns.
LoopReturns == loopPc' = "Idle" /\ attempts' = 0 /\ lockCount' = 0

ReceiveLockLost ==
    /\ mainPc = "Select"
    /\ loopPc = "Send"
    /\ LoopReturns
    /\ Goto("Stop")
    /\ UNCHANGED <<air, loopSnap, smVars, board, fileVars, tspVars>>

\* handleLockLost: stop the stream, delete the working files, Start again.
HandleLockLost ==
    /\ mainPc = "Stop"
    /\ StopStreaming
    /\ Goto("Delete")
    /\ UNCHANGED <<air, loopVars, smVars, board, fileVars>>

\* Mutant: service(x).json is not in the list of files to delete.
ServiceStays == adapterJson' = "NoFile" /\ adapterTxt' = "empty" /\ UNCHANGED serviceJson
NoFilesLeft  == adapterJson' = "NoFile" /\ adapterTxt' = "empty" /\ serviceJson' = "NoFile"

DeleteAdapterFiles ==
    /\ mainPc = "Delete"
    /\ NoFilesLeft
    /\ Goto("Await")
    /\ UNCHANGED <<air, loopVars, smVars, board, tspVars>>

MainNext ==
    \/ MainSnapshot \/ MainPublish
    \/ AwaitSignal \/ Listen \/ ListenFails \/ Listened
    \/ FindServices \/ GetService \/ Analyse \/ AnalyseFails
    \/ Modulation \/ ModulationMissing \/ CheckForPIDFile
    \/ StartStreaming \/ StartStreamingFails \/ Retry
    \/ MonitorSignal \/ OpenFrontend \/ OpenFrontendFails \/ SelectDefault
    \/ ReceiveLockLost \/ HandleLockLost \/ DeleteAdapterFiles

------------------------------------------------------------------------------
(* The monitor loop.                                                        *)

LoopGoto(label) == loopPc' = label /\ UNCHANGED loopSnap

\* Mutants: a relock does not reset the count; the limit is off by one.
MissesKept(n, locked) == IF locked THEN n ELSE n + 1
LostLate(n)           == n > LossLimit

Misses(n, locked) == IF locked THEN 0 ELSE n + 1
Lost(n)           == n >= LossLimit

\* A successful reading: updateOsdStats under sm.Mu, then the count.  Only
\* this goroutine writes the flags here, so its test reads what it wrote.
\* Lock and carrier together need a signal on the air.
Reading(l, c) ==
    /\ Running
    /\ loopPc = "GetStats"
    /\ l /\ c => air # NoSignal
    /\ osd' = [osd EXCEPT !.lock = l, !.carrier = c]
    /\ attempts' = 0
    /\ lockCount' = Misses(lockCount, l /\ c)
    /\ LoopGoto(IF ~(l /\ c) /\ Lost(lockCount') THEN "Stopping" ELSE "GetStats")
    /\ UNCHANGED <<air, mainVars, service, pids, tspCmd, board, fileVars, tspVars>>

\* Mutant: one attempt too many.
MoreAttempts(n) == n <= MaxRetries
AttemptsLeft(n) == n < MaxRetries

\* A failed attempt.  After the last one the loop sends lockLost at once:
\* STOPPING is never entered and the flags are not cleared.
ReadingFails ==
    /\ Running
    /\ StatsFail
    /\ loopPc = "GetStats"
    /\ IF AttemptsLeft(attempts + 1)
       THEN attempts' = attempts + 1 /\ LoopGoto("GetStats")
       ELSE attempts' = 0 /\ LoopGoto("Send")
    /\ UNCHANGED <<air, mainVars, lockCount, smVars, board, fileVars, tspVars>>

LoopStopping ==
    /\ Running
    /\ loopPc = "Stopping"
    /\ osd' = [osd EXCEPT !.state = STOPPING]
    /\ LoopGoto("Clear")
    /\ UNCHANGED <<air, mainVars, attempts, lockCount, service, pids, tspCmd, board, fileVars, tspVars>>

\* Mutant: the lock flags are not among the fields reset.
FlagsKept(o) == [o EXCEPT !.tuned = FALSE]
Cleared(o)   == [o EXCEPT !.lock = FALSE, !.carrier = FALSE, !.tuned = FALSE]

ClearOsdStats ==
    /\ Running
    /\ loopPc = "Clear"
    /\ osd' = Cleared(osd)
    /\ LoopGoto("Snapshot")
    /\ UNCHANGED <<air, mainVars, attempts, lockCount, service, pids, tspCmd, board, fileVars, tspVars>>

LoopSnapshot ==
    /\ Running
    /\ loopPc = "Snapshot"
    /\ loopSnap' = Combined
    /\ loopPc' = "Publish"
    /\ UNCHANGED <<air, mainVars, attempts, lockCount, smVars, board, fileVars, tspVars>>

\* Mutant: the loop returns without telling main.
SentNothing == "Idle"
AfterLoss   == "Sleep"

LoopPublish ==
    /\ Running
    /\ loopPc = "Publish"
    /\ board' = loopSnap
    /\ loopSnap' = NoEntry
    /\ loopPc' = AfterLoss
    /\ UNCHANGED <<air, mainVars, attempts, lockCount, smVars, fileVars, tspVars>>

\* Half a second in which main may publish once more.
LoopSleeps ==
    /\ Running
    /\ loopPc = "Sleep"
    /\ LoopGoto("Send")
    /\ UNCHANGED <<air, mainVars, attempts, lockCount, smVars, board, fileVars, tspVars>>

LoopNext ==
    \/ \E l, c \in BOOLEAN : Reading(l, c)
    \/ ReadingFails
    \/ LoopStopping \/ ClearOsdStats \/ LoopSnapshot \/ LoopPublish \/ LoopSleeps

------------------------------------------------------------------------------
(* The environment: tsp (an external program) and the transmitter.          *)

\* tsp -v logs before it has tuned; the tuning line holds the modulation.
AnalyserLogs ==
    /\ Running
    /\ analyser = "starting"
    /\ adapterTxt = "empty"
    /\ adapterTxt' = "partial"
    /\ UNCHANGED <<air, mainVars, loopVars, smVars, board, adapterJson, serviceJson, tspVars>>

AnalyserTunes ==
    /\ Running
    /\ analyser = "starting"
    /\ ~FrontendBusy
    /\ air # NoSignal
    /\ analyser' = "tuned"
    /\ adapterTxt' = "full"
    /\ UNCHANGED <<air, mainVars, loopVars, smVars, board, adapterJson, serviceJson, target, streamer>>

\* No frontend or no signal in time: tsp ends with an error.
AnalyserCannotTune ==
    /\ Running
    /\ analyser = "starting"
    /\ FrontendBusy \/ air = NoSignal
    /\ analyser' = "none"
    /\ adapterTxt' = IF adapterTxt = "empty" THEN "partial" ELSE adapterTxt
    /\ UNCHANGED <<air, mainVars, loopVars, smVars, board, adapterJson, serviceJson, target, streamer>>

\* The signal or the service to zap to is gone: tsp ends without a report,
\* or with one that lists no service.
AnalyserLosesService ==
    /\ Running
    /\ analyser = "tuned"
    /\ air # target \/ target \notin Clear
    /\ analyser' = "none"
    /\ serviceJson' \in {serviceJson, "NoServices"}
    /\ UNCHANGED <<air, mainVars, loopVars, smVars, board, adapterJson, adapterTxt, target, streamer>>

\* service(x).json is written in more than one piece.
AnalyserReports ==
    /\ Running
    /\ analyser = "tuned"
    /\ air = target
    /\ target \in Clear
    /\ analyser' = "writing"
    /\ serviceJson' = "Torn"
    /\ UNCHANGED <<air, mainVars, loopVars, smVars, board, adapterJson, adapterTxt, target, streamer>>

AnalyserCompletes ==
    /\ Running
    /\ analyser = "writing"
    /\ analyser' = "reported"
    /\ serviceJson' = IF serviceJson = "Torn" THEN target ELSE serviceJson
    /\ UNCHANGED <<air, mainVars, loopVars, smVars, board, adapterJson, adapterTxt, target, streamer>>

AnalyserExits ==
    /\ Running
    /\ analyser \in {"reported", "killed"}
    /\ analyser' = "none"
    /\ UNCHANGED <<air, mainVars, loopVars, smVars, board, fileVars, target, streamer>>

AnalyserNext ==
    \/ AnalyserLogs \/ AnalyserTunes \/ AnalyserCannotTune
    \/ AnalyserLosesService \/ AnalyserReports \/ AnalyserCompletes \/ AnalyserExits

StreamerTunes ==
    /\ Running
    /\ streamer = "starting"
    /\ ~FrontendBusy
    /\ air # NoSignal
    /\ streamer' = "tuned"
    /\ UNCHANGED <<air, mainVars, loopVars, smVars, board, fileVars, analyser, target>>

StreamerEnds ==
    /\ Running
    /\ \/ streamer = "starting" /\ (FrontendBusy \/ air = NoSignal)
       \/ streamer = "tuned" /\ air # service
       \/ streamer = "killed"
    /\ streamer' = "none"
    /\ UNCHANGED <<air, mainVars, loopVars, smVars, board, fileVars, analyser, target>>

StreamerNext == StreamerTunes \/ StreamerEnds

KeyUp ==
    /\ Running
    /\ air = NoSignal
    /\ air' \in Streams
    /\ UNCHANGED <<mainVars, loopVars, smVars, board, fileVars, tspVars>>

KeyDown ==
    /\ Running
    /\ air # NoSignal
    /\ air' = NoSignal
    /\ UNCHANGED <<mainVars, loopVars, smVars, board, fileVars, tspVars>>

\* Nothing more happens once the process has ended.
Ended == ~Running /\ UNCHANGED vars

------------------------------------------------------------------------------
Next == MainNext \/ LoopNext \/ AnalyserNext \/ StreamerNext \/ KeyUp \/ KeyDown \/ Ended

Spec == Init /\ [][Next]_vars

\* The Go scheduler runs both goroutines; the analysing tsp ends by itself
\* ("until -s 2", its own signal timeout).  Nothing is assumed of the
\* transmitter, of the streaming tsp or of how soon a killed tsp is gone.
Fairness == WF_vars(MainNext) /\ WF_vars(LoopNext) /\ WF_vars(AnalyserNext)

FairSpec == Spec /\ Fairness

------------------------------------------------------------------------------
(* What the adapter promises: module SetTopBox.  The loop's local lockCount *)
(* is what the promise counts, as long as the adapter reports STREAMING.    *)
STB == INSTANCE SetTopBox WITH
    up      <- Running,
    phase   <- osd.state,
    lock    <- osd.lock,
    carrier <- osd.carrier,
    misses  <- IF osd.state = STREAMING THEN lockCount ELSE 0

\* Every step of the adapter is a step its promise allows, or none of its
\* business: the state sequence of Start, the count in monitorSignalLoop and
\* the clearing of the flags before the next Start.
ImplementsSetTopBox == STB!Spec

\* Where main is, publishing left aside.
Place == IF mainPc \in {"Snapshot", "Publish"} THEN ret ELSE mainPc

(* What module Shutdown relies on: module Rounds.                           *)
RoundPlace ==
    CASE ~Running                                    -> "Ended"
      [] Place \in {"Modulation", "PidFile", "Stream"} -> "Analyse"
      [] Place \in {"Monitor", "Open"}               -> "Started"
      [] Place \in {"Select", "Stop"}                -> "Monitor"
      [] OTHER                                       -> "Listen"

\* A command of an earlier place refers to no process of this one.
RoundCommand ==
    IF RoundPlace \in {"Listen", "Ended"} THEN "none"
    ELSE CASE tspCmd = "analyser" -> "analysing"
           [] tspCmd = "streamer" -> "streaming"
           [] OTHER               -> "stale"

Round == INSTANCE Rounds WITH Others <- FALSE, place <- RoundPlace, command <- RoundCommand

\* With files and processes that fail at any step: while an adapter streams,
\* and until it has stopped the stream, sm.tspCmd refers to the streaming
\* tsp; and a monitoring adapter never ends the process by itself.
ImplementsRounds == Round!Spec

(* What the loop does with its readings: module SignalMonitor.              *)
Signal == INSTANCE SignalMonitor WITH
    place    <- CASE loopPc = "GetStats" -> "Polling"
                  [] loopPc \in {"Stopping", "Clear"} -> "Lost"
                  [] OTHER -> "Off",
    attempts <- IF loopPc = "GetStats" THEN attempts ELSE 0,
    misses   <- IF loopPc = "GetStats" THEN lockCount ELSE 0,
    locked   <- osd.lock /\ osd.carrier

\* Publishing, listening again and the next loop do not disturb the counts
\* of failed and of unlocked readings, and nobody but the loop sets or
\* withdraws the locks.
ImplementsSignalMonitor == Signal!Spec

\* The repeater core and the OSD are never told of a lock by an adapter that
\* is listening, analysing or looking for PIDs (README.md:33-34: the
\* core switches to the stream when the report says locked, and takes the
\* connection for lost when it says unlocked).
LockOnlyWhileStreaming ==
    osd.state \in {LISTENING, ANALYSING, FINDPIDS} => ~osd.lock /\ ~osd.carrier

\* Two goroutines publish the adapter's entry from copies taken earlier, so
\* a late write may bring an old copy back.  Once main has published
\* LISTENING that is over: until the next monitor loop starts the entry
\* shows the current statistics whenever main is not itself publishing.
BoardCurrentWhenAlone ==
    loopPc = "Idle" /\ mainPc \notin {"Await", "Stop", "Delete", "Snapshot", "Publish", "Select"}
        => board # NoEntry /\ board.osd = osd

\* While the OSD page shows STREAMING its service is the one being streamed,
\* although the entry may be an old copy and sm.Service is written unlocked.
BoardShowsStreamedService ==
    board # NoEntry => (board.osd.state = STREAMING => board.service = service)

\* FindServices stores an ID and a name only, CheckForPIDFile the whole
\* record later: in between sm.Service joins two services.  The page prints
\* them only next to a lock, and no entry with a lock holds such a mixture.
LockedEntryNamesOneService ==
    board # NoEntry => (board.osd.lock /\ board.osd.carrier => board.pids = board.service)

\* A frontend has one poller: the loop that writes the flags exists only
\* while its own MonitorSignal waits for it, never across a relock.
LoopOnlyWhileMonitoring == loopPc # "Idle" => Place = "Select"

\* Streaming starts from the report of this round's analysis, not from a
\* service(x).json an earlier round left behind.
StreamsWhatWasReported ==
    mainPc = "Stream" =>
        analyser \in {"reported", "none"} /\ serviceJson = target /\ service = target

\* After StopStreaming ("stops the current tsp command") no tsp of this
\* adapter holds the frontend any more.
StoppedMeansFree == mainPc = "Delete" => ~FrontendBusy

\* A lost stream always gets back to listening, and the OSD says so.
LossReachesBoard ==
    (osd.state = STOPPING \/ loopPc = "Send") ~> (board # NoEntry /\ board.osd.state = LISTENING)

\* A working file was read before it was complete, which ends the receiver.
CaughtHalfWritten == ~Running /\ (adapterTxt = "partial" \/ serviceJson = "Torn")

\* In any round, as long as no file or process operation fails, a signal with
\* a clear service that is steady while the adapter listens is streamed: the
\* one other end is a tsp's file looked at half-written.  An adapter that is
\* not listening may wait for ever for the report of a service lost before
\* (SilenceReturnsToListening), or find the frontend taken (StoppedMeansFree).
SteadySignalIsStreamed ==
    \A s \in Clear :
        (mainPc = "Listening" /\ [](air = s)) ~> (osd.state = STREAMING \/ CaughtHalfWritten)

\* When the transmitter stays off, the adapter goes back to listening.
SilenceReturnsToListening ==
    <>[](air = NoSignal) => <>[](osd.state = LISTENING \/ ~Running)
==============================================================================
