------------------------------ MODULE TspProofs ------------------------------
(***************************************************************************)
(* What passes between the receiver and its tsp processes: the service     *)
(* taken from a report (ServiceInfo), for reports with any number of PIDs; *)
(* and the arguments tsp is started with (Tuning), for every frequency,    *)
(* every offset and every width of a word.                                 *)
(***************************************************************************)
EXTENDS ServiceInfo, Tuning, TLAPS

------------------------------------------------------------------------------
(* ServiceInfo: an invariant of the loop of ExtractService.                 *)

\* While the loop runs a clock of 0 means that none was found.
ClockSoFar ==
    \/ Clocks = {} /\ service.pcr = 0
    \/ \E j \in Clocks : IsLast(j, Clocks) /\ service.pcr = report.pids[j].id

LoopInv ==
    /\ ServiceTypeOK
    /\ extractPc = "Decode" => passed = 0
    /\ extractPc \in {"Loop", "Done"} => VideoFound /\ AudioFound
    /\ extractPc = "Loop" => ClockSoFar
    /\ ClockIsFound

------------------------------------------------------------------------------
\* What the report holds.
LEMMA ReportType ==
    ASSUME report \in Reports
    PROVE  /\ report.services \in Seq(Nat) /\ report.pids \in Seq(Pid)
           /\ Len(report.pids) \in Nat
           /\ \A j \in 1 .. Len(report.pids) : report.pids[j] \in Pid
  <1>1. report.services \in Seq(Nat) /\ report.pids \in Seq(Pid)
    BY ServiceAssumptions
  <1> QED
    BY <1>1

\* The types are among those the page knows.
LEMMA TypeNames ==
    ASSUME NEW marks
    PROVE  /\ VideoType(marks) \in {"UHD", "HD", "SD", "?", Unset}
           /\ AudioType(marks) \in {"MPEG", "AAC", "AC3", "?", Unset}
  BY DEF VideoType, AudioType

LEMMA NewServiceType == \A id \in Nat : NewService(id) \in Service
  BY DEF NewService, Service, Unset

LEMMA LoopInit == ServiceInit => LoopInv
  <1> SUFFICES ASSUME ServiceInit
               PROVE  LoopInv
    OBVIOUS
  <1>1. ServiceTypeOK
    BY ReportType, NewServiceType DEF ServiceInit, ServiceTypeOK
  <1> QED
    BY <1>1 DEF ServiceInit, LoopInv, ClockIsFound

\* A pass of the loop: the three kinds are looked at one after another.
LEMMA NextPidEffect ==
    ASSUME ServiceTypeOK, NextPid, NEW p, p = report.pids[passed + 1]
    PROVE  /\ p \in Pid /\ service' \in Service /\ passed' = passed + 1 /\ passed' \in 1 .. Len(report.pids)
           /\ service'.video = IF p.video THEN p.id ELSE service.video
           /\ service'.videoType = IF p.video THEN VideoType(p.marks) ELSE service.videoType
           /\ service'.audio = IF p.audio THEN p.id ELSE service.audio
           /\ service'.audioType = IF p.audio THEN AudioType(p.marks) ELSE service.audioType
           /\ service'.pcr = IF p.marks = {"PCR"} THEN p.id ELSE service.pcr
  <1>1. p \in Pid /\ passed' = passed + 1 /\ passed' \in 1 .. Len(report.pids)
    BY ReportType DEF ServiceTypeOK, NextPid
  <1> DEFINE s1 == IF p.video THEN WithVideo(service, p) ELSE service
             s2 == IF p.audio THEN WithAudio(s1, p) ELSE s1
  <1>2. /\ s1 \in Service
        /\ s1.video = IF p.video THEN p.id ELSE service.video
        /\ s1.videoType = IF p.video THEN VideoType(p.marks) ELSE service.videoType
        /\ s1.audio = service.audio /\ s1.audioType = service.audioType /\ s1.pcr = service.pcr
    BY <1>1, TypeNames DEF ServiceTypeOK, Service, Pid, WithVideo
  <1> HIDE DEF s1
  <1>3. /\ s2 \in Service
        /\ s2.video = s1.video /\ s2.videoType = s1.videoType /\ s2.pcr = s1.pcr
        /\ s2.audio = IF p.audio THEN p.id ELSE s1.audio
        /\ s2.audioType = IF p.audio THEN AudioType(p.marks) ELSE s1.audioType
    BY <1>1, <1>2, TypeNames DEF Service, Pid, WithAudio
  <1>4. service' = WithPcr(s2, p)
    BY DEF NextPid, s1
  <1> HIDE DEF s2
  <1> QED
    BY <1>1, <1>2, <1>3, <1>4 DEF Service, Pid, WithPcr

\* The sets of places grow by the one just passed.
LEMMA Passed ==
    ASSUME ServiceTypeOK, NextPid
    PROVE  /\ Videos' = IF report.pids[passed + 1].video THEN Videos \cup {passed + 1} ELSE Videos
           /\ Audios' = IF report.pids[passed + 1].audio THEN Audios \cup {passed + 1} ELSE Audios
           /\ Clocks' = IF report.pids[passed + 1].marks = {"PCR"} THEN Clocks \cup {passed + 1} ELSE Clocks
  <1>1. passed' = passed + 1 /\ report' = report /\ passed \in Nat
    BY ReportType DEF ServiceTypeOK, NextPid
  <1>2. 1 .. passed + 1 = (1 .. passed) \cup {passed + 1}
    BY <1>1
  <1> QED
    BY <1>1, <1>2 DEF Videos, Audios, Clocks

\* The place just passed is the last of any set it is added to.
LEMMA LastAdded ==
    ASSUME NEW k \in Nat, NEW S \in SUBSET (1 .. k)
    PROVE  IsLast(k + 1, S \cup {k + 1})
  BY DEF IsLast

LEMMA LoopStep == LoopInv /\ [ServiceNext]_serviceVars => LoopInv'
  <1> SUFFICES ASSUME LoopInv, [ServiceNext]_serviceVars
               PROVE  LoopInv'
    OBVIOUS
  <1> USE DEF LoopInv
  <1>1. CASE Decode
    <2>1. CASE report.whole /\ report.services # <<>>
      <3>1. report.services[1] \in Nat
        BY <2>1, ReportType DEF ServiceTypeOK
      <3>2. service' = NewService(report.services[1]) /\ extractPc' = "Loop" /\ passed' = passed /\ report' = report /\ passed = 0
        BY <1>1, <2>1 DEF Decode
      <3>3. ServiceTypeOK'
        BY <3>1, <3>2, NewServiceType DEF ServiceTypeOK
      <3>4. Videos' = {} /\ Audios' = {} /\ Clocks' = {}
        BY <3>2 DEF Videos, Audios, Clocks
      <3>5. service'.video = 0 /\ service'.audio = 0 /\ service'.pcr = 0
        BY <3>2 DEF NewService
      <3> QED
        BY <3>2, <3>3, <3>4, <3>5 DEF VideoFound, AudioFound, ClockSoFar, ClockIsFound
    <2>2. CASE ~(report.whole /\ report.services # <<>>)
      BY <1>1, <2>2 DEF Decode, ServiceTypeOK, ClockIsFound
    <2> QED
      BY <2>1, <2>2
  <1>2. CASE NextPid
    <2> DEFINE p == report.pids[passed + 1]
    <2>1. /\ p \in Pid /\ service' \in Service /\ passed' = passed + 1 /\ passed' \in 1 .. Len(report.pids)
          /\ service'.video = IF p.video THEN p.id ELSE service.video
          /\ service'.videoType = IF p.video THEN VideoType(p.marks) ELSE service.videoType
          /\ service'.audio = IF p.audio THEN p.id ELSE service.audio
          /\ service'.audioType = IF p.audio THEN AudioType(p.marks) ELSE service.audioType
          /\ service'.pcr = IF p.marks = {"PCR"} THEN p.id ELSE service.pcr
      BY <1>2, NextPidEffect
    <2>2. /\ Videos' = IF p.video THEN Videos \cup {passed + 1} ELSE Videos
          /\ Audios' = IF p.audio THEN Audios \cup {passed + 1} ELSE Audios
          /\ Clocks' = IF p.marks = {"PCR"} THEN Clocks \cup {passed + 1} ELSE Clocks
      BY <1>2, Passed
    <2>3. /\ IsLast(passed + 1, Videos \cup {passed + 1}) /\ IsLast(passed + 1, Audios \cup {passed + 1})
          /\ IsLast(passed + 1, Clocks \cup {passed + 1})
      <3>1. passed \in Nat
        BY ReportType DEF ServiceTypeOK
      <3>2. Videos \in SUBSET (1 .. passed) /\ Audios \in SUBSET (1 .. passed) /\ Clocks \in SUBSET (1 .. passed)
        BY DEF Videos, Audios, Clocks
      <3> QED
        BY <3>1, <3>2, LastAdded
    <2>4. /\ report' = report /\ extractPc = "Loop" /\ extractPc' = "Loop"
      BY <1>2 DEF NextPid
    <2> HIDE DEF p
    <2>5. VideoFound'
      <3>1. CASE p.video
        <4>1. passed + 1 \in Videos' /\ \A k \in Videos' : k <= passed + 1
          BY <2>2, <2>3, <3>1 DEF IsLast
        <4>2. /\ service'.video = report'.pids[passed + 1].id
              /\ service'.videoType = VideoType(report'.pids[passed + 1].marks)
          BY <2>1, <2>4, <3>1 DEF p
        <4> QED
          BY <4>1, <4>2 DEF VideoFound, IsLast, FromVideo, VideoType
      <3>2. CASE ~p.video
        <4>1. Videos' = Videos /\ report' = report
          BY <2>2, <2>4, <3>2
        <4>2. service'.video = service.video /\ service'.videoType = service.videoType
          BY <2>1, <3>2
        <4> QED
          BY <2>4, <4>1, <4>2 DEF VideoFound, FromVideo, IsLast, VideoType
      <3> QED
        BY <3>1, <3>2
    <2>6. AudioFound'
      <3>1. CASE p.audio
        <4>1. passed + 1 \in Audios' /\ \A k \in Audios' : k <= passed + 1
          BY <2>2, <2>3, <3>1 DEF IsLast
        <4>2. /\ service'.audio = report'.pids[passed + 1].id
              /\ service'.audioType = AudioType(report'.pids[passed + 1].marks)
          BY <2>1, <2>4, <3>1 DEF p
        <4> QED
          BY <4>1, <4>2 DEF AudioFound, IsLast, FromAudio, AudioType
      <3>2. CASE ~p.audio
        <4>1. Audios' = Audios /\ report' = report
          BY <2>2, <2>4, <3>2
        <4>2. service'.audio = service.audio /\ service'.audioType = service.audioType
          BY <2>1, <3>2
        <4> QED
          BY <2>4, <4>1, <4>2 DEF AudioFound, FromAudio, IsLast, AudioType
      <3> QED
        BY <3>1, <3>2
    <2>7. ClockSoFar'
      <3>1. CASE p.marks = {"PCR"}
        <4>1. passed + 1 \in Clocks' /\ IsLast(passed + 1, Clocks') /\ service'.pcr = report'.pids[passed + 1].id
          BY <2>1, <2>2, <2>3, <2>4, <3>1 DEF p
        <4> QED
          BY <4>1 DEF ClockSoFar, IsLast
      <3>2. CASE p.marks # {"PCR"}
        BY <2>1, <2>2, <2>4, <3>2 DEF ClockSoFar, IsLast
      <3> QED
        BY <3>1, <3>2
    <2>8. ServiceTypeOK'
      BY <2>1, <2>4, ReportType DEF ServiceTypeOK
    <2> QED
      BY <2>4, <2>5, <2>6, <2>7, <2>8 DEF ClockIsFound
  <1>3. CASE EndOfPids
    <2>1. /\ report' = report /\ passed' = passed /\ extractPc = "Loop" /\ extractPc' = "Done"
          /\ service' = IF service.pcr = 0 THEN [service EXCEPT !.pcr = service.video] ELSE service
      BY <1>3 DEF EndOfPids
    <2>2. /\ service' \in Service
          /\ service'.video = service.video /\ service'.videoType = service.videoType
          /\ service'.audio = service.audio /\ service'.audioType = service.audioType
          /\ service'.pcr = IF service.pcr = 0 THEN service.video ELSE service.pcr
      BY <2>1 DEF ServiceTypeOK, Service
    <2>3. Videos' = Videos /\ Audios' = Audios /\ Clocks' = Clocks
      BY <2>1 DEF Videos, Audios, Clocks
    <2>4. VideoFound' /\ AudioFound'
      BY <2>1, <2>2, <2>3 DEF VideoFound, AudioFound, FromVideo, FromAudio, IsLast
    \* a clock that was found is not PID 0
    <2>5. \A j \in Clocks : report.pids[j].id # 0
      BY ReportType DEF ServiceTypeOK, Clocks, Pid
    <2>6. ClockIsFound'
      BY <2>1, <2>2, <2>3, <2>5 DEF ClockSoFar, ClockIsFound, IsLast
    <2> QED
      BY <2>1, <2>2, <2>4, <2>6 DEF ServiceTypeOK
  <1>4. CASE UNCHANGED serviceVars
    BY <1>4 DEF serviceVars, ServiceTypeOK, VideoFound, AudioFound, ClockSoFar, ClockIsFound, Videos, Audios,
       Clocks, FromVideo, FromAudio, IsLast
  <1> QED
    BY <1>1, <1>2, <1>3, <1>4 DEF ServiceNext, ServiceEnded

LEMMA LoopAlways == ServiceSpec => []LoopInv
  BY LoopInit, LoopStep, PTL DEF ServiceSpec

\* The result is a service whatever is in the report.
THEOREM ServiceTypeCorrect == ServiceSpec => []ServiceTypeOK
  BY LoopAlways, PTL DEF LoopInv

\* For any number of PIDs the page names the last video and audio PID, each
\* with its own type.
THEOREM LastPidsWin == ServiceSpec => []TypesDescribePids
  <1>1. LoopInv => TypesDescribePids
    BY DEF LoopInv, TypesDescribePids
  <1> QED
    BY <1>1, LoopAlways, PTL

\* For any number of PIDs, in any order, the clock is found.
THEOREM ClockFound == ServiceSpec => []ClockIsFound
  BY LoopAlways, PTL DEF LoopInv

------------------------------------------------------------------------------
(* Tuning: fontendCmdArgs, once for each tsp of each round.                 *)

\* The entry is never written after it was read, so every subtraction starts
\* from the configured frequency; and beyond Validate it is an accepted one.
TuningInv ==
    /\ TuningTypeOK
    /\ config = given
    /\ tuningPc \notin {"Validate", "Rejected"} => config.type \in Accepted
    /\ TunesTheInput
    /\ AcceptedIsSupported

------------------------------------------------------------------------------
\* What is left by a subtraction, and by one that borrowed.
LEMMA Remainders ==
    ASSUME NEW W \in Nat \ {0}, NEW x \in 0 .. W - 1
    PROVE  x % W = x /\ (x + W) % W = x
  OBVIOUS

\* Subtracting in uint32 loses nothing, even when it wraps: adding the
\* offset gives the frequency again.
LEMMA MinusAndBack ==
    ASSUME NEW f \in Words, NEW o \in Words
    PROVE  Minus(f, o) \in Words /\ (Minus(f, o) + o) % Word = f
  <1>1. Word \in Nat \ {0} /\ f \in 0 .. Word - 1 /\ o \in 0 .. Word - 1
    BY TuningAssumptions DEF Words
  <1>2. CASE o <= f
    <2>1. f - o \in 0 .. Word - 1 /\ f + Word - o = (f - o) + Word
      BY <1>1, <1>2
    <2>2. Minus(f, o) = f - o
      BY <1>1, <2>1, Remainders DEF Minus
    <2>3. Minus(f, o) + o = f
      BY <1>1, <2>2
    <2> QED
      BY <1>1, <2>1, <2>2, <2>3, Remainders DEF Words
  <1>3. CASE f < o
    <2>1. f + Word - o \in 0 .. Word - 1
      BY <1>1, <1>3
    <2>2. Minus(f, o) = f + Word - o
      BY <1>1, <2>1, Remainders DEF Minus
    <2>3. Minus(f, o) + o = f + Word
      BY <1>1, <2>2
    <2> QED
      BY <1>1, <2>1, <2>2, <2>3, Remainders DEF Words
  <1> QED
    BY <1>1, <1>2, <1>3

LEMMA ArgumentsType ==
    ASSUME TuningTypeOK
    PROVE  /\ Arguments \in Options
           /\ config.frequency = IF config.type \in Terrestrial THEN (Arguments.frequency + offset) % Word
                                                                ELSE Arguments.frequency
  <1>1. /\ config.type \in Terrestrial \cup Satellite \cup {"ATSC", "DVB-C"}
        /\ config.frequency \in Words /\ config.bandwidth \in Words /\ config.symbolRate \in Words
        /\ offset \in Words
    BY TuningAssumptions DEF TuningTypeOK, Entries
  <1>2. DeliverySystem(config.type) \in {Absent, "DVB-T2", "DVB-S2", "ATSC", "undefined"}
    BY DEF DeliverySystem
  <1>3. /\ Minus(config.frequency, offset) \in Words
        /\ (Minus(config.frequency, offset) + offset) % Word = config.frequency
    BY <1>1, MinusAndBack
  <1> QED
    BY <1>1, <1>2, <1>3 DEF Arguments, Options

LEMMA AcceptedSwitch == Accepted \subseteq Switch
  BY DEF Accepted, Switch, Terrestrial, Satellite

\* Each of the three starts of a tsp.
LEMMA StartTsp ==
    ASSUME TuningInv, NEW from \in TuningLabels \ {"Validate", "Rejected"}, NEW to \in TuningLabels \ {"Unsupported"},
           FontendCmdArgs(from, to)
    PROVE  TuningInv'
  <1>1. config.type \in Switch
    BY AcceptedSwitch DEF FontendCmdArgs, TuningInv
  <1>2. args' = Arguments /\ config' = config /\ tuningPc' = to /\ UNCHANGED <<given, offset, osd>>
    BY <1>1 DEF FontendCmdArgs, Untouched
  <1>3. TuningTypeOK' /\ TunesTheInput'
    BY <1>2, ArgumentsType DEF TuningInv, TuningTypeOK, TunesTheInput
  <1> QED
    BY <1>2, <1>3 DEF TuningInv, FontendCmdArgs, AcceptedIsSupported

LEMMA TuningInvInit == TuningInit => TuningInv
  BY TuningAssumptions DEF TuningInit, TuningInv, TuningTypeOK, TuningLabels, TunesTheInput, AcceptedIsSupported

LEMMA TuningInvStep == TuningInv /\ [TuningNext]_tuningVars => TuningInv'
  <1> SUFFICES ASSUME TuningInv, [TuningNext]_tuningVars
               PROVE  TuningInv'
    OBVIOUS
  <1> USE DEF TuningInv, TuningTypeOK, TuningLabels, TunesTheInput, AcceptedIsSupported
  <1>1. CASE Validate
    BY <1>1 DEF Validate, Valid
  <1>2. CASE AwaitSignal
    BY <1>2, StartTsp DEF AwaitSignal
  <1>3. CASE FindServices
    BY <1>3, StartTsp DEF FindServices
  <1>4. CASE StartStreaming
    BY <1>4, StartTsp DEF StartStreaming
  <1>5. CASE SetInitialOsdStats
    BY <1>5 DEF SetInitialOsdStats
  <1>6. CASE StartAgain
    BY <1>6 DEF StartAgain
  <1>7. CASE UNCHANGED tuningVars
    BY <1>7 DEF tuningVars
  <1> QED
    BY <1>1, <1>2, <1>3, <1>4, <1>5, <1>6, <1>7 DEF TuningNext, TuningEnded

LEMMA TuningAlways == TuningSpec => []TuningInv
  BY TuningInvInit, TuningInvStep, PTL DEF TuningSpec

\* Every argument fits the word it is printed from.
THEOREM TuningTypeCorrect == TuningSpec => []TuningTypeOK
  BY TuningAlways, PTL DEF TuningInv

\* For every width of the word, every frequency and every offset: each tsp of
\* each round is tuned so that frequency and oscillator make up the input,
\* though a frequency below the offset wraps.
THEOREM InputTuned == TuningSpec => []TunesTheInput
  BY TuningAlways, PTL DEF TuningInv

\* An entry the validation accepted never ends the receiver in the switch.
THEOREM AcceptedSupported == TuningSpec => []AcceptedIsSupported
  BY TuningAlways, PTL DEF TuningInv
==============================================================================
