----------------------------- MODULE ServiceInfo -----------------------------
(***************************************************************************)
(* ExtractService (src/src/service/service.go): what the analysis of a     *)
(* transport stream says, in one pass over its PIDs, about the service to  *)
(* be streamed.  A description is the set of the marks the code looks for  *)
(* in it.                                                                  *)
(***************************************************************************)
EXTENDS Naturals, Sequences

CONSTANT Reports   \* what service(x).json may hold

Marks == {"1920x1080", "1280x720", "720x576", "MPEG", "AAC", "AC-3", "PCR"}

\* {"PCR"} stands for the whole of "PCR (not otherwise referenced)".  PID 0
\* is none of these, so 0 can stand for "not found", as in the code.
Pid == [id : Nat \ {0}, video : BOOLEAN, audio : BOOLEAN, marks : SUBSET Marks]

\* A report is torn, or whole with a list of service IDs and a list of PIDs.
ASSUME ServiceAssumptions ==
    Reports \subseteq [whole : BOOLEAN, services : Seq(Nat), pids : Seq(Pid)]

Unset == "unset"   \* the type in a new record, whose JSON has no such field

Service ==
    [id : Nat, pcr : Nat, video : Nat, audio : Nat,
     videoType : {"UHD", "HD", "SD", "?", Unset}, audioType : {"MPEG", "AAC", "AC3", "?", Unset}]

NewService(id) ==
    [id |-> id, pcr |-> 0, video |-> 0, audio |-> 0, videoType |-> Unset, audioType |-> Unset]

VARIABLES
    report,    \* the contents of the file
    extractPc, \* "Decode", "Loop", "Done" or "Failed"
    passed,    \* PIDs passed
    service    \* the result so far

serviceVars == <<report, extractPc, passed, service>>

ServiceTypeOK ==
    /\ report \in Reports
    /\ extractPc \in {"Decode", "Loop", "Done", "Failed"}
    /\ passed \in 0 .. Len(report.pids)
    /\ service \in Service

ServiceInit ==
    /\ report \in Reports
    /\ extractPc = "Decode"
    /\ passed = 0
    /\ service = NewService(0)

------------------------------------------------------------------------------
\* The first case that applies decides.
VideoType(marks) ==
    IF "1920x1080" \in marks THEN "UHD"
    ELSE IF "1280x720" \in marks THEN "HD"
    ELSE IF "720x576" \in marks THEN "SD" ELSE "?"

\* Mutant: the mark itself is shown.
AudioMark(marks) ==
    IF "MPEG" \in marks THEN "MPEG"
    ELSE IF "AAC" \in marks THEN "AAC"
    ELSE IF "AC-3" \in marks THEN "AC-3" ELSE "?"

AudioType(marks) ==
    IF "MPEG" \in marks THEN "MPEG"
    ELSE IF "AAC" \in marks THEN "AAC"
    ELSE IF "AC-3" \in marks THEN "AC3" ELSE "?"

Decode ==
    /\ extractPc = "Decode"
    /\ IF report.whole /\ report.services # <<>>
       THEN extractPc' = "Loop" /\ service' = NewService(report.services[1])
       ELSE extractPc' = "Failed" /\ service' = service
    /\ UNCHANGED <<report, passed>>

\* Mutant: an unknown resolution does not overwrite a known one.
KnownVideo(s, p) ==
    [s EXCEPT !.video = p.id,
              !.videoType = IF VideoType(p.marks) = "?" THEN @ ELSE VideoType(p.marks)]

WithVideo(s, p) == [s EXCEPT !.video = p.id, !.videoType = VideoType(p.marks)]
WithAudio(s, p) == [s EXCEPT !.audio = p.id, !.audioType = AudioType(p.marks)]

\* Mutant: the PCR is looked for only where nothing else is found.
PcrElse(s, p) == IF p.marks = {"PCR"} /\ s.video = 0 THEN [s EXCEPT !.pcr = p.id] ELSE s
WithPcr(s, p) == IF p.marks = {"PCR"} THEN [s EXCEPT !.pcr = p.id] ELSE s

\* One turn of the loop over the PIDs.
NextPid ==
    /\ extractPc = "Loop"
    /\ passed < Len(report.pids)
    /\ LET p  == report.pids[passed + 1]
           s1 == IF p.video THEN WithVideo(service, p) ELSE service
           s2 == IF p.audio THEN WithAudio(s1, p) ELSE s1
       IN service' = WithPcr(s2, p)
    /\ passed' = passed + 1
    /\ UNCHANGED <<report, extractPc>>

\* Without a PID of its own the clock is in the video.
EndOfPids ==
    /\ extractPc = "Loop"
    /\ passed = Len(report.pids)
    /\ service' = IF service.pcr = 0 THEN [service EXCEPT !.pcr = service.video] ELSE service
    /\ extractPc' = "Done"
    /\ UNCHANGED <<report, passed>>

ServiceEnded == extractPc \in {"Done", "Failed"} /\ UNCHANGED serviceVars

ServiceNext == Decode \/ NextPid \/ EndOfPids \/ ServiceEnded

ServiceSpec == ServiceInit /\ [][ServiceNext]_serviceVars

------------------------------------------------------------------------------
\* The PIDs passed of each kind, by their place in the list.
Videos == {j \in 1 .. passed : report.pids[j].video}
Audios == {j \in 1 .. passed : report.pids[j].audio}
Clocks == {j \in 1 .. passed : report.pids[j].marks = {"PCR"}}

IsLast(j, S) == j \in S /\ \A k \in S : k <= j

FromVideo(j) == service.video = report.pids[j].id /\ service.videoType = VideoType(report.pids[j].marks)
FromAudio(j) == service.audio = report.pids[j].id /\ service.audioType = AudioType(report.pids[j].marks)

VideoFound == \/ Videos = {} /\ service.video = 0
              \/ \E j \in Videos : IsLast(j, Videos) /\ FromVideo(j)
AudioFound == \/ Audios = {} /\ service.audio = 0
              \/ \E j \in Audios : IsLast(j, Audios) /\ FromAudio(j)

\* The page names one video and one audio PID: the last of its kind in the
\* list, with the type of that very PID and of none before it.
TypesDescribePids == extractPc = "Done" => VideoFound /\ AudioFound

\* The clock is the last PCR PID wherever it stands in the list, before or
\* after the video; only a list without any takes the clock from the video.
ClockIsFound ==
    extractPc = "Done" =>
        \/ Clocks = {} /\ service.pcr = service.video
        \/ \E j \in Clocks : IsLast(j, Clocks) /\ service.pcr = report.pids[j].id
==============================================================================
