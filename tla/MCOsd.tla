-------------------------------- MODULE MCOsd --------------------------------
(* For TLC, side by side: the event streams and what their events are made *)
(* of.  These modules share no state, so each behaviour exercises one part *)
(* and leaves the others as they begin, with one input for all.            *)
EXTENDS Pages, Tuning, Figures, ServiceInfo, SystemStats

------------------------------------------------------------------------------
(* Pages: one page of an adapter and the monitor page.                      *)

CONSTANTS adapter, monitor

MCAdapters == {adapter}
MCMonitors == {monitor}

------------------------------------------------------------------------------
(* Tuning: 32 units of 128 MHz in a word.  The offset may be at and beside  *)
(* its limits, a frequency below, at and above the offset.                  *)

MCFrequencies == {0, 1, 4, 5, 6, 11, 31}
MCOffsets     == 3 .. 7
MCNumbers     == {0, 2, 3}

------------------------------------------------------------------------------
(* Figures: answers at the ends and where a level changes and, for the      *)
(* count of errors, beyond the cap.                                         *)

MCRaw    == {0, 656, 65535}
MCRawBer == {0, 1000, 102000}

------------------------------------------------------------------------------
(* ServiceInfo: lists of up to three PIDs of every kind, with descriptions  *)
(* for which the order of the cases matters.                                *)

P(id, video, audio, marks) == [id |-> id, video |-> video, audio |-> audio, marks |-> marks]

MCPids ==
    {P(33, TRUE, FALSE, {"1920x1080"}), P(34, TRUE, FALSE, {"1280x720"}),
     P(35, TRUE, FALSE, {"720x576", "MPEG"}), P(36, TRUE, FALSE, {}),
     P(40, FALSE, TRUE, {"MPEG", "AAC"}), P(41, FALSE, TRUE, {"AAC"}), P(42, FALSE, TRUE, {"AC-3"}),
     P(50, FALSE, FALSE, {"PCR"}), P(51, FALSE, FALSE, {"PCR"}), P(60, FALSE, FALSE, {})}

ListsUpTo(S, k) == UNION {[1 .. i -> S] : i \in 0 .. k}

MCReports == [whole : BOOLEAN, services : {<<>>, <<1>>, <<2, 1>>}, pids : ListsUpTo(MCPids, 3)]

------------------------------------------------------------------------------
(* SystemStats: a unit of 16 and words of 2^26, which is 16^6.5 as 2^64 is  *)
(* 1024^6.4: the largest counter needs all six suffixes.  Both sides of     *)
(* every power, halves of a tenth, and both ends of the range.              *)

MCCounterWord == 2^26

MCCounters ==
    ({q * 16^k + d : q \in {1, 15}, k \in 0 .. 6, d \in {-1, 0, 1}}
        \cup {q * 2^k : q \in {5, 7}, k \in {2, 6, 18}} \cup {MCCounterWord - 1}) \cap (0 .. MCCounterWord - 1)

------------------------------------------------------------------------------
VARIABLE part   \* the part this behaviour exercises

\* The parts with inputs, as they begin, with one input.
TuningRests ==
    /\ given = CHOOSE e \in Entries : TRUE
    /\ offset = CHOOSE o \in Offsets : TRUE
    /\ TuningInit
ServiceRests == report = (CHOOSE r \in Reports : TRUE) /\ ServiceInit
StatsRest    == io = <<>> /\ StatsInit

Init ==
    /\ PagesInit /\ FiguresInit
    /\ \/ part \in {"pages", "figures"} /\ TuningRests /\ ServiceRests /\ StatsRest
       \/ part = "tuning"  /\ TuningInit  /\ ServiceRests /\ StatsRest
       \/ part = "service" /\ TuningRests /\ ServiceInit  /\ StatsRest
       \/ part = "monitor" /\ TuningRests /\ ServiceRests /\ StatsInit

Next ==
    /\ part' = part
    /\ \/ part = "pages"   /\ PagesNext   /\ UNCHANGED <<tuningVars, figuresVars, serviceVars, statsVars>>
       \/ part = "tuning"  /\ TuningNext  /\ UNCHANGED <<pagesVars, figuresVars, serviceVars, statsVars>>
       \/ part = "figures" /\ FiguresNext /\ UNCHANGED <<pagesVars, tuningVars, serviceVars, statsVars>>
       \/ part = "service" /\ ServiceNext /\ UNCHANGED <<pagesVars, tuningVars, figuresVars, statsVars>>
       \/ part = "monitor" /\ StatsNext   /\ UNCHANGED <<pagesVars, tuningVars, figuresVars, serviceVars>>

vars == <<part, pagesVars, tuningVars, figuresVars, serviceVars, statsVars>>

Spec == Init /\ [][Next]_vars /\ PagesFairness
==============================================================================
