------------------------------- MODULE Figures -------------------------------
(***************************************************************************)
(* The figures of the OSD page: signal strength, SNR and BER.  GetStats    *)
(* (src/src/frontend/frontend.go) asks the driver four questions, one      *)
(* ioctl each; the signal may change between any two and each may fail.    *)
(* monitorSignalLoop (src/src/state/state.go) repeats a failed call, keeps *)
(* the figures of locked readings, and clears them when the lock is lost.  *)
(*                                                                         *)
(* Readings are numbered so that one can say which of them a figure is     *)
(* from; the number is not in the code, nor is the history variable        *)
(* inherited.                                                              *)
(***************************************************************************)
EXTENDS Integers

CONSTANTS
    Top,           \* the 0xffff of signal strength and SNR
    BerMax,        \* BER_MAX
    Raw, RawBer,   \* what the driver may answer
    LossLimit,     \* the 10 of monitorSignalLoop
    MaxRetries,    \* the 3 attempts of getStatsWithRetries
    MaxReadings    \* bound on the calls of GetStats

ASSUME FiguresAssumptions ==
    /\ Top \in Nat \ {0} /\ Raw \subseteq 0 .. Top
    /\ BerMax \in Nat \ {0} /\ RawBer \subseteq Nat
    /\ LossLimit \in Nat \ {0}
    /\ MaxRetries \in Nat \ {0}
    /\ MaxReadings \in Nat

VARIABLES
    loopPc,     \* what the monitor loop does next; "Off" or "GaveUp": no loop
    reading,    \* calls of GetStats so far
    got,        \* what this call has read: the status, then the figures
    attempts,   \* failed calls in a row
    misses,     \* lockCount
    lockedBy,   \* the reading by which Lock and CarrierLock are set, 0: not set
    figures,    \* sm.OsdStats.Signal, SNR and BER
    inherited   \* the reading of the figures this loop found, left by one that
                \* gave up; 0: none

figuresVars == <<loopPc, reading, got, attempts, misses, lockedBy, figures, inherited>>

Names == {"signal", "snr", "ber"}

\* A figure: its level and the reading it was taken by.
NoFigure == [level |-> 0, by |-> 0]
Dark     == [n \in Names |-> NoFigure]
Nothing  == [locked |-> FALSE, figures |-> Dark]

Figure == [level : Int, by : Nat]

FiguresTypeOK ==
    /\ loopPc \in {"Off", "GaveUp", "Status", "Signal", "SNR", "BER", "Update", "Lost"}
    /\ reading \in Nat
    /\ got \in [locked : BOOLEAN, figures : [Names -> Figure]]
    /\ attempts \in 0 .. MaxRetries - 1
    /\ misses \in 0 .. LossLimit
    /\ lockedBy \in Nat
    /\ figures \in [Names -> Figure]
    /\ inherited \in Nat

FiguresInit ==
    /\ loopPc = "Off"
    /\ reading = 0
    /\ got = Nothing
    /\ attempts = 0 /\ misses = 0
    /\ lockedBy = 0
    /\ figures = Dark
    /\ inherited = 0

------------------------------------------------------------------------------
(* GetStats.  A float64 is cut off by the conversion to uint16; 100 minus a *)
(* quotient is cut off after the subtraction.                               *)

SignalLevel(raw) == (raw * 100) \div Top
SnrLevel(raw)    == (Top * 100 - raw * 100) \div Top

\* Mutant: the count of errors is not capped.
Uncapped(raw) == raw
Capped(raw)   == IF raw > BerMax THEN BerMax ELSE raw
BerLevel(raw) == (Capped(raw) * 100) \div BerMax

\* Both locks decide; the other three bits are only shown.
ReadStatus(l) ==
    /\ loopPc = "Status"
    /\ reading < MaxReadings
    /\ reading' = reading + 1
    /\ got' = [Nothing EXCEPT !.locked = l]
    /\ loopPc' = "Signal"
    /\ UNCHANGED <<attempts, misses, lockedBy, figures, inherited>>

Ask(from, name, level, to) ==
    /\ loopPc = from
    /\ got' = [got EXCEPT !.figures[name] = [level |-> level, by |-> reading]]
    /\ loopPc' = to
    /\ UNCHANGED <<reading, attempts, misses, lockedBy, figures, inherited>>

ReadSignal(raw) == Ask("Signal", "signal", SignalLevel(raw), "SNR")
ReadSnr(raw)    == Ask("SNR", "snr", SnrLevel(raw), "BER")
ReadBer(raw)    == Ask("BER", "ber", BerLevel(raw), "Update")
Asking == {"Status", "Signal", "SNR", "BER"}

\* Mutants: an error is ignored; one attempt too many.
AskNext ==
    /\ loopPc' = CASE loopPc = "Status" -> "Signal" [] loopPc = "Signal" -> "SNR"
              [] loopPc = "SNR" -> "BER" [] loopPc = "BER" -> "Update"
    /\ UNCHANGED <<attempts, got>>
MoreAttempts(n) == n <= MaxRetries

AttemptsLeft(n) == n < MaxRetries

\* GetStats returns zeros and the error.
CallAgain ==
    /\ got' = Nothing
    /\ IF AttemptsLeft(attempts + 1)
       THEN attempts' = attempts + 1 /\ loopPc' = "Status"
       ELSE attempts' = 0 /\ loopPc' = "GaveUp"

IoctlFails ==
    /\ loopPc \in Asking
    /\ CallAgain
    /\ UNCHANGED <<reading, misses, lockedBy, figures, inherited>>

\* updateOsdStats, and the count of monitorSignalLoop.
UpdateOsdStats ==
    /\ loopPc = "Update"
    /\ lockedBy' = IF got.locked THEN reading ELSE 0
    /\ figures' = IF got.locked THEN got.figures ELSE figures
    /\ misses' = IF got.locked THEN 0 ELSE misses + 1
    /\ loopPc' = IF misses' >= LossLimit THEN "Lost" ELSE "Status"
    /\ attempts' = 0
    /\ got' = Nothing
    /\ UNCHANGED <<reading, inherited>>

\* Mutant: one of the fields is forgotten.
AllButSnr == [Dark EXCEPT !["snr"] = figures["snr"]]
Cleared   == Dark

ClearOsdStats ==
    /\ loopPc = "Lost"
    /\ figures' = Cleared
    /\ lockedBy' = 0
    /\ loopPc' = "Off"
    /\ UNCHANGED <<reading, got, attempts, misses, inherited>>

\* The next stream has a loop of its own.
MonitorSignal ==
    /\ loopPc \in {"Off", "GaveUp"}
    /\ loopPc' = "Status"
    /\ misses' = 0
    /\ inherited' = IF loopPc = "GaveUp" THEN figures["signal"].by ELSE 0
    /\ UNCHANGED <<reading, got, attempts, lockedBy, figures>>

FiguresNext ==
    \/ \E l \in BOOLEAN : ReadStatus(l)
    \/ \E raw \in Raw : ReadSignal(raw) \/ ReadSnr(raw)
    \/ \E raw \in RawBer : ReadBer(raw)
    \/ IoctlFails \/ UpdateOsdStats \/ ClearOsdStats \/ MonitorSignal

FiguresSpec == FiguresInit /\ [][FiguresNext]_figuresVars

------------------------------------------------------------------------------
(* The loop around the calls: module SignalMonitor.                         *)
Calling == loopPc \in Asking \cup {"Update"}

Monitored == INSTANCE SignalMonitor WITH
    place    <- CASE Calling -> "Polling" [] loopPc = "Lost" -> "Lost" [] OTHER -> "Off",
    attempts <- IF Calling THEN attempts ELSE 0,
    misses   <- IF Calling THEN misses ELSE 0,
    locked   <- lockedBy # 0

\* A call of GetStats that fails at any of its questions counts as one failed
\* reading, and one that answers all four as one reading: the loop counts
\* as the one of StateMachine, which reads in a single step.
ReadsAsTheLoop == Monitored!Spec

\* "signal, SNR and BER level 0-100%" (README.md:36): a bar never leaves its
\* frame, whatever the driver answers.
LevelsInRange == \A n \in Names : figures[n].level \in 0 .. 100

\* The three bars are from one call of GetStats, although it may fail after
\* each of its questions and be repeated; and as long as the page shows a
\* lock they are from the very call that found the lock.
FiguresBelongTogether ==
    /\ \A m, n \in Names : figures[m].by = figures[n].by
    /\ lockedBy # 0 => figures["signal"].by = lockedBy

\* What a loop shows is recent: its bars are never older than the misses it
\* has counted since, each of as many calls as a reading may take, also when
\* calls fail and whatever the loop before it has shown.  Only bars a loop
\* found when it began, left by one that gave up on the frontend without
\* clearing them, may be of any age.
BarsAreRecent ==
    \A n \in Names :
        figures[n].by \notin {0, inherited} =>
            reading - figures[n].by <= (misses + 1) * MaxRetries
==============================================================================
