---------------------------- MODULE NumbersProofs ----------------------------
(***************************************************************************)
(* The numbers the pages print: the figures of an adapter (Figures), for   *)
(* every answer of the driver, every range of raw values and every number  *)
(* of retries; and the counters of the monitor page (SystemStats), for     *)
(* every unit and every width of a word.                                   *)
(***************************************************************************)
EXTENDS Figures, SystemStats, TLAPS

------------------------------------------------------------------------------
(* Figures: the four questions of GetStats and the loop around them.        *)

InFrame(fs) == \A n \in Names : fs[n].level \in 0 .. 100

\* The figures read so far in this call.
ReadSoFar ==
    CASE loopPc = "SNR" -> {"signal"}
      [] loopPc = "BER" -> {"signal", "snr"}
      [] loopPc = "Update" -> Names
      [] OTHER -> {}

\* What the bars show was one call's to begin with.
FiguresInv ==
    /\ FiguresTypeOK
    /\ LevelsInRange
    /\ InFrame(got.figures)
    /\ \A n \in ReadSoFar : got.figures[n].by = reading
    /\ FiguresBelongTogether
    /\ loopPc \in {"Status", "Signal", "SNR", "BER", "Update"} => misses < LossLimit

------------------------------------------------------------------------------
\* A quotient scaled to 100 lies between 0 and 100.
LEMMA Percent ==
    ASSUME NEW a \in Nat, NEW b \in Nat \ {0}, a <= 100 * b
    PROVE  a \div b \in 0 .. 100
  OBVIOUS

\* Whatever the driver answers, the three levels fit the bars.
LEMMA Levels ==
    /\ \A raw \in Raw : SignalLevel(raw) \in 0 .. 100 /\ SnrLevel(raw) \in 0 .. 100
    /\ \A raw \in RawBer : BerLevel(raw) \in 0 .. 100
  <1>1. ASSUME NEW raw \in Raw
        PROVE  SignalLevel(raw) \in 0 .. 100 /\ SnrLevel(raw) \in 0 .. 100
    <2>1. raw \in Nat /\ raw <= Top /\ Top \in Nat \ {0}
      BY FiguresAssumptions
    <2>2. raw * 100 \in Nat /\ raw * 100 <= 100 * Top
      BY <2>1
    <2>3. Top * 100 - raw * 100 \in Nat /\ Top * 100 - raw * 100 <= 100 * Top
      BY <2>1
    <2> QED
      BY <2>1, <2>2, <2>3, Percent DEF SignalLevel, SnrLevel
  <1>2. ASSUME NEW raw \in RawBer
        PROVE  BerLevel(raw) \in 0 .. 100
    <2>1. Capped(raw) \in Nat /\ Capped(raw) <= BerMax /\ BerMax \in Nat \ {0}
      BY FiguresAssumptions DEF Capped
    <2>2. Capped(raw) * 100 \in Nat /\ Capped(raw) * 100 <= 100 * BerMax
      BY <2>1
    <2> QED
      BY <2>1, <2>2, Percent DEF BerLevel
  <1> QED
    BY <1>1, <1>2

\* The cleared figures are figures, and in the frame.
LEMMA DarkFigures == Dark \in [Names -> Figure] /\ InFrame(Dark) /\ \A n \in Names : Dark[n] = NoFigure
  BY DEF Dark, NoFigure, Figure, InFrame

LEMMA FiguresInvInit == FiguresInit => FiguresInv
  BY DarkFigures, FiguresAssumptions DEF FiguresInit, FiguresInv, FiguresTypeOK, LevelsInRange, InFrame, ReadSoFar,
     FiguresBelongTogether, Nothing, NoFigure, Names

\* Storing one figure of this call.
LEMMA ReadStep ==
    ASSUME FiguresInv, NEW from \in {"Signal", "SNR", "BER"}, NEW name \in Names,
           NEW level \in 0 .. 100, NEW to, Ask(from, name, level, to),
           \/ from = "Signal" /\ name = "signal" /\ to = "SNR"
           \/ from = "SNR" /\ name = "snr" /\ to = "BER"
           \/ from = "BER" /\ name = "ber" /\ to = "Update"
    PROVE  FiguresInv'
  <1> DEFINE new == [level |-> level, by |-> reading]
  <1>1. new \in Figure /\ new.level \in 0 .. 100 /\ new.by = reading
    BY DEF FiguresInv, FiguresTypeOK, Figure
  <1>2. /\ got'.locked = got.locked
        /\ got'.figures = [got.figures EXCEPT ![name] = new]
        /\ got' \in [locked : BOOLEAN, figures : [Names -> Figure]]
    BY <1>1 DEF Ask, FiguresInv, FiguresTypeOK
  <1> HIDE DEF new
  <1>3. \A n \in Names : got'.figures[n] = IF n = name THEN new ELSE got.figures[n]
    BY <1>2 DEF FiguresInv, FiguresTypeOK
  <1>4. InFrame(got'.figures)
    BY <1>1, <1>3 DEF InFrame, FiguresInv
  <1>5. \A n \in ReadSoFar' : got'.figures[n].by = reading'
    BY <1>1, <1>3 DEF Ask, ReadSoFar, FiguresInv, Names
  <1> QED
    BY <1>2, <1>4, <1>5 DEF Ask, FiguresInv, FiguresTypeOK, LevelsInRange, FiguresBelongTogether

LEMMA FiguresInvStep == FiguresInv /\ [FiguresNext]_figuresVars => FiguresInv'
  <1> SUFFICES ASSUME FiguresInv, [FiguresNext]_figuresVars
               PROVE  FiguresInv'
    OBVIOUS
  <1>1. ASSUME NEW l \in BOOLEAN, ReadStatus(l)
        PROVE  FiguresInv'
    BY <1>1, DarkFigures DEF ReadStatus, Nothing, FiguresInv, FiguresTypeOK, LevelsInRange, InFrame,
       ReadSoFar, FiguresBelongTogether
  <1>2. ASSUME NEW raw \in Raw, ReadSignal(raw) \/ ReadSnr(raw)
        PROVE  FiguresInv'
    BY <1>2, Levels, ReadStep DEF ReadSignal, ReadSnr, Names
  <1>3. ASSUME NEW raw \in RawBer, ReadBer(raw)
        PROVE  FiguresInv'
    BY <1>3, Levels, ReadStep DEF ReadBer, Names
  <1>4. CASE IoctlFails
    <2>1. attempts' \in 0 .. MaxRetries - 1
      BY <1>4, FiguresAssumptions DEF IoctlFails, CallAgain, AttemptsLeft, FiguresInv, FiguresTypeOK
    <2> QED
      BY <1>4, <2>1, DarkFigures DEF IoctlFails, CallAgain, Asking, Nothing, FiguresInv, FiguresTypeOK,
         LevelsInRange, InFrame, ReadSoFar, FiguresBelongTogether
  <1>5. CASE UpdateOsdStats
    <2>1. attempts' \in 0 .. MaxRetries - 1 /\ misses' \in 0 .. LossLimit
          /\ (misses' < LossLimit \/ loopPc' = "Lost") /\ loopPc' \in {"Lost", "Status"}
      BY <1>5, FiguresAssumptions DEF UpdateOsdStats, FiguresInv, FiguresTypeOK
    <2>2. got' = Nothing /\ InFrame(got'.figures) /\ ReadSoFar' = {}
      BY <1>5, <2>1, DarkFigures DEF UpdateOsdStats, Nothing, ReadSoFar
    <2>3. \A n \in Names : got.figures[n].by = reading
      BY <1>5 DEF UpdateOsdStats, FiguresInv, ReadSoFar
    <2>4. FiguresBelongTogether'
      BY <1>5, <2>3 DEF UpdateOsdStats, FiguresInv, FiguresBelongTogether, Names
    <2>5. LevelsInRange'
      BY <1>5 DEF UpdateOsdStats, FiguresInv, LevelsInRange, InFrame
    <2>6. FiguresTypeOK'
      BY <1>5, <2>1, <2>2, DarkFigures DEF UpdateOsdStats, FiguresInv, FiguresTypeOK, Nothing
    <2> QED
      BY <2>1, <2>2, <2>4, <2>5, <2>6 DEF FiguresInv
  <1>6. CASE ClearOsdStats
    BY <1>6, DarkFigures DEF ClearOsdStats, Cleared, NoFigure, FiguresInv, FiguresTypeOK, LevelsInRange,
       InFrame, ReadSoFar, FiguresBelongTogether, Names
  <1>7. CASE MonitorSignal
    <2>1. inherited' \in Nat
      BY <1>7 DEF MonitorSignal, FiguresInv, FiguresTypeOK, Figure, Names
    <2> QED
      BY <1>7, <2>1, FiguresAssumptions DEF MonitorSignal, FiguresInv, FiguresTypeOK, LevelsInRange, InFrame,
         ReadSoFar, FiguresBelongTogether
  <1>8. CASE UNCHANGED figuresVars
    BY <1>8 DEF figuresVars, FiguresInv, FiguresTypeOK, LevelsInRange, InFrame, ReadSoFar,
       FiguresBelongTogether
  <1> QED
    BY <1>1, <1>2, <1>3, <1>4, <1>5, <1>6, <1>7, <1>8 DEF FiguresNext

LEMMA FiguresAlways == FiguresSpec => []FiguresInv
  BY FiguresInvInit, FiguresInvStep, PTL DEF FiguresSpec

\* The counters of the loop stay below their limits and every figure is one.
THEOREM FiguresTypeCorrect == FiguresSpec => []FiguresTypeOK
  BY FiguresAlways, PTL DEF FiguresInv

\* For every raw value the driver can answer (TLC tries six) a bar stays
\* between 0 and 100 percent.
THEOREM LevelsFit == FiguresSpec => []LevelsInRange
  BY FiguresAlways, PTL DEF FiguresInv

\* A page never joins figures of two readings, wherever a call fails and
\* however often it is repeated.
THEOREM OneReading == FiguresSpec => []FiguresBelongTogether
  BY FiguresAlways, PTL DEF FiguresInv

\* Between two loops no failed reading is counted, and a call under way has a
\* number, so that a figure taken by it counts as taken.
Counts ==
    /\ loopPc \in {"Off", "GaveUp", "Lost"} => attempts = 0
    /\ loopPc \in {"Signal", "SNR", "BER", "Update"} => reading > 0

LEMMA CountsStep == FiguresInv /\ Counts /\ [FiguresNext]_figuresVars => Counts'
  <1> SUFFICES ASSUME FiguresInv, Counts, [FiguresNext]_figuresVars
               PROVE  Counts'
    OBVIOUS
  <1> USE DEF Counts, FiguresInv, FiguresTypeOK
  <1>1. ASSUME NEW l \in BOOLEAN, ReadStatus(l)
        PROVE  Counts'
    BY <1>1 DEF ReadStatus
  <1>2. ASSUME NEW from \in {"Signal", "SNR", "BER"}, NEW name, NEW level, NEW to \in {"SNR", "BER", "Update"},
               Ask(from, name, level, to)
        PROVE  Counts'
    BY <1>2 DEF Ask
  <1>3. CASE (\E raw \in Raw : ReadSignal(raw) \/ ReadSnr(raw)) \/ \E raw \in RawBer : ReadBer(raw)
    BY <1>2, <1>3 DEF ReadSignal, ReadSnr, ReadBer
  <1>4. CASE IoctlFails
    BY <1>4 DEF IoctlFails, CallAgain
  <1>5. CASE UpdateOsdStats \/ ClearOsdStats \/ MonitorSignal
    BY <1>5 DEF UpdateOsdStats, ClearOsdStats, MonitorSignal
  <1>6. CASE UNCHANGED figuresVars
    BY <1>6 DEF figuresVars
  <1> QED
    BY <1>1, <1>3, <1>4, <1>5, <1>6 DEF FiguresNext

------------------------------------------------------------------------------
(* How old the bars can be.                                                 *)

LEMMA OneMoreMiss ==
    ASSUME NEW n \in Nat, NEW m \in Nat
    PROVE  (n + 1) * m = n * m + m /\ n * m \in Nat
  OBVIOUS

\* The calls made since the last miss was counted.
CallsSince ==
    IF loopPc = "GaveUp" THEN MaxRetries
    ELSE attempts + IF loopPc \in {"Signal", "SNR", "BER", "Update"} THEN 1 ELSE 0

\* A bar that is up and not inherited.
Own(n) == figures[n].by \notin {0, inherited}

\* The bars are as old as the misses and the calls since; when there is no
\* loop, and the last did not give up, they are down.
Ages ==
    /\ loopPc = "Off" => \A n \in Names : figures[n].by = 0
    /\ \A n \in Names : Own(n) => reading - figures[n].by <= misses * MaxRetries + CallsSince

\* A step that counts no miss and keeps the figures.
LEMMA BarsAge ==
    ASSUME FiguresInv, Ages, UNCHANGED <<misses, figures, inherited>>, loopPc' # "Off",
           reading' \in Nat, reading' - reading <= CallsSince' - CallsSince,
           CallsSince \in Nat, CallsSince' \in Nat
    PROVE  Ages'
  <1>1. ASSUME NEW n \in Names, Own(n)'
        PROVE  (reading - figures[n].by <= misses * MaxRetries + CallsSince)'
    <2>1. /\ misses * MaxRetries \in Nat
          /\ reading \in Nat /\ figures[n].by \in Nat
      BY FiguresAssumptions, OneMoreMiss DEF FiguresInv, FiguresTypeOK, Figure
    <2>2. reading - figures[n].by <= misses * MaxRetries + CallsSince
      BY <1>1 DEF Ages, Own
    <2>3. misses' * MaxRetries = misses * MaxRetries /\ figures'[n].by = figures[n].by
      OBVIOUS
    <2> QED
      BY <2>1, <2>2, <2>3
  <1> QED
    BY <1>1 DEF Ages

LEMMA AgesStep == FiguresInv /\ Counts /\ Ages /\ [FiguresNext]_figuresVars => Ages'
  <1> SUFFICES ASSUME FiguresInv, Counts, Ages, [FiguresNext]_figuresVars
               PROVE  Ages'
    OBVIOUS
  <1>0. /\ attempts \in Nat /\ attempts <= MaxRetries - 1 /\ reading \in Nat /\ misses \in Nat
        /\ MaxRetries \in Nat \ {0} /\ CallsSince \in Nat
    BY FiguresAssumptions DEF FiguresInv, FiguresTypeOK, CallsSince
  <1>1. ASSUME NEW l \in BOOLEAN, ReadStatus(l)
        PROVE  Ages'
    <2>1. CallsSince' = CallsSince + 1 /\ reading' = reading + 1
      BY <1>0, <1>1 DEF ReadStatus, CallsSince
    <2> QED
      BY <1>0, <1>1, <2>1, BarsAge DEF ReadStatus
  <1>2. ASSUME NEW from \in {"Signal", "SNR", "BER"}, NEW name, NEW level, NEW to \in {"SNR", "BER", "Update"},
               Ask(from, name, level, to)
        PROVE  Ages'
    <2>1. CallsSince' = CallsSince /\ reading' = reading
      BY <1>2 DEF Ask, CallsSince
    <2> QED
      BY <1>0, <1>2, <2>1, BarsAge DEF Ask
  <1>3. CASE (\E raw \in Raw : ReadSignal(raw) \/ ReadSnr(raw)) \/ \E raw \in RawBer : ReadBer(raw)
    BY <1>2, <1>3 DEF ReadSignal, ReadSnr, ReadBer
  <1>4. CASE IoctlFails
    <2>1. CallsSince' = attempts + 1 /\ CallsSince <= attempts + 1 /\ reading' = reading
      BY <1>0, <1>4 DEF IoctlFails, CallAgain, AttemptsLeft, Asking, CallsSince
    <2> QED
      BY <1>0, <1>4, <2>1, BarsAge DEF IoctlFails, CallAgain
  <1>5. CASE UpdateOsdStats
    <2>1. /\ CallsSince' = 0 /\ CallsSince <= MaxRetries
          /\ reading' = reading /\ inherited' = inherited /\ loopPc' # "Off"
      BY <1>0, <1>5 DEF UpdateOsdStats, CallsSince
    <2>2. ASSUME NEW n \in Names, Own(n)'
          PROVE  (reading - figures[n].by <= misses * MaxRetries + CallsSince)'
      <3>1. figures[n].by \in Nat
        BY DEF FiguresInv, FiguresTypeOK, Figure
      <3>2. CASE got.locked
        <4>1. misses' = 0 /\ figures'[n].by = reading
          BY <1>5, <3>2 DEF UpdateOsdStats, FiguresInv, ReadSoFar
        <4> QED
          BY <1>0, <2>1, <4>1
      <3>3. CASE ~got.locked
        <4>1. misses' = misses + 1 /\ figures' = figures
          BY <1>5, <3>3 DEF UpdateOsdStats
        <4>2. reading - figures[n].by <= misses * MaxRetries + CallsSince
          BY <2>1, <2>2, <4>1 DEF Ages, Own
        <4>3. misses' * MaxRetries = misses * MaxRetries + MaxRetries /\ misses * MaxRetries \in Nat
          BY <1>0, <4>1, OneMoreMiss
        <4> QED
          BY <1>0, <2>1, <3>1, <4>1, <4>2, <4>3
      <3> QED
        BY <3>2, <3>3
    <2> QED
      BY <2>1, <2>2 DEF Ages
  <1>6. CASE ClearOsdStats
    BY <1>6, DarkFigures DEF ClearOsdStats, Cleared, NoFigure, Ages, Own
  <1>7. CASE MonitorSignal
    <2>1. \A n \in Names : figures'[n].by \in {0, inherited'}
      BY <1>7 DEF MonitorSignal, Ages, FiguresInv, FiguresBelongTogether, Names
    <2> QED
      BY <1>7, <2>1 DEF MonitorSignal, Ages, Own
  <1>8. CASE UNCHANGED figuresVars
    BY <1>8 DEF figuresVars, Ages, Own, CallsSince
  <1> QED
    BY <1>1, <1>3, <1>4, <1>5, <1>6, <1>7, <1>8 DEF FiguresNext

\* However often calls fail, whatever the limits of the retries and of the
\* misses: a bar is never older than the misses counted since, unless it is
\* one that a loop which gave up has left.
THEOREM BarsStayRecent == FiguresSpec => []BarsAreRecent
  <1>1. FiguresInit => Counts /\ Ages
    BY DarkFigures DEF FiguresInit, Counts, Ages, Own, NoFigure
  <1>2. ASSUME FiguresInv, Ages
        PROVE  BarsAreRecent
    <2>1. ASSUME NEW n \in Names, figures[n].by \notin {0, inherited}
          PROVE  reading - figures[n].by <= (misses + 1) * MaxRetries
      <3>1. reading - figures[n].by <= misses * MaxRetries + CallsSince
        BY <2>1, <1>2 DEF Ages, Own
      <3>2. /\ reading \in Nat /\ figures[n].by \in Nat /\ MaxRetries \in Nat
            /\ CallsSince \in Nat /\ CallsSince <= MaxRetries
        BY <1>2, FiguresAssumptions DEF FiguresInv, FiguresTypeOK, Figure, CallsSince
      <3>3. (misses + 1) * MaxRetries = misses * MaxRetries + MaxRetries /\ misses * MaxRetries \in Nat
        BY <1>2, <3>2, OneMoreMiss DEF FiguresInv, FiguresTypeOK
      <3> QED
        BY <3>1, <3>2, <3>3
    <2> QED
      BY <2>1 DEF BarsAreRecent
  <1> QED
    BY <1>1, <1>2, FiguresAlways, CountsStep, AgesStep, PTL DEF FiguresSpec

------------------------------------------------------------------------------
(* The calls and the loop's contract.                                       *)

\* Each step of a call is a step of the loop's contract or none of its
\* business.
LEMMA CallsKeepContract ==
    FiguresInv /\ Counts /\ [FiguresNext]_figuresVars => [Monitored!Next]_(Monitored!vars)
  <1> SUFFICES ASSUME FiguresInv, Counts, [FiguresNext]_figuresVars
               PROVE  Monitored!Next \/ UNCHANGED Monitored!vars
    OBVIOUS
  <1> USE DEF Counts, Calling, Asking
  <1>1. /\ attempts \in Nat /\ attempts <= MaxRetries - 1 /\ misses \in Nat /\ reading \in Nat
        /\ MaxRetries \in Nat /\ LossLimit \in Nat
        /\ Calling => misses < LossLimit
    BY FiguresAssumptions DEF FiguresInv, FiguresTypeOK
  <1>2. ASSUME UNCHANGED <<attempts, misses, lockedBy>>, Calling, Calling'
        PROVE  UNCHANGED Monitored!vars
    BY <1>2 DEF Monitored!vars
  <1>3. ASSUME NEW l \in BOOLEAN, ReadStatus(l)
        PROVE  UNCHANGED Monitored!vars
    BY <1>2, <1>3 DEF ReadStatus
  <1>4. ASSUME NEW from \in {"Signal", "SNR", "BER"}, NEW name, NEW level, NEW to \in {"SNR", "BER", "Update"},
               Ask(from, name, level, to)
        PROVE  UNCHANGED Monitored!vars
    BY <1>2, <1>4 DEF Ask
  <1>5. CASE (\E raw \in Raw : ReadSignal(raw) \/ ReadSnr(raw)) \/ \E raw \in RawBer : ReadBer(raw)
    BY <1>4, <1>5 DEF ReadSignal, ReadSnr, ReadBer
  <1>6. CASE IoctlFails
    <2>1. CASE AttemptsLeft(attempts + 1)
      <3>1. /\ attempts + 1 < MaxRetries /\ attempts' = attempts + 1 /\ loopPc' = "Status" /\ Calling
            /\ UNCHANGED <<misses, lockedBy>>
        BY <1>6, <2>1 DEF IoctlFails, CallAgain, AttemptsLeft
      <3>2. Monitored!TryAgain
        BY <3>1 DEF Monitored!TryAgain
      <3> QED
        BY <3>2 DEF Monitored!Next
    <2>2. CASE ~AttemptsLeft(attempts + 1)
      <3>1. /\ attempts + 1 = MaxRetries /\ attempts' = 0 /\ loopPc' = "GaveUp" /\ Calling
            /\ UNCHANGED <<misses, lockedBy>>
        BY <1>1, <1>6, <2>2 DEF IoctlFails, CallAgain, AttemptsLeft
      <3>2. Monitored!GiveUp
        BY <3>1 DEF Monitored!GiveUp
      <3> QED
        BY <3>2 DEF Monitored!Next
    <2> QED
      BY <2>1, <2>2
  <1>7. CASE UpdateOsdStats
    <2>1. /\ loopPc = "Update" /\ Calling /\ reading > 0 /\ attempts' = 0
          /\ (lockedBy' # 0) = got.locked /\ got.locked \in BOOLEAN
          /\ misses' = IF got.locked THEN 0 ELSE misses + 1
          /\ loopPc' = IF misses' >= LossLimit THEN "Lost" ELSE "Status"
      BY <1>1, <1>7 DEF UpdateOsdStats, FiguresInv, FiguresTypeOK
    <2>2. Monitored!Reading(got.locked)
      BY <1>1, <2>1, FiguresAssumptions DEF Monitored!Reading
    <2> QED
      BY <2>1, <2>2 DEF Monitored!Next
  <1>8. CASE ClearOsdStats
    <2>1. Monitored!Withdraw
      BY <1>8 DEF ClearOsdStats, Monitored!Withdraw
    <2> QED
      BY <2>1 DEF Monitored!Next
  <1>9. CASE MonitorSignal
    <2>1. Monitored!Start
      BY <1>9 DEF MonitorSignal, Monitored!Start
    <2> QED
      BY <2>1 DEF Monitored!Next
  <1>10. CASE UNCHANGED figuresVars
    BY <1>10 DEF figuresVars, Monitored!vars
  <1> QED
    BY <1>3, <1>5, <1>6, <1>7, <1>8, <1>9, <1>10 DEF FiguresNext

\* The loop around GetStats counts failed and unlocked readings as the
\* contract of the loop says, wherever in a call a question fails.
THEOREM CallsAreReadings == FiguresSpec => ReadsAsTheLoop
  <1>1. FiguresInit => Counts /\ Monitored!Init
    BY DEF FiguresInit, Counts, Monitored!Init, Calling, Asking
  <1>2. FiguresSpec => []Counts
    BY <1>1, FiguresAlways, CountsStep, PTL DEF FiguresSpec
  <1> QED
    BY <1>1, <1>2, FiguresAlways, CallsKeepContract, PTL DEF FiguresSpec, ReadsAsTheLoop, Monitored!Spec

------------------------------------------------------------------------------
(* SystemStats: formatBytes.                                                *)

\* Inside formatBytes: the divisor is the power that the exponent says, and
\* the quotient is what it leaves of the counter, rounded down.
Dividing ==
    /\ Len(network) < Len(io) /\ bytes = io[Len(network) + 1]
    /\ exp \in 0 .. 5 /\ div = Powers[exp + 1]
    /\ 1 <= quotient /\ quotient * div <= bytes /\ bytes < (quotient + 1) * div
    /\ statsPc = "Print" => quotient < Unit

StatsInv ==
    /\ StatsTypeOK
    /\ statsPc \in {"Loop", "Print"} => Dividing
    /\ statsPc # "Panic"
    /\ NetworkIsRight

------------------------------------------------------------------------------
\* Each suffix is Unit of the one before.
LEMMA PowersStep ==
    /\ Powers[1] = Unit
    /\ \A i \in 1 .. 7 : Powers[i] \in Nat \ {0}
    /\ \A i \in 1 .. 6 : Powers[i + 1] = Powers[i] * Unit
  <1>1. Unit \in Nat \ {0}
    BY StatsAssumptions
  <1>2. \A a \in Nat \ {0} : a * Unit \in Nat \ {0}
    BY <1>1
  <1> DEFINE M == Unit * Unit  G == M * Unit  T == G * Unit  P == T * Unit  E == P * Unit  Z == E * Unit
  <1>3. Powers = <<Unit, M, G, T, P, E, Z>>
    BY DEF Powers
  <1>4. M \in Nat \ {0} /\ M = Unit * Unit
    BY <1>1, <1>2
  <1> HIDE DEF M
  <1>5. G \in Nat \ {0} /\ G = M * Unit
    BY <1>2, <1>4
  <1> HIDE DEF G
  <1>6. T \in Nat \ {0} /\ T = G * Unit
    BY <1>2, <1>5
  <1> HIDE DEF T
  <1>7. P \in Nat \ {0} /\ P = T * Unit
    BY <1>2, <1>6
  <1> HIDE DEF P
  <1>8. E \in Nat \ {0} /\ E = P * Unit
    BY <1>2, <1>7
  <1> HIDE DEF E
  <1>9. Z \in Nat \ {0} /\ Z = E * Unit
    BY <1>2, <1>8
  <1> HIDE DEF Z
  <1> QED
    BY <1>1, <1>3, <1>4, <1>5, <1>6, <1>7, <1>8, <1>9

\* Quotient and remainder, and when a number is the quotient.
LEMMA DivMod ==
    ASSUME NEW a \in Nat, NEW d \in Nat \ {0}
    PROVE  a = (a \div d) * d + (a % d) /\ a % d \in 0 .. d - 1 /\ a \div d \in Nat
  OBVIOUS

LEMMA DivUnique ==
    ASSUME NEW a \in Nat, NEW d \in Nat \ {0}, NEW q \in Nat, q * d <= a, a < (q + 1) * d
    PROVE  a \div d = q
  OBVIOUS

LEMMA Monotone ==
    ASSUME NEW a \in Nat, NEW b \in Nat, NEW c \in Nat, a <= b
    PROVE  a * c <= b * c
  OBVIOUS

LEMMA Associates ==
    ASSUME NEW a \in Nat, NEW b \in Nat, NEW c \in Nat
    PROVE  (a * b) * c = a * (c * b)
  OBVIOUS

\* Dividing twice, rounding down each time, is dividing by the product.
LEMMA DivideTwice ==
    ASSUME NEW b \in Nat, NEW q \in Nat, NEW d \in Nat \ {0}, NEW u \in Nat \ {0},
           q * d <= b, b < (q + 1) * d
    PROVE  (q \div u) * (d * u) <= b /\ b < (q \div u + 1) * (d * u)
  <1> DEFINE k == q \div u
  <1>1. k \in Nat /\ k * u <= q /\ q + 1 <= (k + 1) * u
    <2>1. q = k * u + (q % u) /\ q % u \in 0 .. u - 1 /\ k \in Nat
      BY DivMod
    <2>2. (k + 1) * u = k * u + u
      BY <2>1
    <2> QED
      BY <2>1, <2>2
  <1> HIDE DEF k
  <1>2. (k * u) * d <= q * d
    BY <1>1, Monotone
  <1>3. (q + 1) * d <= ((k + 1) * u) * d
    BY <1>1, Monotone
  <1>4. (k * u) * d = k * (d * u) /\ ((k + 1) * u) * d = (k + 1) * (d * u)
    BY <1>1, Associates
  <1>5. q * d \in Nat /\ (q + 1) * d \in Nat /\ k * (d * u) \in Nat /\ (k + 1) * (d * u) \in Nat
    BY <1>1
  <1>6. k * (d * u) <= b /\ b < (k + 1) * (d * u)
    BY <1>2, <1>3, <1>4, <1>5
  <1> QED
    BY <1>6 DEF k

\* Rounding to a tenth is off by no more than half of one.
LEMMA HalfATenth ==
    ASSUME NEW b \in Nat, NEW d \in Nat \ {0}
    PROVE  Tenths(b, d) \in Nat /\ 2 * Tenths(b, d) * d - 20 * b \in -d .. d
  <1> DEFINE n == 10 * b  q == n \div d  r == n % d
  <1>1. n = q * d + r /\ r \in 0 .. d - 1 /\ q \in Nat
    <2>1. n \in Nat
      OBVIOUS
    <2> HIDE DEF n
    <2> QED
      BY <2>1, DivMod
  <1>2. Tenths(b, d) = IF 2 * r > d \/ (2 * r = d /\ q % 2 = 1) THEN q + 1 ELSE q
    BY DEF Tenths
  <1> HIDE DEF q, r
  <1>3. CASE Tenths(b, d) = q /\ 2 * r <= d
    <2>1. 2 * q * d = 2 * (q * d) /\ q * d \in Nat
      BY <1>1
    <2> QED
      BY <1>1, <1>3, <2>1
  <1>4. CASE Tenths(b, d) = q + 1 /\ 2 * r >= d
    <2>1. 2 * (q + 1) * d = 2 * (q * d) + 2 * d /\ q * d \in Nat
      BY <1>1
    <2> QED
      BY <1>1, <1>4, <2>1
  <1> QED
    BY <1>1, <1>2, <1>3, <1>4

\* The table of suffixes.
LEMMA SuffixBound == Len(Suffixes) = 6 /\ \A i \in 1 .. 6 : Suffixes[i] \in {Suffixes[j] : j \in 1 .. Len(Suffixes)}
  BY DEF Suffixes

\* The divisor fits an int64 as long as it has a suffix.
LEMMA PowersFit ==
    \A i \in 1 .. 6 : Powers[i] \in 1 .. CounterWord \div 2 - 1 /\ Powers[i] < CounterWord /\ Unit <= Powers[i]
  <1>1. \A i \in 1 .. 7 : Powers[i] \in Nat \ {0}
    BY PowersStep
  <1>2. \A i \in 1 .. 6 : Powers[i] <= Powers[i + 1]
    <2>1. \A a \in Nat : a <= a * Unit
      BY StatsAssumptions
    <2> QED
      BY <1>1, <2>1, PowersStep
  <1>3. \A i \in 1 .. 6 : Unit <= Powers[i] /\ Powers[i] <= Powers[6]
    <2>1. Powers[1] <= Powers[2] /\ Powers[2] <= Powers[3] /\ Powers[3] <= Powers[4] /\ Powers[4] <= Powers[5]
          /\ Powers[5] <= Powers[6] /\ Powers[1] = Unit
      BY <1>2, PowersStep
    <2> QED
      BY <1>1, <2>1
  <1>4. CounterWord \in Nat /\ CounterWord \div 2 \in Nat /\ CounterWord \div 2 <= CounterWord
        /\ Powers[6] < CounterWord \div 2
    BY StatsAssumptions
  <1> QED
    BY <1>1, <1>3, <1>4

\* What the code's unit and width are for the provers.
LEMMA ConstantsType == Unit \in Nat \ {0, 1} /\ CounterWord \in Nat /\ Unit \in 1 .. CounterWord \div 2 - 1
  BY StatsAssumptions, PowersFit, PowersStep

\* The counter that is formatted next.
LEMMA NextCounter ==
    ASSUME StatsTypeOK
    PROVE  /\ Len(network) \in Nat /\ Len(io) \in Nat
           /\ Len(network) < Len(io) => io[Len(network) + 1] \in Nat /\ io[Len(network) + 1] < CounterWord
  <1>1. CASE io = <<>>
    BY <1>1 DEF StatsTypeOK
  <1>2. CASE io \in Counters \X Counters
    <2>1. Len(io) = 2 /\ io[1] \in Counters /\ io[2] \in Counters /\ Len(network) \in Nat
      BY <1>2 DEF StatsTypeOK
    <2>2. \A c \in Counters : c \in Nat /\ c < CounterWord
      BY StatsAssumptions
    <2> QED
      BY <2>1, <2>2
  <1> QED
    BY <1>1, <1>2 DEF StatsTypeOK

\* What a figure that is right adds to those that are.
LEMMA Figured ==
    ASSUME StatsTypeOK, NetworkIsRight, Len(network) < Len(io), NEW fig \in Shown, Right(fig, io[Len(network) + 1]),
           network' = Append(network, fig), io' = io
    PROVE  network' \in Seq(Shown) /\ Len(network') <= Len(io') /\ NetworkIsRight'
  <1>1. network \in Seq(Shown) /\ Len(network) \in Nat /\ Len(io) \in Nat
    BY NextCounter DEF StatsTypeOK
  <1>2. network' \in Seq(Shown) /\ Len(network') = Len(network) + 1
        /\ \A i \in 1 .. Len(network') : network'[i] = IF i = Len(network) + 1 THEN fig ELSE network[i]
    BY <1>1
  <1> QED
    BY <1>1, <1>2 DEF NetworkIsRight

LEMMA StatsInvInit == StatsInit => StatsInv
  <1>1. Unit \in 1 .. CounterWord \div 2 - 1 /\ 0 \in 0 .. CounterWord - 1
    BY ConstantsType
  <1> QED
    BY <1>1 DEF StatsInit, StatsInv, StatsTypeOK, NetworkIsRight

\* Entering the loop: the counter is at least one unit.
LEMMA FormatStep == StatsInv /\ FormatBytes => StatsInv'
  <1> SUFFICES ASSUME StatsInv, FormatBytes
               PROVE  StatsInv'
    OBVIOUS
  <1> DEFINE b == io[Len(network) + 1]
             fig == [tenths |-> 10 * b, suffix |-> ""]
  <1>1. StatsTypeOK /\ NetworkIsRight /\ statsPc = "Format" /\ io' = io
    BY DEF FormatBytes, StatsInv
  <1>2. CASE Len(network) = Len(io)
    <2>1. statsPc' = "Done" /\ UNCHANGED <<io, loop, network>>
      BY <1>2 DEF FormatBytes
    <2> QED
      BY <1>1, <2>1 DEF loop, StatsInv, StatsTypeOK, NetworkIsRight
  <1>3. CASE Len(network) # Len(io) /\ Small(b)
    <2>1. network' = Append(network, fig) /\ UNCHANGED <<io, statsPc, loop>>
      BY <1>3 DEF FormatBytes
    <2>2. Len(network) < Len(io) /\ b \in Nat
      BY <1>1, <1>3, NextCounter DEF StatsTypeOK
    <2>3. fig \in Shown /\ Right(fig, b)
      BY <1>3, <2>2 DEF Shown, Right, Small
    <2> HIDE DEF fig
    <2>4. network' \in Seq(Shown) /\ Len(network') <= Len(io') /\ NetworkIsRight'
      BY <1>1, <2>1, <2>2, <2>3, Figured
    <2> QED
      BY <1>1, <2>1, <2>4 DEF StatsInv, StatsTypeOK, loop
  <1>4. CASE Len(network) # Len(io) /\ ~Small(b)
    <2>1. /\ bytes' = b /\ quotient' = b \div Unit /\ div' = Unit /\ exp' = 0 /\ statsPc' = "Loop"
          /\ UNCHANGED <<io, network>>
      BY <1>4 DEF FormatBytes
    <2>2. Len(network) < Len(io) /\ b \in Nat /\ b < CounterWord /\ Unit <= b
      BY <1>1, <1>4, NextCounter, ConstantsType DEF StatsTypeOK, Small
    <2> HIDE DEF b
    <2>3. b \div Unit \in Nat /\ 1 <= b \div Unit /\ b \div Unit <= b
          /\ (b \div Unit) * Unit <= b /\ b < (b \div Unit + 1) * Unit
      BY <2>2, ConstantsType
    <2>4. Dividing'
      BY <2>1, <2>2, <2>3, PowersStep DEF Dividing, b
    <2>5. StatsTypeOK'
      BY <1>1, <2>1, <2>2, <2>3, ConstantsType DEF StatsTypeOK
    <2> QED
      BY <1>1, <2>1, <2>4, <2>5 DEF StatsInv, NetworkIsRight
  <1> QED
    BY <1>2, <1>3, <1>4

\* The ranges of formatBytes' variables inside its loop.
LEMMA LoopType ==
    ASSUME StatsInv, statsPc \in {"Loop", "Print"}
    PROVE  /\ Dividing /\ exp \in 0 .. 5 /\ quotient \in Nat
           /\ bytes \in Nat /\ bytes < CounterWord /\ div \in Nat \ {0}
  <1>1. Dividing /\ StatsTypeOK
    BY DEF StatsInv
  <1>2. bytes \in Nat /\ bytes < CounterWord /\ quotient \in Nat
    BY <1>1, ConstantsType DEF StatsTypeOK
  <1>3. exp \in 0 .. 5 /\ div = Powers[exp + 1]
    BY <1>1 DEF Dividing
  <1>4. div \in Nat \ {0}
    BY <1>3, PowersStep
  <1> QED
    BY <1>1, <1>2, <1>3, <1>4

\* A turn of the loop stays within the table of suffixes.
LEMMA TurnStep == StatsInv /\ Turn => StatsInv'
  <1> SUFFICES ASSUME StatsInv, Turn
               PROVE  StatsInv'
    OBVIOUS
  <1>1. statsPc = "Loop" /\ UNCHANGED <<io, bytes, network>> /\ StatsTypeOK /\ NetworkIsRight
    BY DEF Turn, StatsInv
  <1>2. /\ Dividing /\ exp \in 0 .. 5 /\ quotient \in Nat
        /\ bytes \in Nat /\ bytes < CounterWord /\ div \in Nat \ {0}
    BY <1>1, LoopType
  <1>3. CASE ~StillLarge(quotient)
    <2>1. statsPc' = "Print" /\ UNCHANGED <<quotient, div, exp>> /\ quotient < Unit
      BY <1>2, <1>3, ConstantsType DEF Turn, StillLarge
    <2> QED
      BY <1>1, <1>2, <2>1 DEF StatsInv, StatsTypeOK, Dividing, NetworkIsRight
  <1>4. CASE StillLarge(quotient)
    <2>1. /\ quotient' = quotient \div Unit /\ div' = Wrap(div * Unit) /\ exp' = exp + 1 /\ statsPc' = "Loop"
          /\ Unit <= quotient
      BY <1>1, <1>4 DEF Turn, StillLarge
    <2>2. div * Unit = Powers[exp + 2] /\ Powers[exp + 2] \in Nat \ {0}
      <3>1. exp + 1 \in 1 .. 6 /\ (exp + 1) + 1 = exp + 2 /\ exp + 2 \in 1 .. 7 /\ div = Powers[exp + 1]
        BY <1>2 DEF Dividing
      <3> QED
        BY <3>1, PowersStep
    <2>3. div * Unit <= bytes
      <3>1. Unit * div <= quotient * div
        BY <1>2, <2>1, Monotone, ConstantsType
      <3>2. Unit * div = div * Unit /\ div * Unit \in Nat /\ quotient * div \in Nat
        BY <1>2, ConstantsType
      <3>3. quotient * div <= bytes
        BY <1>2 DEF Dividing
      <3> QED
        BY <1>2, <3>1, <3>2, <3>3
    <2>4. exp # 5
      BY <1>2, <2>2, <2>3, StatsAssumptions
    <2>5. exp + 2 \in 1 .. 6 /\ exp + 1 \in 0 .. 5
      BY <1>2, <2>4
    <2>6. Powers[exp + 2] \in 1 .. CounterWord \div 2 - 1 /\ Powers[exp + 2] < CounterWord
      BY <2>5, PowersFit
    <2>7. div' = Powers[exp + 2]
      BY <2>1, <2>2, <2>6, ConstantsType DEF Wrap
    <2>8. quotient' \in Nat /\ 1 <= quotient' /\ quotient' <= quotient
      BY <1>2, <2>1, ConstantsType
    <2>9. quotient' * div' <= bytes /\ bytes < (quotient' + 1) * div'
      <3>1. quotient * div <= bytes /\ bytes < (quotient + 1) * div
        BY <1>2 DEF Dividing
      <3> QED
        BY <1>2, <2>1, <2>2, <2>7, <3>1, DivideTwice, ConstantsType
    <2>10. Dividing'
      BY <1>1, <1>2, <2>1, <2>5, <2>7, <2>8, <2>9 DEF Dividing
    <2>11. StatsTypeOK'
      <3>1. quotient' \in 0 .. CounterWord - 1 /\ exp' \in Nat /\ div' \in 1 .. CounterWord \div 2 - 1
        <4>1. quotient \in 0 .. CounterWord - 1
          BY <1>1 DEF StatsTypeOK
        <4> QED
          BY <1>2, <2>1, <2>6, <2>7, <2>8, <4>1, ConstantsType
      <3> QED
        BY <1>1, <2>1, <3>1 DEF StatsTypeOK
    <2> QED
      BY <1>1, <2>1, <2>10, <2>11 DEF StatsInv, NetworkIsRight
  <1> QED
    BY <1>3, <1>4

\* The suffix exists, and the figure printed with it is right.
LEMMA SprintfStep == StatsInv /\ Sprintf => StatsInv'
  <1> SUFFICES ASSUME StatsInv, Sprintf
               PROVE  StatsInv'
    OBVIOUS
  <1> DEFINE i == exp + 1
             fig == [tenths |-> Tenths(bytes, div), suffix |-> Suffixes[i]]
  <1>1. statsPc = "Print" /\ UNCHANGED <<io, loop>> /\ StatsTypeOK /\ NetworkIsRight
    BY DEF Sprintf, StatsInv
  <1>2. /\ Dividing /\ exp \in 0 .. 5 /\ quotient \in Nat
        /\ bytes \in Nat /\ bytes < CounterWord /\ div \in Nat \ {0}
    BY <1>1, LoopType
  <1>3. i \in 1 .. Len(Suffixes) /\ i \in 1 .. 6
    BY <1>2, SuffixBound
  <1>4. statsPc' = "Format" /\ network' = Append(network, fig)
    BY <1>3 DEF Sprintf
  <1>5. bytes \div div = quotient /\ quotient < Unit /\ div <= bytes /\ Unit <= bytes
    <2>1. /\ quotient * div <= bytes /\ bytes < (quotient + 1) * div
          /\ 1 <= quotient /\ quotient < Unit /\ div = Powers[i]
      BY <1>1, <1>2 DEF Dividing
    <2>2. bytes \div div = quotient
      BY <1>2, <2>1, DivUnique
    <2>3. 1 * div <= quotient * div /\ 1 * div = div /\ quotient * div \in Nat
      BY <1>2, <2>1, Monotone
    <2>4. Unit <= Powers[i]
      BY <1>3, PowersFit
    <2> QED
      BY <1>2, <2>1, <2>2, <2>3, <2>4, ConstantsType
  <1>6. /\ Tenths(bytes, div) \in Nat /\ 2 * Tenths(bytes, div) * div - 20 * bytes \in -div .. div
        /\ div = Powers[i] /\ bytes = io[Len(network) + 1] /\ Len(network) < Len(io)
    BY <1>2, HalfATenth DEF Dividing
  <1> HIDE DEF i
  <1>7. fig \in Shown
    <2>1. Suffixes[i] \in {Suffixes[j] : j \in 1 .. Len(Suffixes)} /\ Tenths(bytes, div) \in Int
      BY <1>3, <1>6
    <2> QED
      BY <2>1 DEF Shown
  <1>8. Right(fig, bytes)
    <2>1. fig.suffix = Suffixes[i] /\ fig.tenths = Tenths(bytes, div) /\ ~(bytes < Unit)
      BY <1>2, <1>5, ConstantsType
    <2> HIDE DEF fig
    <2>2. /\ Powers[i] <= bytes /\ bytes \div Powers[i] < Unit
          /\ 2 * fig.tenths * Powers[i] - 20 * bytes \in -Powers[i] .. Powers[i]
      BY <1>5, <1>6, <2>1
    <2> QED
      BY <1>3, <2>1, <2>2 DEF Right
  <1> HIDE DEF fig
  <1>9. network' \in Seq(Shown) /\ Len(network') <= Len(io') /\ NetworkIsRight'
    BY <1>1, <1>4, <1>6, <1>7, <1>8, Figured
  <1> QED
    BY <1>1, <1>4, <1>9 DEF loop, StatsInv, StatsTypeOK

LEMMA StatsInvStep == StatsInv /\ [StatsNext]_statsVars => StatsInv'
  <1> SUFFICES ASSUME StatsInv, [StatsNext]_statsVars
               PROVE  StatsInv'
    OBVIOUS
  <1>1. ASSUME NEW from, NEW to \in {"Memory", "Network", "Format"}, Call(from, to)
        PROVE  StatsInv'
    BY <1>1 DEF Call, loop, StatsInv, StatsTypeOK, NetworkIsRight
  <1>2. CASE CpuPercent \/ VirtualMemory \/ IOCounters
    BY <1>1, <1>2 DEF CpuPercent, VirtualMemory, IOCounters
  <1>3. CASE UNCHANGED statsVars
    BY <1>3 DEF statsVars, loop, StatsInv, StatsTypeOK, NetworkIsRight, Dividing
  <1> QED
    BY <1>2, <1>3, FormatStep, TurnStep, SprintfStep DEF StatsNext, StatsEnded

LEMMA StatsAlways == StatsSpec => []StatsInv
  BY StatsInvInit, StatsInvStep, PTL DEF StatsSpec

\* No counter makes the divisor wrap or the loop run out of its table.
THEOREM StatsTypeCorrect == StatsSpec => []StatsTypeOK
  BY StatsAlways, PTL DEF StatsInv

\* No counter a uint64 can hold makes "KMGTPE"[exp] panic, and the divisor is
\* the power of the suffix that is printed.
THEOREM SuffixForAll == StatsSpec => []SuffixExists
  <1>1. StatsInv => SuffixExists
    BY SuffixBound DEF StatsInv, Dividing, SuffixExists
  <1> QED
    BY <1>1, StatsAlways, PTL

\* Dividing again and again, rounding down each time, picks the right suffix
\* for every counter, and the figure is off by no more than half a tenth.
THEOREM CountersShown == StatsSpec => []NetworkIsRight
  BY StatsAlways, PTL DEF StatsInv
==============================================================================
