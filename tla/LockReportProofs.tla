--------------------------- MODULE LockReportProofs ---------------------------
(***************************************************************************)
(* What holds of the report for any number of adapters, any limit and any  *)
(* number of lost datagrams.  The adapters move as SetTopBox allows; the   *)
(* argument follows a locked entry from the adapter through the sender and *)
(* the network to the core.                                                *)
(***************************************************************************)
EXTENDS LockReport, TLAPS

USE DEF boxVars, senderVars, netVars, vars

\* An adapter that is locked is streaming and has missed nothing: a stream
\* is given up only after an unlocked reading.
BoxTruthful(a) == lock[a] /\ carrier[a] => phase[a] = STREAMING /\ misses[a] = 0

Truthful(report) == \A a \in Adapters : report[a].locked => report[a].state = STREAMING

ReportInv ==
    /\ TypeOK
    /\ \A a \in Adapters : BoxTruthful(a)
    /\ Truthful(statuses)
    /\ net # Nothing => Truthful(net)
    /\ OnlyStreamsAreOffered

\* The step of one adapter, seen from that adapter.
LEMMA BoxStep ==
    ASSUME TypeOK, NEW a \in Adapters, BoxTruthful(a), Box(a)!Next, up' = up,
           lock'[a] \in BOOLEAN, carrier'[a] \in BOOLEAN
    PROVE  BoxTruthful(a)' /\ misses'[a] \in 0 .. LossLimit
  <1> USE ReportAssumption DEF BoxTruthful, TypeOK, States, LISTENING, STREAMING, STOPPING,
          Box!LISTENING, Box!ANALYSING, Box!FINDPIDS, Box!STREAMING, Box!STOPPING, Box!Move
  <1>1. CASE Box(a)!Detect \/ Box(a)!Identify \/ Box(a)!Stream \/ Box(a)!GiveUp
    <2>1. lock[a]' = lock[a] /\ carrier[a]' = carrier[a] /\ misses[a]' = misses[a]
      BY <1>1 DEF Box!Detect, Box!Identify, Box!Stream, Box!GiveUp
    <2>2. phase[a] # STREAMING
      BY <1>1 DEF Box!Detect, Box!Identify, Box!Stream, Box!GiveUp
    <2> QED
      BY <2>1, <2>2
  <1>2. CASE \E l, c \in BOOLEAN : Box(a)!Reading(l, c)
    <2> PICK l \in BOOLEAN, c \in BOOLEAN : Box(a)!Reading(l, c)
      BY <1>2
    <2>1. /\ lock[a]' = l /\ carrier[a]' = c
          /\ phase[a] = STREAMING /\ phase[a]' = phase[a]
          /\ misses[a]' = IF l /\ c THEN 0 ELSE misses[a] + 1
          /\ misses[a] < LossLimit
      BY DEF Box!Reading, Box!NotYetLost
    <2> QED
      BY <2>1
  <1>3. CASE Box(a)!Lose
    BY <1>3 DEF Box!Lose
  <1>4. CASE Box(a)!Darken \/ Box(a)!Release \/ Box(a)!PowerOff
    BY <1>4 DEF Box!Darken, Box!Release, Box!PowerOff
  <1> QED
    BY <1>1, <1>2, <1>3, <1>4 DEF Box!Next

LEMMA AdaptersStep ==
    ASSUME ReportInv, NEW a \in Adapters, AdapterStep(a)
    PROVE  ReportInv'
  <1>1. /\ UNCHANGED <<up, statuses, next, sleep, net, dropped, core>>
        /\ Box(a)!Next
    BY DEF AdapterStep
  <1>2. PICK p \in {phase[a], (phase[a] + 1) % 5, LISTENING} :
            /\ phase' = [phase EXCEPT ![a] = p]
            /\ rested' = [rested EXCEPT ![a] = @ /\ p < STREAMING]
    BY DEF AdapterStep
  <1>3. PICK l \in BOOLEAN, c \in BOOLEAN, m \in {0, misses[a], misses[a] + 1} :
            /\ lock' = [lock EXCEPT ![a] = l]
            /\ carrier' = [carrier EXCEPT ![a] = c]
            /\ misses' = [misses EXCEPT ![a] = m]
    BY DEF AdapterStep
  <1>4. p \in States
    BY DEF ReportInv, TypeOK, States, LISTENING, STOPPING
  <1>5. BoxTruthful(a)' /\ misses'[a] \in 0 .. LossLimit
    <2>1. lock'[a] \in BOOLEAN /\ carrier'[a] \in BOOLEAN
      BY <1>3 DEF ReportInv, TypeOK
    <2> QED
      BY <1>1, <2>1, BoxStep DEF ReportInv
  <1>6. TypeOK'
    BY <1>1, <1>2, <1>3, <1>4, <1>5 DEF ReportInv, TypeOK
  <1>7. ASSUME NEW b \in Adapters
        PROVE  BoxTruthful(b)'
    <2>1. CASE b = a
      BY <1>5, <2>1
    <2>2. CASE b # a
      <3>1. UNCHANGED <<phase[b], lock[b], carrier[b], misses[b]>>
        BY <1>2, <1>3, <2>2 DEF ReportInv, TypeOK
      <3> QED
        BY <3>1 DEF ReportInv, BoxTruthful
    <2> QED
      BY <2>1, <2>2
  <1>8. Truthful(statuses)' /\ (net # Nothing => Truthful(net))' /\ OnlyStreamsAreOffered'
    BY <1>1 DEF ReportInv, Truthful, OnlyStreamsAreOffered, Nothing
  <1> QED
    BY <1>6, <1>7, <1>8 DEF ReportInv

LEMMA ReportTransport ==
    ASSUME ReportInv, SenderNext \/ Deliver \/ Drop \/ Tick \/ PowerOff \/ Ended \/ UNCHANGED vars
    PROVE  ReportInv'
  <1> USE ReportAssumption DEF ReportInv, TypeOK, Reports, AdapterLock
  <1>0. (\A a \in Adapters : BoxTruthful(a))'
    <2>1. UNCHANGED <<phase, lock, carrier, misses>>
      BY DEF SenderNext, Sample, Send, Deliver, Drop, Tick, PowerOff, Ended
    <2> QED
      BY <2>1 DEF BoxTruthful
  <1>1. CASE Sample
    <2>1. /\ next \in Adapters
          /\ statuses' = [statuses EXCEPT ![next] = Sampled(next)]
          /\ next' = next + 1
          /\ UNCHANGED <<up, phase, lock, carrier, misses, rested, sleep, net, dropped, core>>
      BY <1>1 DEF Sample, Adapters
    <2>2. /\ Sampled(next) \in AdapterLock
          /\ Sampled(next).locked => Sampled(next).state = STREAMING
      BY <2>1 DEF Sampled, BoxTruthful
    <2>3. TypeOK'
      BY <2>1, <2>2 DEF Adapters
    <2>4. Truthful(statuses)'
      BY <2>1, <2>2 DEF Truthful
    <2> QED
      BY <1>0, <2>1, <2>3, <2>4 DEF Truthful, OnlyStreamsAreOffered, Nothing
  <1>2. CASE Send
    BY <1>0, <1>2 DEF Send, Truthful, OnlyStreamsAreOffered, Dark, States, LISTENING, STOPPING
  <1>3. CASE Deliver
    BY <1>0, <1>3 DEF Deliver, Truthful, OnlyStreamsAreOffered
  <1>4. CASE Drop
    BY <1>0, <1>4 DEF Drop, Truthful, OnlyStreamsAreOffered
  <1>5. CASE Tick
    BY <1>0, <1>5 DEF Tick, Truthful, OnlyStreamsAreOffered
  <1>6. CASE PowerOff \/ Ended \/ UNCHANGED vars
    BY <1>0, <1>6 DEF PowerOff, Ended, Truthful, OnlyStreamsAreOffered
  <1> QED
    BY <1>1, <1>2, <1>3, <1>4, <1>5, <1>6 DEF SenderNext

LEMMA ReportInvAlways == Spec => []ReportInv
  <1>1. Init => ReportInv
    BY ReportAssumption DEF Init, ReportInv, TypeOK, BoxTruthful, Truthful, OnlyStreamsAreOffered,
       Reports, AdapterLock, Dark, States, LISTENING, STOPPING, Nothing
  <1>2. ReportInv /\ [Next]_vars => ReportInv'
    BY AdaptersStep, ReportTransport DEF Next
  <1> QED
    BY <1>1, <1>2, PTL DEF Spec

\* Types, for any number of adapters and any period.
THEOREM ReportTypeCorrect == Spec => []TypeOK
  BY ReportInvAlways, PTL DEF ReportInv

\* However the adapters move while they are sampled one after another, and
\* whatever is lost: the core never holds a lock for an adapter that was not
\* streaming when it was sampled.
THEOREM CoreSwitchesToStreams == Spec => []OnlyStreamsAreOffered
  BY ReportInvAlways, PTL DEF ReportInv

------------------------------------------------------------------------------
(* The loss is noticed in time.  Streak counts how far the adapter is on    *)
(* its way to giving the stream up, Silence the half seconds for which the  *)
(* core may have heard nothing new: both advance with the clock, the first  *)
(* by at most one reading between two ticks, and Silence ends before Streak *)
(* can be complete.                                                         *)

Streak(a) == IF phase[a] = STOPPING THEN LossLimit ELSE misses[a]
Grace(a)  == IF rested[a] THEN 0 ELSE 1
Silence   == dropped * Period + (IF net = Nothing THEN Period - sleep ELSE Period)

Timely(a) ==
    /\ phase[a] # STREAMING => misses[a] = 0
    /\ phase[a] < STREAMING =>
          ~statuses[a].locked /\ ~core[a].locked /\ (net # Nothing => ~net[a].locked)
    /\ statuses[a].locked => Streak(a) <= Grace(a) /\ sleep = 0
    /\ net # Nothing /\ net[a].locked => Streak(a) <= Grace(a)
    /\ core[a].locked => Streak(a) <= Silence + Grace(a)

TimeInv ==
    /\ ReportInv
    /\ net # Nothing => sleep = Period
    /\ \A a \in Adapters : Timely(a)

LEMMA OneMore ==
    ASSUME NEW d \in Nat, NEW p \in Nat
    PROVE  (d + 1) * p = d * p + p /\ d * p \in Nat
  OBVIOUS

LEMMA Monotone ==
    ASSUME NEW d \in Nat, NEW e \in Nat, NEW p \in Nat, d <= e
    PROVE  d * p <= e * p
  OBVIOUS

LEMMA SilenceBound ==
    ASSUME TypeOK
    PROVE  /\ Silence \in Nat
           /\ Silence <= (MaxDropped + 1) * Period
  <1>1. /\ dropped \in Nat /\ MaxDropped \in Nat /\ Period \in Nat /\ dropped <= MaxDropped
        /\ sleep \in Nat /\ sleep <= Period
    BY ReportAssumption DEF TypeOK
  <1>2. /\ dropped * Period \in Nat /\ dropped * Period <= MaxDropped * Period
        /\ (MaxDropped + 1) * Period = MaxDropped * Period + Period
        /\ MaxDropped * Period \in Nat
    BY <1>1, OneMore, Monotone
  <1> QED
    BY <1>1, <1>2 DEF Silence

\* What a step of one adapter does to its streak.
LEMMA StreakStep ==
    ASSUME TypeOK, NEW a \in Adapters, AdapterStep(a)
    PROVE  \/ /\ phase[a] = STREAMING /\ phase'[a] = STREAMING /\ rested[a] /\ ~rested'[a]
              /\ misses'[a] \in {0, misses[a] + 1}
           \/ /\ phase[a] = STREAMING /\ phase'[a] = STOPPING /\ ~rested'[a]
              /\ misses[a] = LossLimit /\ misses'[a] = 0
           \/ /\ phase[a] = STOPPING /\ phase'[a] = STOPPING /\ ~rested'[a]
              /\ misses'[a] = misses[a]
           \/ /\ phase[a] = STOPPING /\ phase'[a] = LISTENING /\ rested[a]
              /\ misses'[a] = misses[a]
           \/ /\ phase[a] < STREAMING /\ phase'[a] <= STREAMING /\ misses'[a] = misses[a]
  <1>1. Box(a)!Next /\ up' = up
    BY DEF AdapterStep
  <1>2. PICK p \in {phase[a], (phase[a] + 1) % 5, LISTENING} :
            /\ Sleeps(phase[a], p) => rested[a]
            /\ phase' = [phase EXCEPT ![a] = p]
            /\ rested' = [rested EXCEPT ![a] = @ /\ p < STREAMING]
    BY DEF AdapterStep
  <1>3. /\ phase'[a] = p
        /\ p >= STREAMING => ~rested'[a]
    <2>1. phase'[a] = p
      BY <1>2 DEF TypeOK
    <2>2. rested'[a] = (rested[a] /\ p < STREAMING)
      BY <1>2 DEF TypeOK
    <2>3. p \in Nat
      BY DEF TypeOK, States, LISTENING, STOPPING
    <2>4. ASSUME p >= STREAMING PROVE ~rested'[a]
      <3>1. ~(p < STREAMING)
        BY <2>3, <2>4 DEF STREAMING
      <3> QED
        BY <2>2, <3>1
    <2> QED
      BY <2>1, <2>4
  <1> USE DEF States, LISTENING, STREAMING, STOPPING,
          Box!LISTENING, Box!ANALYSING, Box!FINDPIDS, Box!STREAMING, Box!STOPPING, Box!Move
  <1>4. CASE Box(a)!Detect \/ Box(a)!Identify \/ Box(a)!Stream \/ Box(a)!GiveUp
    <2>1. misses[a]' = misses[a] /\ phase[a] < 3 /\ phase[a]' <= 3
      BY <1>4 DEF Box!Detect, Box!Identify, Box!Stream, Box!GiveUp
    <2> QED
      BY <2>1
  <1>5. CASE \E l, c \in BOOLEAN : Box(a)!Reading(l, c)
    <2>1. /\ phase[a] = 3 /\ phase[a]' = 3
          /\ misses[a]' \in {0, misses[a] + 1}
      BY <1>5 DEF Box!Reading
    <2> QED
      BY <1>2, <1>3, <2>1 DEF Sleeps
  <1>6. CASE Box(a)!Lose
    <2>1. phase[a] = 3 /\ phase[a]' = 4 /\ misses[a] = LossLimit /\ misses[a]' = 0
      BY <1>6 DEF Box!Lose
    <2> QED
      BY <1>3, <2>1
  <1>7. CASE Box(a)!Darken
    <2>1. phase[a] = 4 /\ phase[a]' = 4 /\ misses[a]' = misses[a]
      BY <1>7 DEF Box!Darken
    <2> QED
      BY <1>3, <2>1
  <1>8. CASE Box(a)!Release
    <2>1. phase[a] = 4 /\ phase[a]' = 0 /\ misses[a]' = misses[a]
      BY <1>8 DEF Box!Release
    <2> QED
      BY <1>2, <1>3, <2>1 DEF Sleeps
  <1>9. CASE Box(a)!PowerOff
    BY <1>1, <1>9 DEF Box!PowerOff
  <1> QED
    BY <1>1, <1>4, <1>5, <1>6, <1>7, <1>8, <1>9 DEF Box!Next

LEMMA AdaptersInTime ==
    ASSUME (MaxDropped + 1) * Period < LossLimit, TimeInv, NEW a \in Adapters, AdapterStep(a)
    PROVE  TimeInv'
  <1>1. /\ UNCHANGED <<up, statuses, next, sleep, net, dropped, core>>
        /\ Silence' = Silence
    BY DEF AdapterStep, Silence
  <1>2. ReportInv'
    BY AdaptersStep DEF TimeInv
  <1>3. /\ Silence \in Nat /\ Silence < LossLimit
        /\ LossLimit \in Nat \ {0} /\ (MaxDropped + 1) * Period \in Nat
    <2>1. MaxDropped \in Nat /\ Period \in Nat /\ LossLimit \in Nat \ {0}
      BY ReportAssumption
    <2>2. (MaxDropped + 1) * Period \in Nat
      BY <2>1, OneMore
    <2> QED
      BY <2>1, <2>2, SilenceBound DEF TimeInv, ReportInv
  <1>4. /\ misses[a] \in Nat /\ misses'[a] \in Nat
        /\ phase[a] \in 0 .. 4 /\ phase'[a] \in 0 .. 4
        /\ rested[a] \in BOOLEAN /\ rested'[a] \in BOOLEAN
    BY <1>2, ReportAssumption DEF TimeInv, ReportInv, TypeOK, States, LISTENING, STOPPING
  <1>5. Timely(a)'
    <2> USE <1>1, <1>3, <1>4 DEF Timely, Streak, Grace, LISTENING, STREAMING, STOPPING
    <2>1. Timely(a)
      BY DEF TimeInv
    <2>2. CASE /\ phase[a] = STREAMING /\ phase'[a] = STREAMING /\ rested[a] /\ ~rested'[a]
               /\ misses'[a] \in {0, misses[a] + 1}
      BY <2>1, <2>2
    <2>3. CASE /\ phase[a] = STREAMING /\ phase'[a] = STOPPING /\ ~rested'[a]
               /\ misses[a] = LossLimit /\ misses'[a] = 0
      BY <2>1, <2>3
    <2>4. CASE /\ phase[a] = STOPPING /\ phase'[a] = STOPPING /\ ~rested'[a]
               /\ misses'[a] = misses[a]
      BY <2>1, <2>4
    <2>5. CASE /\ phase[a] = STOPPING /\ phase'[a] = LISTENING /\ rested[a]
               /\ misses'[a] = misses[a]
      BY <2>1, <2>5
    <2>6. CASE phase[a] < STREAMING /\ phase'[a] <= STREAMING /\ misses'[a] = misses[a]
      BY <2>1, <2>6
    <2> QED
      BY <2>2, <2>3, <2>4, <2>5, <2>6, StreakStep DEF TimeInv, ReportInv
  <1>6. ASSUME NEW b \in Adapters, b # a
        PROVE  Timely(b)'
    <2>1. UNCHANGED <<phase[b], misses[b], rested[b]>>
      BY <1>6 DEF AdapterStep, TimeInv, ReportInv, TypeOK
    <2> QED
      BY <1>1, <2>1 DEF TimeInv, Timely, Streak, Grace
  <1> QED
    BY <1>1, <1>2, <1>5, <1>6 DEF TimeInv

LEMMA TransportInTime ==
    ASSUME TimeInv, SenderNext \/ Deliver \/ Drop \/ Tick \/ PowerOff \/ Ended \/ UNCHANGED vars
    PROVE  TimeInv'
  <1>1. ReportInv'
    BY ReportTransport DEF TimeInv
  <1>2. UNCHANGED <<phase, misses>>
    BY DEF SenderNext, Sample, Send, Deliver, Drop, Tick, PowerOff, Ended
  <1>3. ASSUME NEW a \in Adapters
        PROVE  /\ misses[a] \in Nat /\ phase[a] \in 0 .. 4 /\ rested[a] \in BOOLEAN
               /\ LossLimit \in Nat /\ Period \in Nat \ {0} /\ sleep \in 0 .. Period
               /\ dropped * Period \in Nat
               /\ (dropped + 1) * Period = dropped * Period + Period
    <2>1. dropped \in Nat /\ Period \in Nat
      BY ReportAssumption DEF TimeInv, ReportInv, TypeOK
    <2>2. dropped * Period \in Nat /\ (dropped + 1) * Period = dropped * Period + Period
      BY <2>1, OneMore
    <2> QED
      BY <2>2, ReportAssumption DEF TimeInv, ReportInv, TypeOK, States, LISTENING, STOPPING
  <1>4. CASE Sample
    <2>1. /\ next \in Adapters
          /\ sleep = 0 /\ net = Nothing
          /\ statuses' = [statuses EXCEPT ![next] = Sampled(next)]
          /\ UNCHANGED <<rested, sleep, net, dropped, core>>
      BY <1>4, ReportAssumption DEF Sample, Adapters, TimeInv, ReportInv, TypeOK
    <2>2. Sampled(next).locked => phase[next] = STREAMING /\ misses[next] = 0
      BY <2>1 DEF Sampled, TimeInv, ReportInv, BoxTruthful
    <2>3. ASSUME NEW a \in Adapters
          PROVE  Timely(a)'
      <3>1. Timely(a)
        BY DEF TimeInv
      <3>2. CASE a = next
        <4>1. statuses'[a] = Sampled(next)
          BY <2>1, <3>2 DEF TimeInv, ReportInv, TypeOK, Reports
        <4> QED
          BY <1>2, <1>3, <2>1, <2>2, <3>1, <3>2, <4>1
          DEF Timely, Streak, Grace, Silence, STREAMING, STOPPING
      <3>3. CASE a # next
        <4>1. statuses'[a] = statuses[a]
          BY <2>1, <3>3 DEF TimeInv, ReportInv, TypeOK, Reports
        <4> QED
          BY <1>2, <2>1, <3>1, <4>1 DEF Timely, Streak, Grace, Silence
      <3> QED
        BY <3>2, <3>3
    <2> QED
      BY <1>1, <2>1, <2>3 DEF TimeInv
  <1>5. CASE Send
    <2>1. /\ sleep = 0 /\ net = Nothing /\ sleep' = Period /\ net' = statuses
          /\ statuses' = [a \in Adapters |-> Dark]
          /\ UNCHANGED <<rested, dropped, core>>
      BY <1>5, ReportAssumption DEF Send, TimeInv, ReportInv, TypeOK
    <2>2. net' # Nothing
      <3>1. 1 \in Adapters
        BY ReportAssumption DEF Adapters
      <3>2. DOMAIN statuses = Adapters /\ DOMAIN Nothing = {}
        BY DEF TimeInv, ReportInv, TypeOK, Reports, Nothing
      <3> QED
        BY <2>1, <3>1, <3>2
    <2>3. Silence' = Silence
      BY <2>1, <2>2, <1>3, ReportAssumption DEF Silence, TimeInv, ReportInv, TypeOK
    <2>4. ASSUME NEW a \in Adapters
          PROVE  Timely(a)'
      <3>1. Timely(a)
        BY DEF TimeInv
      <3>2. ~statuses'[a].locked
        BY <2>1 DEF Dark
      <3> QED
        BY <1>2, <2>1, <2>2, <2>3, <3>1, <3>2 DEF Timely, Streak, Grace
    <2> QED
      BY <1>1, <2>1, <2>4 DEF TimeInv
  <1>6. CASE Deliver
    <2>1. /\ net # Nothing /\ core' = net /\ net' = Nothing /\ dropped' = 0 /\ sleep = Period
          /\ UNCHANGED <<rested, statuses, sleep>>
      BY <1>6 DEF Deliver, TimeInv
    <2>2. Silence' = 0
      BY <2>1, ReportAssumption DEF Silence
    <2>3. ASSUME NEW a \in Adapters
          PROVE  Timely(a)'
      <3>1. Timely(a)
        BY DEF TimeInv
      <3>2. core'[a].locked => Streak(a) <= Grace(a) /\ phase[a] >= STREAMING
        BY <1>3, <2>1, <3>1 DEF Timely, STREAMING
      <3>3. Streak(a) \in Nat /\ Grace(a) \in Nat
        BY <1>3 DEF Streak, Grace
      <3>4. Streak(a)' = Streak(a) /\ Grace(a)' = Grace(a)
        BY <1>2, <2>1 DEF Streak, Grace
      <3> QED
        BY <1>2, <1>3, <2>1, <2>2, <3>1, <3>2, <3>3, <3>4 DEF Timely, STREAMING
    <2> QED
      BY <1>1, <2>1, <2>3 DEF TimeInv
  <1>7. CASE Drop
    <2>1. /\ net # Nothing /\ net' = Nothing /\ dropped' = dropped + 1 /\ sleep = Period
          /\ UNCHANGED <<rested, statuses, next, sleep, core>>
      BY <1>7 DEF Drop, TimeInv
    <2>2. ASSUME NEW a \in Adapters
          PROVE  Timely(a)'
      <3>1. Timely(a)
        BY DEF TimeInv
      <3>2. Silence' = Silence
        BY <1>3, <2>1 DEF Silence
      <3> QED
        BY <1>2, <2>1, <3>1, <3>2 DEF Timely, Streak, Grace
    <2> QED
      BY <1>1, <2>1, <2>2 DEF TimeInv
  <1>8. CASE Tick
    <2>1. /\ sleep > 0 /\ net = Nothing /\ sleep' = sleep - 1
          /\ rested' = [a \in Adapters |-> TRUE]
          /\ UNCHANGED <<statuses, next, net, dropped, core>>
      BY <1>8 DEF Tick
    <2>2. ASSUME NEW a \in Adapters
          PROVE  Timely(a)'
      <3>1. Timely(a) /\ ~statuses[a].locked
        BY <1>3, <2>1 DEF TimeInv, Timely
      <3>2. Silence' = Silence + 1 /\ Silence \in Nat
        BY <1>3, <2>1 DEF Silence
      <3>3. Grace(a)' = 0 /\ Grace(a) <= 1 /\ Grace(a) \in Nat
        BY <2>1 DEF Grace
      <3>4. Streak(a)' = Streak(a) /\ Streak(a) \in Nat
        BY <1>2, <1>3 DEF Streak
      <3>5. core'[a].locked => Streak(a)' <= Silence' + Grace(a)'
        BY <2>1, <3>1, <3>2, <3>3, <3>4 DEF Timely
      <3> QED
        BY <1>2, <2>1, <3>1, <3>5 DEF Timely
    <2> QED
      BY <1>1, <2>1, <2>2 DEF TimeInv
  <1>9. CASE PowerOff \/ Ended \/ UNCHANGED vars
    <2>1. UNCHANGED <<rested, statuses, sleep, net, dropped, core>>
      BY <1>9 DEF PowerOff, Ended
    <2> QED
      BY <1>1, <1>2, <2>1 DEF TimeInv, Timely, Streak, Grace, Silence
  <1> QED
    BY <1>4, <1>5, <1>6, <1>7, <1>8, <1>9 DEF SenderNext

\* As long as fewer reports in a row are lost than fit, a second apart, into
\* the LossLimit half seconds an adapter takes to give a stream up, the core
\* has dropped the adapter before it listens again: with ten readings and a
\* report a second, up to three lost reports in a row.
THEOREM LossNoticed ==
    (MaxDropped + 1) * Period < LossLimit /\ Spec => []LossNoticedInTime
  <1> SUFFICES ASSUME (MaxDropped + 1) * Period < LossLimit
               PROVE  Spec => []LossNoticedInTime
    OBVIOUS
  <1>1. ReportInv /\ Init => TimeInv
    BY ReportAssumption DEF Init, TimeInv, Timely, Streak, Grace, Nothing, Dark, LISTENING,
       STREAMING, STOPPING
  <1>2. TimeInv /\ [Next]_vars => TimeInv'
    BY AdaptersInTime, TransportInTime DEF Next
  <1>3. TimeInv => LossNoticedInTime
    BY DEF TimeInv, Timely, LossNoticedInTime
  <1> QED
    BY <1>1, <1>2, <1>3, ReportInvAlways, PTL DEF Spec

------------------------------------------------------------------------------
(* AdapterStep is a step of SetTopBox by definition; that it is no less is  *)
(* not, since it tries only a few values.                                   *)

\* No step of the promise is left out: the values AdapterStep tries lose
\* none, so whatever one adapter does next in SetTopBox, in a state that
\* the report can meet, it may do here once its loop has slept.
THEOREM NoStepIsLost ==
    ASSUME TypeOK, NEW a \in Adapters, Box(a)!Next, up' = up,
           NEW p, phase' = [phase EXCEPT ![a] = p],
           NEW l \in BOOLEAN, lock' = [lock EXCEPT ![a] = l],
           NEW c \in BOOLEAN, carrier' = [carrier EXCEPT ![a] = c],
           NEW m, misses' = [misses EXCEPT ![a] = m],
           rested' = [rested EXCEPT ![a] = @ /\ p < STREAMING],
           Sleeps(phase[a], p) => rested[a],
           UNCHANGED <<senderVars, netVars, core>>
    PROVE  AdapterStep(a)
  <1>1. /\ phase[a] \in 0 .. 4 /\ phase'[a] = p
        /\ misses'[a] = m
    BY DEF TypeOK, States, LISTENING, STOPPING
  <1>2. p \in {phase[a], (phase[a] + 1) % 5, LISTENING} /\ m \in {0, misses[a], misses[a] + 1}
    <2> USE DEF LISTENING, Box!LISTENING, Box!ANALYSING, Box!FINDPIDS, Box!STREAMING,
            Box!STOPPING, Box!Move
    <2>1. CASE Box(a)!Detect \/ Box(a)!Identify \/ Box(a)!Stream
      BY <1>1, <2>1 DEF Box!Detect, Box!Identify, Box!Stream
    <2>2. CASE Box(a)!GiveUp \/ Box(a)!Release
      BY <1>1, <2>2 DEF Box!GiveUp, Box!Release
    <2>3. CASE \E ll, cc \in BOOLEAN : Box(a)!Reading(ll, cc)
      BY <1>1, <2>3 DEF Box!Reading
    <2>4. CASE Box(a)!Lose \/ Box(a)!Darken
      BY <1>1, <2>4 DEF Box!Lose, Box!Darken
    <2>5. ~Box(a)!PowerOff
      BY DEF Box!PowerOff
    <2> QED
      BY <2>1, <2>2, <2>3, <2>4, <2>5 DEF Box!Next
  <1> QED
    BY <1>2 DEF AdapterStep
==============================================================================
