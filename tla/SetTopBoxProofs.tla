--------------------------- MODULE SetTopBoxProofs ---------------------------
(* What follows from the promise of SetTopBox alone, for every loss limit:  *)
(* whoever implements it (StateMachine does) reports truthfully.            *)
EXTENDS SetTopBox, TLAPS

\* Every move leads between two states of the adapter and keeps the flags.
LEMMA MoveEffect ==
    ASSUME NEW from, NEW to, Move(from, to)
    PROVE  phase = from /\ phase' = to /\ UNCHANGED <<lock, carrier>>
  BY DEF Move

\* An adapter that listens, analyses or looks for PIDs reports no lock, as
\* the repeater core expects that switches to a stream on lock.
THEOREM ReportTruthful == Spec => []TruthfulReport
  <1> USE DEF TruthfulReport, LISTENING, ANALYSING, FINDPIDS, STREAMING, STOPPING
  <1>1. Init => TruthfulReport
    BY DEF Init
  <1>2. TruthfulReport /\ [Next]_vars => TruthfulReport'
    <2> SUFFICES ASSUME TruthfulReport, [Next]_vars
                 PROVE  TruthfulReport'
      OBVIOUS
    <2>1. CASE Detect \/ Identify \/ Stream \/ GiveUp \/ Lose
      BY <2>1, MoveEffect DEF Detect, Identify, Stream, GiveUp, Lose
    <2>2. CASE Release
      BY <2>2, MoveEffect DEF Release
    <2>3. CASE (\E l, c \in BOOLEAN : Reading(l, c)) \/ Darken \/ PowerOff \/ UNCHANGED vars
      BY <2>3 DEF Reading, Darken, PowerOff, vars
    <2> QED
      BY <2>1, <2>2, <2>3 DEF Next
  <1> QED
    BY <1>1, <1>2, PTL DEF Spec

\* A loss is being counted only while the adapter streams: every stream
\* begins with a fresh count.
THEOREM CountFresh == Spec => []CountsWhileStreaming
  <1> USE DEF CountsWhileStreaming, LISTENING, ANALYSING, FINDPIDS, STREAMING, STOPPING
  <1>1. Init => CountsWhileStreaming
    BY DEF Init
  <1>2. CountsWhileStreaming /\ [Next]_vars => CountsWhileStreaming'
    <2> SUFFICES ASSUME CountsWhileStreaming, [Next]_vars
                 PROVE  CountsWhileStreaming'
      OBVIOUS
    <2>1. CASE Detect \/ Identify \/ Stream \/ GiveUp \/ Release
      BY <2>1, MoveEffect DEF Detect, Identify, Stream, GiveUp, Release
    <2>2. CASE Lose
      BY <2>2 DEF Lose
    <2>3. CASE (\E l, c \in BOOLEAN : Reading(l, c)) \/ Darken \/ PowerOff \/ UNCHANGED vars
      BY <2>3 DEF Reading, Darken, PowerOff, vars
    <2> QED
      BY <2>1, <2>2, <2>3 DEF Next
  <1> QED
    BY <1>1, <1>2, PTL DEF Spec
==============================================================================
