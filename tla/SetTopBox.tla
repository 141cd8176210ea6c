------------------------------ MODULE SetTopBox ------------------------------
(***************************************************************************)
(* What one adapter promises to whoever watches it: the repeater core,     *)
(* which reads state, lock and carrier_lock from the UDP report, and the   *)
(* OSD page.  The adapter goes round Listening, Analysing, FindPids,       *)
(* Streaming and Stopping; a lock is reported only while it streams (or    *)
(* while a lost stream is being wound up), and a stream is given up for    *)
(* lost after LossLimit unlocked readings in a row, never sooner and never *)
(* later.  StateMachine is shown to implement this module.                 *)
(***************************************************************************)
EXTENDS Naturals

CONSTANT LossLimit   \* consecutive unlocked readings that end a stream

\* The states of src/src/state/state.go:22-28.
LISTENING == 0
ANALYSING == 1
FINDPIDS  == 2
STREAMING == 3
STOPPING  == 4

States == LISTENING .. STOPPING

VARIABLES
    up,       \* the receiver process is running
    phase,    \* the state the adapter reports
    lock,     \* the lock flag it reports
    carrier,  \* the carrier flag it reports
    misses    \* unlocked readings in a row

vars == <<up, phase, lock, carrier, misses>>

TypeOK ==
    /\ up \in BOOLEAN
    /\ phase \in States
    /\ lock \in BOOLEAN
    /\ carrier \in BOOLEAN
    /\ misses \in 0 .. LossLimit

Init ==
    /\ up = TRUE
    /\ phase = LISTENING
    /\ lock = FALSE
    /\ carrier = FALSE
    /\ misses = 0

Move(from, to) ==
    /\ up
    /\ phase = from
    /\ phase' = to
    /\ UNCHANGED <<up, lock, carrier>>

\* A transport stream was received, its service named, its PIDs found.
Detect   == Move(LISTENING, ANALYSING) /\ UNCHANGED misses
Identify == Move(ANALYSING, FINDPIDS) /\ UNCHANGED misses
Stream   == Move(FINDPIDS, STREAMING) /\ UNCHANGED misses

\* An error on the way to streaming sends the adapter back to listening.
GiveUp ==
    /\ Move(ANALYSING, LISTENING) \/ Move(FINDPIDS, LISTENING)
    /\ UNCHANGED misses

\* Mutant: the limit is off by one.
LostLater(n)  == n <= LossLimit
NotYetLost(n) == n < LossLimit

\* One reading of the frontend, while the stream is not lost.
Reading(l, c) ==
    /\ up
    /\ phase = STREAMING
    /\ NotYetLost(misses)
    /\ lock' = l
    /\ carrier' = c
    /\ misses' = IF l /\ c THEN 0 ELSE misses + 1
    /\ UNCHANGED <<up, phase>>

\* The stream is lost: exactly LossLimit readings in a row had no lock.
Lose ==
    /\ misses = LossLimit
    /\ Move(STREAMING, STOPPING)
    /\ misses' = 0

\* The lock flags are withdrawn before the adapter listens again.
Darken ==
    /\ up
    /\ phase = STOPPING
    /\ lock' = FALSE
    /\ carrier' = FALSE
    /\ UNCHANGED <<up, phase, misses>>

Release ==
    /\ ~lock
    /\ ~carrier
    /\ Move(STOPPING, LISTENING)
    /\ UNCHANGED misses

\* The receiver process ends.
PowerOff ==
    /\ up
    /\ up' = FALSE
    /\ UNCHANGED <<phase, lock, carrier, misses>>

Next ==
    \/ Detect \/ Identify \/ Stream \/ GiveUp
    \/ \E l, c \in BOOLEAN : Reading(l, c)
    \/ Lose \/ Darken \/ Release \/ PowerOff

Spec == Init /\ [][Next]_vars

------------------------------------------------------------------------------
(* An adapter that is not streaming reports no lock: the repeater core      *)
(* switches to a stream on the report, so a lock reported while listening   *)
(* would put a dead stream on the air.                                      *)
TruthfulReport == phase \in {LISTENING, ANALYSING, FINDPIDS} => ~lock /\ ~carrier

\* A loss is being counted only while the adapter streams.
CountsWhileStreaming == phase # STREAMING => misses = 0
==============================================================================
