------------------------------ MODULE LockReport ------------------------------
(***************************************************************************)
(* The UDP report of the receiver (src/src/net/net.go) and the repeater    *)
(* core that listens to it.  Each adapter behaves as SetTopBox, which      *)
(* StateMachine implements.  The sender copies State, Lock and CarrierLock *)
(* of one adapter after the other, each under that adapter's sm.Mu, writes *)
(* them as one datagram and sleeps a second.                               *)
(*                                                                         *)
(* Whether the core hears of a loss before the adapter may lock again is a *)
(* matter of time, so time passes here in steps of half a second: the      *)
(* sleeps of the monitor loop are lower bounds; the sender is taken to be  *)
(* prompt, and a datagram to arrive at once if it arrives at all.          *)
(***************************************************************************)
EXTENDS Naturals

CONSTANTS
    N,            \* number of adapters
    LossLimit,    \* see SetTopBox
    Period,       \* half seconds between two reports: time.Sleep(1 * time.Second)
    MaxDropped    \* bound on the datagrams lost in a row

ASSUME ReportAssumption ==
    N \in Nat \ {0} /\ LossLimit \in Nat \ {0} /\ Period \in Nat \ {0} /\ MaxDropped \in Nat

Adapters == 1 .. N

VARIABLES
    up,                             \* the receiver process is running
    phase, lock, carrier, misses,   \* of each adapter, as in SetTopBox
    rested,      \* the adapter's loop has slept since its last reading
    statuses,    \* the sender's statuses, filled as far as sampled
    next,        \* the adapter to be sampled next, N + 1 when all are
    sleep,       \* half seconds until the sender's next report
    net,         \* the datagram on its way, if any
    dropped,     \* datagrams lost since the last one that arrived
    core         \* what the last report told the repeater core

boxVars    == <<up, phase, lock, carrier, misses, rested>>
senderVars == <<statuses, next, sleep>>
netVars    == <<net, dropped>>
vars       == <<boxVars, senderVars, netVars, core>>

Box(a) == INSTANCE SetTopBox WITH
    phase <- phase[a], lock <- lock[a], carrier <- carrier[a], misses <- misses[a]

LISTENING == 0
STREAMING == 3
STOPPING  == 4

States == LISTENING .. STOPPING

\* AdapterLock; "locked" stands for both flags, which every reader joins.
AdapterLock == [state : States, locked : BOOLEAN]
Dark        == [state |-> LISTENING, locked |-> FALSE]
Reports     == [Adapters -> AdapterLock]
Nothing     == [a \in {} |-> Dark]

TypeOK ==
    /\ up \in BOOLEAN
    /\ phase \in [Adapters -> States]
    /\ lock \in [Adapters -> BOOLEAN]
    /\ carrier \in [Adapters -> BOOLEAN]
    /\ misses \in [Adapters -> 0 .. LossLimit]
    /\ rested \in [Adapters -> BOOLEAN]
    /\ statuses \in Reports
    /\ next \in 1 .. N + 1
    /\ sleep \in 0 .. Period
    /\ net \in Reports \cup {Nothing}
    /\ dropped \in 0 .. MaxDropped
    /\ core \in Reports

Init ==
    /\ up = TRUE
    /\ phase = [a \in Adapters |-> LISTENING]
    /\ lock = [a \in Adapters |-> FALSE]
    /\ carrier = [a \in Adapters |-> FALSE]
    /\ misses = [a \in Adapters |-> 0]
    /\ rested = [a \in Adapters |-> TRUE]
    /\ statuses = [a \in Adapters |-> Dark]
    /\ next = 1
    /\ sleep = 0
    /\ net = Nothing
    /\ dropped = 0
    /\ core = [a \in Adapters |-> Dark]

------------------------------------------------------------------------------
(* The adapters.                                                            *)

\* Mutant: the loop does not sleep between two readings.
NoSleep(from, to) == FALSE

\* Steps the loop has to sleep before: a reading, and lockLost after a loss.
Sleeps(from, to) ==
    \/ from = STREAMING /\ to = STREAMING
    \/ from = STOPPING /\ to = LISTENING

\* Any step of the adapter's promise, no sooner than its sleeps allow; the
\* sets hold the values such a step can lead to.
AdapterStep(a) ==
    /\ up' = up
    /\ \E p \in {phase[a], (phase[a] + 1) % 5, LISTENING} :
          /\ Sleeps(phase[a], p) => rested[a]
          /\ phase' = [phase EXCEPT ![a] = p]
          /\ rested' = [rested EXCEPT ![a] = @ /\ p < STREAMING]
    /\ \E l, c \in BOOLEAN, m \in {0, misses[a], misses[a] + 1} :
          /\ lock' = [lock EXCEPT ![a] = l]
          /\ carrier' = [carrier EXCEPT ![a] = c]
          /\ misses' = [misses EXCEPT ![a] = m]
    /\ Box(a)!Next
    /\ UNCHANGED <<senderVars, netVars, core>>

PowerOff ==
    /\ up
    /\ up' = FALSE
    /\ UNCHANGED <<phase, lock, carrier, misses, rested, senderVars, netVars, core>>

------------------------------------------------------------------------------
(* SendLockStats.                                                           *)

\* Mutants: one flag is taken for a lock; statuses is declared outside the
\* loop, so the entries of the first round stay in front.
EitherFlag(a)  == [state |-> phase[a], locked |-> lock[a] \/ carrier[a]]
FirstSample(a) == Dark

Sampled(a) == [state |-> phase[a], locked |-> lock[a] /\ carrier[a]]

Sample ==
    /\ up /\ sleep = 0
    /\ next <= N
    /\ statuses' = [statuses EXCEPT ![next] = Sampled(next)]
    /\ next' = next + 1
    /\ UNCHANGED <<boxVars, sleep, netVars, core>>

Send ==
    /\ up /\ sleep = 0
    /\ next = N + 1
    /\ net' = statuses
    /\ statuses' = [a \in Adapters |-> Dark]
    /\ next' = 1
    /\ sleep' = Period
    /\ UNCHANGED <<boxVars, dropped, core>>

SenderNext == Sample \/ Send

------------------------------------------------------------------------------
(* The network, the repeater core (README.md:33-34) and the clock.          *)

Deliver ==
    /\ net # Nothing
    /\ core' = net
    /\ net' = Nothing
    /\ dropped' = 0
    /\ UNCHANGED <<boxVars, senderVars>>

\* Lost on the way, or conn.Write failed, which the sender only logs.
Drop ==
    /\ net # Nothing
    /\ dropped < MaxDropped
    /\ dropped' = dropped + 1
    /\ net' = Nothing
    /\ UNCHANGED <<boxVars, senderVars, core>>

Tick ==
    /\ up /\ sleep > 0
    /\ net = Nothing
    /\ sleep' = sleep - 1
    /\ rested' = [a \in Adapters |-> TRUE]
    /\ UNCHANGED <<up, phase, lock, carrier, misses, statuses, next, netVars, core>>

\* The receiver has ended and its last report has arrived or is lost.
Ended == ~up /\ net = Nothing /\ UNCHANGED vars

Next ==
    \/ \E a \in Adapters : AdapterStep(a)
    \/ PowerOff \/ SenderNext \/ Deliver \/ Drop \/ Tick \/ Ended

Spec == Init /\ [][Next]_vars

\* The sender, the network and time go on; an adapter may do so or not.
FairSpec == Spec /\ WF_vars(SenderNext) /\ WF_vars(Deliver \/ Drop) /\ WF_vars(Tick)

------------------------------------------------------------------------------
\* The core never switches to an adapter that is not streaming: state and
\* lock of an entry belong together, although they change one after another.
OnlyStreamsAreOffered ==
    \A a \in Adapters : core[a].locked => core[a].state = STREAMING

\* When an adapter listens for a new signal the core has already taken the
\* old one for lost, although no more than one report a second tells it so
\* and MaxDropped of them in a row may be lost.  Otherwise it would stay
\* with the adapter and show whatever it locks onto next.
LossNoticedInTime ==
    \A a \in Adapters : phase[a] < STREAMING => ~core[a].locked

\* A steady lock reaches the core in the end, and so does its loss.
CoreFollows ==
    \A a \in Adapters :
        /\ <>[](up /\ lock[a] /\ carrier[a]) => <>[](core[a].locked)
        /\ <>[](up /\ ~lock[a]) => <>[](~core[a].locked)
==============================================================================
