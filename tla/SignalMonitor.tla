---------------------------- MODULE SignalMonitor ----------------------------
(***************************************************************************)
(* What monitorSignalLoop of src/src/state/state.go does with the outcomes *)
(* of its readings, however those are made: a reading is tried MaxRetries  *)
(* times, LossLimit unlocked ones in a row are a loss, and a loss withdraws *)
(* the locks.  Figures, which reads in four questions, and StateMachine,   *)
(* in which a second goroutine listens and publishes, both implement it.   *)
(***************************************************************************)
EXTENDS Naturals

CONSTANTS
    LossLimit,   \* consecutive unlocked readings that end a stream
    MaxRetries   \* consecutive failed readings that end the loop

VARIABLES
    place,      \* "Off": no loop, or nothing left to do but to tell main
    attempts,   \* failed readings in a row
    misses,     \* unlocked readings in a row
    locked      \* the locks are set

vars == <<place, attempts, misses, locked>>

Init ==
    /\ place = "Off"
    /\ attempts = 0 /\ misses = 0
    /\ locked = FALSE

\* Each stream has a loop of its own, with counts of its own.
Start ==
    /\ place = "Off"
    /\ place' = "Polling"
    /\ UNCHANGED <<attempts, misses, locked>>

Reading(l) ==
    /\ place = "Polling"
    /\ locked' = l
    /\ attempts' = 0
    /\ \/ l /\ misses' = 0 /\ place' = "Polling"
       \/ ~l /\ misses + 1 < LossLimit /\ misses' = misses + 1 /\ place' = "Polling"
       \/ ~l /\ misses + 1 = LossLimit /\ misses' = 0 /\ place' = "Lost"

\* A failed reading does not count as an unlocked one.
TryAgain ==
    /\ place = "Polling"
    /\ attempts + 1 < MaxRetries
    /\ attempts' = attempts + 1
    /\ UNCHANGED <<place, misses, locked>>

\* The locks stay as they were last read.
GiveUp ==
    /\ place = "Polling"
    /\ attempts + 1 = MaxRetries
    /\ attempts' = 0 /\ misses' = 0
    /\ place' = "Off"
    /\ UNCHANGED locked

Withdraw ==
    /\ place = "Lost"
    /\ locked' = FALSE
    /\ place' = "Off"
    /\ UNCHANGED <<attempts, misses>>

Next == Start \/ (\E l \in BOOLEAN : Reading(l)) \/ TryAgain \/ GiveUp \/ Withdraw

Spec == Init /\ [][Next]_vars
==============================================================================
