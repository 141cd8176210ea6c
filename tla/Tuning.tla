-------------------------------- MODULE Tuning --------------------------------
(***************************************************************************)
(* Which arguments tsp is started with.  An entry of config.yaml is        *)
(* validated once; fontendCmdArgs (src/src/state/state.go) then makes the  *)
(* arguments from it anew for each of the three tsp processes of a round,  *)
(* round after round.  Frequencies are uint32 and wrap.                    *)
(***************************************************************************)
EXTENDS Naturals

CONSTANTS
    Word,                  \* the 2^32 of uint32
    MinOffset, MaxOffset,  \* the 600 and 700 MHz of DvbtOffset
    MaxBandwidth,          \* the 8 of DVBConfig
    Frequencies, Offsets,  \* those that may stand in config.yaml
    Numbers,               \* likewise bandwidths and symbol rates
    Absent,                \* the option is not on the command line
    None                   \* no tsp yet, nothing shown yet

Words == 0 .. Word - 1

ASSUME TuningAssumptions ==
    /\ Word \in Nat \ {0}
    /\ MinOffset \in Words /\ MaxOffset \in Words
    /\ MaxBandwidth \in Nat
    /\ Frequencies \subseteq Words /\ Offsets \subseteq Words /\ Numbers \subseteq Words

VARIABLES
    given,    \* the entry in config.yaml
    offset,   \* config.FreqOffset
    config,   \* sm.Config
    tuningPc, \* what main or the adapter does next
    args,     \* the arguments of the last tsp
    osd       \* the tuning fields of sm.OsdStats

tuningVars == <<given, offset, config, tuningPc, args, osd>>

Terrestrial == {"DVB-T", "DVB-T2", "AUTO-T"}
Satellite   == {"DVB-S", "DVB-S2", "DVB-S-Turbo", "AUTO-S"}

Entries ==
    [type : Terrestrial \cup Satellite \cup {"ATSC", "DVB-C"},
     frequency : Frequencies, bandwidth : Numbers, symbolRate : Numbers]

TuningLabels == {"Validate", "Listen", "Analyse", "Show", "Stream", "Monitor", "Rejected", "Unsupported"}

Options ==
    [frequency : Words, bandwidth : Words \cup {Absent}, symbolRate : Words \cup {Absent},
     system : {Absent, "DVB-T2", "DVB-S2", "ATSC", "undefined"}]

TuningTypeOK ==
    /\ given \in Entries
    /\ config \in Entries
    /\ offset \in Words
    /\ tuningPc \in TuningLabels
    /\ args \in Options \cup {None}
    /\ osd \in Entries \cup {None}

TuningInit ==
    /\ given \in Entries
    /\ offset \in Offsets
    /\ config = given
    /\ tuningPc = "Validate"
    /\ args = None
    /\ osd = None

------------------------------------------------------------------------------
\* The types of the oneof tag.
Accepted == {"AUTO-T", "DVB-T", "DVB-T2", "DVB-S", "DVB-S2", "DVB-S-Turbo", "AUTO-S", "ATSC"}

\* ValidateConfig; "required" refuses a zero.
Valid ==
    /\ config.type \in Accepted
    /\ config.frequency # 0
    /\ config.bandwidth <= MaxBandwidth
    /\ offset \in MinOffset .. MaxOffset

Validate ==
    /\ tuningPc = "Validate"
    /\ tuningPc' = IF Valid THEN "Listen" ELSE "Rejected"
    /\ UNCHANGED <<given, offset, config, args, osd>>

Minus(f, o) == (f + Word - o) % Word

\* Mutant: a case is missing.
OldSwitch == (Terrestrial \cup Satellite \cup {"ATSC"}) \ {"DVB-S-Turbo"}
Switch    == Terrestrial \cup Satellite \cup {"ATSC"}

\* Mutant: every type is passed on as a delivery system.
TypeItself(type) == type
DeliverySystem(type) ==
    CASE type \in {"DVB-T2", "DVB-S2", "ATSC"} -> type
      [] type \in {"AUTO-T", "AUTO-S"}         -> "undefined"
      [] OTHER                                 -> Absent

Arguments ==
    [frequency  |-> IF config.type \in Terrestrial THEN Minus(config.frequency, offset)
                                                   ELSE config.frequency,
     bandwidth  |-> IF config.type \in Terrestrial THEN config.bandwidth ELSE Absent,
     symbolRate |-> IF config.type \in Satellite THEN config.symbolRate ELSE Absent,
     system     |-> DeliverySystem(config.type)]

\* Mutant: the subtraction is done on sm.Config itself.
Shifted(c)   == [c EXCEPT !.frequency = Arguments.frequency]
Untouched(c) == c

\* log.Fatalf for a type the switch does not know.
FontendCmdArgs(from, to) ==
    /\ tuningPc = from
    /\ IF config.type \in Switch
       THEN args' = Arguments /\ config' = Untouched(config) /\ tuningPc' = to
       ELSE tuningPc' = "Unsupported" /\ UNCHANGED <<args, config>>
    /\ UNCHANGED <<given, offset, osd>>

AwaitSignal    == FontendCmdArgs("Listen", "Analyse")
FindServices   == FontendCmdArgs("Analyse", "Show")
StartStreaming == FontendCmdArgs("Stream", "Monitor")

\* Shown in MHz, as a float64 that keeps every Hz of a uint32 apart.
SetInitialOsdStats ==
    /\ tuningPc = "Show"
    /\ osd' = config
    /\ tuningPc' = "Stream"
    /\ UNCHANGED <<given, offset, config, args>>

\* handleLockLost, or continue after an error.
StartAgain ==
    /\ tuningPc \in {"Analyse", "Show", "Stream", "Monitor"}
    /\ tuningPc' = "Listen"
    /\ UNCHANGED <<given, offset, config, args, osd>>

TuningEnded == tuningPc \in {"Rejected", "Unsupported"} /\ UNCHANGED tuningVars

TuningNext ==
    \/ Validate \/ AwaitSignal \/ FindServices \/ SetInitialOsdStats \/ StartStreaming
    \/ StartAgain \/ TuningEnded

TuningSpec == TuningInit /\ [][TuningNext]_tuningVars

------------------------------------------------------------------------------
\* Whichever tsp of whichever round was started last, its frequency and the
\* local oscillator make up the configured input again, although each start
\* subtracts anew; and the page shows that input, not what tsp tunes to.
TunesTheInput ==
    /\ args # None =>
           given.frequency = IF given.type \in Terrestrial THEN (args.frequency + offset) % Word
                                                           ELSE args.frequency
    /\ osd # None => osd = given

\* The list of types in a struct tag of config.go and the switch in state.go
\* agree: no entry that was accepted ends the receiver at its first tsp.
AcceptedIsSupported == tuningPc # "Unsupported"
==============================================================================
