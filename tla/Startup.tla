------------------------------- MODULE Startup -------------------------------
(***************************************************************************)
(* Starting the receiver again and again (src/src/main.go:50-99 and        *)
(* src/src/config/config.go).  An instance that ends leaves tsp processes  *)
(* and working files behind; the next one kills the former, looks which    *)
(* adapters there are, and starts a StateMachine for each dvb entry of     *)
(* config.yaml.  One instance runs at a time.                              *)
(***************************************************************************)
EXTENDS Naturals, FiniteSets

CONSTANTS
    MaxAdapters,   \* the 8 main passes to CheckAdapters
    MaxEntries,    \* bound on the dvb entries of config.yaml
    Pids           \* process identifiers of tsp processes

ASSUME StartupAssumption ==
    /\ MaxAdapters \in Nat
    /\ MaxEntries \in Nat
    /\ IsFiniteSet(Pids)

VARIABLES
    devices,     \* numbers of the adapters under /dev/dvb
    pc,          \* what main is about to do, "Off" when there is no process
    listed,      \* output of pgrep not yet worked through
    TmpDir,      \* config.TmpDir: "cwd" while empty, the working directory
    entries,     \* length of settings.DVB
    available,   \* availableAdapters (ascending)
    machines,    \* sm.AdapterIndex of each StateMachine started
    tsps,        \* tsp processes there are
    killed,      \* those of them that SIGKILL was sent to
    own,         \* those that the running instance started
    files        \* working files: directory and adapter

procVars == <<listed, TmpDir, entries, available, machines>>
tspVars  == <<tsps, killed, own>>
vars     == <<devices, pc, procVars, tspVars, files>>

\* Adapter numbers of the machine: one more than CheckAdapters looks at.
Numbers == 0 .. MaxAdapters + 1

Labels ==
    {"Off", "Pgrep", "Kill", "ReadConfig", "CheckAdapters", "Compare",
     "SetupTempDir", "Start", "Up", "Panic"}

TypeOK ==
    /\ devices \subseteq Numbers
    /\ pc \in Labels
    /\ listed \subseteq Pids
    /\ TmpDir \in {"cwd", "dvb"}
    /\ entries \in 0 .. MaxEntries
    /\ available \subseteq 0 .. MaxAdapters
    /\ machines \subseteq available
    /\ Cardinality(machines) <= entries
    /\ tsps \subseteq Pids
    /\ killed \subseteq tsps
    /\ own \subseteq tsps
    /\ files \subseteq {"cwd", "dvb"} \X (0 .. MaxAdapters)

Init ==
    /\ devices \in SUBSET Numbers
    /\ pc = "Off"
    /\ listed = {} /\ TmpDir = "cwd" /\ entries = 0 /\ available = {} /\ machines = {}
    /\ tsps = {} /\ killed = {} /\ own = {}
    /\ files = {}

Goto(from, to) == pc = from /\ pc' = to

------------------------------------------------------------------------------
(* main, up to the start of the StateMachines.                              *)

\* A new process: its variables are zero, what an earlier one left stays.
Launch ==
    /\ Goto("Off", "Pgrep")
    /\ listed' = {} /\ TmpDir' = "cwd" /\ entries' = 0 /\ available' = {} /\ machines' = {}
    /\ own' = {}
    /\ UNCHANGED <<devices, tsps, killed, files>>

\* Mutant: the output of pgrep is dropped together with its exit status.
NoListing(ps) == {}
Listing(ps)   == ps

Pgrep ==
    /\ Goto("Pgrep", "Kill")
    /\ listed' = Listing(tsps)
    /\ UNCHANGED <<devices, TmpDir, entries, available, machines, tspVars, files>>

\* kill -9 of one pid of the list; the process may take a while to go.
KillOne(p) ==
    /\ Goto("Kill", "Kill")
    /\ p \in listed \cap tsps
    /\ listed' = listed \ {p}
    /\ killed' = killed \cup {p}
    /\ UNCHANGED <<devices, TmpDir, entries, available, machines, tsps, own, files>>

\* That tsp has ended by itself since pgrep: kill fails, and main with it.
KillFails(p) ==
    /\ Goto("Kill", "Off")
    /\ p \in listed \ tsps
    /\ UNCHANGED <<devices, procVars, tspVars, files>>

AllKilled ==
    /\ listed = {}
    /\ Goto("Kill", "ReadConfig")
    /\ UNCHANGED <<devices, procVars, tspVars, files>>

\* An empty list of dvb entries is valid ("required" asks for a list only).
ReadConfig ==
    /\ Goto("ReadConfig", "CheckAdapters")
    /\ entries' \in 0 .. MaxEntries
    /\ UNCHANGED <<devices, listed, TmpDir, available, machines, tspVars, files>>

\* 0 <= i <= maxAdapters; DeleteAdapterFiles looks in config.TmpDir, which
\* nothing has set yet.
CheckAdapters ==
    /\ Goto("CheckAdapters", "Compare")
    /\ available' = devices \cap 0 .. MaxAdapters
    /\ files' = files \ ({TmpDir} \X available')
    /\ UNCHANGED <<devices, listed, TmpDir, entries, machines, tspVars>>

\* Mutant: only the complete lack of adapters is noticed.
SomeAdapter == available # {}

Enough == available # {} /\ Cardinality(available) >= entries

Compare ==
    /\ IF Enough THEN Goto("Compare", "SetupTempDir") ELSE Goto("Compare", "Off")
    /\ UNCHANGED <<devices, procVars, tspVars, files>>

SetupTempDir ==
    /\ Goto("SetupTempDir", "Start")
    /\ TmpDir' = "dvb"
    /\ UNCHANGED <<devices, listed, entries, available, machines, tspVars, files>>

\* tsp is not installed, pgrep cannot be run, config.yaml cannot be read or
\* is not valid, or the directory cannot be made: log.Fatalf.
GiveUp ==
    /\ \E from \in {"Pgrep", "ReadConfig", "SetupTempDir"} : Goto(from, "Off")
    /\ UNCHANGED <<devices, procVars, tspVars, files>>

\* Mutant: one entry too many.
AnyEntries(n)  == n <= entries
MoreEntries(n) == n < entries

\* The next entry gets availableAdapters[i], the lowest number not yet given
\* away; the index expression panics when there is none left.
StartMachine ==
    /\ MoreEntries(Cardinality(machines))
    /\ IF available # machines
       THEN /\ Goto("Start", "Start")
            /\ \E a \in available \ machines :
                  /\ \A b \in available \ machines : a <= b
                  /\ machines' = machines \cup {a}
       ELSE Goto("Start", "Panic") /\ machines' = machines
    /\ UNCHANGED <<devices, listed, TmpDir, entries, available, tspVars, files>>

AllStarted ==
    /\ ~MoreEntries(Cardinality(machines))
    /\ Goto("Start", "Up")
    /\ UNCHANGED <<devices, procVars, tspVars, files>>

MainNext ==
    \/ Pgrep \/ AllKilled \/ ReadConfig \/ CheckAdapters \/ Compare
    \/ SetupTempDir \/ GiveUp \/ StartMachine \/ AllStarted
    \/ \E p \in Pids : KillOne(p) \/ KillFails(p)

------------------------------------------------------------------------------
(* What the StateMachines that have been started do to their surroundings   *)
(* (module StateMachine), and how the instance ends.                        *)

Running == pc \in {"Start", "Up"}

StartTsp ==
    /\ Running
    /\ machines # {}
    /\ \E p \in Pids \ tsps : tsps' = tsps \cup {p} /\ own' = own \cup {p}
    /\ UNCHANGED <<devices, pc, procVars, killed, files>>

WriteFiles(a) ==
    /\ Running
    /\ files' = files \cup {<<TmpDir, a>>}
    /\ UNCHANGED <<devices, pc, procVars, tspVars>>

HandleLockLost(a) ==
    /\ Running
    /\ \E p \in own : killed' = killed \cup {p}
    /\ files' = files \ {<<TmpDir, a>>}
    /\ UNCHANGED <<devices, pc, procVars, tsps, own>>

\* log.Fatal, os.Exit(1), a panic or SIGKILL: nothing is cleaned up.
Crash ==
    /\ Running \/ pc = "Panic"
    /\ pc' = "Off"
    /\ UNCHANGED <<devices, procVars, tspVars, files>>

\* The signal handler kills the tsp each sm.tspCmd refers to; a listening
\* tsp is not among them (module Shutdown).
Exit ==
    /\ pc = "Up"
    /\ pc' = "Off"
    /\ \E ps \in SUBSET own : killed' = killed \cup ps
    /\ UNCHANGED <<devices, procVars, tsps, own, files>>

AdapterNext ==
    \/ StartTsp
    \/ \E a \in machines : WriteFiles(a) \/ HandleLockLost(a)
    \/ Crash \/ Exit

------------------------------------------------------------------------------
(* The surroundings.                                                        *)

TspEnds(p) ==
    /\ p \in tsps
    /\ tsps' = tsps \ {p}
    /\ killed' = killed \ {p}
    /\ own' = own \ {p}
    /\ UNCHANGED <<devices, pc, procVars, files>>

\* An adapter is plugged in or removed while the receiver is off.
PlugOrUnplug(a) ==
    /\ pc = "Off"
    /\ devices' = IF a \in devices THEN devices \ {a} ELSE devices \cup {a}
    /\ UNCHANGED <<pc, procVars, tspVars, files>>

\* The machine reboots: no process survives; /tmp is or is not emptied.
Reboot ==
    /\ pc' = "Off"
    /\ tsps' = {} /\ killed' = {} /\ own' = {}
    /\ files' \in {files, {}}
    /\ UNCHANGED <<devices, procVars>>

EnvNext ==
    \/ Launch \/ Reboot
    \/ \E p \in Pids : TspEnds(p)
    \/ \E a \in Numbers : PlugOrUnplug(a)

Next == MainNext \/ AdapterNext \/ EnvNext

Spec == Init /\ [][Next]_vars

------------------------------------------------------------------------------
\* Once the StateMachines tune their adapters, every tsp process an earlier
\* instance left behind, by whatever end it came to, has been sent SIGKILL:
\* none can hold a frontend for good.
NoStrays ==
    pc \in {"ReadConfig", "CheckAdapters", "Compare", "SetupTempDir", "Start", "Up"}
        => tsps \ own \subseteq killed

\* However the adapters are plugged and unplugged between two starts, main
\* never looks for the adapter of an entry beyond those it has found.
NoIndexPanic == pc # "Panic"

\* Before the adapters are started, the working files an earlier instance
\* left are gone ("delete all adapter and service files If programmed
\* happened to crash in a previous instance", config.go:100-101).
NoLeftovers ==
    pc = "Start" /\ machines = {} => files \cap ({TmpDir} \X available) = {}

\* The links of the root page, from generateAdapterLinks: one for each dvb
\* entry, by its position.  The page behind a link shows the entry of
\* AdapterStatusMap with that number.
Links == {i \in 0 .. MaxEntries : i < entries}

\* "Each configured adapter has it own OSD" (README.md:36): the root page
\* has a link to it.
EachAdapterIsLinked ==
    pc = "Up" => machines \subseteq Links
==============================================================================
