---------------------------- MODULE StartupProofs ----------------------------
(***************************************************************************)
(* What holds of every sequence of starts, for any number of adapters, of  *)
(* dvb entries and of tsp processes.                                       *)
(***************************************************************************)
EXTENDS Startup, FiniteSetTheorems, TLAPS

USE DEF procVars, tspVars, vars, Goto, Running

\* The pids still on pgrep's list are those not yet killed; entries are
\* read, and compared with the adapters, before any machine is started.
Listed == pc = "Kill" => tsps \ own \subseteq killed \cup listed

Compared == pc \in {"SetupTempDir", "Start"} => Cardinality(available) >= entries

NoneBefore ==
    pc \in {"Pgrep", "Kill", "ReadConfig", "CheckAdapters", "Compare", "SetupTempDir"} => machines = {}

StartupInv == TypeOK /\ Listed /\ NoStrays /\ Compared /\ NoneBefore /\ NoIndexPanic

LEMMA SetsAreFinite ==
    ASSUME TypeOK
    PROVE  /\ IsFiniteSet(available) /\ Cardinality(available) \in Nat
           /\ IsFiniteSet(machines) /\ Cardinality(machines) \in Nat
           /\ Cardinality(machines) <= Cardinality(available)
  <1>1. IsFiniteSet(0 .. MaxAdapters)
    BY StartupAssumption, FS_Interval
  <1>2. IsFiniteSet(available)
    BY <1>1, FS_Subset DEF TypeOK
  <1> QED
    BY <1>2, FS_Subset, FS_CardinalityType DEF TypeOK

LEMMA MainStep ==
    ASSUME StartupInv, MainNext
    PROVE  StartupInv'
  <1>a. /\ Cardinality(available) \in Nat /\ Cardinality(machines) \in Nat
        /\ IsFiniteSet(machines)
        /\ Cardinality({}) = 0
    BY SetsAreFinite, FS_EmptySet DEF StartupInv
  <1> USE StartupAssumption DEF StartupInv, TypeOK, Labels, Numbers, Listed, NoStrays, Compared, NoneBefore, NoIndexPanic
  <1>1. CASE Pgrep
    BY <1>1 DEF Pgrep, Listing
  <1>2. CASE AllKilled
    BY <1>2 DEF AllKilled
  <1>3. CASE ReadConfig
    <2>1. /\ pc = "ReadConfig" /\ pc' = "CheckAdapters"
          /\ entries' \in 0 .. MaxEntries
          /\ UNCHANGED <<devices, listed, TmpDir, available, machines, tsps, killed, own, files>>
      BY <1>3 DEF ReadConfig
    <2>2. machines = {}
      BY <2>1
    <2>3. Cardinality(machines) = 0
      BY <2>2, <1>a
    <2> QED
      BY <2>1, <2>2, <2>3
  <1>4. CASE CheckAdapters
    BY <1>4 DEF CheckAdapters
  <1>5. CASE Compare
    <2>1. CASE Enough
      BY <1>5, <2>1 DEF Compare, Enough
    <2>2. CASE ~Enough
      BY <1>5, <2>2 DEF Compare
    <2> QED
      BY <2>1, <2>2
  <1>6. CASE SetupTempDir
    BY <1>6 DEF SetupTempDir
  <1>7. CASE GiveUp
    BY <1>7 DEF GiveUp
  <1>8. CASE StartMachine
    <2>1. /\ Cardinality(machines) < entries
          /\ pc = "Start"
          /\ UNCHANGED <<devices, listed, TmpDir, entries, available, tsps, killed, own, files>>
      BY <1>8 DEF StartMachine, MoreEntries
    <2>2. available # machines
      BY <2>1, <1>a
    <2>3. PICK a \in available \ machines : machines' = machines \cup {a} /\ pc' = "Start"
      BY <1>8, <2>2 DEF StartMachine
    <2>4. Cardinality(machines') = Cardinality(machines) + 1
      BY <2>3, <1>a, FS_AddElement
    <2>5. Cardinality(machines') <= entries
      BY <2>1, <2>4, <1>a
    <2> QED
      BY <2>1, <2>3, <2>5
  <1>9. CASE AllStarted
    BY <1>9 DEF AllStarted, MoreEntries
  <1>10. CASE \E p \in Pids : KillOne(p) \/ KillFails(p)
    <2> PICK p \in Pids : KillOne(p) \/ KillFails(p)
      BY <1>10
    <2>1. CASE KillOne(p)
      <3>1. TypeOK'
        BY <2>1 DEF KillOne
      <3>2. Listed'
        BY <2>1 DEF KillOne
      <3> QED
        BY <2>1, <3>1, <3>2 DEF KillOne
    <2>2. CASE KillFails(p)
      BY <2>2 DEF KillFails
    <2> QED
      BY <2>1, <2>2
  <1> QED
    BY <1>1, <1>2, <1>3, <1>4, <1>5, <1>6, <1>7, <1>8, <1>9, <1>10 DEF MainNext

LEMMA AdapterStep ==
    ASSUME StartupInv, AdapterNext
    PROVE  StartupInv'
  <1>a. /\ Cardinality(available) \in Nat /\ Cardinality(machines) \in Nat
        /\ IsFiniteSet(machines)
        /\ Cardinality({}) = 0
    BY SetsAreFinite, FS_EmptySet DEF StartupInv
  <1> USE StartupAssumption DEF StartupInv, TypeOK, Labels, Numbers, Listed, NoStrays, Compared, NoneBefore, NoIndexPanic
  <1>1. CASE StartTsp
    BY <1>1 DEF StartTsp
  <1>2. CASE \E a \in machines : WriteFiles(a) \/ HandleLockLost(a)
    <2>1. files' \subseteq {"cwd", "dvb"} \X (0 .. MaxAdapters)
      BY <1>2 DEF WriteFiles, HandleLockLost
    <2>2. /\ UNCHANGED <<devices, pc, listed, TmpDir, entries, available, machines, tsps, own>>
          /\ killed \subseteq killed' /\ killed' \subseteq killed \cup own
      BY <1>2 DEF WriteFiles, HandleLockLost
    <2> QED
      BY <2>1, <2>2
  <1>3. CASE Crash
    BY <1>3 DEF Crash
  <1>4. CASE Exit
    BY <1>4 DEF Exit
  <1> QED
    BY <1>1, <1>2, <1>3, <1>4 DEF AdapterNext

LEMMA EnvStep ==
    ASSUME StartupInv, EnvNext
    PROVE  StartupInv'
  <1>a. /\ Cardinality(available) \in Nat /\ Cardinality(machines) \in Nat
        /\ IsFiniteSet(machines)
        /\ Cardinality({}) = 0
    BY SetsAreFinite, FS_EmptySet DEF StartupInv
  <1> USE StartupAssumption DEF StartupInv, TypeOK, Labels, Numbers, Listed, NoStrays, Compared, NoneBefore, NoIndexPanic
  <1>1. CASE Launch
    BY <1>1, <1>a DEF Launch
  <1>2. CASE Reboot
    BY <1>2 DEF Reboot
  <1>3. CASE \E p \in Pids : TspEnds(p)
    BY <1>3 DEF TspEnds
  <1>4. CASE \E a \in Numbers : PlugOrUnplug(a)
    BY <1>4 DEF PlugOrUnplug
  <1> QED
    BY <1>1, <1>2, <1>3, <1>4 DEF EnvNext

LEMMA StartupInvAlways == Spec => []StartupInv
  <1>1. Init => StartupInv
    BY StartupAssumption, FS_EmptySet DEF Init, StartupInv, TypeOK, Labels, Listed, NoStrays, Compared, NoneBefore, NoIndexPanic
  <1>2. StartupInv /\ UNCHANGED vars => StartupInv'
    BY DEF StartupInv, TypeOK, Listed, NoStrays, Compared, NoneBefore, NoIndexPanic
  <1>3. StartupInv /\ [Next]_vars => StartupInv'
    BY <1>2, MainStep, AdapterStep, EnvStep DEF Next
  <1> QED
    BY <1>1, <1>3, PTL DEF Spec

\* Types, for every machine and every config.yaml.
THEOREM StartupTypeCorrect == Spec => []TypeOK
  BY StartupInvAlways, PTL DEF StartupInv

\* Whatever ended the earlier instances, and whichever tsp processes end by
\* themselves meanwhile, the machines are started only once every process
\* left behind has been killed.
THEOREM StraysKilled == Spec => []NoStrays
  BY StartupInvAlways, PTL DEF StartupInv

\* The number of adapters is compared with the number of entries before any
\* of them is assigned, and neither can change in between.
THEOREM IndexInRange == Spec => []NoIndexPanic
  BY StartupInvAlways, PTL DEF StartupInv
==============================================================================
