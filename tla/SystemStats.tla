----------------------------- MODULE SystemStats -----------------------------
(***************************************************************************)
(* GetSystemStats (src/src/systemstats/systemstats.go): three calls that   *)
(* may fail, then the two byte counters of the network, each formatted by  *)
(* formatBytes: the loop that picks the suffix, and the figure with one    *)
(* decimal.  The counters are uint64, the divisor is an int64.             *)
(***************************************************************************)
EXTENDS Integers, Sequences

CONSTANTS
    Unit,        \* the 1024 of the code
    CounterWord, \* the 2^64 of uint64
    Counters     \* the counters that are tried

Suffixes == <<"K", "M", "G", "T", "P", "E">>

\* Powers[i] bytes are one of suffix i; the seventh has none.
Powers ==
    LET K == Unit  M == K * Unit  G == M * Unit  T == G * Unit  P == T * Unit  E == P * Unit
    IN <<K, M, G, T, P, E, E * Unit>>

\* 1024^6 = 2^60 and 1024^7 = 2^70: an int64 holds the sixth power, and no
\* uint64 reaches the seventh.
ASSUME StatsAssumptions ==
    /\ Unit \in Nat \ {0, 1}
    /\ CounterWord \in Nat
    /\ Powers[6] < CounterWord \div 2 /\ CounterWord <= Powers[7]
    /\ Counters \subseteq 0 .. CounterWord - 1

VARIABLES
    io,       \* net.IOCounters: nothing, or the counters sent and received
    statsPc,  \* what is done next
    bytes,    \* the argument of formatBytes
    quotient, div, exp,   \* its loop; quotient is n
    network   \* what has been formatted so far: figures of sent and received

loop == <<bytes, quotient, div, exp>>
statsVars == <<io, statsPc, loop, network>>

\* A figure is a number of tenths and a suffix, "" for plain bytes.
Shown == [tenths : Int, suffix : {Suffixes[i] : i \in 1 .. Len(Suffixes)} \cup {""}]

StatsTypeOK ==
    /\ io \in {<<>>} \cup (Counters \X Counters)
    /\ statsPc \in {"CPU", "Memory", "Network", "Format", "Loop", "Print", "Done", "Failed", "Panic"}
    /\ bytes \in 0 .. CounterWord - 1 /\ quotient \in 0 .. CounterWord - 1
    /\ div \in 1 .. CounterWord \div 2 - 1
    /\ exp \in Nat
    /\ network \in Seq(Shown) /\ Len(network) <= Len(io)

StatsInit ==
    /\ io \in {<<>>} \cup (Counters \X Counters)
    /\ statsPc = "CPU"
    /\ bytes = 0 /\ quotient = 0 /\ div = Unit /\ exp = 0
    /\ network = <<>>

------------------------------------------------------------------------------
\* One of the three calls; its error is returned and nothing is shown.
Call(from, to) ==
    /\ statsPc = from
    /\ statsPc' \in {to, "Failed"}
    /\ UNCHANGED <<io, loop, network>>

CpuPercent    == Call("CPU", "Memory")
VirtualMemory == Call("Memory", "Network")
IOCounters    == Call("Network", "Format")

\* One decimal, halves to the even digit, as fmt does.
Tenths(b, d) ==
    LET q == (10 * b) \div d
        r == (10 * b) % d
    IN IF 2 * r > d \/ (2 * r = d /\ q % 2 = 1) THEN q + 1 ELSE q

\* Mutant: one unit is still shown in bytes.
SmallOrUnit(b) == b <= Unit
Small(b)       == b < Unit

\* formatBytes is entered, or both counters have been formatted ("N/A"
\* without any); what fits is shown in bytes.
FormatBytes ==
    /\ statsPc = "Format"
    /\ IF Len(network) = Len(io)
       THEN statsPc' = "Done" /\ UNCHANGED <<loop, network>>
       ELSE LET b == io[Len(network) + 1]
            IN IF Small(b)
               THEN /\ network' = Append(network, [tenths |-> 10 * b, suffix |-> ""])
                    /\ UNCHANGED <<statsPc, loop>>
               ELSE /\ bytes' = b
                    /\ quotient' = b \div Unit
                    /\ div' = Unit
                    /\ exp' = 0
                    /\ statsPc' = "Loop"
                    /\ UNCHANGED network
    /\ UNCHANGED io

\* Mutant: the loop goes on until nothing is left.
AtLeastOne(k) == k >= 1
StillLarge(k) == k >= Unit

Wrap(k) == LET r == k % CounterWord IN IF r < CounterWord \div 2 THEN r ELSE r - CounterWord

\* One turn of the for loop, or its end.
Turn ==
    /\ statsPc = "Loop"
    /\ IF StillLarge(quotient)
       THEN /\ quotient' = quotient \div Unit
            /\ div' = Wrap(div * Unit)
            /\ exp' = exp + 1
            /\ statsPc' = statsPc
       ELSE statsPc' = "Print" /\ UNCHANGED <<quotient, div, exp>>
    /\ UNCHANGED <<io, bytes, network>>

\* "KMGTPE"[exp]
Sprintf ==
    /\ statsPc = "Print"
    /\ IF exp + 1 \in 1 .. Len(Suffixes)
       THEN /\ network' = Append(network, [tenths |-> Tenths(bytes, div), suffix |-> Suffixes[exp + 1]])
            /\ statsPc' = "Format"
       ELSE statsPc' = "Panic" /\ UNCHANGED network
    /\ UNCHANGED <<io, loop>>

StatsEnded == statsPc \in {"Done", "Failed", "Panic"} /\ UNCHANGED statsVars

StatsNext == CpuPercent \/ VirtualMemory \/ IOCounters \/ FormatBytes \/ Turn \/ Sprintf \/ StatsEnded

StatsSpec == StatsInit /\ [][StatsNext]_statsVars

------------------------------------------------------------------------------
\* The largest counter still has a suffix, and a divisor that an int64 holds:
\* no figure makes the handler of the monitor page panic.
SuffixExists ==
    /\ statsPc # "Panic"
    /\ statsPc = "Print" => exp < Len(Suffixes) /\ div = Powers[exp + 1]

\* The figure that has suffix i (0: none), for the counter b: at least one
\* of that suffix and less than one of the next, but for the rounding, and
\* off by no more than half a tenth.
Right(fig, b) ==
    IF b < Unit THEN fig = [tenths |-> 10 * b, suffix |-> ""]
    ELSE \E i \in 1 .. Len(Suffixes) :
            /\ fig.suffix = Suffixes[i]
            /\ Powers[i] <= b /\ b \div Powers[i] < Unit
            /\ 2 * fig.tenths * Powers[i] - 20 * b \in -Powers[i] .. Powers[i]

\* What the monitor page shows as sent and as received are the counters of
\* that name, in the right unit.
NetworkIsRight == \A i \in 1 .. Len(network) : Right(network[i], io[i])
==============================================================================
