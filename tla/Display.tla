------------------------------- MODULE Display -------------------------------
(***************************************************************************)
(* The sections of the terminal program that have no memory: the energy    *)
(* rows, the cluster line, the compute histogram and the throttle detail   *)
(* (cmd/aneperf/main.go), as functions of the delta that module Stats      *)
(* derives from a list of channels.                                        *)
(*                                                                         *)
(* Several of them compute for themselves what ComputeStats and Stop have  *)
(* computed already, by other loops over the same channels.  The code      *)
(* relies on both giving the same figure.  The bar of the GPU is not such  *)
(* a figure: it is made of residencies smoothed over several samples, and  *)
(* is in module Refresh.  Colours and wording are not modelled.            *)
(***************************************************************************)
EXTENDS Stats

CONSTANTS
    IntervalMs,     \* the nominal interval, which printLive is handed
    MaxRows         \* energy rows shown: 4, here and on the page

ASSUME IntervalAssumption == IntervalMs \in Int
ASSUME RowsAssumption == MaxRows \in Nat \ {0}

Rendered(ch, res) == 200 * res >= Total(ch)     \* at least 0.5 %
Ran(chs) == Select(chs, LAMBDA ch : Total(ch) # 0)

\* In nanojoules per millisecond of the nominal interval.
EnergyValueToWatts(ch) ==
    [nj |-> ch.value * (CASE ch.unit = "mJ" -> 1000000 [] ch.unit = "nJ" -> 1 [] OTHER -> 1000),
     ms |-> IF IntervalMs <= 0 THEN 1000 ELSE IntervalMs]

\* The energy rows of printLive before they are cut: one for every channel with a
\* value.
EnergyRows(chs) ==
    LET used == Select(chs, LAMBDA ch : ch.value # 0)
    IN  [i \in 1..Len(used) |-> [name |-> used[i].name, watts |-> EnergyValueToWatts(used[i])]]

\* Seeded bug: the rows are cut without having been sorted.
Cuts_Unsorted(nj) == {1..Min({MaxRows, Len(nj)})}

\* The rows that are left of those with the energies nj when they are sorted, by
\* energy and then by name, and cut: which of equals comes first is left open.
Cuts(nj) ==
    {S \in SUBSET (1..Len(nj)) :
        /\ Cardinality(S) = Min({MaxRows, Len(nj)})
        /\ \A i \in S, j \in (1..Len(nj)) \ S : nj[j] <= nj[i]}

\* printClusterPower: a line for each ACT state of each channel that ran.
ClusterRows(chs) ==
    FlattenSeq([i \in 1..Len(Ran(chs)) |->
        LET ch == Ran(chs)[i]
            acts == Select(ch.states, LAMBDA s : s.name = "ACT")
        IN  [j \in 1..Len(acts) |-> [name |-> ch.name, pct |-> Percent(acts[j].res, ch)]]])

\* vminPct; a channel that did not run counts as all VMIN.
VminPct(ch) ==
    IF Total(ch) = 0 THEN [num |-> 100, den |-> 1] ELSE Percent(ResidencyOf(ch, "VMIN"), ch)

\* Seeded bug: the bars are drawn against the total.
Histogram_OfTotal(ch) ==
    LET shown == Select(ch.states, LAMBDA s : Rendered(ch, s.res))
    IN  [i \in 1..Len(shown) |->
            [name |-> shown[i].name, bar |-> (20 * shown[i].res) \div Total(ch)]]

\* The bars of printComputeUtilization for one channel that ran, of 20 cells.
Histogram(ch) ==
    LET most == Max({0} \union {ch.states[i].res : i \in 1..Len(ch.states)})
        shown == Select(ch.states, LAMBDA s : Rendered(ch, s.res))
    IN  [i \in 1..Len(shown) |->
            [name |-> shown[i].name,
             bar |-> IF most > 0 THEN (20 * shown[i].res) \div most ELSE 0]]

HasACT(ch) == \E i \in 1..Len(ch.states) : ch.states[i].name = "ACT" /\ ch.states[i].res > 0

\* printThrottleDetail: nothing, or a row for every channel that ran.
ThrottleDetailRows(chs) ==
    IF \E i \in 1..Len(chs) : HasACT(chs[i])
    THEN {Ran(chs)[i].name : i \in 1..Len(Ran(chs))} ELSE {}

\* What a theorem asks of a machine besides: no more states than there are shares
\* of half a percent, so that the longest of them is drawn.
FewStates == \A ch \in Channels : Len(ch.states) <= 200

-----------------------------------------------------------------------------
(***************************************************************************)
(* Properties.                                                             *)
(***************************************************************************)

\* The energy of the rows in A.
EnergyOf(nj, A) == SumOf([i \in 1..Len(nj) |-> IF i \in A THEN nj[i] ELSE 0])

\* The rows in A account for a power, of which only what the rows that were cut
\* have is not shown, each of them no more than any row that is shown.
AccountFor(nj, A, power) ==
    \A S \in Cuts(nj) :
        LET missing == power - EnergyOf(nj, A \intersect S)
            cut == A \ S
        IN  /\ missing >= 0
            /\ cut = {} => missing = 0
            /\ \A i \in S : missing <= Cardinality(cut) * nj[i]

\* The terminal's rows account for the powers in the heading: those of the ANE's
\* channels for ANE Power, the others for GPU Power, with two tables of units and
\* two filters, one cut for both (main.go:236-263, 347-363; types.go:193-230).
EnergyRowsAddUp ==
    LET rows == EnergyRows(InCategory(delta.Channels, "Energy"))
        nj == [i \in 1..Len(rows) |-> rows[i].watts.nj]
        ofANE == {i \in 1..Len(rows) : IsANEName(rows[i].name)}
    IN  /\ AccountFor(nj, ofANE, delta.PowerW.num)
        /\ AccountFor(nj, (1..Len(rows)) \ ofANE, delta.GPUPowerW.num)

Same(p, q) == p.num * q.den = q.num * p.den

\* A figure that the terminal computes for itself is the one that the library
\* computed: the cluster line, and what the voltage histories and the benchmark
\* metrics take for the active part of a channel (main.go:803-832, 903-916;
\* stats.go:86-109, 159-176; types.go:134-146).
TerminalAgrees ==
    LET cluster == ClusterRows(InCategory(delta.Channels, "ClusterPower"))
        volts == Select(InCategory(delta.Channels, "Voltage"),
                           LAMBDA ch : HasState(ch, "VMIN"))
        active(ch) == [num |-> 100 * VminPct(ch).den - VminPct(ch).num, den |-> VminPct(ch).den]
        best == ComputeVoltageActivePct(volts)
    IN  /\ Positive(stats.ClusterActivePct) =>
              cluster # <<>> /\ Same(Head(cluster).pct, stats.ClusterActivePct)
        /\ \A i \in 1..Len(volts) : ~Less(best, active(volts[i]))
        /\ Positive(best) => \E i \in 1..Len(volts) : Same(best, active(volts[i]))

\* The histogram fits its 20 cells, without which strings.Repeat panics, and the
\* bucket named as the peak in its heading is a full bar of the first channel
\* shown (main.go:420-445; stats.go:112-136).
PeakIsOnTop ==
    LET ce == Ran(InCategory(delta.Channels, "ComputeEn")) IN
    /\ \A i \in 1..Len(ce) : \A j \in 1..Len(Histogram(ce[i])) :
          Histogram(ce[i])[j].bar \in 0..20
    /\ ce # <<>> => \E j \in 1..Len(Histogram(ce[1])) :
          Histogram(ce[1])[j] = [name |-> stats.PeakCE.name, bar |-> 20]

\* What the library reports as a reason for throttling, the terminal shows: the
\* section is not hidden and the reason has a row (main.go:834-901;
\* stats.go:179-200).
ReasonsAreShown ==
    \A n \in DOMAIN stats.ThrottleReasons : Positive(stats.ThrottleReasons[n]) =>
        n \in ThrottleDetailRows(InCategory(delta.Channels, "ThrottleDetail"))
=============================================================================
