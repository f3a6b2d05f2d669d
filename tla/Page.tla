-------------------------------- MODULE Page --------------------------------
(***************************************************************************)
(* The figures of the browser page (cmd/aneperfweb/web/index.html), which  *)
(* it computes in JavaScript from the channels of a delta.  They are the   *)
(* third implementation of what the library (module Stats) and the         *)
(* terminal program (module Display) compute from the same channels.       *)
(*                                                                         *)
(* classifyChannels of the page is the switch of ClassifyChannels, and so  *)
(* InCategory stands for both; so do ANENames and GPUNames, for regular    *)
(* expressions that accept the same names.  What JavaScript's parseFloat   *)
(* makes of a bucket's name is PagePct.  Markup and the cuts of the other  *)
(* sections are not modelled.                                              *)
(***************************************************************************)
EXTENDS Display

CONSTANT PagePct(_)     \* the page's reading of the name of a bucket, in 1 / PctUnit

ASSUME PagePctAssumption ==
    \A ch \in Channels : \A i \in 1..Len(ch.states) : PagePct(ch.states[i].name) \in Int

\* computeActivePctFromCE: the first channel that ran.
PageCE(chs) ==
    LET run == FirstWith(chs, LAMBDA ch : Total(ch) > 0)
        weighted(s) == PagePct(s.name) * s.res
    IN  IF run = <<>> THEN Zero
        ELSE [num |-> SumOver(weighted, run[1].states), den |-> PctUnit * Total(run[1])]

\* Seeded bug: the first that ran decides instead of the highest.
PageVoltage_First(chs) ==
    LET run == FirstWith(chs, LAMBDA ch : HasState(ch, "VMIN") /\ Total(ch) > 0)
    IN  IF run = <<>> THEN Zero ELSE AboveVMIN(run[1])

\* computeActivePctFromVoltage: the highest of those that ran and have a VMIN.
PageVoltage(chs) ==
    LET run == Select(chs, LAMBDA ch : HasState(ch, "VMIN") /\ Total(ch) > 0)
    IN  Highest([i \in 1..Len(run) |-> [name |-> run[i].name, pct |-> AboveVMIN(run[i])]]).pct

PageActive(d) ==
    LET ce == PageCE(InCategory(d.Channels, "ComputeEn"))
    IN  IF ce.num = 0 THEN PageVoltage(InCategory(d.Channels, "Voltage")) ELSE ce

\* delta.gpu_active_pct, or computeGPUActivePct when it is 0 or absent.
PageGPUActive(d, s) ==
    LET busy(e) == IF e.name \in {"OFF", "IDLE", "DOWN"} THEN 0 ELSE e.res
        run == FirstWith(InCategory(d.Channels, "GPUStats"), LAMBDA ch : Total(ch) > 0)
    IN  IF Positive(s.GPUActivePct) THEN s.GPUActivePct
        ELSE IF run = <<>> THEN Zero ELSE Percent(SumOver(busy, run[1].states), run[1])

\* summarizeClusterPower: the first channel that ran, as a sequence of 0 or 1.
PageCluster(d) ==
    LET run == FirstWith(InCategory(d.Channels, "ClusterPower"), LAMBDA ch : Total(ch) > 0)
    IN  [i \in 1..Len(run) |-> Percent(ResidencyOf(run[i], "ACT"), run[i])]

IsANEEnergyChannel(name) == IsANEName(name)

IsGPUEnergyChannel(name) == name \in GPUNames

\* summarizeEnergyRows: the rows of the ANE's or the GPU's card before they are cut,
\* in nanojoules.
EnergyCard(d, gpu) ==
    LET mine(name) == IF gpu THEN IsGPUEnergyChannel(name) ELSE IsANEEnergyChannel(name)
        rows == Select(InCategory(d.Channels, "Energy"),
                          LAMBDA ch : mine(ch.name) /\ ch.value > 0)
    IN  [i \in 1..Len(rows) |->
            [name |-> rows[i].name,
             nj |-> rows[i].value * (CASE rows[i].unit = "mJ" -> 1000000
                                       [] rows[i].unit = "nJ" -> 1 [] OTHER -> 1000)]]

\* Seeded bug: the card waits for a performance state.
GPUCardShown_StatesOnly(d) == InCategory(d.Channels, "GPUStats") # <<>>

GPUCardShown(d) ==
    \/ InCategory(d.Channels, "GPUStats") # <<>>
    \/ Positive(d.GPUPowerW)
    \/ EnergyCard(d, TRUE) # <<>>

\* summarizeThrottleDetail, and the filter of ThrottleOverviewSection.
PageReasons(chs) ==
    LET acts == [i \in 1..Len(Ran(chs)) |->
                    [name |-> Ran(chs)[i].name,
                     pct |-> Percent(ResidencyOf(Ran(chs)[i], "ACT"), Ran(chs)[i])]]
    IN  Select(acts, LAMBDA r : Positive(r.pct))

\* What a theorem asks of a machine besides: that no name is both the ANE's and
\* the GPU's, that an energy channel is the ANE's by its name, and that the two
\* parsers read the buckets of the compute histogram alike.
EnergyNamesApart ==
    /\ ANENames \intersect GPUNames = {}
    /\ \A ch \in Channels : ch.group = "Energy Model" => ~IsANEName(ch.sub)
BucketsReadAlike ==
    \A ch \in Channels : ch.sub = "Fast-Die CE" =>
        \A i \in 1..Len(ch.states) : PagePct(ch.states[i].name) = BucketPct(ch.states[i].name)

-----------------------------------------------------------------------------
(* Properties.                                                             *)

\* The page and the terminal show one machine alike: the ANE and the GPU
\* activity, the state of the cluster and the reasons for throttling are those
\* of the library, for any channels in any order (index.html:204-249, 352-364,
\* 457-460, 830-849; stats.go:20-200).
PageAgrees ==
    LET cluster == PageCluster(delta)
        reasons == PageReasons(InCategory(delta.Channels, "ThrottleDetail"))
    IN  /\ Same(PageActive(delta), stats.ActivePct)
        /\ Same(PageGPUActive(delta, stats), stats.GPUActivePct)
        /\ IF cluster = <<>> THEN ~Positive(stats.ClusterActivePct)
           ELSE Same(cluster[1], stats.ClusterActivePct)
        /\ \A n \in DOMAIN stats.ThrottleReasons : Positive(stats.ThrottleReasons[n]) =>
              \E i \in 1..Len(reasons) :
                  reasons[i].name = n /\ Same(reasons[i].pct, stats.ThrottleReasons[n])

\* The rows of each card account for the power in its heading, though the page
\* sorts them out by name alone and shows no more than four, without a note of the
\* others (index.html:251-281, 461-462, 547, 666; ioreport.go:215-243;
\* types.go:195-230).
CardsAddUp ==
    LET nj(card) == [i \in 1..Len(card) |-> card[i].nj]
        accounts(card, power) == AccountFor(nj(card), 1..Len(card), power)
    IN  /\ accounts(EnergyCard(delta, FALSE), delta.PowerW.num)
        /\ accounts(EnergyCard(delta, TRUE), delta.GPUPowerW.num)

\* A GPU that worked has its card, whichever of its channels tell of it: the
\* states alone, the energy alone or both (index.html:469).
BusyGPUHasCard ==
    Positive(stats.GPUActivePct) \/ Positive(delta.GPUPowerW) => GPUCardShown(delta)

\* The rows on the terminal and the cards of the page account for the same
\* energy as the two powers of the library, for any mixture of units and names,
\* but for the rows that are cut, which are the smallest (main.go:236-263, 347-363;
\* index.html:251-281, 547, 666; types.go:193-230).
EnergyAddsUp == EnergyRowsAddUp /\ CardsAddUp

\* A figure that the terminal or the page computes again from the channels is
\* the one that the library computed from them, so that a user who looks at both
\* is not told two things, as long as both parsers read a bucket's name alike
\* (main.go:803-832, 903-916; index.html:204-249, 352-364; stats.go:20-200).
FiguresAgree == TerminalAgrees /\ PageAgrees

\* What the library reports is not hidden by a section's own condition for
\* being shown: no reason for throttling on the terminal, no GPU at work on the
\* page (main.go:834-901; index.html:469).
NothingHidden == ReasonsAreShown /\ BusyGPUHasCard
=============================================================================
