-------------------------------- MODULE Stats --------------------------------
(***************************************************************************)
(* From the raw channels of a sample to the figures the programs show:     *)
(* extractChannels, filterMonitoredChannels, ClassifyChannels,             *)
(* ComputeStats, the power and temperature of sampler.go, and              *)
(* Delta.ReportMetrics (ioreport.go, classify.go, stats.go, types.go).     *)
(*                                                                         *)
(* The variables curr and raw are the two slices that extractChannels      *)
(* makes in Stop, of the second sample and of the delta of the samples.    *)
(* Both grow by one channel a step, so that the invariants speak of every  *)
(* list of channels the machine may deliver, in every order.  What         *)
(* IOReportCreateSamplesDelta makes of a channel is its business: the      *)
(* channels come in pairs.  The other variables are what Stop,             *)
(* ComputeStats and ReportMetrics make of the slices.  A float64 is a      *)
(* fraction [num, den]; names are the strings of the instance, and what    *)
(* the code asks of a name (module Names has the algorithms) is asked of   *)
(* sets of strings and of BucketPct.                                       *)
(***************************************************************************)
EXTENDS Lists

CONSTANTS
    Readings,       \* the channels of this machine, as [now, diff]: in the second
                    \* sample, and in the delta of the two
    MaxChannels,    \* bound on their number
    DurationMs,     \* measured duration of the interval in milliseconds
    ANENames,       \* the names and subgroups that containsANE accepts
    GPUNames,       \* the names that start with GPU
    BucketPct(_),   \* parseFloat of the name of a histogram bucket, in
    PctUnit         \* parts of a percent

ASSUME MaxChannelsAssumption == MaxChannels \in Nat
ASSUME DurationAssumption == DurationMs \in Int

\* An int64 for a counter, and for each state the time spent in it, which a
\* machine does not take back.
Channel == [group : STRING, sub : STRING, name : STRING, unit : STRING,
            value : Int, states : Seq([name : STRING, res : Nat])]

ASSUME ReadingsAssumption == Readings \subseteq [now : Channel, diff : Channel]

\* The channels of a second sample, and those of a delta.
Sampled == {r.now : r \in Readings}
Channels == {r.diff : r \in Readings}

\* parseFloat is not negative, has no upper bound, and reads "0%" as it should.
ASSUME BucketAssumption ==
    /\ PctUnit \in Nat \ {0}
    /\ BucketPct("0%") = 0
    /\ \A ch \in Channels : \A i \in 1..Len(ch.states) : BucketPct(ch.states[i].name) \in Nat

\* What theorems ask of a machine besides: that a channel lists a state once, that
\* an energy counter does not run backwards between two samples, and that the
\* buckets of the compute histogram are named by percentages of no more than 100.
StatesNamedOnce ==
    \A ch \in Channels : \A i, j \in 1..Len(ch.states) :
        ch.states[i].name = ch.states[j].name => i = j
EnergyNotTakenBack ==
    \A ch \in Channels : ch.group = "Energy Model" => ch.value >= 0
BucketsArePercentages ==
    \A ch \in Channels : ch.sub = "Fast-Die CE" =>
        \A i \in 1..Len(ch.states) : BucketPct(ch.states[i].name) <= 100 * PctUnit

-----------------------------------------------------------------------------
(* Which channels are kept, and in which category they are put.            *)

\* containsANE, whose algorithm is in module Names.
IsANEName(s) == s \in ANENames

IsGPUChannel(ch) ==
    \/ ch.group = "GPU Stats" /\ (ch.sub = "GPU Performance States" \/ ch.name = "GPUPH")
    \/ ch.group = "Energy Model" /\ ch.name \in GPUNames

Monitored(chs) ==
    Select(chs, LAMBDA ch :
        IsANEName(ch.sub) \/ IsANEName(ch.name) \/ IsGPUChannel(ch))

\* The groups whose name starts with "PMP", the subgroups with "BW" and "PWRS".
PMPGroups  == {"PMP", "PMP1"}
PWRSGroups == {"PWRS0", "PWRS1"}

\* Seeded bug: the throttle counters are not told from the bandwidth channels.
Category_NoThrottle(ch) ==
    CASE ch.group = "Energy Model" -> "Energy"
      [] ch.group = "Interrupt Statistics (by index)" -> "Interrupt"
      [] ch.group = "GPU Stats" -> "GPUStats"
      [] ch.group \in PMPGroups ->
           IF ch.sub = "SOC Floor" THEN "Voltage"
           ELSE IF ch.sub = "Fast-Die CE" THEN "ComputeEn" ELSE "Bandwidth"
      [] OTHER -> "dropped"

Category(ch) ==
    CASE ch.group = "Energy Model" -> "Energy"
      [] ch.group = "Interrupt Statistics (by index)" -> "Interrupt"
      [] ch.group = "GPU Stats" -> "GPUStats"
      [] ch.group = "SoC Stats" ->
           CASE ch.sub = "Events" -> "ThrottleDetail"
             [] ch.sub = "Cluster Power States" -> "ClusterPower"
             [] OTHER -> "dropped"
      [] ch.group \in PMPGroups ->
           CASE ch.sub = "SOC Floor" -> "Voltage"
             [] ch.sub = "DCS Floor" -> "DCSFloor"
             [] ch.sub = "Fast-Die CE" -> "ComputeEn"
             [] ch.sub \in PWRSGroups -> "Throttle"
             [] OTHER -> "Bandwidth"
      [] OTHER -> "dropped"

InCategory(chs, cat) == Select(chs, LAMBDA ch : Category(ch) = cat)

-----------------------------------------------------------------------------
(* Residencies.                                                            *)

Total(ch) == SumOver(LAMBDA s : s.res, ch.states)

\* Seeded bug: a channel whose residencies are all zero is not passed over.
Running_AnyStates(chs) == FirstWith(chs, LAMBDA ch : ch.states # <<>>)

Running(chs) == FirstWith(chs, LAMBDA ch : Total(ch) > 0)

\* The residency of the last state called name, as the loops leave it.
ResidencyOf(ch, name) ==
    LET at == {i \in 1..Len(ch.states) : ch.states[i].name = name}
    IN  IF at = {} THEN 0 ELSE ch.states[Max(at)].res

HasState(ch, name) == \E i \in 1..Len(ch.states) : ch.states[i].name = name

Zero == [num |-> 0, den |-> 1]
Positive(q) == q.num > 0
Percent(part, ch) == [num |-> 100 * part, den |-> Total(ch)]

-----------------------------------------------------------------------------
(* ComputeStats.                                                           *)

\* The mean of the percentages that the buckets are named by.
ComputeActivePct(chs) ==
    LET run == Running(chs) IN
    IF run = <<>> THEN Zero
    ELSE [num |-> SumOver(LAMBDA s : BucketPct(s.name) * s.res, run[1].states),
          den |-> PctUnit * Total(run[1])]

\* Seeded bug: the last channel decides instead of the highest.
ComputeVoltageActivePct_Last(chs) ==
    FoldLeft(LAMBDA best, ch :
        IF HasState(ch, "VMIN") /\ Total(ch) > 0
        THEN Percent(Total(ch) - ResidencyOf(ch, "VMIN"), ch) ELSE best, Zero, chs)

AboveVMIN(ch) == Percent(Total(ch) - ResidencyOf(ch, "VMIN"), ch)

\* A channel that did not run or has no VMIN is passed over, as is one at 0%.
ComputeVoltageActivePct(chs) ==
    Highest([i \in 1..Len(chs) |->
        [name |-> chs[i].name,
         pct |-> IF HasState(chs[i], "VMIN") /\ Total(chs[i]) > 0
                   THEN AboveVMIN(chs[i]) ELSE Zero]]).pct

\* The bucket of the first channel that ran with most residency, first of equals.
PeakCEBucket(chs) ==
    LET run == FirstWith(chs, LAMBDA ch : Total(ch) # 0) IN
    IF run = <<>> THEN None
    ELSE Highest([i \in 1..Len(run[1].states) |->
             [name |-> run[1].states[i].name,
              pct |-> Percent(run[1].states[i].res, run[1])]])

ComputeClusterActivePct(chs) ==
    LET run == Running(chs) IN
    IF run = <<>> THEN Zero ELSE Percent(ResidencyOf(run[1], "ACT"), run[1])

\* Seeded bug: OFF counts as active.
ComputeGPUActivePct_OffIsActive(chs) ==
    LET run == Running(chs)
        active(s) == IF s.name \in {"IDLE", "DOWN"} THEN 0 ELSE s.res
    IN  IF run = <<>> THEN Zero ELSE Percent(SumOver(active, run[1].states), run[1])

ComputeGPUActivePct(chs) ==
    LET run == Running(chs)
        active(s) == IF s.name \in {"OFF", "IDLE", "DOWN"} THEN 0 ELSE s.res
    IN  IF run = <<>> THEN Zero ELSE Percent(SumOver(active, run[1].states), run[1])

\* A map from the channel's name: a later channel of the name replaces it.
ComputeThrottleReasons(chs) ==
    LET ran == Select(chs, LAMBDA ch : Total(ch) > 0)
        last(n) == Max({i \in 1..Len(ran) : ran[i].name = n})
    IN  [n \in {ran[i].name : i \in 1..Len(ran)} |->
            Percent(ResidencyOf(ran[last(n)], "ACT"), ran[last(n)])]

PositiveValue(ch) == IF ch.value > 0 THEN ch.value ELSE 0

ComputeStats(chs) ==
    LET ce == ComputeActivePct(InCategory(chs, "ComputeEn"))
        interrupts == SumOver(PositiveValue, InCategory(chs, "Interrupt"))
    IN [ActivePct |-> IF ce.num = 0
                        THEN ComputeVoltageActivePct(InCategory(chs, "Voltage")) ELSE ce,
        PeakCE |-> PeakCEBucket(InCategory(chs, "ComputeEn")),
        TotalInterrupts |-> interrupts,
        InterruptRate |-> IF DurationMs > 0 /\ interrupts > 0
                            THEN [num |-> 1000 * interrupts, den |-> DurationMs] ELSE Zero,
        TotalThrottles |-> SumOver(PositiveValue, InCategory(chs, "Throttle")),
        GPUActivePct |-> ComputeGPUActivePct(InCategory(chs, "GPUStats")),
        ClusterActivePct |-> ComputeClusterActivePct(InCategory(chs, "ClusterPower")),
        ThrottleReasons |-> ComputeThrottleReasons(InCategory(chs, "ThrottleDetail"))]

-----------------------------------------------------------------------------
(* Power and temperature.                                                  *)

NanoJoules(ch) ==
    ch.value * (CASE ch.unit = "mJ" -> 1000000 [] ch.unit = "nJ" -> 1 [] OTHER -> 1000)

\* energyToWatts, in nanojoules per millisecond; no duration counts as 1 ms.
Watts(nj) == [num |-> nj, den |-> IF DurationMs <= 0 THEN 1 ELSE DurationMs]

ComputeANEPower(chs) ==
    Watts(SumOver(NanoJoules, Select(chs, LAMBDA ch :
              ch.group = "Energy Model" /\ IsANEName(ch.name))))

ComputeGPUPower(chs) ==
    Watts(SumOver(NanoJoules, Select(chs, LAMBDA ch :
              ch.group = "Energy Model" /\ IsGPUChannel(ch))))

\* normalizeTemperature: a reading is in degrees, hundredths or thousandths.
Temperature(v) ==
    [num |-> v, den |-> IF v > 10000 THEN 1000 ELSE IF v > 1000 THEN 100 ELSE 1]

\* The sensors whose name ends in "Latest".
LatestNames == {"Die Latest"}

Plausible(ch) ==
    /\ ch.group = "GPU Stats" /\ ch.sub = "Temperature" /\ ch.name \in LatestNames
    /\ ch.value > 0
    /\ ~Less([num |-> 150, den |-> 1], Temperature(ch.value))

\* The mean of the plausible readings, in thousandths of a degree.
ComputeGPUTemp(chs) ==
    LET ok == Select(chs, Plausible)
        milli(ch) == (Temperature(ch.value).num * 1000) \div Temperature(ch.value).den
    IN  IF ok = <<>> THEN Zero ELSE [num |-> SumOver(milli, ok), den |-> Len(ok)]

\* Seeded bug: the temperature is computed from the channels of the delta.
Delta_TempOfDelta(second, chs) ==
    LET kept == Monitored(chs)
    IN [PowerW |-> ComputeANEPower(kept),
        GPUPowerW |-> ComputeGPUPower(kept),
        GPUTempC |-> ComputeGPUTemp(chs),
        Channels |-> kept]

\* What Stop returns for the channels of the second sample and of the delta.  The
\* temperature is a gauge: it is read from the sample, all channels of it.
Delta(second, chs) ==
    LET kept == Monitored(chs)
    IN [PowerW |-> ComputeANEPower(kept),
        GPUPowerW |-> ComputeGPUPower(kept),
        GPUTempC |-> ComputeGPUTemp(second),
        Channels |-> kept]

-----------------------------------------------------------------------------
(* ReportMetrics: the calls of b.ReportMetric, in order.                   *)

AllMetrics == {"Power", "Energy", "Compute", "Voltage", "Cluster", "Throttle",
               "Interrupt", "Duration"}

Metric(flag, unit, of, value) ==
    [flag |-> flag, unit |-> unit, of |-> of, value |-> value]

When(cond, m) == IF cond THEN <<m>> ELSE <<>>

Whole(n) == [num |-> n, den |-> 1]

\* The metrics of one channel.  A state is VMIN here only when it is written so
\* but for leading blanks.
ChannelMetrics(ch) ==
    CASE ch.group = "Energy Model" ->
           When(ch.value # 0 /\ IsANEName(ch.name),
                Metric("Energy", "ane-energy/op", ch.unit, Whole(ch.value)))
      [] ch.group = "Interrupt Statistics (by index)" ->
           When(ch.value > 0 /\ (IsANEName(ch.name) \/ Len(ch.name) > 20),
                Metric("Interrupt", "/op", ch.name, Whole(ch.value)))
      [] ch.group \in PMPGroups ->
           When(ch.sub = "SOC Floor" /\ Total(ch) > 0,
                Metric("Voltage", "-active-%", ch.name,
                       Percent(Total(ch) - ResidencyOf(ch, "VMIN"), ch)))
           \o When(ch.value > 0 /\ IsANEName(ch.name),
                   Metric("Throttle", "ane-throttle-events/op", NoName, Whole(ch.value)))
      [] OTHER -> <<>>

\* The interrupt channels whose name ends in "Count".
CountNames == {"ANE Interrupt Handler Count"}

Reports(d, s, mask) ==
    LET count(ch) == IF ch.name \in CountNames THEN PositiveValue(ch) ELSE 0
        interrupts == SumOver(count, InCategory(d.Channels, "Interrupt"))
        reasons == s.ThrottleReasons
        active == SetToSeq({n \in DOMAIN reasons : Positive(reasons[n])})
        all == <<Metric("Power", "ane-watts", NoName, d.PowerW),
                 Metric("Duration", "sample-ns/op", NoName, Whole(DurationMs))>>
            \o FlattenSeq([i \in 1..Len(d.Channels) |-> ChannelMetrics(d.Channels[i])])
            \o When(interrupts > 0,
                    Metric("Interrupt", "ane-interrupts/op", NoName, Whole(interrupts)))
            \o When(Positive(s.ActivePct),
                    Metric("Compute", "ane-compute-%", NoName, s.ActivePct))
            \o When(Positive(s.ClusterActivePct),
                    Metric("Cluster", "ane-cluster-active-%", NoName, s.ClusterActivePct))
            \o [i \in 1..Len(active) |->
                    Metric("Throttle", "ane-throttle-act-%", active[i], reasons[active[i]])]
    IN  Select(all, LAMBDA m : m.flag \in mask)

-----------------------------------------------------------------------------
(* The lists grow, and with them what is made of them.                     *)

VARIABLES
    curr,       \* extractChannels of the second sample
    raw,        \* extractChannels of the delta
    delta,      \* what Stop returns
    stats,      \* ComputeStats(delta)
    reports     \* the calls of delta.ReportMetrics(b, MetricAll)

vars == <<curr, raw, delta, stats, reports>>

\* The rest of Stop, ComputeStats and ReportMetrics on the channels of curr' and raw'.
Derive ==
    /\ delta' = Delta(curr', raw')
    /\ stats' = ComputeStats(delta'.Channels)
    /\ reports' = Reports(delta', stats', AllMetrics)

Init ==
    /\ curr = <<>> /\ raw = <<>>
    /\ delta = Delta(<<>>, <<>>)
    /\ stats = ComputeStats(<<>>)
    /\ reports = Reports(delta, stats, AllMetrics)

\* One turn of the loop over IOReportChannels, for each of the slices.
ExtractChannel(r) ==
    /\ Len(raw) < MaxChannels
    /\ curr' = Append(curr, r.now)
    /\ raw' = Append(raw, r.diff)
    /\ Derive

Next ==
    \/ \E r \in Readings : ExtractChannel(r)
    \/ Len(raw) = MaxChannels /\ UNCHANGED vars

Spec == Init /\ [][Next]_vars

-----------------------------------------------------------------------------
(***************************************************************************)
(* Properties.                                                             *)
(***************************************************************************)

Within(q) == q.den > 0 /\ 0 <= q.num /\ q.num <= 100 * q.den

\* Every percentage is one, on every list of channels: no 0/0 for a channel
\* that never ran or has no states, nothing over 100 if no bucket's name is
\* (stats.go:63-200).
PercentagesInRange ==
    /\ \A q \in {stats.ActivePct, stats.PeakCE.pct, stats.GPUActivePct,
               stats.ClusterActivePct} : Within(q)
    /\ \A n \in DOMAIN stats.ThrottleReasons : Within(stats.ThrottleReasons[n])
    /\ \A i \in 1..Len(reports) : reports[i].flag = "Voltage" => Within(reports[i].value)

\* The sums and the maximum are the same if IOReport lists the channels the other
\* way round (stats.go:35-50, 86-109; types.go:212-253).
SameReversed ==
    LET D2 == Delta(Reverse(curr), Reverse(raw))
        S2 == ComputeStats(D2.Channels)
        volts(d) == ComputeVoltageActivePct(InCategory(d.Channels, "Voltage"))
    IN  /\ delta.PowerW = D2.PowerW /\ delta.GPUPowerW = D2.GPUPowerW /\ delta.GPUTempC = D2.GPUTempC
        /\ stats.TotalInterrupts = S2.TotalInterrupts
        /\ stats.TotalThrottles = S2.TotalThrottles
        /\ ~Less(volts(delta), volts(D2)) /\ ~Less(volts(D2), volts(delta))

\* The temperature lies between the plausible readings of the second sample: not
\* of the delta, where a reading is the difference of two, and not of the channels
\* that are returned with it, which have none (sampler.go:61-62, 73;
\* types.go:232-253).
TemperatureFromSample ==
    LET ok == {i \in 1..Len(curr) : Plausible(curr[i])}
        milli(i) == (Temperature(curr[i].value).num * 1000) \div Temperature(curr[i].value).den
    IN  IF ok = {} THEN delta.GPUTempC = Zero
        ELSE /\ \E i \in ok : milli(i) * delta.GPUTempC.den <= delta.GPUTempC.num
             /\ \E i \in ok : delta.GPUTempC.num <= milli(i) * delta.GPUTempC.den

\* A machine at rest is shown at rest: with every channel in its idle state and
\* every counter at zero, neither the GPU's active residency nor a reported
\* metric other than the duration is above zero (stats.go:63-200).
IdleState(cat, n) ==
    CASE cat = "Voltage" -> n = "VMIN"
      [] cat = "ComputeEn" -> n = "0%"
      [] cat = "GPUStats" -> n \in {"OFF", "IDLE", "DOWN"}
      [] cat \in {"ClusterPower", "ThrottleDetail"} -> n # "ACT"
      [] OTHER -> TRUE
Idle(ch) ==
    /\ Category(ch) # "GPUStats" => ch.value = 0
    /\ \A i \in 1..Len(ch.states) :
          ch.states[i].res > 0 => IdleState(Category(ch), ch.states[i].name)

IdleShowsIdle ==
    (\A i \in 1..Len(raw) : Idle(raw[i])) =>
        /\ stats.GPUActivePct.num = 0
        /\ \A i \in 1..Len(reports) :
              reports[i].unit = "sample-ns/op" \/ reports[i].value.num = 0

\* Work is not missed: ANE energy, a throttle event, an interrupt or residency
\* above VMIN on any one channel of the delta is above zero in the figure that
\* stands for it, whatever the other channels are (stats.go:25-50, classify.go).
BusyIsSeen ==
    \A i \in 1..Len(delta.Channels) : LET ch == delta.Channels[i] IN
        /\ (ch.group = "Energy Model" /\ IsANEName(ch.name) /\ ch.value > 0) => delta.PowerW.num > 0
        /\ (ch.group \in PMPGroups /\ ch.sub \in PWRSGroups /\ ch.value > 0) => stats.TotalThrottles > 0
        /\ (ch.group = "Interrupt Statistics (by index)" /\ ch.value > 0) => stats.TotalInterrupts > 0
        /\ (ch.group \in PMPGroups /\ ch.sub = "SOC Floor" /\ HasState(ch, "VMIN")
               /\ Total(ch) > ResidencyOf(ch, "VMIN")) => stats.ActivePct.num > 0

\* stats.go:13 says of InterruptRate "interrupts/sec": nothing but the handler
\* counts goes into it (doc.go:75-78 tells counts from times).
RateCountsInterrupts ==
    LET counted(ch) == IF ch.name \in CountNames THEN PositiveValue(ch) ELSE 0
    IN  stats.TotalInterrupts = SumOver(counted, InCategory(delta.Channels, "Interrupt"))
=============================================================================
