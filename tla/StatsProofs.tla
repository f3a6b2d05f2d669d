------------------------------ MODULE StatsProofs ------------------------------
(***************************************************************************)
(* The figures of the library, the terminal and the page, for every list   *)
(* of channels, of any length, made of any set of channels.                *)
(*                                                                         *)
(* A step only adds a channel and derives the figures anew, so that the    *)
(* inductive invariant says no more than which list each of them is made   *)
(* of.  The work is in the lemmas: what the loops over a list of channels  *)
(* or states return, for every such list.                                  *)
(*                                                                         *)
(* The last part is about the name algorithms, for names of any length.    *)
(***************************************************************************)
EXTENDS Page, Names, FoldLemmas, TLAPS

State == [name : STRING, res : Nat]

\* What is assumed of the readings, of the channels of a delta and of a sample.
LEMMA ChannelsAssumption ==
    Channels \subseteq [group : STRING, sub : STRING, name : STRING, unit : STRING,
                        value : Int, states : Seq([name : STRING, res : Nat])]
BY ReadingsAssumption DEF Channels, Channel

LEMMA SampledValues == \A ch \in Sampled : ch.value \in Int
<1>1. \A r \in Readings : r.now \in Channel  BY ReadingsAssumption
<1>2. \A ch \in Channel : ch.value \in Int  BY DEF Channel
<1> QED  BY <1>1, <1>2 DEF Sampled

-----------------------------------------------------------------------------
(* Residencies.                                                            *)

Res(ch) == [i \in 1..Len(ch.states) |-> ch.states[i].res]

LEMMA StatesOf ==
    ASSUME NEW ch \in Channels
    PROVE  /\ ch.states \in Seq(State)
           /\ Len(ch.states) \in Nat
           /\ \A i \in 1..Len(ch.states) :
                ch.states[i] \in State /\ ch.states[i].res \in Nat /\ ch.states[i].name \in STRING
           /\ Res(ch) \in Seq(Int)
           /\ Len(Res(ch)) = Len(ch.states)
           /\ Total(ch) = SumOf(Res(ch))
<1>1. ch.states \in Seq(State)  BY ChannelsAssumption DEF State
<1>2. \A i \in 1..Len(ch.states) : ch.states[i] \in State  BY <1>1
<1>3. \A i \in 1..Len(ch.states) :
         ch.states[i].res \in Nat /\ ch.states[i].name \in STRING
  BY <1>2 DEF State
<1>4. Res(ch) \in Seq(Int) /\ Len(Res(ch)) = Len(ch.states)  BY <1>1, <1>3 DEF Res
<1>5. Total(ch) = SumOf(Res(ch))  BY DEF Total, SumOver, Res
<1> QED  BY <1>1, <1>2, <1>3, <1>4, <1>5

\* No state has more than all of the time.
LEMMA TotalBounds ==
    ASSUME NEW ch \in Channels
    PROVE  /\ Total(ch) \in Nat
           /\ \A i \in 1..Len(ch.states) : ch.states[i].res <= Total(ch)
<1>1. Res(ch) \in Seq(Int) /\ Len(Res(ch)) = Len(ch.states) /\ Total(ch) = SumOf(Res(ch))
  BY StatesOf
<1>2. ASSUME NEW i \in 1..Len(ch.states)
      PROVE  Res(ch)[i] = ch.states[i].res /\ Res(ch)[i] >= 0
  <2>1. ch.states[i].res \in Nat  BY StatesOf
  <2>2. Res(ch)[i] = ch.states[i].res  BY DEF Res
  <2> QED  BY <2>1, <2>2
<1>3. Total(ch) >= 0 /\ \A i \in 1..Len(ch.states) : Res(ch)[i] <= Total(ch)
  BY <1>1, <1>2, SumOfNats
<1>4. Total(ch) \in Int  BY <1>1, SumIsInt
<1> QED  BY <1>2, <1>3, <1>4

\* The residency under a name is that of a state of the name, or 0.
LEMMA ResidencyBounds ==
    ASSUME NEW ch \in Channels, NEW name
    PROVE  /\ ResidencyOf(ch, name) \in Nat
           /\ ResidencyOf(ch, name) <= Total(ch)
           /\ \/ ResidencyOf(ch, name) = 0 /\ ~HasState(ch, name)
              \/ \E i \in 1..Len(ch.states) :
                    ch.states[i].name = name /\ ResidencyOf(ch, name) = ch.states[i].res
<1> DEFINE at == {i \in 1..Len(ch.states) : ch.states[i].name = name}
<1>1. Len(ch.states) \in Nat /\ at \in SUBSET (1..Len(ch.states))  BY StatesOf
<1>2. CASE at = {}
  <2>1. ResidencyOf(ch, name) = 0  BY <1>2 DEF ResidencyOf
  <2>2. ~HasState(ch, name)  BY <1>2 DEF HasState
  <2> QED  BY <2>1, <2>2, TotalBounds
<1>3. CASE at # {}
  <2>1. Max(at) \in at
    <3> HIDE DEF at
    <3> QED  BY <1>1, <1>3, MaxIsGreatest
  <2>2. ResidencyOf(ch, name) = ch.states[Max(at)].res  BY <1>3 DEF ResidencyOf
  <2>3. PICK i \in at : ResidencyOf(ch, name) = ch.states[i].res  BY <2>1, <2>2
  <2>4. i \in 1..Len(ch.states) /\ ch.states[i].name = name  OBVIOUS
  <2> QED  BY <2>3, <2>4, StatesOf, TotalBounds
<1> QED  BY <1>2, <1>3

\* A share of each state's residency adds up to a share of the total.
LEMMA WeightedBounds ==
    ASSUME NEW ch \in Channels, NEW c \in Nat, NEW w \in [1..Len(ch.states) -> Int],
           \A i \in 1..Len(ch.states) : 0 <= w[i] /\ w[i] <= c * ch.states[i].res
    PROVE  /\ SumOf(w) \in Int
           /\ 0 <= SumOf(w)
           /\ SumOf(w) <= c * Total(ch)
<1>1. /\ Res(ch) \in Seq(Int) /\ Len(Res(ch)) = Len(ch.states) /\ Total(ch) = SumOf(Res(ch))
      /\ Len(ch.states) \in Nat
  BY StatesOf
<1>2. w \in Seq(Int) /\ Len(w) = Len(ch.states)
  <2> DEFINE n == Len(ch.states)
  <2>1. n \in Nat /\ w \in [1..n -> Int]  BY <1>1
  <2> HIDE DEF n
  <2>2. w \in Seq(Int) /\ Len(w) = n  BY <2>1
  <2> QED  BY <2>2 DEF n
<1>3. \A i \in 1..Len(w) : w[i] <= c * Res(ch)[i]  BY <1>2 DEF Res
<1>4. SumOf(w) <= c * SumOf(Res(ch))
  BY <1>1, <1>2, <1>3, SumLeq
<1>5. SumOf(w) >= 0  BY <1>2, SumOfNats
<1> QED  BY <1>1, <1>2, <1>4, <1>5, SumIsInt

\* The first channel that ran, if any did.
LEMMA FirstRan ==
    ASSUME NEW chs \in Seq(Channels)
    PROVE  /\ FirstWith(chs, LAMBDA ch : Total(ch) # 0) = Running(chs)
           /\ \/ Running(chs) = <<>> /\ \A i \in 1..Len(chs) : Total(chs[i]) = 0
              \/ \E ch \in Channels :
                    /\ Running(chs) = <<ch>> /\ Total(ch) > 0
                    /\ \E i \in 1..Len(chs) : chs[i] = ch
<1> DEFINE n == Len(chs)
           at == {i \in 1..n : Total(chs[i]) > 0}
<1>1. n \in Nat /\ \A i \in 1..n : chs[i] \in Channels  OBVIOUS
<1>2. \A i \in 1..n : Total(chs[i]) \in Nat  BY <1>1, TotalBounds
<1>3. at = {i \in 1..n : Total(chs[i]) # 0}  BY <1>2
<1>4. Running(chs) = IF at = {} THEN <<>> ELSE <<chs[Min(at)]>>  BY DEF Running, FirstWith
<1>5. FirstWith(chs, LAMBDA ch : Total(ch) # 0) = IF at = {} THEN <<>> ELSE <<chs[Min(at)]>>
  BY <1>3 DEF FirstWith
<1>6. CASE at = {}
  <2>1. \A i \in 1..n : Total(chs[i]) = 0  BY <1>6, <1>2
  <2> QED  BY <2>1, <1>6, <1>4, <1>5
<1>7. CASE at # {}
  <2>1. Min(at) \in at
    <3>1. at \in SUBSET (1..n)  OBVIOUS
    <3> HIDE DEF at, n
    <3> QED  BY <3>1, <1>1, <1>7, MinIsLeast
  <2>2. Min(at) \in 1..n /\ Total(chs[Min(at)]) > 0  BY <2>1
  <2> QED  BY <2>2, <1>1, <1>7, <1>4, <1>5
<1> QED  BY <1>6, <1>7

LEMMA CategoryOf ==
    ASSUME NEW chs \in Seq(Channels), NEW cat
    PROVE  /\ InCategory(chs, cat) \in Seq(Channels)
           /\ \A j \in 1..Len(InCategory(chs, cat)) :
                /\ InCategory(chs, cat)[j] \in Channels
                /\ Category(InCategory(chs, cat)[j]) = cat
                /\ \E i \in 1..Len(chs) : chs[i] = InCategory(chs, cat)[j]
           /\ \A i \in 1..Len(chs) : Category(chs[i]) = cat =>
                \E j \in 1..Len(InCategory(chs, cat)) : InCategory(chs, cat)[j] = chs[i]
<1> DEFINE A == {x \in ToSet(chs) : Category(x) = cat}
<1>1. InCategory(chs, cat) = Keep(chs, A)  BY DEF InCategory, Select
<1>2. \A i \in 1..Len(chs) : chs[i] \in A <=> Category(chs[i]) = cat  BY DEF ToSet
<1>3. \A x \in A : Category(x) = cat  OBVIOUS
<1> HIDE DEF A
<1>4. /\ Keep(chs, A) \in Seq(Channels)
      /\ \A j \in 1..Len(Keep(chs, A)) :
            Keep(chs, A)[j] \in A /\ \E i \in 1..Len(chs) : chs[i] = Keep(chs, A)[j]
      /\ \A i \in 1..Len(chs) :
            chs[i] \in A => \E j \in 1..Len(Keep(chs, A)) : Keep(chs, A)[j] = chs[i]
  <2>1. KeptOnly(Keep(chs, A), Channels, chs, A)  BY KeepOnly
  <2> QED  BY <2>1 DEF KeptOnly
<1>5. \A j \in 1..Len(Keep(chs, A)) : Keep(chs, A)[j] \in Channels  BY <1>4
<1> QED  BY <1>1, <1>2, <1>3, <1>4, <1>5

Kept(ch) == IsANEName(ch.sub) \/ IsANEName(ch.name) \/ IsGPUChannel(ch)

LEMMA MonitoredOf ==
    ASSUME NEW chs \in Seq(Channels)
    PROVE  /\ Monitored(chs) \in Seq(Channels)
           /\ \A j \in 1..Len(Monitored(chs)) :
                Kept(Monitored(chs)[j]) /\ \E i \in 1..Len(chs) : chs[i] = Monitored(chs)[j]
           /\ \A i \in 1..Len(chs) :
                Kept(chs[i]) => \E j \in 1..Len(Monitored(chs)) : Monitored(chs)[j] = chs[i]
<1> DEFINE A == {ch \in ToSet(chs) : Kept(ch)}
<1>1. Monitored(chs) = Keep(chs, A)  BY DEF Monitored, Select, Kept
<1>2. \A i \in 1..Len(chs) : chs[i] \in A <=> Kept(chs[i])  BY DEF ToSet
<1>3. \A x \in A : Kept(x)  OBVIOUS
<1> HIDE DEF A
<1> QED  BY <1>1, <1>2, <1>3, KeepElements

-----------------------------------------------------------------------------
(* Every percentage is one.                                                *)

LEMMA ZeroWithin == Within(Zero) /\ Within(None.pct) /\ Zero \in Fraction /\ None \in Figure
BY DEF Within, Zero, None, Fraction, Figure

LEMMA PercentWithin ==
    ASSUME NEW ch \in Channels, Total(ch) > 0, NEW part \in 0..Total(ch)
    PROVE  Within(Percent(part, ch)) /\ Percent(part, ch) \in Fraction
<1>1. Total(ch) \in Nat  BY TotalBounds
<1> QED  BY <1>1 DEF Within, Percent, Fraction

\* The weights of the buckets of a channel, and their mean.
Weights(ch) == [i \in 1..Len(ch.states) |-> BucketPct(ch.states[i].name) * ch.states[i].res]
BucketMean(ch) == [num |-> SumOf(Weights(ch)), den |-> PctUnit * Total(ch)]

LEMMA BucketMeanOf ==
    ASSUME NEW ch \in Channels, Total(ch) > 0
    PROVE  /\ BucketMean(ch) \in Fraction /\ BucketMean(ch).num >= 0
           /\ (\A i \in 1..Len(ch.states) : BucketPct(ch.states[i].name) <= 100 * PctUnit)
                => Within(BucketMean(ch))
<1> DEFINE n == Len(ch.states)
           w == Weights(ch)
           t == Total(ch)
           c == 100 * PctUnit
<1>1. n \in Nat /\ \A i \in 1..n : ch.states[i].res \in Nat  BY StatesOf
<1>2. \A i \in 1..n : BucketPct(ch.states[i].name) \in Nat  BY BucketAssumption
<1>3. t \in Nat /\ t > 0 /\ PctUnit \in Nat /\ PctUnit > 0 /\ c \in Nat
  BY TotalBounds, BucketAssumption
<1>4. w = [i \in 1..n |-> BucketPct(ch.states[i].name) * ch.states[i].res]  BY DEF Weights
<1>5. ASSUME NEW i \in 1..n PROVE w[i] \in Int /\ w[i] >= 0
  <2>1. w[i] = BucketPct(ch.states[i].name) * ch.states[i].res  BY <1>4
  <2> HIDE DEF w
  <2> QED  BY <2>1, <1>1, <1>2
<1>6. PctUnit * t \in Nat /\ PctUnit * t > 0
  <2>1. PctUnit \in Nat /\ PctUnit > 0 /\ t \in Nat /\ t > 0  BY <1>3
  <2> HIDE DEF t
  <2> QED  BY <2>1
<1>7. w \in [1..n -> Int]  BY <1>4, <1>5
<1>8. SumOf(w) \in Int /\ SumOf(w) >= 0
  <2> HIDE DEF n, w
  <2>1. w \in Seq(Int) /\ Len(w) = n  BY <1>1, <1>7
  <2> QED  BY <2>1, <1>5, SumIsInt, SumOfNats
<1>9. BucketMean(ch) = [num |-> SumOf(w), den |-> PctUnit * t]  BY DEF BucketMean
<1>10. ASSUME \A i \in 1..n : BucketPct(ch.states[i].name) <= c
       PROVE  Within(BucketMean(ch))
  <2>1. ASSUME NEW i \in 1..n PROVE 0 <= w[i] /\ w[i] <= c * ch.states[i].res
    <3> DEFINE b == BucketPct(ch.states[i].name)
               r == ch.states[i].res
    <3>1. b \in Nat /\ r \in Nat /\ b <= c /\ c \in Nat /\ w[i] = b * r
      BY <1>1, <1>2, <1>3, <1>4, <1>10
    <3> HIDE DEF b, r, c, w
    <3>2. b * r <= c * r  BY <3>1
    <3> QED  BY <3>1, <3>2, <1>5 DEF r
  <2> HIDE DEF w, c
  <2>2. SumOf(w) <= c * t  BY <1>3, <1>7, <2>1, WeightedBounds
  <2>3. c * t = 100 * (PctUnit * t)  BY <1>3 DEF c
  <2> HIDE DEF t
  <2>4. SumOf(w) <= 100 * (PctUnit * t)  BY <2>2, <2>3
  <2> QED  BY <2>4, <1>6, <1>8, <1>9 DEF Within
<1> HIDE DEF w, t, n, c
<1>11. BucketMean(ch) \in Fraction /\ BucketMean(ch).num >= 0  BY <1>6, <1>8, <1>9 DEF Fraction
<1> QED  BY <1>10, <1>11 DEF n, c

LEMMA ComputeActiveIs ==
    ASSUME NEW chs \in Seq(Channels)
    PROVE  /\ ComputeActivePct(chs) \in Fraction /\ ComputeActivePct(chs).num >= 0
           /\ Running(chs) = <<>> => ComputeActivePct(chs) = Zero
           /\ \A ch \in Channels : Running(chs) = <<ch>> => ComputeActivePct(chs) = BucketMean(ch)
<1>1. ASSUME Running(chs) = <<>> PROVE ComputeActivePct(chs) = Zero
  BY Zenon, <1>1 DEF ComputeActivePct
<1>2. ASSUME NEW ch \in Channels, Running(chs) = <<ch>>
      PROVE  ComputeActivePct(chs) = BucketMean(ch)
  BY <1>2 DEF ComputeActivePct, SumOver, BucketMean, Weights
<1>3. Zero.num >= 0  BY DEF Zero
<1> QED  BY <1>1, <1>2, <1>3, FirstRan, BucketMeanOf, ZeroWithin

\* Of buckets that are named by percentages the mean is one.
LEMMA ComputeActiveWithin ==
    ASSUME NEW chs \in Seq(Channels), BucketsArePercentages,
           \A i \in 1..Len(chs) : Category(chs[i]) = "ComputeEn"
    PROVE  Within(ComputeActivePct(chs))
<1>1. CASE Running(chs) = <<>>
  BY <1>1, ComputeActiveIs, ZeroWithin
<1>2. ASSUME NEW ch \in Channels, Running(chs) = <<ch>>, Total(ch) > 0,
             NEW i \in 1..Len(chs), chs[i] = ch
      PROVE  Within(ComputeActivePct(chs))
  <2>1. Category(ch) = "ComputeEn"  BY <1>2
  <2>2. ch.sub = "Fast-Die CE"  BY <2>1 DEF Category
  <2>3. \A k \in 1..Len(ch.states) : BucketPct(ch.states[k].name) <= 100 * PctUnit
    BY <2>2 DEF BucketsArePercentages
  <2>4. ComputeActivePct(chs) = BucketMean(ch)  BY <1>2, ComputeActiveIs
  <2> QED  BY <2>3, <2>4, <1>2, BucketMeanOf
<1> QED  BY <1>1, <1>2, FirstRan

\* What is not idle adds up to no more than everything.
LEMMA GPUActiveWithin ==
    ASSUME NEW chs \in Seq(Channels)
    PROVE  Within(ComputeGPUActivePct(chs))
<1>1. CASE Running(chs) = <<>>
  <2>1. ComputeGPUActivePct(chs) = Zero  BY Zenon, <1>1 DEF ComputeGPUActivePct
  <2> QED  BY <2>1, ZeroWithin
<1>2. ASSUME NEW ch \in Channels, Running(chs) = <<ch>>, Total(ch) > 0
      PROVE  Within(ComputeGPUActivePct(chs))
  <2> DEFINE w == [i \in 1..Len(ch.states) |->
                      IF ch.states[i].name \in {"OFF", "IDLE", "DOWN"} THEN 0 ELSE ch.states[i].res]
  <2>1. ComputeGPUActivePct(chs) = Percent(SumOf(w), ch)
    BY <1>2 DEF ComputeGPUActivePct, SumOver
  <2>2. ASSUME NEW i \in 1..Len(ch.states)
        PROVE  w[i] \in Int /\ 0 <= w[i] /\ w[i] <= 1 * ch.states[i].res
    <3>2. ch.states[i].res \in Nat  BY StatesOf
    <3> QED  BY <3>2
  <2>3. w \in [1..Len(ch.states) -> Int]  BY <2>2
  <2> HIDE DEF w
  <2>4. SumOf(w) \in Int /\ 0 <= SumOf(w) /\ SumOf(w) <= 1 * Total(ch)
    BY <2>2, <2>3, WeightedBounds
  <2>5. SumOf(w) \in 0..Total(ch)  BY <2>4, TotalBounds
  <2> QED  BY <2>1, <2>5, <1>2, PercentWithin
<1> QED  BY <1>1, <1>2, FirstRan

LEMMA ClusterActiveWithin ==
    ASSUME NEW chs \in Seq(Channels)
    PROVE  Within(ComputeClusterActivePct(chs))
<1>1. CASE Running(chs) = <<>>
  BY <1>1 DEF ComputeClusterActivePct, Within, Zero
<1>2. ASSUME NEW ch \in Channels, Running(chs) = <<ch>>, Total(ch) > 0
      PROVE  Within(ComputeClusterActivePct(chs))
  <2>1. ComputeClusterActivePct(chs) = Percent(ResidencyOf(ch, "ACT"), ch)
    BY <1>2 DEF ComputeClusterActivePct
  <2>2. ResidencyOf(ch, "ACT") \in 0..Total(ch)  BY ResidencyBounds, TotalBounds
  <2> QED  BY <2>1, <2>2, <1>2, PercentWithin
<1> QED  BY <1>1, <1>2, FirstRan

\* The highest of percentages is one.
LEMMA HighestWithin ==
    ASSUME NEW figures \in Seq(Figure), \A i \in 1..Len(figures) : Within(figures[i].pct)
    PROVE  Within(Highest(figures).pct)
BY HighestIsHighest, ZeroWithin

LEMMA AboveVMINWithin ==
    ASSUME NEW ch \in Channels, Total(ch) > 0
    PROVE  Within(AboveVMIN(ch)) /\ AboveVMIN(ch) \in Fraction
<1>1. Total(ch) - ResidencyOf(ch, "VMIN") \in 0..Total(ch)  BY ResidencyBounds, TotalBounds
<1> QED  BY <1>1, PercentWithin DEF AboveVMIN

\* What the loop over the voltage channels compares.
VoltageFigures(chs) ==
    [i \in 1..Len(chs) |->
        [name |-> chs[i].name,
         pct |-> IF HasState(chs[i], "VMIN") /\ Total(chs[i]) > 0
                   THEN AboveVMIN(chs[i]) ELSE Zero]]

LEMMA VoltageFiguresOf ==
    ASSUME NEW chs \in Seq(Channels)
    PROVE  /\ VoltageFigures(chs) \in Seq(Figure)
           /\ Len(VoltageFigures(chs)) = Len(chs)
           /\ \A i \in 1..Len(chs) : Within(VoltageFigures(chs)[i].pct)
           /\ ComputeVoltageActivePct(chs) = Highest(VoltageFigures(chs)).pct
<1> DEFINE fig(ch) == [name |-> ch.name,
                       pct |-> IF HasState(ch, "VMIN") /\ Total(ch) > 0
                                 THEN AboveVMIN(ch) ELSE Zero]
<1>1. ASSUME NEW ch \in Channels
      PROVE  fig(ch) \in Figure /\ Within(fig(ch).pct)
  <2>1. fig(ch).pct \in Fraction /\ Within(fig(ch).pct)
    BY AboveVMINWithin, ZeroWithin
  <2>2. ch.name \in STRING  BY ChannelsAssumption
  <2> QED  BY <2>1, <2>2 DEF Figure
<1>2. Len(chs) \in Nat /\ \A i \in 1..Len(chs) : chs[i] \in Channels  OBVIOUS
<1>3. VoltageFigures(chs) = [i \in 1..Len(chs) |-> fig(chs[i])]  BY DEF VoltageFigures
<1>4. ComputeVoltageActivePct(chs) = Highest(VoltageFigures(chs)).pct
  BY DEF ComputeVoltageActivePct, VoltageFigures
<1> HIDE DEF fig
<1>5. \A i \in 1..Len(chs) : fig(chs[i]) \in Figure /\ Within(fig(chs[i]).pct)  BY <1>1, <1>2
<1> QED  BY <1>2, <1>3, <1>4, <1>5

LEMMA VoltageActiveWithin ==
    ASSUME NEW chs \in Seq(Channels)
    PROVE  Within(ComputeVoltageActivePct(chs))
BY VoltageFiguresOf, HighestWithin

\* The buckets of a channel that ran.
Buckets(ch) == [i \in 1..Len(ch.states) |->
                   [name |-> ch.states[i].name, pct |-> Percent(ch.states[i].res, ch)]]

LEMMA BucketsOf ==
    ASSUME NEW ch \in Channels, Total(ch) > 0
    PROVE  /\ Buckets(ch) \in Seq(Figure)
           /\ Len(Buckets(ch)) = Len(ch.states)
           /\ \A i \in 1..Len(ch.states) :
                Within(Buckets(ch)[i].pct) /\ Buckets(ch)[i].pct = Percent(ch.states[i].res, ch)
<1> DEFINE fig(i) == [name |-> ch.states[i].name, pct |-> Percent(ch.states[i].res, ch)]
<1>1. ASSUME NEW i \in 1..Len(ch.states)
      PROVE  fig(i) \in Figure /\ Within(fig(i).pct) /\ fig(i).pct = Percent(ch.states[i].res, ch)
  <2>1. ch.states[i].res \in 0..Total(ch) /\ ch.states[i].name \in STRING
    BY StatesOf, TotalBounds
  <2>2. Percent(ch.states[i].res, ch) \in Fraction /\ Within(Percent(ch.states[i].res, ch))
    BY <2>1, PercentWithin
  <2> QED  BY <2>1, <2>2 DEF Figure
<1>2. Len(ch.states) \in Nat  BY StatesOf
<1>3. Buckets(ch) = [i \in 1..Len(ch.states) |-> fig(i)]  BY DEF Buckets
<1> HIDE DEF fig
<1> QED  BY <1>1, <1>2, <1>3

LEMMA PeakOf ==
    ASSUME NEW chs \in Seq(Channels)
    PROVE  \/ Running(chs) = <<>> /\ PeakCEBucket(chs) = None
           \/ \E ch \in Channels :
                /\ Running(chs) = <<ch>> /\ Total(ch) > 0
                /\ PeakCEBucket(chs) = Highest(Buckets(ch))
<1>1. FirstWith(chs, LAMBDA ch : Total(ch) # 0) = Running(chs)  BY FirstRan
<1>2. PeakCEBucket(chs) = IF Running(chs) = <<>> THEN None ELSE Highest(Buckets(Running(chs)[1]))
  BY <1>1 DEF PeakCEBucket, Buckets
<1>3. \A ch : <<ch>> # <<>> /\ <<ch>>[1] = ch  OBVIOUS
<1>4. \A ch : Running(chs) = <<ch>> => PeakCEBucket(chs) = Highest(Buckets(ch))  BY <1>2, <1>3
<1>5. Running(chs) = <<>> => PeakCEBucket(chs) = None  BY <1>2
<1> QED  BY <1>4, <1>5, FirstRan

LEMMA PeakWithin ==
    ASSUME NEW chs \in Seq(Channels)
    PROVE  Within(PeakCEBucket(chs).pct)
BY PeakOf, BucketsOf, HighestWithin, ZeroWithin

\* A reason stands for a channel that ran.
LEMMA ReasonsOf ==
    ASSUME NEW chs \in Seq(Channels)
    PROVE  /\ IsFiniteSet(DOMAIN ComputeThrottleReasons(chs))
           /\ \A n \in DOMAIN ComputeThrottleReasons(chs) : \E ch \in Channels :
                /\ Total(ch) > 0 /\ ch.name = n
                /\ \E i \in 1..Len(chs) : chs[i] = ch
                /\ ComputeThrottleReasons(chs)[n] = Percent(ResidencyOf(ch, "ACT"), ch)
<1> DEFINE A == {ch \in ToSet(chs) : Total(ch) > 0}
           ran == Keep(chs, A)
           m == Len(ran)
           named(n) == {i \in 1..m : ran[i].name = n}
           R == ComputeThrottleReasons(chs)
<1>1. R = [n \in {ran[i].name : i \in 1..m} |->
              Percent(ResidencyOf(ran[Max(named(n))], "ACT"), ran[Max(named(n))])]
  BY DEF ComputeThrottleReasons, Select
<1>2. \A x \in A : Total(x) > 0  OBVIOUS
<1> HIDE DEF A
<1>3. /\ ran \in Seq(Channels)
      /\ \A j \in 1..m : ran[j] \in A /\ \E i \in 1..Len(chs) : chs[i] = ran[j]
  BY KeepElements
<1> HIDE DEF ran
<1>4. m \in Nat /\ \A j \in 1..m : ran[j] \in Channels  BY <1>3
<1> HIDE DEF m, R
<1>5. IsFiniteSet(DOMAIN R)
  <2>1. IsFiniteSet(1..m)  BY <1>4, FS_Interval
  <2> DEFINE names == {ran[i].name : i \in 1..m}
             f == [i \in 1..m |-> ran[i].name]
  <2>2. f \in Surjection(1..m, names)  BY DEF Surjection
  <2>3. IsFiniteSet(names)
    <3> HIDE DEF f, names
    <3> QED  BY <2>1, <2>2, FS_Surjection
  <2> QED  BY <2>3, <1>1
<1>6. ASSUME NEW n \in DOMAIN R
      PROVE  \E ch \in Channels :
                /\ Total(ch) > 0 /\ ch.name = n
                /\ \E i \in 1..Len(chs) : chs[i] = ch
                /\ R[n] = Percent(ResidencyOf(ch, "ACT"), ch)
  <2> DEFINE at == named(n)
  <2>1. at \in SUBSET (1..m) /\ at # {}  BY <1>1
  <2>2. \A i \in at : ran[i].name = n  OBVIOUS
  <2>3. R[n] = Percent(ResidencyOf(ran[Max(at)], "ACT"), ran[Max(at)])  BY <1>1
  <2> HIDE DEF at
  <2>4. Max(at) \in at  BY <2>1, <1>4, MaxIsGreatest
  <2>5. Max(at) \in 1..m /\ ran[Max(at)].name = n  BY <2>1, <2>2, <2>4
  <2>6. /\ ran[Max(at)] \in Channels /\ Total(ran[Max(at)]) > 0
        /\ \E i \in 1..Len(chs) : chs[i] = ran[Max(at)]
    BY <2>5, <1>2, <1>3, <1>4
  <2> QED  BY <2>3, <2>5, <2>6
<1> QED  BY <1>5, <1>6 DEF R

LEMMA ReasonsWithin ==
    ASSUME NEW chs \in Seq(Channels), NEW n \in DOMAIN ComputeThrottleReasons(chs)
    PROVE  Within(ComputeThrottleReasons(chs)[n])
<1>1. PICK ch \in Channels :
          Total(ch) > 0 /\ ComputeThrottleReasons(chs)[n] = Percent(ResidencyOf(ch, "ACT"), ch)
  BY ReasonsOf
<1>2. ResidencyOf(ch, "ACT") \in 0..Total(ch)  BY ResidencyBounds, TotalBounds
<1> QED  BY <1>1, <1>2, PercentWithin

\* A slice of the elements of a finite set, in some order.
LEMMA ElementsInSomeOrder ==
    ASSUME NEW S, IsFiniteSet(S)
    PROVE  SetToSeq(S) \in Seq(S)
<1>1. Cardinality(S) \in Nat /\ ExistsBijection(1..Cardinality(S), S)
  BY FS_CardinalityType
<1>2. PICK f \in [1..Cardinality(S) -> S] : IsInjective(f)
  BY <1>1 DEF ExistsBijection, Bijection, Injection
<1>3. SetToSeq(S) \in [1..Cardinality(S) -> S]  BY <1>2 DEF SetToSeq
<1> QED  BY <1>1, <1>3

\* What is reported: of a channel, and in all.
OfChannel(ch) ==
    (IF ch.group = "Energy Model"
       THEN {Metric("Energy", "ane-energy/op", ch.unit, Whole(ch.value))} ELSE {})
    \union (IF ch.group = "Interrupt Statistics (by index)"
              THEN {Metric("Interrupt", "/op", ch.name, Whole(ch.value))} ELSE {})
    \union (IF ch.group \in PMPGroups
              THEN {Metric("Throttle", "ane-throttle-events/op", NoName, Whole(ch.value))} ELSE {})
    \union (IF ch.sub = "SOC Floor" /\ ch.group \in PMPGroups /\ Total(ch) > 0
              THEN {Metric("Voltage", "-active-%", ch.name, AboveVMIN(ch))} ELSE {})

Counted(ch) == IF ch.name \in CountNames THEN PositiveValue(ch) ELSE 0

Reported(d, s) ==
    {Metric("Power", "ane-watts", NoName, d.PowerW),
     Metric("Duration", "sample-ns/op", NoName, Whole(DurationMs)),
     Metric("Interrupt", "ane-interrupts/op", NoName,
            Whole(SumOver(Counted, InCategory(d.Channels, "Interrupt")))),
     Metric("Compute", "ane-compute-%", NoName, s.ActivePct),
     Metric("Cluster", "ane-cluster-active-%", NoName, s.ClusterActivePct)}
    \union {Metric("Throttle", "ane-throttle-act-%", n, s.ThrottleReasons[n]) :
               n \in DOMAIN s.ThrottleReasons}
    \union UNION {OfChannel(d.Channels[i]) : i \in 1..Len(d.Channels)}

LEMMA WhenOf ==
    ASSUME NEW R, NEW cond, NEW m, cond => m \in R
    PROVE  When(cond, m) \in Seq(R)
BY DEF When

LEMMA ChannelMetricsOf ==
    ASSUME NEW ch
    PROVE  ChannelMetrics(ch) \in Seq(OfChannel(ch))
<1> DEFINE R == OfChannel(ch)
           energy == Metric("Energy", "ane-energy/op", ch.unit, Whole(ch.value))
           interrupt == Metric("Interrupt", "/op", ch.name, Whole(ch.value))
           volt == Metric("Voltage", "-active-%", ch.name, AboveVMIN(ch))
           throttle == Metric("Throttle", "ane-throttle-events/op", NoName, Whole(ch.value))
<1>1. ch.group = "Energy Model" => energy \in R  BY DEF OfChannel
<1>2. /\ ch.group = "Interrupt Statistics (by index)" => interrupt \in R
      /\ ch.group \in PMPGroups => throttle \in R
  BY DEF OfChannel
<1>3. ch.sub = "SOC Floor" /\ ch.group \in PMPGroups /\ Total(ch) > 0 => volt \in R
  BY DEF OfChannel
<1>4. ChannelMetrics(ch) =
        CASE ch.group = "Energy Model" -> When(ch.value # 0 /\ IsANEName(ch.name), energy)
          [] ch.group = "Interrupt Statistics (by index)" ->
               When(ch.value > 0 /\ (IsANEName(ch.name) \/ Len(ch.name) > 20), interrupt)
          [] ch.group \in PMPGroups ->
               When(ch.sub = "SOC Floor" /\ Total(ch) > 0, volt)
               \o When(ch.value > 0 /\ IsANEName(ch.name), throttle)
          [] OTHER -> <<>>
  BY Zenon DEF ChannelMetrics, AboveVMIN
<1> HIDE DEF R, energy, interrupt, volt, throttle
<1>5. /\ ch.group = "Energy Model" => When(ch.value # 0 /\ IsANEName(ch.name), energy) \in Seq(R)
      /\ ch.group = "Interrupt Statistics (by index)" =>
           When(ch.value > 0 /\ (IsANEName(ch.name) \/ Len(ch.name) > 20), interrupt) \in Seq(R)
      /\ ch.group \in PMPGroups => When(ch.sub = "SOC Floor" /\ Total(ch) > 0, volt) \in Seq(R)
      /\ ch.group \in PMPGroups => When(ch.value > 0 /\ IsANEName(ch.name), throttle) \in Seq(R)
  BY <1>1, <1>2, <1>3, Zenon, WhenOf
<1>6. <<>> \in Seq(R) /\ \A a \in Seq(R), b \in Seq(R) : a \o b \in Seq(R)  OBVIOUS
<1>7. ChannelMetrics(ch) \in Seq(R)  BY <1>4, <1>5, <1>6, Zenon
<1> QED  BY <1>7 DEF R

\* Nothing else is reported.
LEMMA ReportsOf ==
    ASSUME NEW d, d.Channels \in Seq(Channels),
           NEW s, IsFiniteSet(DOMAIN s.ThrottleReasons), NEW mask
    PROVE  Reports(d, s, mask) \in Seq(Reported(d, s))
<1> DEFINE R == Reported(d, s)
           count == SumOver(Counted, InCategory(d.Channels, "Interrupt"))
           power == Metric("Power", "ane-watts", NoName, d.PowerW)
           duration == Metric("Duration", "sample-ns/op", NoName, Whole(DurationMs))
           interrupt == Metric("Interrupt", "ane-interrupts/op", NoName, Whole(count))
           compute == Metric("Compute", "ane-compute-%", NoName, s.ActivePct)
           cluster == Metric("Cluster", "ane-cluster-active-%", NoName, s.ClusterActivePct)
           reason(n) == Metric("Throttle", "ane-throttle-act-%", n, s.ThrottleReasons[n])
           N == {n \in DOMAIN s.ThrottleReasons : Positive(s.ThrottleReasons[n])}
           active == SetToSeq(N)
           parts == [i \in 1..Len(d.Channels) |-> ChannelMetrics(d.Channels[i])]
           throttles == [i \in 1..Len(active) |-> reason(active[i])]
           c1 == count > 0
           c2 == Positive(s.ActivePct)
           c3 == Positive(s.ClusterActivePct)
           all == <<power, duration>> \o FlattenSeq(parts) \o When(c1, interrupt)
                  \o When(c2, compute) \o When(c3, cluster) \o throttles
<1>1. /\ power \in R /\ duration \in R /\ interrupt \in R /\ compute \in R /\ cluster \in R
      /\ \A n \in N : reason(n) \in R
      /\ \A i \in 1..Len(d.Channels) : OfChannel(d.Channels[i]) \subseteq R
  BY DEF Reported
<1>2. Reports(d, s, mask) = Keep(all, {m \in ToSet(all) : m.flag \in mask})
  BY DEF Reports, Select, Counted
<1>3. <<power, duration>> \in Seq(R)  BY <1>1
<1>4. FlattenSeq(parts) \in Seq(R)
  <2>1. ASSUME NEW i \in 1..Len(d.Channels)
        PROVE  ChannelMetrics(d.Channels[i]) \in Seq(R)
    <3>1. ChannelMetrics(d.Channels[i]) \in Seq(OfChannel(d.Channels[i]))  BY ChannelMetricsOf
    <3>2. OfChannel(d.Channels[i]) \subseteq R  BY <1>1
    <3> HIDE DEF R
    <3> QED  BY <3>1, <3>2
  <2> HIDE DEF R
  <2>2. parts \in Seq(Seq(R))  BY <2>1
  <2> HIDE DEF parts
  <2> QED  BY <2>2, FlatElements
<1>5. throttles \in Seq(R)
  <2>1. IsFiniteSet(N)
    <3>1. N \in SUBSET DOMAIN s.ThrottleReasons  OBVIOUS
    <3> HIDE DEF N
    <3> QED  BY <3>1, FS_Subset
  <2> HIDE DEF N, R, reason
  <2>2. active \in Seq(N)  BY <2>1, ElementsInSomeOrder
  <2> HIDE DEF active
  <2>3. Len(active) \in Nat /\ \A i \in 1..Len(active) : reason(active[i]) \in R  BY <2>2, <1>1
  <2> QED  BY <2>3
<1> HIDE DEF R, power, duration, interrupt, compute, cluster, c1, c2, c3, throttles, parts
<1>6. When(c1, interrupt) \in Seq(R) /\ When(c2, compute) \in Seq(R) /\ When(c3, cluster) \in Seq(R)
  BY <1>1, WhenOf, Zenon
<1>7. all \in Seq(R)
  <2>1. \A a \in Seq(R), b \in Seq(R) : a \o b \in Seq(R)  OBVIOUS
  <2> QED  BY <1>3, <1>4, <1>5, <1>6, <2>1, Zenon
<1> HIDE DEF all
<1>8. Reports(d, s, mask) \in Seq(R)  BY <1>2, <1>7, KeepElements
<1> QED  BY <1>8 DEF R

-----------------------------------------------------------------------------
(* The inductive invariant: what Stop, ComputeStats and ReportMetrics return *)
(* is of the lists as they are now, nothing of what they were before.       *)

Derived ==
    /\ curr \in Seq(Sampled)
    /\ raw \in Seq(Channels)
    /\ delta = Delta(curr, raw)
    /\ stats = ComputeStats(delta.Channels)
    /\ reports = Reports(delta, stats, AllMetrics)

LEMMA MonitoredOfNone == Monitored(<<>>) = <<>>
<1> DEFINE q == <<>>
<1>1. q \in Seq(Channels) /\ 1..Len(q) = {}  OBVIOUS
<1> HIDE DEF q
<1>2. Monitored(q) \in Seq(Channels) /\ \A j \in 1..Len(Monitored(q)) : j \notin 1..Len(Monitored(q))
  BY <1>1, MonitoredOf
<1>3. 1 \notin 1..Len(Monitored(q))  BY <1>2
<1>4. Len(Monitored(q)) = 0  BY <1>2, <1>3
<1> QED  BY <1>2, <1>4 DEF q

\* The figures are those of the two lists of channels as they are
\* (sampler.go:55-77).
THEOREM DerivedHolds == Spec => []Derived
<1>1. Init => Derived
  BY MonitoredOfNone DEF Init, Derived, Delta
<1>2. Derived /\ [Next]_vars => Derived'
  <2> SUFFICES ASSUME Derived, [Next]_vars PROVE Derived'
    OBVIOUS
  <2>1. ASSUME NEW r \in Readings, ExtractChannel(r) PROVE Derived'
    <3>1. raw' \in Seq(Channels) /\ curr' \in Seq(Sampled)
      <4>1. r.now \in Sampled /\ r.diff \in Channels  BY DEF Sampled, Channels
      <4>2. curr' = Append(curr, r.now) /\ raw' = Append(raw, r.diff)
        BY <2>1 DEF ExtractChannel
      <4> QED  BY <4>1, <4>2 DEF Derived
    <3>2. /\ delta' = Delta(curr', raw') /\ stats' = ComputeStats(delta'.Channels)
          /\ reports' = Reports(delta', stats', AllMetrics)
      BY <2>1 DEF ExtractChannel, Derive
    <3> QED  BY <3>1, <3>2 DEF Derived
  <2>2. CASE UNCHANGED vars  BY <2>2 DEF Derived, vars
  <2> QED  BY <2>1, <2>2 DEF Next
<1> QED  BY <1>1, <1>2, PTL DEF Spec

LEMMA DerivedParts ==
    ASSUME Derived
    PROVE  /\ delta.Channels \in Seq(Channels)
           /\ delta.Channels = Monitored(raw)
           /\ \A cat : InCategory(delta.Channels, cat) \in Seq(Channels)
           /\ IsFiniteSet(DOMAIN stats.ThrottleReasons)
           /\ stats.ThrottleReasons = ComputeThrottleReasons(InCategory(delta.Channels, "ThrottleDetail"))
           /\ stats.GPUActivePct = ComputeGPUActivePct(InCategory(delta.Channels, "GPUStats"))
           /\ stats.ClusterActivePct =
                ComputeClusterActivePct(InCategory(delta.Channels, "ClusterPower"))
           /\ stats.PeakCE = PeakCEBucket(InCategory(delta.Channels, "ComputeEn"))
           /\ stats.ActivePct =
                IF ComputeActivePct(InCategory(delta.Channels, "ComputeEn")).num = 0
                  THEN ComputeVoltageActivePct(InCategory(delta.Channels, "Voltage"))
                  ELSE ComputeActivePct(InCategory(delta.Channels, "ComputeEn"))
           /\ reports \in Seq(Reported(delta, stats))
<1>1. delta.Channels = Monitored(raw) /\ raw \in Seq(Channels)  BY DEF Derived, Delta
<1>2. delta.Channels \in Seq(Channels)  BY <1>1, MonitoredOf
<1>3. \A cat : InCategory(delta.Channels, cat) \in Seq(Channels)  BY <1>2, CategoryOf
<1>4. stats = ComputeStats(delta.Channels) /\ reports = Reports(delta, stats, AllMetrics)
  BY DEF Derived
<1>5. /\ stats.ThrottleReasons = ComputeThrottleReasons(InCategory(delta.Channels, "ThrottleDetail"))
      /\ stats.GPUActivePct = ComputeGPUActivePct(InCategory(delta.Channels, "GPUStats"))
      /\ stats.ClusterActivePct =
           ComputeClusterActivePct(InCategory(delta.Channels, "ClusterPower"))
      /\ stats.PeakCE = PeakCEBucket(InCategory(delta.Channels, "ComputeEn"))
      /\ stats.ActivePct =
           IF ComputeActivePct(InCategory(delta.Channels, "ComputeEn")).num = 0
             THEN ComputeVoltageActivePct(InCategory(delta.Channels, "Voltage"))
             ELSE ComputeActivePct(InCategory(delta.Channels, "ComputeEn"))
  BY <1>4 DEF ComputeStats
<1>6. IsFiniteSet(DOMAIN stats.ThrottleReasons)  BY <1>3, <1>5, ReasonsOf
<1>7. reports \in Seq(Reported(delta, stats))  BY <1>2, <1>4, <1>6, ReportsOf
<1> QED  BY <1>1, <1>2, <1>3, <1>5, <1>6, <1>7

\* What is reported under Voltage is of a voltage channel that ran.
LEMMA VoltageReported ==
    ASSUME NEW d, d.Channels \in Seq(Channels), NEW s,
           NEW m \in Reported(d, s), m.flag = "Voltage"
    PROVE  Within(m.value)
<1>1. PICK i \in 1..Len(d.Channels) : m \in OfChannel(d.Channels[i])
  BY DEF Reported, Metric
<1>2. d.Channels[i] \in Channels  OBVIOUS
<1> DEFINE ch == d.Channels[i]
<1>3. Total(d.Channels[i]) > 0 /\ m.value = AboveVMIN(d.Channels[i])
  <2>1. /\ m # Metric("Energy", "ane-energy/op", ch.unit, Whole(ch.value))
        /\ m # Metric("Interrupt", "/op", ch.name, Whole(ch.value))
        /\ m # Metric("Throttle", "ane-throttle-events/op", NoName, Whole(ch.value))
    BY DEF Metric
  <2>2. /\ Total(ch) > 0
        /\ m = Metric("Voltage", "-active-%", ch.name, AboveVMIN(ch))
    BY <1>1, <2>1, Zenon DEF OfChannel
  <2> QED  BY <2>2 DEF Metric
<1> QED  BY <1>2, <1>3, AboveVMINWithin

\* Every percentage that is computed or reported is one, for lists of any
\* length of any channels: none that was sampled with no residency divides by
\* zero, and none is above 100 if the compute histogram has no bucket whose name
\* is (stats.go:63-200; types.go:134-146).
THEOREM PercentagesHold ==
    ASSUME BucketsArePercentages
    PROVE  Spec => []PercentagesInRange
<1>1. ASSUME Derived, BucketsArePercentages PROVE PercentagesInRange
  <2>1. \A cat : InCategory(delta.Channels, cat) \in Seq(Channels)  BY <1>1, DerivedParts
  <2>2. Within(stats.ActivePct)
    <3> DEFINE ce == InCategory(delta.Channels, "ComputeEn")
    <3>1. delta.Channels \in Seq(Channels)  BY <1>1, DerivedParts
    <3>2. ce \in Seq(Channels) /\ \A i \in 1..Len(ce) : Category(ce[i]) = "ComputeEn"
      BY <3>1, CategoryOf
    <3>3. Within(ComputeActivePct(ce))
      <4> HIDE DEF ce
      <4> QED  BY <3>2, <1>1, ComputeActiveWithin
    <3> QED  BY <3>3, <2>1, <1>1, DerivedParts, VoltageActiveWithin
  <2>3. Within(stats.PeakCE.pct)  BY <2>1, <1>1, DerivedParts, PeakWithin
  <2>4. Within(stats.GPUActivePct)  BY <2>1, <1>1, DerivedParts, GPUActiveWithin
  <2>5. Within(stats.ClusterActivePct)  BY <2>1, <1>1, DerivedParts, ClusterActiveWithin
  <2>6. \A n \in DOMAIN stats.ThrottleReasons : Within(stats.ThrottleReasons[n])
    BY <2>1, <1>1, DerivedParts, ReasonsWithin
  <2>7. \A i \in 1..Len(reports) : reports[i].flag = "Voltage" => Within(reports[i].value)
    <3>1. \A i \in 1..Len(reports) : reports[i] \in Reported(delta, stats)
      BY <1>1, DerivedParts
    <3> QED  BY <3>1, <1>1, DerivedParts, VoltageReported
  <2> QED  BY <2>2, <2>3, <2>4, <2>5, <2>6, <2>7 DEF PercentagesInRange
<1> QED  BY <1>1, DerivedHolds, PTL

-----------------------------------------------------------------------------
(* Sums over the channels that are kept.                                   *)

OfANE   == [ch \in Channels |-> IF ch.group = "Energy Model" /\ IsANEName(ch.name)
                                  THEN NanoJoules(ch) ELSE 0]
OfGPU   == [ch \in Channels |-> IF ch.group = "Energy Model" /\ IsGPUChannel(ch)
                                  THEN NanoJoules(ch) ELSE 0]
Joules  == [ch \in Channels |-> NanoJoules(ch)]
Counts  == [ch \in Channels |-> PositiveValue(ch)]
OfCat(cat) == [ch \in Channels |-> IF Category(ch) = cat THEN PositiveValue(ch) ELSE 0]
KeptOf(f)  == [ch \in Channels |-> IF Kept(ch) THEN f[ch] ELSE 0]

LEMMA ValuesAreInts ==
    /\ \A ch \in Channels : NanoJoules(ch) \in Int /\ PositiveValue(ch) \in Nat
    /\ OfANE \in [Channels -> Int] /\ OfGPU \in [Channels -> Int]
    /\ Joules \in [Channels -> Int] /\ Counts \in [Channels -> Int]
    /\ \A cat : OfCat(cat) \in [Channels -> Int]
<1>1. ASSUME NEW ch \in Channels
      PROVE  NanoJoules(ch) \in Int /\ PositiveValue(ch) \in Nat
  <2>1. ch.value \in Int  BY ChannelsAssumption
  <2> QED  BY <2>1 DEF NanoJoules, PositiveValue
<1>2. \A ch \in Channels : NanoJoules(ch) \in Int /\ PositiveValue(ch) \in Int  BY <1>1
<1>3. OfANE \in [Channels -> Int] /\ OfGPU \in [Channels -> Int]
  <2>1. 0 \in Int  OBVIOUS
  <2> QED  BY <1>2, <2>1, Zenon DEF OfANE, OfGPU
<1>4. Joules \in [Channels -> Int] /\ Counts \in [Channels -> Int]  BY <1>2 DEF Joules, Counts
<1>5. ASSUME NEW cat PROVE OfCat(cat) \in [Channels -> Int]  BY <1>2 DEF OfCat
<1> QED  BY <1>1, <1>3, <1>4, <1>5

\* The channels that are dropped count for nothing.
LEMMA KeptSum ==
    ASSUME NEW chs \in Seq(Channels), NEW f \in [Channels -> Int]
    PROVE  /\ KeptOf(f) \in [Channels -> Int]
           /\ SumOf(Values(f, Monitored(chs))) = SumOf(Values(KeptOf(f), chs))
<1> DEFINE A == {ch \in ToSet(chs) : Kept(ch)}
<1>1. Monitored(chs) = Keep(chs, A)  BY DEF Monitored, Select, Kept
<1>2. KeptOf(f) \in [Channels -> Int]  BY DEF KeptOf
<1>3. \A i \in 1..Len(chs) : chs[i] \in Channels /\ (chs[i] \in A <=> Kept(chs[i]))
  BY DEF ToSet
<1>4. \A i \in 1..Len(chs) : KeptOf(f)[chs[i]] = IF chs[i] \in A THEN f[chs[i]] ELSE 0
  BY <1>3 DEF KeptOf
<1>5. Restricts(KeptOf(f), f, chs, A)  BY <1>4 DEF Restricts
<1> HIDE DEF A
<1> QED  BY <1>1, <1>2, <1>5, SelectSum

LEMMA EnergySums ==
    ASSUME NEW chs \in Seq(Channels)
    PROVE  /\ ComputeANEPower(chs) = Watts(SumOf(Values(OfANE, chs)))
           /\ ComputeGPUPower(chs) = Watts(SumOf(Values(OfGPU, chs)))
<1> DEFINE A == {ch \in ToSet(chs) : ch.group = "Energy Model" /\ IsANEName(ch.name)}
           G == {ch \in ToSet(chs) : ch.group = "Energy Model" /\ IsGPUChannel(ch)}
<1>1. /\ ComputeANEPower(chs) = Watts(SumOver(NanoJoules, Keep(chs, A)))
      /\ ComputeGPUPower(chs) = Watts(SumOver(NanoJoules, Keep(chs, G)))
  BY DEF ComputeANEPower, ComputeGPUPower, Select
<1>2. ASSUME NEW s \in Seq(Channels)
      PROVE  SumOver(NanoJoules, s) = SumOf(Values(Joules, s))
  <2>1. \A i \in 1..Len(s) : s[i] \in Channels /\ Joules[s[i]] = NanoJoules(s[i])
    BY DEF Joules
  <2> QED  BY <2>1 DEF SumOver, Values
<1>3. ASSUME NEW i \in 1..Len(chs)
      PROVE  /\ OfANE[chs[i]] = IF chs[i] \in A THEN Joules[chs[i]] ELSE 0
             /\ OfGPU[chs[i]] = IF chs[i] \in G THEN Joules[chs[i]] ELSE 0
  <2>1. chs[i] \in Channels /\ chs[i] \in ToSet(chs)  BY DEF ToSet
  <2>2. /\ chs[i] \in A <=> chs[i].group = "Energy Model" /\ IsANEName(chs[i].name)
        /\ chs[i] \in G <=> chs[i].group = "Energy Model" /\ IsGPUChannel(chs[i])
    BY <2>1
  <2> HIDE DEF A, G
  <2> QED  BY <2>1, <2>2 DEF OfANE, OfGPU, Joules
<1> HIDE DEF A, G
<1>4. Keep(chs, A) \in Seq(Channels) /\ Keep(chs, G) \in Seq(Channels)  BY KeepElements
<1>5. /\ SumOf(Values(Joules, Keep(chs, A))) = SumOf(Values(OfANE, chs))
      /\ SumOf(Values(Joules, Keep(chs, G))) = SumOf(Values(OfGPU, chs))
  <2>1. Joules \in [Channels -> Int] /\ OfANE \in [Channels -> Int] /\ OfGPU \in [Channels -> Int]
    BY ValuesAreInts
  <2>2. Restricts(OfANE, Joules, chs, A) /\ Restricts(OfGPU, Joules, chs, G)
    BY <1>3 DEF Restricts
  <2>3. SumOf(Values(Joules, Keep(chs, A))) = SumOf(Values(OfANE, chs))
    <3>1. Joules \in [Channels -> Int]  BY <2>1
    <3>2. OfANE \in [Channels -> Int]  BY <2>1
    <3>3. Restricts(OfANE, Joules, chs, A)  BY <2>2
    <3> QED  BY <3>1, <3>2, <3>3, SelectSum
  <2>4. SumOf(Values(Joules, Keep(chs, G))) = SumOf(Values(OfGPU, chs))
    <3>1. Joules \in [Channels -> Int]  BY <2>1
    <3>2. OfGPU \in [Channels -> Int]  BY <2>1
    <3>3. Restricts(OfGPU, Joules, chs, G)  BY <2>2
    <3> QED  BY <3>1, <3>2, <3>3, SelectSum
  <2> QED  BY <2>3, <2>4
<1> QED  BY <1>1, <1>2, <1>4, <1>5

LEMMA CountSums ==
    ASSUME NEW chs \in Seq(Channels), NEW cat
    PROVE  SumOver(PositiveValue, InCategory(chs, cat)) = SumOf(Values(OfCat(cat), chs))
<1> DEFINE A == {ch \in ToSet(chs) : Category(ch) = cat}
           s == Keep(chs, A)
<1>1. InCategory(chs, cat) = s  BY DEF InCategory, Select
<1>2. ASSUME NEW i \in 1..Len(chs)
      PROVE  OfCat(cat)[chs[i]] = IF chs[i] \in A THEN Counts[chs[i]] ELSE 0
  BY DEF OfCat, Counts, ToSet
<1> HIDE DEF A
<1>3. s \in Seq(Channels)  BY KeepElements
<1>4. SumOf(Values(Counts, s)) = SumOf(Values(OfCat(cat), chs))
  <2>1. Counts \in [Channels -> Int] /\ OfCat(cat) \in [Channels -> Int]
    BY ValuesAreInts
  <2>2. Restricts(OfCat(cat), Counts, chs, A)  BY <1>2 DEF Restricts
  <2> QED  BY <2>1, <2>2, SelectSum
<1> HIDE DEF s
<1>5. SumOver(PositiveValue, s) = SumOf(Values(Counts, s))
  <2>1. \A i \in 1..Len(s) : s[i] \in Channels /\ Counts[s[i]] = PositiveValue(s[i])
    BY <1>3 DEF Counts
  <2> QED  BY <2>1 DEF SumOver, Values
<1> QED  BY <1>1, <1>4, <1>5

-----------------------------------------------------------------------------
(* The temperature.                                                        *)

Milli(ch) == (Temperature(ch.value).num * 1000) \div Temperature(ch.value).den
Millis    == [ch \in Sampled |-> Milli(ch)]
OfSensor  == [ch \in Sampled |-> IF Plausible(ch) THEN Milli(ch) ELSE 0]
One       == [ch \in Sampled |-> 1]
OneSensor == [ch \in Sampled |-> IF Plausible(ch) THEN 1 ELSE 0]

Sensors(chs) == Keep(chs, {ch \in ToSet(chs) : Plausible(ch)})

LEMMA MilliIsInt ==
    /\ \A ch \in Sampled : Milli(ch) \in Int
    /\ Millis \in [Sampled -> Int] /\ OfSensor \in [Sampled -> Int]
    /\ One \in [Sampled -> Int] /\ OneSensor \in [Sampled -> Int]
<1>1. ASSUME NEW ch \in Sampled PROVE Milli(ch) \in Int
  <2>1. ch.value \in Int  BY SampledValues
  <2>2. /\ Temperature(ch.value).num = ch.value
        /\ Temperature(ch.value).den \in {1, 100, 1000}
    BY DEF Temperature
  <2> QED  BY <2>1, <2>2 DEF Milli
<1>2. 0 \in Int /\ 1 \in Int  OBVIOUS
<1> QED  BY <1>1, <1>2, Zenon DEF Millis, OfSensor, One, OneSensor

LEMMA TemperatureOf ==
    ASSUME NEW chs \in Seq(Sampled)
    PROVE  /\ Sensors(chs) \in Seq(Sampled)
           /\ \A j \in 1..Len(Sensors(chs)) :
                \E i \in 1..Len(chs) : chs[i] = Sensors(chs)[j] /\ Plausible(chs[i])
           /\ \A i \in 1..Len(chs) : Plausible(chs[i]) => Len(Sensors(chs)) > 0
           /\ ComputeGPUTemp(chs) =
                IF Len(Sensors(chs)) = 0 THEN Zero
                ELSE [num |-> SumOf(Values(Millis, Sensors(chs))), den |-> Len(Sensors(chs))]
<1> DEFINE A == {ch \in ToSet(chs) : Plausible(ch)}
           s == Sensors(chs)
<1>1. s = Keep(chs, A)  BY DEF Sensors
<1>2. \A x \in A : Plausible(x)  OBVIOUS
<1>3. \A i \in 1..Len(chs) : chs[i] \in A <=> Plausible(chs[i])  BY DEF ToSet
<1>4. ComputeGPUTemp(chs) =
          IF s = <<>> THEN Zero ELSE [num |-> SumOver(Milli, s), den |-> Len(s)]
  BY <1>1 DEF ComputeGPUTemp, Select, Milli
<1> HIDE DEF A, s
<1>5. /\ s \in Seq(Sampled)
      /\ \A j \in 1..Len(s) : s[j] \in A /\ \E i \in 1..Len(chs) : chs[i] = s[j]
      /\ \A i \in 1..Len(chs) : chs[i] \in A => \E j \in 1..Len(s) : s[j] = chs[i]
  <2>1. /\ Keep(chs, A) \in Seq(Sampled)
        /\ \A j \in 1..Len(Keep(chs, A)) :
              Keep(chs, A)[j] \in A /\ \E i \in 1..Len(chs) : chs[i] = Keep(chs, A)[j]
        /\ \A i \in 1..Len(chs) :
              chs[i] \in A => \E j \in 1..Len(Keep(chs, A)) : Keep(chs, A)[j] = chs[i]
    <3>1. KeptOnly(Keep(chs, A), Sampled, chs, A)  BY KeepOnly
    <3> QED  BY <3>1 DEF KeptOnly
  <2> QED  BY Zenon, <1>1, <2>1
<1>6. \A j \in 1..Len(s) : \E i \in 1..Len(chs) : chs[i] = s[j] /\ Plausible(chs[i])
  BY <1>2, <1>5
<1>7. \A i \in 1..Len(chs) : Plausible(chs[i]) => Len(s) > 0
  <2>1. Len(s) \in Nat  BY <1>5
  <2> QED  BY <1>3, <1>5, <2>1
<1>8. s = <<>> <=> Len(s) = 0  BY <1>5
<1>9. SumOver(Milli, s) = SumOf(Values(Millis, s))
  <2>1. \A i \in 1..Len(s) : s[i] \in Sampled /\ Millis[s[i]] = Milli(s[i])
    BY <1>5 DEF Millis
  <2> QED  BY <2>1 DEF SumOver, Values
<1>10. ComputeGPUTemp(chs) =
          IF Len(s) = 0 THEN Zero ELSE [num |-> SumOf(Values(Millis, s)), den |-> Len(s)]
  BY <1>4, <1>8, <1>9
<1> QED  BY <1>5, <1>6, <1>7, <1>10 DEF s

\* A mean is between its terms.
LEMMA MeanIsBetween ==
    ASSUME NEW v \in Seq(Int), Len(v) > 0
    PROVE  /\ \E j \in 1..Len(v) : v[j] * Len(v) <= SumOf(v)
           /\ \E j \in 1..Len(v) : SumOf(v) <= v[j] * Len(v)
<1> DEFINE n == Len(v)
           u == [j \in 1..n |-> 0 - v[j]]
<1>1. n \in Nat /\ n > 0 /\ v \in [1..n -> Int]  OBVIOUS
<1>2. u \in [1..n -> Int]  BY <1>1
<1> HIDE DEF n
<1>3. PICK hi \in 1..n : \A j \in 1..n : v[j] <= v[hi]  BY <1>1, GreatestExists
<1>4. PICK lo \in 1..n : \A j \in 1..n : v[lo] <= v[j]
  <2>1. \E i \in 1..n : \A j \in 1..n : u[j] <= u[i]
    <3> HIDE DEF u
    <3> QED  BY <1>1, <1>2, GreatestExists
  <2>2. PICK i \in 1..n : \A j \in 1..n : u[j] <= u[i]  BY <2>1
  <2>3. ASSUME NEW j \in 1..n PROVE v[i] <= v[j]
    <3>1. v[i] \in Int /\ v[j] \in Int  BY <1>1
    <3>2. u[j] <= u[i] /\ u[i] = 0 - v[i] /\ u[j] = 0 - v[j]  BY <2>2
    <3> HIDE DEF u
    <3> QED  BY <3>1, <3>2
  <2> QED  BY <2>3
<1>5. v[hi] \in Int /\ v[lo] \in Int  BY <1>1
<1>6. SumOf(v) <= v[hi] * n
  <2>1. \A j \in 1..Len(v) : v[j] <= v[hi]  BY <1>3 DEF n
  <2> QED  BY <2>1, <1>5, SumBounds, Zenon DEF n
<1>7. v[lo] * n <= SumOf(v)
  <2>1. \A j \in 1..Len(v) : v[lo] <= v[j]  BY <1>4 DEF n
  <2> QED  BY <2>1, <1>5, SumBounds, Zenon DEF n
<1> QED  BY <1>6, <1>7 DEF n

\* The temperature of a delta is between plausible readings of the second sample,
\* of whatever number there are, and owes nothing to the differences between the
\* samples nor to the channels that are kept, whatever those are
\* (sampler.go:61-62, 73; types.go:232-253).
THEOREM TemperatureHolds == Spec => []TemperatureFromSample
<1>1. ASSUME Derived PROVE TemperatureFromSample
  <2> DEFINE ok == {i \in 1..Len(curr) : Plausible(curr[i])}
             s == Sensors(curr)
             v == Values(Millis, s)
  <2>1. curr \in Seq(Sampled) /\ delta.GPUTempC = ComputeGPUTemp(curr)
    BY <1>1 DEF Derived, Delta
  <2>2. /\ s \in Seq(Sampled)
        /\ \A j \in 1..Len(s) : \E i \in ok : curr[i] = s[j]
        /\ \A i \in ok : Len(s) > 0
        /\ delta.GPUTempC = IF Len(s) = 0 THEN Zero ELSE [num |-> SumOf(v), den |-> Len(s)]
    BY <2>1, TemperatureOf
  <2>3. TemperatureFromSample <=>
          IF ok = {} THEN delta.GPUTempC = Zero
          ELSE /\ \E i \in ok : Milli(curr[i]) * delta.GPUTempC.den <= delta.GPUTempC.num
               /\ \E i \in ok : delta.GPUTempC.num <= Milli(curr[i]) * delta.GPUTempC.den
    BY DEF TemperatureFromSample, Milli
  <2> HIDE DEF s, ok
  <2>4. CASE ok = {}
    <3>1. 1 \notin 1..Len(s)  BY <2>2, <2>4
    <3>2. Len(s) = 0  BY <2>2, <3>1
    <3> QED  BY <2>2, <2>3, <2>4, <3>2
  <2>5. CASE ok # {}
    <3>1. Len(s) \in Nat /\ Len(s) > 0  BY <2>2, <2>5
    <3>2. /\ v \in Seq(Int) /\ Len(v) = Len(s)
          /\ \A j \in 1..Len(s) : v[j] = Milli(s[j])
      BY <2>2, MilliIsInt DEF Values, Millis
    <3> HIDE DEF v
    <3>3. /\ \E j \in 1..Len(s) : v[j] * Len(s) <= SumOf(v)
          /\ \E j \in 1..Len(s) : SumOf(v) <= v[j] * Len(s)
      BY <3>1, <3>2, MeanIsBetween
    <3>4. /\ \E i \in ok : Milli(curr[i]) * Len(s) <= SumOf(v)
          /\ \E i \in ok : SumOf(v) <= Milli(curr[i]) * Len(s)
      BY <2>2, <3>2, <3>3
    <3> QED  BY <2>2, <2>3, <2>5, <3>1, <3>4
  <2> QED  BY <2>4, <2>5
<1> QED  BY <1>1, DerivedHolds, PTL

-----------------------------------------------------------------------------
(* The order of the list.                                                  *)

Among(chs, more) == \A i \in 1..Len(chs) : \E j \in 1..Len(more) : more[j] = chs[i]

\* More channels have no lower highest voltage.
LEMMA VoltageGrows ==
    ASSUME NEW chs \in Seq(Channels), NEW more \in Seq(Channels), Among(chs, more)
    PROVE  ~Less(ComputeVoltageActivePct(more), ComputeVoltageActivePct(chs))
<1> DEFINE v == VoltageFigures(chs)
           w == VoltageFigures(more)
<1>1. /\ v \in Seq(Figure) /\ Len(v) = Len(chs)
      /\ w \in Seq(Figure) /\ Len(w) = Len(more)
      /\ \A i \in 1..Len(more) : Within(w[i].pct)
      /\ ComputeVoltageActivePct(chs) = Highest(v).pct
      /\ ComputeVoltageActivePct(more) = Highest(w).pct
  BY VoltageFiguresOf
<1>2. ASSUME NEW i \in 1..Len(chs)
      PROVE  \E j \in 1..Len(more) : w[j] = v[i]
  BY DEF VoltageFigures, Among
<1> HIDE DEF v, w
<1>3. /\ Highest(w) \in Figure /\ Within(Highest(w).pct)
      /\ \A j \in 1..Len(w) : ~Less(Highest(w).pct, w[j].pct)
  BY <1>1, HighestIsHighest, HighestWithin
<1>4. Highest(v) = None \/ \E i \in 1..Len(v) : Highest(v) = v[i]
  BY <1>1, HighestIsHighest
<1>5. CASE Highest(v) = None
  <2>1. Highest(w).pct.num \in Int /\ Highest(w).pct.num >= 0
    BY <1>3 DEF Within, Figure, Fraction
  <2>2. Highest(w).pct.den \in Int  BY <1>3 DEF Figure, Fraction
  <2>3. ~Less(Highest(w).pct, None.pct)
    BY <2>1, <2>2 DEF Less, None
  <2> QED  BY <2>3, <1>5, <1>1
<1>6. ASSUME NEW i \in 1..Len(v), Highest(v) = v[i]
      PROVE  ~Less(Highest(w).pct, Highest(v).pct)
  <2>1. PICK j \in 1..Len(more) : w[j] = v[i]  BY <1>1, <1>2
  <2> QED  BY <2>1, <1>1, <1>3, <1>6
<1> QED  BY <1>1, <1>4, <1>5, <1>6

\* The channels of a category that are kept, of two lists with the same ones.
LEMMA SameChannels ==
    ASSUME NEW chs \in Seq(Channels), NEW more \in Seq(Channels), NEW cat, Among(chs, more)
    PROVE  Among(InCategory(Monitored(chs), cat), InCategory(Monitored(more), cat))
<1> DEFINE a == Monitored(chs)
           b == Monitored(more)
           p == InCategory(a, cat)
           q == InCategory(b, cat)
<1>1. /\ a \in Seq(Channels)
      /\ \A i \in 1..Len(a) : Kept(a[i]) /\ \E j \in 1..Len(chs) : chs[j] = a[i]
  BY MonitoredOf
<1>2. b \in Seq(Channels) /\ \A j \in 1..Len(more) : Kept(more[j]) => \E k \in 1..Len(b) : b[k] = more[j]
  BY MonitoredOf
<1> HIDE DEF a, b
<1>3. \A i \in 1..Len(p) : Category(p[i]) = cat /\ \E j \in 1..Len(a) : a[j] = p[i]
  BY <1>1, CategoryOf
<1>4. \A i \in 1..Len(b) : Category(b[i]) = cat => \E j \in 1..Len(q) : q[j] = b[i]
  BY <1>2, CategoryOf
<1> HIDE DEF p, q
<1>5. ASSUME NEW i \in 1..Len(p) PROVE \E j \in 1..Len(q) : q[j] = p[i]
  <2>1. PICK j \in 1..Len(a) : a[j] = p[i]  BY <1>3
  <2>2. PICK k \in 1..Len(chs) : chs[k] = a[j]  BY <1>1
  <2>3. PICK m \in 1..Len(more) : more[m] = chs[k]  BY DEF Among
  <2>4. PICK r \in 1..Len(b) : b[r] = more[m]  BY <1>1, <1>2, <2>2, <2>3
  <2> QED  BY <1>3, <1>4, <2>1, <2>2, <2>3, <2>4
<1> QED  BY <1>5 DEF Among, p, q, a, b

LEMMA SensorSums ==
    ASSUME NEW chs \in Seq(Sampled)
    PROVE  /\ Len(Sensors(chs)) = SumOf(Values(OneSensor, chs))
           /\ SumOf(Values(Millis, Sensors(chs))) = SumOf(Values(OfSensor, chs))
<1> DEFINE A == {ch \in ToSet(chs) : Plausible(ch)}
<1>1. Restricts(OneSensor, One, chs, A) /\ Restricts(OfSensor, Millis, chs, A)
  <2>1. ASSUME NEW i \in 1..Len(chs)
        PROVE  /\ OneSensor[chs[i]] = IF chs[i] \in A THEN One[chs[i]] ELSE 0
               /\ OfSensor[chs[i]] = IF chs[i] \in A THEN Millis[chs[i]] ELSE 0
    <3>1. chs[i] \in Sampled /\ (chs[i] \in A <=> Plausible(chs[i]))  BY DEF ToSet
    <3> HIDE DEF A
    <3> QED  BY <3>1 DEF OneSensor, One, OfSensor, Millis
  <2> QED  BY <2>1 DEF Restricts
<1>2. Sensors(chs) = Keep(chs, A)  BY DEF Sensors
<1> HIDE DEF A
<1>3. /\ SumOf(Values(One, Keep(chs, A))) = SumOf(Values(OneSensor, chs))
      /\ SumOf(Values(Millis, Keep(chs, A))) = SumOf(Values(OfSensor, chs))
  <2>1. SumOf(Values(One, Keep(chs, A))) = SumOf(Values(OneSensor, chs))
    <3>1. One \in [Sampled -> Int] /\ OneSensor \in [Sampled -> Int]  BY MilliIsInt
    <3>2. Restricts(OneSensor, One, chs, A)  BY <1>1
    <3> QED  BY <3>1, <3>2, SelectSum, Zenon
  <2>2. SumOf(Values(Millis, Keep(chs, A))) = SumOf(Values(OfSensor, chs))
    <3>1. Millis \in [Sampled -> Int] /\ OfSensor \in [Sampled -> Int]  BY MilliIsInt
    <3>2. Restricts(OfSensor, Millis, chs, A)  BY <1>1
    <3> QED  BY <3>1, <3>2, SelectSum, Zenon
  <2> QED  BY <2>1, <2>2
<1>4. Sensors(chs) \in Seq(Sampled)  BY TemperatureOf
<1>5. SumOf(Values(One, Sensors(chs))) = Len(Sensors(chs))
  <2>1. One \in [Sampled -> Int] /\ \A ch \in Sampled : One[ch] = 1  BY MilliIsInt DEF One
  <2> QED  BY <1>4, <2>1, LengthAsSum
<1> QED  BY <1>2, <1>3, <1>5

\* The powers, the temperature, the totals and the voltage part of the activity
\* are the same if the machine lists its channels the other way round, however many
\* there are (stats.go:35-50, 86-109; types.go:212-253).
THEOREM SameReversedHolds == Spec => []SameReversed
<1>1. ASSUME Derived PROVE SameReversed
  <2> DEFINE rev == Reverse(raw)
             back == Reverse(curr)
             D2 == Delta(back, rev)
             count(cat, chs) == SumOver(PositiveValue, InCategory(Monitored(chs), cat))
             volts(chs) == ComputeVoltageActivePct(InCategory(Monitored(chs), "Voltage"))
  <2>1. /\ raw \in Seq(Channels) /\ curr \in Seq(Sampled)
        /\ delta = Delta(curr, raw) /\ stats = ComputeStats(Monitored(raw))
    BY <1>1 DEF Derived, Delta
  <2>2. rev \in Seq(Channels) /\ \A g \in [Channels -> Int] :
            SumOf(Values(g, rev)) = SumOf(Values(g, raw))
    <3>1. ASSUME NEW g \in [Channels -> Int]
          PROVE  rev \in Seq(Channels) /\ SumOf(Values(g, rev)) = SumOf(Values(g, raw))
      BY <2>1, ReverseSum
    <3>2. OfANE \in [Channels -> Int]  BY ValuesAreInts
    <3> QED  BY <3>1, <3>2
  <2>3. Among(rev, raw) /\ Among(raw, rev)
    <3> DEFINE n == Len(raw)
    <3>1. n \in Nat /\ rev = [i \in 1..n |-> raw[(n - i) + 1]]  BY <2>1 DEF Reverse
    <3>2. \A i \in 1..n : (n - i) + 1 \in 1..n /\ (n - ((n - i) + 1)) + 1 = i  BY <3>1
    <3> HIDE DEF n, rev
    <3>3. Len(rev) = n  BY <3>1
    <3> QED  BY <3>1, <3>2, <3>3 DEF n, Among
  <2> HIDE DEF rev
  <2>4. ASSUME NEW chs \in Seq(Channels)
        PROVE  /\ \A c : /\ Delta(c, chs).PowerW = Watts(SumOf(Values(KeptOf(OfANE), chs)))
                         /\ Delta(c, chs).GPUPowerW = Watts(SumOf(Values(KeptOf(OfGPU), chs)))
                         /\ Delta(c, chs).Channels = Monitored(chs)
               /\ \A cat : count(cat, chs) = SumOf(Values(KeptOf(OfCat(cat)), chs))
    <3>1. Monitored(chs) \in Seq(Channels)  BY MonitoredOf
    <3>2. /\ ComputeANEPower(Monitored(chs)) = Watts(SumOf(Values(OfANE, Monitored(chs))))
          /\ ComputeGPUPower(Monitored(chs)) = Watts(SumOf(Values(OfGPU, Monitored(chs))))
      BY <3>1, EnergySums
    <3>3. /\ SumOf(Values(OfANE, Monitored(chs))) = SumOf(Values(KeptOf(OfANE), chs))
          /\ SumOf(Values(OfGPU, Monitored(chs))) = SumOf(Values(KeptOf(OfGPU), chs))
      BY ValuesAreInts, KeptSum
    <3>4. ASSUME NEW cat PROVE count(cat, chs) = SumOf(Values(KeptOf(OfCat(cat)), chs))
      <4>1. OfCat(cat) \in [Channels -> Int]  BY ValuesAreInts
      <4> QED  BY <3>1, <4>1, CountSums, KeptSum
    <3> QED  BY <3>2, <3>3, <3>4 DEF Delta
  <2>5. /\ KeptOf(OfANE) \in [Channels -> Int] /\ KeptOf(OfGPU) \in [Channels -> Int]
        /\ \A cat : KeptOf(OfCat(cat)) \in [Channels -> Int]
    BY ValuesAreInts, KeptSum, <2>1
  <2>6. /\ delta.PowerW = D2.PowerW /\ delta.GPUPowerW = D2.GPUPowerW
        /\ \A cat : count(cat, raw) = count(cat, rev)
    BY <2>1, <2>2, <2>4, <2>5
  <2>7. ~Less(volts(raw), volts(rev)) /\ ~Less(volts(rev), volts(raw))
    <3>1. Monitored(raw) \in Seq(Channels) /\ Monitored(rev) \in Seq(Channels)
      BY <2>1, <2>2, MonitoredOf
    <3>2. /\ InCategory(Monitored(raw), "Voltage") \in Seq(Channels)
          /\ InCategory(Monitored(rev), "Voltage") \in Seq(Channels)
      BY <3>1, CategoryOf
    <3> QED  BY <3>2, <2>1, <2>2, <2>3, SameChannels, VoltageGrows
  <2>8. /\ D2.Channels = Monitored(rev) /\ delta.Channels = Monitored(raw)
        /\ stats.TotalInterrupts = count("Interrupt", raw)
        /\ stats.TotalThrottles = count("Throttle", raw)
        /\ ComputeStats(D2.Channels).TotalInterrupts = count("Interrupt", rev)
        /\ ComputeStats(D2.Channels).TotalThrottles = count("Throttle", rev)
    BY <2>1, <2>2, <2>4 DEF ComputeStats
  <2>9. delta.GPUTempC = D2.GPUTempC
    <3>1. ASSUME NEW chs \in Seq(Sampled)
          PROVE  ComputeGPUTemp(chs) =
                    IF SumOf(Values(OneSensor, chs)) = 0 THEN Zero
                    ELSE [num |-> SumOf(Values(OfSensor, chs)), den |-> SumOf(Values(OneSensor, chs))]
      BY TemperatureOf, SensorSums
    <3>2. OfSensor \in [Sampled -> Int] /\ OneSensor \in [Sampled -> Int]  BY MilliIsInt
    <3>3. /\ back \in Seq(Sampled)
          /\ SumOf(Values(OneSensor, back)) = SumOf(Values(OneSensor, curr))
          /\ SumOf(Values(OfSensor, back)) = SumOf(Values(OfSensor, curr))
      BY <2>1, <3>2, ReverseSum
    <3>4. delta.GPUTempC = ComputeGPUTemp(curr) /\ D2.GPUTempC = ComputeGPUTemp(back)
      BY <2>1 DEF Delta
    <3> HIDE DEF back
    <3> QED  BY <2>1, <3>1, <3>3, <3>4
  <2> QED  BY <2>6, <2>7, <2>8, <2>9 DEF SameReversed, rev
<1> QED  BY <1>1, DerivedHolds, PTL

-----------------------------------------------------------------------------
(* Work.                                                                   *)

LEMMA CategoriesAre ==
    ASSUME NEW ch
    PROVE  /\ ch.group = "Interrupt Statistics (by index)" <=> Category(ch) = "Interrupt"
           /\ ch.group = "Energy Model" <=> Category(ch) = "Energy"
           /\ ch.group \in PMPGroups /\ ch.sub \in PWRSGroups <=> Category(ch) = "Throttle"
           /\ ch.group \in PMPGroups /\ ch.sub = "SOC Floor" <=> Category(ch) = "Voltage"
           /\ ch.group = "GPU Stats" <=> Category(ch) = "GPUStats"
BY DEF Category, PMPGroups, PWRSGroups

\* A voltage channel above VMIN makes the voltage figure one above zero.
LEMMA VoltageSeen ==
    ASSUME NEW chs \in Seq(Channels), NEW i \in 1..Len(chs), HasState(chs[i], "VMIN"),
           Total(chs[i]) > ResidencyOf(chs[i], "VMIN")
    PROVE  ComputeVoltageActivePct(chs).num > 0
<1> DEFINE v == VoltageFigures(chs)
           ch == chs[i]
           p == v[i].pct
           h == Highest(v).pct
<1>1. v \in Seq(Figure) /\ Len(v) = Len(chs) /\ ComputeVoltageActivePct(chs) = h
  BY VoltageFiguresOf
<1>2. ch \in Channels  OBVIOUS
<1>3. ResidencyOf(ch, "VMIN") \in Nat /\ Total(ch) \in Nat  BY <1>2, ResidencyBounds, TotalBounds
<1>4. Total(ch) > 0  BY <1>3
<1>5. p = AboveVMIN(ch)  BY <1>4 DEF VoltageFigures
<1>6. p.num > 0 /\ p.num \in Int /\ p.den = Total(ch)
  BY <1>3, <1>5 DEF AboveVMIN, Percent
<1> HIDE DEF v
<1>7. Highest(v) \in Figure /\ ~Less(h, p)  BY <1>1, HighestIsHighest
<1>8. h.num \in Int /\ h.den \in Nat \ {0}  BY <1>7 DEF Figure, Fraction
<1>9. ~(h.num * p.den < p.num * h.den)  BY <1>7 DEF Less
<1> DEFINE a == h.num
           b == h.den
           c == p.num
           d == p.den
<1>10. a \in Int /\ b \in Nat /\ b > 0 /\ c \in Int /\ c > 0 /\ d \in Nat /\ d > 0 /\ ~(a * d < c * b)
  BY <1>3, <1>4, <1>6, <1>8, <1>9
<1> HIDE DEF a, b, c, d
<1>11. c * b > 0  BY <1>10
<1>12. a > 0
  <2>1. SUFFICES ASSUME a <= 0 PROVE FALSE  BY <1>10
  <2>2. a * d <= 0  BY <1>10, <2>1
  <2>3. c * b \in Int /\ a * d \in Int  BY <1>10
  <2> QED  BY <1>10, <1>11, <2>2, <2>3
<1> QED  BY <1>1, <1>12 DEF a

\* An energy has the sign of its counter, whatever its unit.
LEMMA NanoJoulesSign ==
    ASSUME NEW ch \in Channels
    PROVE  (ch.value >= 0 => NanoJoules(ch) >= 0) /\ (ch.value > 0 => NanoJoules(ch) > 0)
           /\ (ch.value = 0 => NanoJoules(ch) = 0)
<1> DEFINE v == ch.value
           m == CASE ch.unit = "mJ" -> 1000000 [] ch.unit = "nJ" -> 1 [] OTHER -> 1000
<1>1. v \in Int  BY ChannelsAssumption
<1>2. m \in {1000000, 1, 1000}  OBVIOUS
<1>3. NanoJoules(ch) = v * m  BY DEF NanoJoules
<1> HIDE DEF v, m
<1>4. CASE m = 1000000  BY <1>1, <1>3, <1>4 DEF v
<1>5. CASE m = 1  BY <1>1, <1>3, <1>5 DEF v
<1>6. CASE m = 1000  BY <1>1, <1>3, <1>6 DEF v
<1> QED  BY <1>2, <1>4, <1>5, <1>6

\* Work on any one channel shows in the figure for it, whatever the others are,
\* if no energy counter runs backwards (stats.go:25-50; classify.go).
THEOREM BusyIsSeenHolds ==
    ASSUME EnergyNotTakenBack
    PROVE  Spec => []BusyIsSeen
<1>1. ASSUME Derived, EnergyNotTakenBack PROVE BusyIsSeen
  <2> DEFINE chs == delta.Channels
             n == Len(chs)
  <2>1. /\ chs \in Seq(Channels) /\ n \in Nat
        /\ delta.PowerW = ComputeANEPower(chs)
        /\ stats = ComputeStats(chs)
    BY <1>1, DerivedParts DEF Derived, Delta
  <2>2. \A i \in 1..n : chs[i] \in Channels  BY <2>1
  <2>0. stats.ActivePct = IF ComputeActivePct(InCategory(chs, "ComputeEn")).num = 0
                            THEN ComputeVoltageActivePct(InCategory(chs, "Voltage"))
                            ELSE ComputeActivePct(InCategory(chs, "ComputeEn"))
    BY <1>1, DerivedParts
  <2> HIDE DEF chs
  <2>3. ASSUME NEW i \in 1..n, chs[i].group = "Energy Model", IsANEName(chs[i].name),
               chs[i].value > 0
        PROVE  delta.PowerW.num > 0
    <3> DEFINE v == Values(OfANE, chs)
    <3>1. v \in Seq(Int) /\ Len(v) = n /\ \A j \in 1..n : v[j] = OfANE[chs[j]]
      <4>1. OfANE \in [Channels -> Int]  BY ValuesAreInts
      <4> QED  BY <2>1, <4>1, ValuesOf
    <3>2. ASSUME NEW j \in 1..n PROVE v[j] >= 0
      <4>1. chs[j] \in Channels  BY <2>2
      <4>2. chs[j].group = "Energy Model" => NanoJoules(chs[j]) >= 0
        BY <4>1, <1>1, NanoJoulesSign DEF EnergyNotTakenBack
      <4>3. \/ OfANE[chs[j]] = NanoJoules(chs[j]) /\ chs[j].group = "Energy Model"
            \/ OfANE[chs[j]] = 0
        BY <4>1 DEF OfANE
      <4>4. v[j] = OfANE[chs[j]]  BY <3>1
      <4>5. OfANE[chs[j]] >= 0
        <5> DEFINE x == OfANE[chs[j]]
        <5>1. (x = NanoJoules(chs[j]) /\ NanoJoules(chs[j]) >= 0) \/ x = 0  BY <4>2, <4>3
        <5> HIDE DEF x
        <5>2. x >= 0  BY <5>1
        <5> QED  BY <5>2 DEF x
      <4> HIDE DEF v
      <4> QED  BY <4>4, <4>5
    <3>3. v[i] > 0
      <4>1. chs[i] \in Channels  BY <2>2
      <4>2. NanoJoules(chs[i]) > 0  BY <4>1, <2>3, NanoJoulesSign
      <4> QED  BY <3>1, <4>1, <4>2, <2>3 DEF OfANE
    <3> HIDE DEF v
    <3>4. v[i] <= SumOf(v) /\ SumOf(v) \in Int /\ v[i] \in Int
      BY <3>1, <3>2, SumOfNats, SumIsInt
    <3>5. delta.PowerW = Watts(SumOf(v))  BY <2>1, EnergySums DEF v
    <3> QED  BY <3>3, <3>4, <3>5 DEF Watts
  <2>4. ASSUME NEW cat, NEW i \in 1..n, Category(chs[i]) = cat, chs[i].value > 0
        PROVE  SumOver(PositiveValue, InCategory(chs, cat)) > 0
    <3> DEFINE v == Values(OfCat(cat), chs)
    <3>1. v \in Seq(Int) /\ Len(v) = n /\ \A j \in 1..n : v[j] = OfCat(cat)[chs[j]]
      <4>1. OfCat(cat) \in [Channels -> Int]  BY ValuesAreInts
      <4> QED  BY <2>1, <4>1, ValuesOf
    <3>2. ASSUME NEW j \in 1..n PROVE v[j] >= 0
      <4>1. chs[j] \in Channels /\ PositiveValue(chs[j]) \in Nat  BY <2>2, ValuesAreInts
      <4>2. OfCat(cat)[chs[j]] = IF Category(chs[j]) = cat THEN PositiveValue(chs[j]) ELSE 0
        BY <4>1 DEF OfCat
      <4>3. OfCat(cat)[chs[j]] >= 0
        <5> DEFINE x == OfCat(cat)[chs[j]]
                   y == PositiveValue(chs[j])
        <5>1. y \in Nat /\ (x = y \/ x = 0)  BY <4>1, <4>2
        <5> HIDE DEF x, y
        <5>2. x >= 0  BY <5>1
        <5> QED  BY <5>2 DEF x
      <4>4. v[j] = OfCat(cat)[chs[j]]  BY <3>1
      <4> QED  BY <4>3, <4>4
    <3>3. v[i] > 0
      <4>1. chs[i] \in Channels  BY <2>2
      <4> QED  BY <3>1, <4>1, <2>4 DEF OfCat, PositiveValue
    <3> HIDE DEF v
    <3>4. v[i] <= SumOf(v) /\ SumOf(v) \in Int /\ v[i] \in Int
      BY <3>1, <3>2, SumOfNats, SumIsInt
    <3>5. SumOver(PositiveValue, InCategory(chs, cat)) = SumOf(v)  BY <2>1, CountSums DEF v
    <3> QED  BY <3>3, <3>4, <3>5
  <2>5. ASSUME NEW i \in 1..n, Category(chs[i]) = "Voltage", HasState(chs[i], "VMIN"),
               Total(chs[i]) > ResidencyOf(chs[i], "VMIN")
        PROVE  stats.ActivePct.num > 0
    <3> DEFINE ce == InCategory(chs, "ComputeEn")
               vo == InCategory(chs, "Voltage")
    <3>1. ce \in Seq(Channels) /\ vo \in Seq(Channels)  BY <2>1, CategoryOf
    <3>2. stats.ActivePct = IF ComputeActivePct(ce).num = 0 THEN ComputeVoltageActivePct(vo)
                                                            ELSE ComputeActivePct(ce)
      BY <2>0
    <3>3. PICK j \in 1..Len(vo) : vo[j] = chs[i]  BY <2>1, <2>5, CategoryOf
    <3>4. ComputeVoltageActivePct(vo).num > 0  BY <3>1, <3>3, <2>5, VoltageSeen
    <3>5. ComputeActivePct(ce) \in Fraction /\ ComputeActivePct(ce).num >= 0
      BY <3>1, ComputeActiveIs
    <3>6. ComputeActivePct(ce).num # 0 => ComputeActivePct(ce).num > 0
      BY <3>5 DEF Fraction
    <3> QED  BY <3>2, <3>4, <3>6
  <2>6. /\ stats.TotalThrottles = SumOver(PositiveValue, InCategory(chs, "Throttle"))
        /\ stats.TotalInterrupts = SumOver(PositiveValue, InCategory(chs, "Interrupt"))
    BY <2>1 DEF ComputeStats
  <2>7. ASSUME NEW i \in 1..n
        PROVE  LET ch == chs[i] IN
          /\ ch.group = "Energy Model" /\ IsANEName(ch.name) /\ ch.value > 0 => delta.PowerW.num > 0
          /\ ch.group \in PMPGroups /\ ch.sub \in PWRSGroups /\ ch.value > 0 => stats.TotalThrottles > 0
          /\ ch.group = "Interrupt Statistics (by index)" /\ ch.value > 0 => stats.TotalInterrupts > 0
          /\ ch.group \in PMPGroups /\ ch.sub = "SOC Floor" /\ HasState(ch, "VMIN")
               /\ Total(ch) > ResidencyOf(ch, "VMIN") => stats.ActivePct.num > 0
    <3> DEFINE ch == chs[i]
    <3>1. /\ ch.group = "Interrupt Statistics (by index)" <=> Category(ch) = "Interrupt"
          /\ ch.group \in PMPGroups /\ ch.sub \in PWRSGroups <=> Category(ch) = "Throttle"
          /\ ch.group \in PMPGroups /\ ch.sub = "SOC Floor" <=> Category(ch) = "Voltage"
      BY CategoriesAre
    <3> QED  BY <3>1, <2>3, <2>4, <2>5, <2>6
  <2> QED  BY <2>7 DEF BusyIsSeen, chs
<1> QED  BY <1>1, DerivedHolds, PTL

-----------------------------------------------------------------------------
(* Rest.                                                                   *)

\* The states of an idle channel that are not idle had no time.
LEMMA IdleResidency ==
    ASSUME NEW ch \in Channels, Idle(ch), NEW i \in 1..Len(ch.states),
           ~IdleState(Category(ch), ch.states[i].name)
    PROVE  ch.states[i].res = 0
<1>1. ch.states[i].res \in Nat  BY StatesOf
<1>2. ~(ch.states[i].res > 0)  BY DEF Idle
<1> QED  BY <1>1, <1>2

LEMMA IdleVoltage ==
    ASSUME NEW ch \in Channels, Idle(ch), Category(ch) = "Voltage", StatesNamedOnce
    PROVE  AboveVMIN(ch).num = 0
<1> DEFINE n == Len(ch.states)
           r == Res(ch)
<1>1. n \in Nat /\ r \in Seq(Int) /\ Len(r) = n /\ Total(ch) = SumOf(r)  BY StatesOf
<1>2. \A i \in 1..n : r[i] = ch.states[i].res  BY DEF Res
<1>3. ASSUME NEW i \in 1..n, ch.states[i].name # "VMIN" PROVE r[i] = 0
  <2>1. ~IdleState(Category(ch), ch.states[i].name)  BY <1>3 DEF IdleState
  <2> QED  BY <1>2, <2>1, IdleResidency
<1>4. Total(ch) = ResidencyOf(ch, "VMIN")
  <2>1. CASE ~HasState(ch, "VMIN")
    <3>1. \A i \in 1..n : r[i] = 0  BY <2>1, <1>3 DEF HasState
    <3>2. ResidencyOf(ch, "VMIN") = 0
      <4>1. \A i \in 1..n : ch.states[i].name # "VMIN"  BY <2>1 DEF HasState
      <4> QED  BY <4>1, ResidencyBounds
    <3> HIDE DEF r, n
    <3> QED  BY <1>1, <3>1, <3>2, SumOfZeros
  <2>2. ASSUME HasState(ch, "VMIN") PROVE Total(ch) = ResidencyOf(ch, "VMIN")
    <3>1. PICK m \in 1..n : ch.states[m].name = "VMIN" /\ ResidencyOf(ch, "VMIN") = ch.states[m].res
      BY <2>2, ResidencyBounds
    <3>2. \A i \in 1..n : i # m => ch.states[i].name # "VMIN"  BY <3>1 DEF StatesNamedOnce
    <3>3. \A i \in 1..n : i # m => r[i] = 0  BY <3>2, <1>3
    <3>4. r[m] = ResidencyOf(ch, "VMIN")  BY <3>1, <1>2
    <3> HIDE DEF r, n
    <3> QED  BY <1>1, <3>3, <3>4, SumOfOne
  <2> QED  BY <2>1, <2>2
<1> QED  BY <1>4, <1>1, SumIsInt DEF AboveVMIN, Percent

\* No time was spent in ACT.
LEMMA IdleACT ==
    ASSUME NEW ch \in Channels, Idle(ch), Category(ch) \in {"ClusterPower", "ThrottleDetail"}
    PROVE  Percent(ResidencyOf(ch, "ACT"), ch).num = 0
<1>1. ASSUME NEW i \in 1..Len(ch.states), ch.states[i].name = "ACT"
      PROVE  ch.states[i].res = 0
  <2>1. ~IdleState(Category(ch), ch.states[i].name)  BY <1>1 DEF IdleState
  <2> QED  BY <2>1, IdleResidency
<1>2. ResidencyOf(ch, "ACT") = 0  BY <1>1, ResidencyBounds
<1> QED  BY <1>2 DEF Percent

\* The weights of a channel in its idle states are all 0.
LEMMA IdleWeights ==
    ASSUME NEW ch \in Channels, Idle(ch)
    PROVE  /\ Category(ch) = "ComputeEn" =>
                SumOf(Weights(ch)) = 0
           /\ Category(ch) = "GPUStats" =>
                SumOf([i \in 1..Len(ch.states) |->
                          IF ch.states[i].name \in {"OFF", "IDLE", "DOWN"}
                            THEN 0 ELSE ch.states[i].res]) = 0
<1> DEFINE n == Len(ch.states)
           u == Weights(ch)
           w == [i \in 1..n |-> IF ch.states[i].name \in {"OFF", "IDLE", "DOWN"}
                                  THEN 0 ELSE ch.states[i].res]
<1>1. n \in Nat /\ \A i \in 1..n : ch.states[i].res \in Nat  BY StatesOf
<1>2. u = [i \in 1..n |-> BucketPct(ch.states[i].name) * ch.states[i].res]  BY DEF Weights
<1>3. ASSUME Category(ch) = "ComputeEn" PROVE SumOf(u) = 0
  <2>1. ASSUME NEW i \in 1..n PROVE u[i] = 0
    <3>1. CASE ch.states[i].name = "0%"
      <4>1. BucketPct(ch.states[i].name) = 0  BY <3>1, BucketAssumption
      <4> QED  BY <4>1, <1>1, <1>2
    <3>2. CASE ch.states[i].name # "0%"
      <4>1. ~IdleState(Category(ch), ch.states[i].name)  BY <1>3, <3>2 DEF IdleState
      <4>2. ch.states[i].res = 0  BY <4>1, IdleResidency
      <4>3. BucketPct(ch.states[i].name) \in Nat  BY BucketAssumption
      <4> QED  BY <4>2, <4>3, <1>2
    <3> QED  BY <3>1, <3>2
  <2>2. Len(u) = n  BY <1>1, <1>2
  <2> HIDE DEF n
  <2>3. u \in Seq(Int)  BY <1>1, <1>2, <2>1
  <2> HIDE DEF u
  <2> QED  BY <2>1, <2>2, <2>3, SumOfZeros
<1>4. ASSUME Category(ch) = "GPUStats" PROVE SumOf(w) = 0
  <2>1. ASSUME NEW i \in 1..n PROVE w[i] = 0
    <3>1. CASE ch.states[i].name \notin {"OFF", "IDLE", "DOWN"}
      <4>1. ~IdleState(Category(ch), ch.states[i].name)  BY <1>4, <3>1 DEF IdleState
      <4> QED  BY <4>1, IdleResidency, <3>1
    <3> QED  BY <3>1
  <2>2. Len(w) = n  BY <1>1
  <2> HIDE DEF n
  <2>3. w \in Seq(Int)  BY <1>1, <2>1
  <2> HIDE DEF w
  <2> QED  BY <2>1, <2>2, <2>3, SumOfZeros
<1> QED  BY <1>3, <1>4

\* The channels of a category among idle ones.
IdleList(chs, cat) ==
    /\ chs \in Seq(Channels)
    /\ \A i \in 1..Len(chs) : chs[i] \in Channels /\ Idle(chs[i]) /\ Category(chs[i]) = cat

LEMMA IdleFigures ==
    ASSUME NEW chs, StatesNamedOnce
    PROVE  /\ IdleList(chs, "ComputeEn") => ComputeActivePct(chs).num = 0
           /\ IdleList(chs, "GPUStats") => ComputeGPUActivePct(chs).num = 0
           /\ IdleList(chs, "ClusterPower") => ComputeClusterActivePct(chs).num = 0
           /\ IdleList(chs, "ThrottleDetail") =>
                \A n \in DOMAIN ComputeThrottleReasons(chs) : ComputeThrottleReasons(chs)[n].num = 0
           /\ IdleList(chs, "Voltage") => ComputeVoltageActivePct(chs).num = 0
<1>1. ASSUME NEW cat, IdleList(chs, cat)
      PROVE  \/ Running(chs) = <<>>
             \/ \E ch \in Channels : Running(chs) = <<ch>> /\ Idle(ch) /\ Category(ch) = cat
  <2>1. chs \in Seq(Channels)  BY <1>1 DEF IdleList
  <2>2. \A i \in 1..Len(chs) : Idle(chs[i]) /\ Category(chs[i]) = cat  BY <1>1 DEF IdleList
  <2> QED  BY <2>1, <2>2, FirstRan
<1>2. Zero.num = 0  BY DEF Zero
<1>3. ASSUME IdleList(chs, "ComputeEn") PROVE ComputeActivePct(chs).num = 0
  <2>1. CASE Running(chs) = <<>>
    <3>1. ComputeActivePct(chs) = Zero  BY Zenon, <2>1 DEF ComputeActivePct
    <3> QED  BY <1>2, <3>1
  <2>2. ASSUME NEW ch \in Channels, Running(chs) = <<ch>>, Idle(ch), Category(ch) = "ComputeEn"
        PROVE  ComputeActivePct(chs).num = 0
    <3>1. chs \in Seq(Channels)  BY <1>3 DEF IdleList
    <3>2. ComputeActivePct(chs) = BucketMean(ch)  BY <2>2, <3>1, ComputeActiveIs
    <3>3. SumOf(Weights(ch)) = 0  BY <2>2, IdleWeights
    <3> QED  BY <3>2, <3>3 DEF BucketMean
  <2> QED  BY <1>1, <1>3, <2>1, <2>2
<1>4. ASSUME IdleList(chs, "GPUStats") PROVE ComputeGPUActivePct(chs).num = 0
  <2>1. CASE Running(chs) = <<>>
    <3>1. ComputeGPUActivePct(chs) = Zero  BY Zenon, <2>1 DEF ComputeGPUActivePct
    <3> QED  BY <1>2, <3>1
  <2>2. ASSUME NEW ch \in Channels, Running(chs) = <<ch>>, Idle(ch), Category(ch) = "GPUStats"
        PROVE  ComputeGPUActivePct(chs).num = 0
    <3> DEFINE w == [i \in 1..Len(ch.states) |->
                        IF ch.states[i].name \in {"OFF", "IDLE", "DOWN"}
                          THEN 0 ELSE ch.states[i].res]
    <3>1. ComputeGPUActivePct(chs) = Percent(SumOf(w), ch)
      BY <2>2 DEF ComputeGPUActivePct, SumOver
    <3>2. SumOf(w) = 0  BY <2>2, IdleWeights
    <3> QED  BY <3>1, <3>2 DEF Percent
  <2> QED  BY <1>1, <1>4, <2>1, <2>2
<1>5. ASSUME IdleList(chs, "ClusterPower") PROVE ComputeClusterActivePct(chs).num = 0
  <2>1. CASE Running(chs) = <<>>
    BY <1>2, <2>1 DEF ComputeClusterActivePct
  <2>2. ASSUME NEW ch \in Channels, Running(chs) = <<ch>>, Idle(ch),
               Category(ch) = "ClusterPower"
        PROVE  ComputeClusterActivePct(chs).num = 0
    <3>1. ComputeClusterActivePct(chs) = Percent(ResidencyOf(ch, "ACT"), ch)
      BY <2>2 DEF ComputeClusterActivePct
    <3> QED  BY <3>1, <2>2, IdleACT
  <2> QED  BY <1>1, <1>5, <2>1, <2>2
<1>6. ASSUME IdleList(chs, "ThrottleDetail"), NEW n \in DOMAIN ComputeThrottleReasons(chs)
      PROVE  ComputeThrottleReasons(chs)[n].num = 0
  <2>1. chs \in Seq(Channels) /\ \A i \in 1..Len(chs) : Idle(chs[i]) /\ Category(chs[i]) = "ThrottleDetail"
    BY <1>6 DEF IdleList
  <2>2. PICK ch \in Channels :
            /\ \E i \in 1..Len(chs) : chs[i] = ch
            /\ ComputeThrottleReasons(chs)[n] = Percent(ResidencyOf(ch, "ACT"), ch)
    BY <2>1, ReasonsOf
  <2>3. Idle(ch) /\ Category(ch) = "ThrottleDetail"  BY <2>1, <2>2
  <2> QED  BY <2>2, <2>3, IdleACT
<1>7. ASSUME IdleList(chs, "Voltage") PROVE ComputeVoltageActivePct(chs).num = 0
  <2> DEFINE v == VoltageFigures(chs)
  <2>1. chs \in Seq(Channels)  BY <1>7 DEF IdleList
  <2>2. v \in Seq(Figure) /\ Len(v) = Len(chs) /\ ComputeVoltageActivePct(chs) = Highest(v).pct
    BY <2>1, VoltageFiguresOf
  <2>3. ASSUME NEW i \in 1..Len(chs) PROVE v[i].pct.num = 0
    <3>1. chs[i] \in Channels /\ Idle(chs[i]) /\ Category(chs[i]) = "Voltage"
      BY <1>7 DEF IdleList
    <3>2. AboveVMIN(chs[i]).num = 0  BY <3>1, IdleVoltage
    <3> QED  BY <3>2, <1>2 DEF VoltageFigures
  <2> HIDE DEF v
  <2>4. Highest(v) = None \/ (Highest(v).pct.num > 0 /\ \E i \in 1..Len(v) : Highest(v) = v[i])
    BY <2>2, HighestIsHighest
  <2>5. None.pct.num = 0  BY DEF None
  <2>6. ~(\E i \in 1..Len(v) : Highest(v) = v[i] /\ Highest(v).pct.num > 0)  BY <2>2, <2>3
  <2> QED  BY <2>2, <2>4, <2>5, <2>6
<1> QED  BY <1>3, <1>4, <1>5, <1>6, <1>7

LEMMA IdleCounts ==
    ASSUME NEW chs \in Seq(Channels), \A i \in 1..Len(chs) : Idle(chs[i])
    PROVE  /\ ComputeANEPower(chs).num = 0
           /\ SumOver(Counted, InCategory(chs, "Interrupt")) = 0
<1>1. SumOf(Values(OfANE, chs)) = 0
  <2> DEFINE v == Values(OfANE, chs)
  <2>1. v \in Seq(Int) /\ Len(v) = Len(chs) /\ \A j \in 1..Len(chs) : v[j] = OfANE[chs[j]]
    <3>1. OfANE \in [Channels -> Int]  BY ValuesAreInts
    <3> QED  BY <3>1, ValuesOf
  <2>2. ASSUME NEW j \in 1..Len(chs) PROVE OfANE[chs[j]] = 0
    <3>1. chs[j] \in Channels  OBVIOUS
    <3>2. ASSUME chs[j].group = "Energy Model" PROVE NanoJoules(chs[j]) = 0
      <4>1. Category(chs[j]) = "Energy"  BY <3>2, CategoriesAre
      <4>2. chs[j].value = 0  BY <4>1 DEF Idle
      <4> QED  BY <3>1, <4>2, NanoJoulesSign
    <3> QED  BY <3>1, <3>2 DEF OfANE
  <2> HIDE DEF v
  <2>3. \A j \in 1..Len(v) : v[j] = 0  BY <2>1, <2>2
  <2>4. SumOf(v) = 0  BY <2>1, <2>3, SumOfZeros
  <2> QED  BY <2>4 DEF v
<1>2. SumOver(Counted, InCategory(chs, "Interrupt")) = 0
  <2> DEFINE s == InCategory(chs, "Interrupt")
             v == [i \in 1..Len(s) |-> Counted(s[i])]
  <2>1. /\ s \in Seq(Channels)
        /\ \A j \in 1..Len(s) : Category(s[j]) = "Interrupt" /\ \E i \in 1..Len(chs) : chs[i] = s[j]
    BY CategoryOf
  <2>2. ASSUME NEW j \in 1..Len(s) PROVE v[j] = 0
    <3>1. Idle(s[j])  BY <2>1
    <3>2. s[j].value = 0  BY <2>1, <3>1 DEF Idle
    <3> QED  BY <3>2 DEF Counted, PositiveValue
  <2>3. SumOver(Counted, s) = SumOf(v)  BY DEF SumOver
  <2>4. Len(s) \in Nat  BY <2>1
  <2>5. v \in Seq(Int) /\ Len(v) = Len(s)
    <3> HIDE DEF s
    <3> QED  BY <2>2, <2>4
  <2> HIDE DEF v
  <2> QED  BY <2>2, <2>3, <2>5, SumOfZeros
<1>3. ComputeANEPower(chs) = Watts(SumOf(Values(OfANE, chs)))  BY EnergySums
<1> QED  BY <1>1, <1>2, <1>3 DEF Watts

\* Of an idle channel nothing above zero is reported.
LEMMA IdleReports ==
    ASSUME NEW ch \in Channels, Idle(ch), StatesNamedOnce, NEW m \in OfChannel(ch)
    PROVE  m.value.num = 0
<1>1. /\ ch.group = "Interrupt Statistics (by index)" <=> Category(ch) = "Interrupt"
      /\ ch.group = "Energy Model" <=> Category(ch) = "Energy"
      /\ ch.group \in PMPGroups /\ ch.sub = "SOC Floor" <=> Category(ch) = "Voltage"
      /\ ch.group = "GPU Stats" <=> Category(ch) = "GPUStats"
  BY CategoriesAre
<1>2. ch.group \in PMPGroups => ch.group # "GPU Stats"  BY DEF PMPGroups
<1>3. CASE ch.value = 0 /\ m.value = Whole(ch.value)  BY <1>3 DEF Whole
<1>4. CASE Category(ch) = "Voltage" /\ m.value = AboveVMIN(ch)  BY <1>4, IdleVoltage
<1>5. \/ ch.group # "GPU Stats" /\ m.value = Whole(ch.value)
      \/ Category(ch) = "Voltage" /\ m.value = AboveVMIN(ch)
  <2>1. ASSUME NEW flag, NEW unit, NEW of, NEW value, m = Metric(flag, unit, of, value)
        PROVE  m.value = value
    BY <2>1 DEF Metric
  <2>2. CASE /\ ch.group = "Energy Model"
             /\ m = Metric("Energy", "ane-energy/op", ch.unit, Whole(ch.value))
    <3>1. m.value = Whole(ch.value)  BY <2>1, <2>2
    <3> QED  BY <2>2, <3>1
  <2>3. CASE /\ ch.group = "Interrupt Statistics (by index)"
             /\ m = Metric("Interrupt", "/op", ch.name, Whole(ch.value))
    <3>1. m.value = Whole(ch.value)  BY <2>1, <2>3
    <3> QED  BY <2>3, <3>1
  <2>4. CASE /\ ch.group \in PMPGroups
             /\ m = Metric("Throttle", "ane-throttle-events/op", NoName, Whole(ch.value))
    <3>1. m.value = Whole(ch.value)  BY <2>1, <2>4
    <3> QED  BY <2>4, <3>1, <1>2
  <2>5. CASE /\ ch.sub = "SOC Floor" /\ ch.group \in PMPGroups
             /\ m = Metric("Voltage", "-active-%", ch.name, AboveVMIN(ch))
    <3>1. m.value = AboveVMIN(ch)  BY <2>1, <2>5
    <3> QED  BY <2>5, <3>1, <1>1
  <2> QED  BY <2>2, <2>3, <2>4, <2>5, Zenon DEF OfChannel
<1> QED  BY <1>1, <1>3, <1>4, <1>5 DEF Idle

\* A machine at rest is shown at rest, however many channels it lists, if it lists
\* each state of a channel once (stats.go:63-200; types.go:97-188).
THEOREM IdleShowsIdleHolds ==
    ASSUME StatesNamedOnce
    PROVE  Spec => []IdleShowsIdle
<1>1. ASSUME Derived, StatesNamedOnce PROVE IdleShowsIdle
  <2> SUFFICES ASSUME \A i \in 1..Len(raw) : Idle(raw[i])
               PROVE  /\ stats.GPUActivePct.num = 0
                      /\ \A i \in 1..Len(reports) :
                            reports[i].unit = "sample-ns/op" \/ reports[i].value.num = 0
    BY DEF IdleShowsIdle
  <2> DEFINE chs == delta.Channels
             of(cat) == InCategory(chs, cat)
  <2>1. chs \in Seq(Channels) /\ chs = Monitored(raw) /\ raw \in Seq(Channels)
    BY <1>1, DerivedParts DEF Derived
  <2>2. \A i \in 1..Len(chs) : Idle(chs[i])  BY <2>1, MonitoredOf
  <2>3. ASSUME NEW cat PROVE IdleList(of(cat), cat)
    BY <2>1, <2>2, CategoryOf DEF IdleList
  <2>4. /\ stats.GPUActivePct = ComputeGPUActivePct(of("GPUStats"))
        /\ stats.ClusterActivePct = ComputeClusterActivePct(of("ClusterPower"))
        /\ stats.ThrottleReasons = ComputeThrottleReasons(of("ThrottleDetail"))
        /\ stats.ActivePct = IF ComputeActivePct(of("ComputeEn")).num = 0
                               THEN ComputeVoltageActivePct(of("Voltage"))
                               ELSE ComputeActivePct(of("ComputeEn"))
        /\ reports \in Seq(Reported(delta, stats))
    BY <1>1, DerivedParts
  <2>5. delta.PowerW = ComputeANEPower(chs)  BY <1>1 DEF Derived, Delta
  <2>6. delta.PowerW.num = 0 /\ SumOver(Counted, of("Interrupt")) = 0
    BY <2>1, <2>2, <2>5, IdleCounts
  <2>7. /\ stats.GPUActivePct.num = 0 /\ stats.ClusterActivePct.num = 0
        /\ stats.ActivePct.num = 0
        /\ \A n \in DOMAIN stats.ThrottleReasons : stats.ThrottleReasons[n].num = 0
    BY <1>1, <2>3, <2>4, IdleFigures
  <2>8. ASSUME NEW m \in Reported(delta, stats)
        PROVE  m.unit = "sample-ns/op" \/ m.value.num = 0
    <3>1. CASE m \in {Metric("Power", "ane-watts", NoName, delta.PowerW),
                      Metric("Duration", "sample-ns/op", NoName, Whole(DurationMs)),
                      Metric("Interrupt", "ane-interrupts/op", NoName,
                             Whole(SumOver(Counted, of("Interrupt")))),
                      Metric("Compute", "ane-compute-%", NoName, stats.ActivePct),
                      Metric("Cluster", "ane-cluster-active-%", NoName, stats.ClusterActivePct)}
      BY <3>1, <2>6, <2>7 DEF Metric, Whole
    <3>2. ASSUME NEW n \in DOMAIN stats.ThrottleReasons,
                 m = Metric("Throttle", "ane-throttle-act-%", n, stats.ThrottleReasons[n])
          PROVE  m.value.num = 0
      BY <3>2, <2>7 DEF Metric
    <3>3. ASSUME NEW i \in 1..Len(chs), m \in OfChannel(chs[i])
          PROVE  m.value.num = 0
      <4>1. chs[i] \in Channels /\ Idle(chs[i])  BY <2>1, <2>2
      <4> QED  BY <1>1, <3>3, <4>1, IdleReports
    <3> QED  BY <3>1, <3>2, <3>3 DEF Reported
  <2> QED  BY <2>4, <2>7, <2>8
<1> QED  BY <1>1, DerivedHolds, PTL

-----------------------------------------------------------------------------
(* The terminal: the channels that ran, the histogram.                     *)

LEMMA RanOf ==
    ASSUME NEW chs \in Seq(Channels)
    PROVE  /\ Ran(chs) \in Seq(Channels)
           /\ \A j \in 1..Len(Ran(chs)) :
                Total(Ran(chs)[j]) > 0 /\ \E i \in 1..Len(chs) : chs[i] = Ran(chs)[j]
           /\ \A i \in 1..Len(chs) :
                Total(chs[i]) > 0 => \E j \in 1..Len(Ran(chs)) : Ran(chs)[j] = chs[i]
           /\ \/ Ran(chs) = <<>> /\ Running(chs) = <<>>
              \/ Len(Ran(chs)) > 0 /\ Running(chs) = <<Ran(chs)[1]>>
<1> DEFINE n == Len(chs)
           A == {ch \in ToSet(chs) : Total(ch) # 0}
           at == {i \in 1..n : Total(chs[i]) > 0}
           r == Ran(chs)
<1>1. r = Keep(chs, A)  BY DEF Ran, Select
<1>2. n \in Nat /\ \A i \in 1..n : chs[i] \in Channels /\ Total(chs[i]) \in Nat
  BY TotalBounds
<1>3. \A i \in 1..n : chs[i] \in A <=> Total(chs[i]) > 0  BY <1>2 DEF ToSet
<1>4. /\ Keep(chs, A) \in Seq(Channels)
      /\ \A j \in 1..Len(Keep(chs, A)) :
            Keep(chs, A)[j] \in A /\ \E i \in 1..n : chs[i] = Keep(chs, A)[j]
      /\ \A i \in 1..n : chs[i] \in A => \E j \in 1..Len(Keep(chs, A)) : Keep(chs, A)[j] = chs[i]
  <2> HIDE DEF A
  <2>1. KeptOnly(Keep(chs, A), Channels, chs, A)  BY KeepOnly
  <2> QED  BY <2>1 DEF KeptOnly
<1>5. Running(chs) = IF at = {} THEN <<>> ELSE <<chs[Min(at)]>>  BY DEF Running, FirstWith
<1>6. CASE at = {}
  <2>1. \A i \in 1..n : chs[i] \notin A  BY <1>3, <1>6
  <2> HIDE DEF A, r
  <2>2. 1 \notin 1..Len(r)  BY <2>1, <1>1, <1>4
  <2>3. r = <<>>  BY <2>2, <1>1, <1>4
  <2> QED  BY <2>3, <1>1, <1>3, <1>4, <1>5, <1>6 DEF r
<1>7. CASE at # {}
  <2>1. Min(at) \in at /\ \A i \in at : Min(at) <= i
    <3>1. at \in SUBSET (1..n)  OBVIOUS
    <3> HIDE DEF at, n
    <3> QED  BY <3>1, <1>2, <1>7, MinIsLeast
  <2>2. Min(at) \in 1..n /\ chs[Min(at)] \in A  BY <2>1, <1>3
  <2>3. \A i \in 1..n : i < Min(at) => chs[i] \notin A
    <3> DEFINE m == Min(at)
    <3>1. m \in 1..n /\ \A i \in 1..n : Total(chs[i]) > 0 => m <= i  BY <2>1
    <3> HIDE DEF m, A
    <3> QED  BY <3>1, <1>2, <1>3 DEF m
  <2> HIDE DEF A, at
  <2>4. Len(Keep(chs, A)) > 0 /\ Keep(chs, A)[1] = chs[Min(at)]
    BY <2>2, <2>3, KeepFirst
  <2> QED  BY <2>4, <1>1, <1>3, <1>4, <1>5, <1>7
<1> QED  BY <1>6, <1>7

\* The tallest bar stands for the longest residency.
Most(ch) == Max({0} \union {ch.states[i].res : i \in 1..Len(ch.states)})

LEMMA MostOf ==
    ASSUME NEW ch \in Channels
    PROVE  /\ Most(ch) \in Nat
           /\ \A i \in 1..Len(ch.states) : ch.states[i].res <= Most(ch)
           /\ \A i \in 1..Len(ch.states) :
                (\A j \in 1..Len(ch.states) : ch.states[j].res <= ch.states[i].res)
                  => Most(ch) = ch.states[i].res
<1> DEFINE n == Len(ch.states)
           f == [i \in 1..n |-> ch.states[i].res]
           S == {0} \union {f[i] : i \in 1..n}
<1>1. n \in Nat /\ \A i \in 1..n : ch.states[i].res \in Nat  BY StatesOf
<1>2. f \in [1..n -> Int] /\ \A i \in 1..n : f[i] \in Nat /\ f[i] = ch.states[i].res  BY <1>1
<1>3. S = {0} \union {ch.states[i].res : i \in 1..n}  OBVIOUS
<1> HIDE DEF f
<1>4. S \in SUBSET Nat  BY <1>2
<1>5. \E x \in S : \A y \in S : y <= x
  <2>1. CASE n = 0
    <3>1. S = {0}  BY <2>1
    <3> HIDE DEF S
    <3>2. 0 \in S /\ \A y \in S : y <= 0  BY <3>1
    <3> QED  BY <3>2
  <2>2. CASE n > 0
    <3>1. PICK i \in 1..n : \A j \in 1..n : f[j] <= f[i]
      <4> HIDE DEF n
      <4> QED  BY <1>1, <1>2, <2>2, GreatestExists
    <3>2. f[i] \in S /\ f[i] \in Nat  BY <1>2
    <3>3. \A y \in S : y <= f[i]  BY <3>1, <3>2
    <3> QED  BY <3>2, <3>3
  <2> QED  BY <2>1, <2>2, <1>1
<1>6. Most(ch) = Max(S)  BY <1>3 DEF Most
<1> HIDE DEF S
<1>7. Max(S) \in S /\ \A y \in S : y <= Max(S)
  <2>1. \E x \in S : \A y \in S : x >= y  BY <1>4, <1>5
  <2>2. Max(S) \in S /\ \A y \in S : Max(S) >= y
    <3> DEFINE Greatest(x) == x \in S /\ \A y \in S : x >= y
    <3>1. Max(S) = CHOOSE x : Greatest(x)  BY DEF Max
    <3>2. \E x : Greatest(x)  BY <2>1
    <3> HIDE DEF Greatest
    <3>3. Greatest(Max(S))  BY <3>1, <3>2
    <3> QED  BY <3>3 DEF Greatest
  <2> QED  BY <1>4, <2>2
<1>8. Max(S) \in Nat  BY <1>4, <1>7
<1>9. \A i \in 1..n : f[i] \in S  BY DEF S
<1>10. ASSUME NEW i \in 1..n, \A j \in 1..n : f[j] <= f[i]
       PROVE  Max(S) = f[i]
  <2>1. f[i] <= Max(S)  BY <1>7, <1>9
  <2>2. Max(S) <= f[i]
    <3>1. Max(S) = 0 \/ \E j \in 1..n : Max(S) = f[j]  BY <1>7 DEF S
    <3> QED  BY <3>1, <1>2, <1>10
  <2> QED  BY <2>1, <2>2, <1>2, <1>8
<1> HIDE DEF n
<1>11. \A i \in 1..n : ch.states[i].res <= Max(S)  BY <1>2, <1>7, <1>9
<1>12. \A i \in 1..n : (\A j \in 1..n : ch.states[j].res <= ch.states[i].res) => Max(S) = ch.states[i].res
  BY <1>2, <1>10
<1> QED  BY <1>6, <1>8, <1>11, <1>12 DEF n

\* A bar is no longer than 20 cells.
LEMMA BarFits ==
    ASSUME NEW a \in Nat, NEW b \in Nat, b > 0, a <= b
    PROVE  (20 * a) \div b \in 0..20 /\ (a = b => (20 * a) \div b = 20)
<1> DEFINE q == (20 * a) \div b
<1>1. q \in Int /\ b * q <= 20 * a /\ 20 * a < b * (q + 1)  OBVIOUS
<1>2. b * (q + 1) = b * q + b  BY <1>1
<1> HIDE DEF q
<1>3. q >= 0
  <2>1. SUFFICES ASSUME q + 1 <= 0 PROVE FALSE  BY <1>1
  <2>2. b * (q + 1) <= 0  BY <2>1, <1>1
  <2> QED  BY <2>2, <1>1
<1>4. q <= 20
  <2>1. SUFFICES ASSUME q >= 21 PROVE FALSE  BY <1>1
  <2>2. b * q >= b * 21  BY <2>1, <1>1
  <2> QED  BY <2>2, <1>1
<1>5. ASSUME a = b PROVE q >= 20
  <2>1. SUFFICES ASSUME q + 1 <= 20 PROVE FALSE  BY <1>1
  <2>2. b * (q + 1) <= b * 20  BY <2>1, <1>1
  <2> QED  BY <2>2, <1>1, <1>5
<1> QED  BY <1>1, <1>3, <1>4, <1>5 DEF q

\* The bucket with most residency is that of the highest percentage.
LEMMA PeakIsMost ==
    ASSUME NEW ch \in Channels, Total(ch) > 0
    PROVE  \E i \in 1..Len(ch.states) :
              /\ Highest(Buckets(ch)).name = ch.states[i].name
              /\ ch.states[i].res = Most(ch)
<1> DEFINE n == Len(ch.states)
           v == Buckets(ch)
           h == Highest(v)
           t == Total(ch)
<1>1. /\ v \in Seq(Figure) /\ Len(v) = n
      /\ \A i \in 1..n : v[i].name = ch.states[i].name
  BY BucketsOf DEF Buckets
<1>0. ASSUME NEW i \in 1..n
      PROVE  v[i].pct.num = 100 * ch.states[i].res /\ v[i].pct.den = t
  BY DEF Buckets, Percent
<1>2. n \in Nat /\ t \in Nat /\ t > 0 /\ \A i \in 1..n : ch.states[i].res \in Nat
  BY StatesOf, TotalBounds
<1>3. \E i \in 1..n : ch.states[i].res > 0
  <2>1. SUFFICES ASSUME \A i \in 1..n : ~(ch.states[i].res > 0) PROVE FALSE  OBVIOUS
  <2>2. \A i \in 1..n : ch.states[i].res = 0  BY <1>2, <2>1
  <2>3. \A i \in 1..n : Res(ch)[i] = 0  BY <2>2 DEF Res
  <2>4. Res(ch) \in Seq(Int) /\ Len(Res(ch)) = n /\ t = SumOf(Res(ch))  BY StatesOf
  <2> HIDE DEF n, t
  <2>5. t = 0  BY <2>3, <2>4, SumOfZeros
  <2> QED  BY <2>5, <1>2
<1> HIDE DEF v
<1>4. /\ h \in Figure
      /\ \A i \in 1..n : ~Less(h.pct, v[i].pct)
      /\ h = None \/ (h.pct.num > 0 /\ \E i \in 1..n : h = v[i])
  BY <1>1, HighestIsHighest
<1> HIDE DEF h, n, t
<1>5. h # None
  <2>1. SUFFICES ASSUME h = None PROVE FALSE  OBVIOUS
  <2>2. PICK i \in 1..n : ch.states[i].res > 0  BY <1>3
  <2>3. ~Less(None.pct, v[i].pct)  BY <2>1, <1>4
  <2>4. v[i].pct.num = 100 * ch.states[i].res /\ v[i].pct.den = t  BY <1>0
  <2>5. None.pct.num = 0 /\ None.pct.den = 1  BY DEF None
  <2>6. ~(0 * t < (100 * ch.states[i].res) * 1)  BY <2>3, <2>4, <2>5, Zenon DEF Less
  <2>7. 0 * t = 0 /\ ch.states[i].res \in Nat  BY <1>2
  <2> QED  BY <2>2, <2>6, <2>7
<1>6. PICK i \in 1..n : h = v[i]  BY <1>4, <1>5
<1>7. ASSUME NEW j \in 1..n PROVE ch.states[j].res <= ch.states[i].res
  <2> DEFINE a == ch.states[i].res
             b == ch.states[j].res
  <2>1. ~Less(v[i].pct, v[j].pct)  BY <1>4, <1>6
  <2>0. /\ v[i].pct.num = 100 * a /\ v[i].pct.den = t
        /\ v[j].pct.num = 100 * b /\ v[j].pct.den = t
    BY <1>0
  <2>2. ~((100 * a) * t < (100 * b) * t)  BY <2>0, <2>1, Zenon DEF Less
  <2>3. a \in Nat /\ b \in Nat  BY <1>2
  <2> HIDE DEF a, b
  <2>4. b <= a
    <3>1. SUFFICES ASSUME a + 1 <= b PROVE FALSE  BY <2>3
    <3>2. (100 * a + 100) * t <= (100 * b) * t  BY <3>1, <2>3, <1>2
    <3>3. (100 * a + 100) * t = (100 * a) * t + 100 * t  BY <2>3, <1>2
    <3> QED  BY <3>2, <3>3, <2>2, <2>3, <1>2
  <2> QED  BY <2>4 DEF a, b
<1>8. Most(ch) = ch.states[i].res  BY <1>7, MostOf DEF n
<1>9. h.name = ch.states[i].name  BY <1>1, <1>6
<1> QED  BY <1>8, <1>9 DEF h, v, n

\* With no more than 200 states, the longest residency is at least half a percent.
LEMMA MostIsRendered ==
    ASSUME NEW ch \in Channels, Len(ch.states) <= 200
    PROVE  Rendered(ch, Most(ch))
<1> DEFINE n == Len(ch.states)
           r == Res(ch)
           m == Most(ch)
<1>1. n \in Nat /\ r \in Seq(Int) /\ Len(r) = n /\ Total(ch) = SumOf(r)  BY StatesOf
<1>2. m \in Nat /\ \A i \in 1..n : r[i] <= m  BY MostOf DEF Res
<1> HIDE DEF r, m
<1>3. SumOf(r) <= m * n
  <2>1. \A i \in 1..Len(r) : r[i] <= m  BY <1>1, <1>2
  <2>2. m \in Int  BY <1>2
  <2>3. SumOf(r) <= m * Len(r)  BY <1>1, <2>1, <2>2, SumBounds, Zenon
  <2> QED  BY <2>3, <1>1
<1> HIDE DEF n
<1>4. n <= 200  BY DEF n
<1>5. m * n <= m * 200  BY <1>1, <1>2, <1>4
<1>6. SumOf(r) \in Int  BY <1>1, SumIsInt
<1> QED  BY <1>1, <1>2, <1>3, <1>5, <1>6 DEF Rendered, m

\* The states of a channel that have a bar, in their order.
LEMMA BarsOf ==
    ASSUME NEW ch \in Channels
    PROVE  /\ \A j \in 1..Len(Histogram(ch)) : Histogram(ch)[j].bar \in 0..20
           /\ \A i \in 1..Len(ch.states) :
                ch.states[i].res = Most(ch) /\ Most(ch) > 0 /\ Rendered(ch, Most(ch)) =>
                   \E j \in 1..Len(Histogram(ch)) :
                      Histogram(ch)[j] = [name |-> ch.states[i].name, bar |-> 20]
<1> DEFINE A == {s \in ToSet(ch.states) : Rendered(ch, s.res)}
           shown == Keep(ch.states, A)
           most == Most(ch)
           bar(s) == IF most > 0 THEN (20 * s.res) \div most ELSE 0
<1>1. Histogram(ch) = [j \in 1..Len(shown) |-> [name |-> shown[j].name, bar |-> bar(shown[j])]]
  BY DEF Histogram, Select, Most
<1>2. /\ ch.states \in Seq(State) /\ most \in Nat
      /\ \A i \in 1..Len(ch.states) : ch.states[i].res \in Nat /\ ch.states[i].res <= most
  BY StatesOf, MostOf
<1>3. \A i \in 1..Len(ch.states) : Rendered(ch, ch.states[i].res) => ch.states[i] \in A
  BY DEF ToSet
<1> HIDE DEF A, most
<1>4. /\ shown \in Seq(State)
      /\ \A j \in 1..Len(shown) : \E i \in 1..Len(ch.states) : ch.states[i] = shown[j]
      /\ \A i \in 1..Len(ch.states) : ch.states[i] \in A => \E j \in 1..Len(shown) : shown[j] = ch.states[i]
  BY <1>2, KeepElements
<1> HIDE DEF shown
<1>5. Len(Histogram(ch)) = Len(shown)  BY <1>1, <1>4
<1>6. ASSUME NEW j \in 1..Len(shown) PROVE bar(shown[j]) \in 0..20
  <2>1. shown[j].res \in Nat /\ shown[j].res <= most  BY <1>2, <1>4
  <2>2. CASE most > 0
    <3>1. (20 * shown[j].res) \div most \in 0..20  BY <1>2, <2>1, <2>2, BarFits
    <3> QED  BY <2>2, <3>1
  <2>3. CASE ~(most > 0)  BY <2>3
  <2> QED  BY <2>2, <2>3
<1>7. ASSUME NEW i \in 1..Len(ch.states), ch.states[i].res = most, most > 0, Rendered(ch, most)
      PROVE  \E j \in 1..Len(shown) :
                [name |-> shown[j].name, bar |-> bar(shown[j])] = [name |-> ch.states[i].name, bar |-> 20]
  <2>1. PICK j \in 1..Len(shown) : shown[j] = ch.states[i]  BY <1>3, <1>4, <1>7
  <2>2. bar(shown[j]) = 20  BY <2>1, <1>2, <1>7, BarFits
  <2> QED  BY <2>1, <2>2
<1>8. \A j \in 1..Len(shown) : Histogram(ch)[j] = [name |-> shown[j].name, bar |-> bar(shown[j])]
  BY <1>1
<1> HIDE DEF bar
<1>9. ASSUME NEW j \in 1..Len(Histogram(ch)) PROVE Histogram(ch)[j].bar \in 0..20
  <2>1. j \in 1..Len(shown)  BY <1>5
  <2>2. Histogram(ch)[j] = [name |-> shown[j].name, bar |-> bar(shown[j])]  BY <2>1, <1>8
  <2>3. Histogram(ch)[j].bar = bar(shown[j])  BY <2>2
  <2> QED  BY <2>1, <2>3, <1>6
<1>10. ASSUME NEW i \in 1..Len(ch.states), ch.states[i].res = most, most > 0, Rendered(ch, most)
       PROVE  \E j \in 1..Len(Histogram(ch)) :
                 Histogram(ch)[j] = [name |-> ch.states[i].name, bar |-> 20]
  <2>1. PICK j \in 1..Len(shown) :
            [name |-> shown[j].name, bar |-> bar(shown[j])] = [name |-> ch.states[i].name, bar |-> 20]
    BY <1>7, <1>10
  <2>2. Histogram(ch)[j] = [name |-> ch.states[i].name, bar |-> 20]  BY <2>1, <1>8
  <2> QED  BY <2>2, <1>5
<1> QED  BY <1>9, <1>10 DEF most

\* The bars fit their cells, and the peak that the heading names is a full bar, for
\* histograms of up to 200 buckets (main.go:420-445; stats.go:112-136).
THEOREM PeakIsOnTopHolds ==
    ASSUME FewStates
    PROVE  Spec => []PeakIsOnTop
<1>1. ASSUME Derived, FewStates PROVE PeakIsOnTop
  <2> DEFINE chs == InCategory(delta.Channels, "ComputeEn")
             ce == Ran(chs)
  <2>1. chs \in Seq(Channels) /\ stats.PeakCE = PeakCEBucket(chs)  BY <1>1, DerivedParts
  <2> HIDE DEF chs
  <2>2. /\ ce \in Seq(Channels)
        /\ \A j \in 1..Len(ce) : Total(ce[j]) > 0
        /\ ce = <<>> \/ (Len(ce) > 0 /\ Running(chs) = <<ce[1]>>)
    BY <2>1, RanOf
  <2> HIDE DEF ce
  <2>3. \A i \in 1..Len(ce) : \A j \in 1..Len(Histogram(ce[i])) : Histogram(ce[i])[j].bar \in 0..20
    <3>1. ASSUME NEW i \in 1..Len(ce)
          PROVE  \A j \in 1..Len(Histogram(ce[i])) : Histogram(ce[i])[j].bar \in 0..20
      <4>1. ce[i] \in Channels  BY <2>2
      <4> QED  BY <4>1, BarsOf
    <3> QED  BY <3>1
  <2>4. ASSUME ce # <<>>
        PROVE  \E j \in 1..Len(Histogram(ce[1])) :
                  Histogram(ce[1])[j] = [name |-> stats.PeakCE.name, bar |-> 20]
    <3> DEFINE ch == ce[1]
    <3>1. ch \in Channels /\ Total(ch) > 0 /\ Running(chs) = <<ch>>  BY <2>2, <2>4
    <3> HIDE DEF ch
    <3>2. stats.PeakCE = Highest(Buckets(ch))
      <4>1. \A x : <<x>> # <<>> /\ (<<x>> = <<ch>> => x = ch)  OBVIOUS
      <4> QED  BY <2>1, <3>1, <4>1, PeakOf
    <3>3. PICK i \in 1..Len(ch.states) :
              Highest(Buckets(ch)).name = ch.states[i].name /\ ch.states[i].res = Most(ch)
      BY <3>1, PeakIsMost
    <3>4. Rendered(ch, Most(ch))  BY <1>1, <3>1, MostIsRendered DEF FewStates
    <3>5. Most(ch) > 0
      <4>1. Most(ch) \in Nat /\ Total(ch) \in Nat  BY <3>1, MostOf, TotalBounds
      <4> QED  BY <3>1, <3>4, <4>1 DEF Rendered
    <3> QED  BY <3>1, <3>2, <3>3, <3>4, <3>5, BarsOf DEF ch
  <2> QED  BY <2>3, <2>4 DEF PeakIsOnTop, ce, chs
<1> QED  BY <1>1, DerivedHolds, PTL

-----------------------------------------------------------------------------
(* What is reported is shown.                                              *)

LEMMA RunningInCategory ==
    ASSUME NEW chs \in Seq(Channels), Running(chs) # <<>>
    PROVE  chs # <<>>
<1>1. PICK i \in 1..Len(chs) : TRUE  BY FirstRan
<1> QED  BY <1>1

\* The terminal has a row for every reason that the library reports, and the page
\* a card for a GPU that worked, whatever else is listed (main.go:834-901;
\* index.html:469).
THEOREM NothingHiddenHolds == Spec => []NothingHidden
<1>1. ASSUME Derived PROVE NothingHidden
  <2>1. ASSUME NEW n \in DOMAIN stats.ThrottleReasons, Positive(stats.ThrottleReasons[n])
        PROVE  n \in ThrottleDetailRows(InCategory(delta.Channels, "ThrottleDetail"))
    <3> DEFINE chs == InCategory(delta.Channels, "ThrottleDetail")
    <3>1. chs \in Seq(Channels) /\ stats.ThrottleReasons = ComputeThrottleReasons(chs)
      BY <1>1, DerivedParts
    <3> HIDE DEF chs
    <3>2. PICK ch \in Channels :
              /\ Total(ch) > 0 /\ ch.name = n
              /\ \E i \in 1..Len(chs) : chs[i] = ch
              /\ stats.ThrottleReasons[n] = Percent(ResidencyOf(ch, "ACT"), ch)
      BY <2>1, <3>1, ReasonsOf
    <3>3. PICK i \in 1..Len(chs) : chs[i] = ch  BY <3>2
    <3>4. ResidencyOf(ch, "ACT") \in Nat  BY ResidencyBounds
    <3>5. ResidencyOf(ch, "ACT") > 0  BY <2>1, <3>2, <3>4 DEF Positive, Percent
    <3>6. PICK k \in 1..Len(ch.states) :
              ch.states[k].name = "ACT" /\ ResidencyOf(ch, "ACT") = ch.states[k].res
      BY <3>5, ResidencyBounds
    <3>7. HasACT(chs[i])  BY <3>3, <3>5, <3>6 DEF HasACT
    <3>8. PICK j \in 1..Len(Ran(chs)) : Ran(chs)[j] = ch  BY <3>1, <3>2, <3>3, RanOf
    <3> QED  BY <3>2, <3>7, <3>8 DEF ThrottleDetailRows, chs
  <2>2. ASSUME Positive(stats.GPUActivePct)
        PROVE  InCategory(delta.Channels, "GPUStats") # <<>>
    <3> DEFINE chs == InCategory(delta.Channels, "GPUStats")
    <3>1. chs \in Seq(Channels) /\ stats.GPUActivePct = ComputeGPUActivePct(chs)
      BY <1>1, DerivedParts
    <3> HIDE DEF chs
    <3>2. ASSUME Running(chs) = <<>> PROVE FALSE
      <4>1. ComputeGPUActivePct(chs) = Zero  BY Zenon, <3>2 DEF ComputeGPUActivePct
      <4> QED  BY <2>2, <3>1, <4>1 DEF Positive, Zero
    <3> QED  BY <3>1, <3>2, RunningInCategory DEF chs
  <2> QED  BY <2>1, <2>2 DEF NothingHidden, ReasonsAreShown, BusyGPUHasCard, GPUCardShown
<1> QED  BY <1>1, DerivedHolds, PTL

-----------------------------------------------------------------------------
(* One machine, three programs.                                            *)

LEMMA SameAsItself == \A p : p.num \in Int /\ p.den \in Int => Same(p, p)
BY DEF Same

\* Neither is less: they are the same fraction.
LEMMA NotLessIsSame ==
    ASSUME NEW p \in Fraction, NEW q \in Fraction, ~Less(p, q), ~Less(q, p)
    PROVE  Same(p, q)
<1> DEFINE a == p.num * q.den
           b == q.num * p.den
<1>1. p.num \in Int /\ p.den \in Int /\ q.num \in Int /\ q.den \in Int  BY DEF Fraction
<1>2. a \in Int /\ b \in Int  BY <1>1
<1>3. ~(a < b) /\ ~(b < a)  BY DEF Less
<1> HIDE DEF a, b
<1>4. a = b  BY <1>2, <1>3
<1> QED  BY <1>4 DEF Same, a, b

\* The figures of the library are fractions.
LEMMA FiguresAreFractions ==
    ASSUME NEW chs \in Seq(Channels)
    PROVE  /\ ComputeActivePct(chs) \in Fraction
           /\ ComputeGPUActivePct(chs) \in Fraction
           /\ ComputeClusterActivePct(chs) \in Fraction
           /\ ComputeVoltageActivePct(chs) \in Fraction
<1>1. CASE Running(chs) = <<>>
  <2>1. /\ ComputeActivePct(chs) = Zero /\ ComputeGPUActivePct(chs) = Zero
        /\ ComputeClusterActivePct(chs) = Zero
    BY Zenon, <1>1 DEF ComputeActivePct, ComputeGPUActivePct, ComputeClusterActivePct
  <2>2. ComputeVoltageActivePct(chs) \in Fraction
    BY VoltageFiguresOf, HighestIsHighest DEF Figure
  <2> QED  BY <2>1, <2>2, ZeroWithin
<1>2. ASSUME NEW ch \in Channels, Running(chs) = <<ch>>, Total(ch) > 0
      PROVE  /\ ComputeActivePct(chs) \in Fraction
             /\ ComputeGPUActivePct(chs) \in Fraction
             /\ ComputeClusterActivePct(chs) \in Fraction
  <2> DEFINE w == [i \in 1..Len(ch.states) |->
                      IF ch.states[i].name \in {"OFF", "IDLE", "DOWN"} THEN 0 ELSE ch.states[i].res]
  <2>2. ComputeGPUActivePct(chs) = Percent(SumOf(w), ch)
    BY <1>2 DEF ComputeGPUActivePct, SumOver
  <2>3. ComputeClusterActivePct(chs) = Percent(ResidencyOf(ch, "ACT"), ch)
    BY <1>2 DEF ComputeClusterActivePct
  <2>5. SumOf(w) \in Int
    <3>1. ASSUME NEW i \in 1..Len(ch.states) PROVE w[i] \in Int
      BY StatesOf
    <3>2. Len(ch.states) \in Nat  BY StatesOf
    <3>3. w \in Seq(Int)
      <4> DEFINE n == Len(ch.states)
      <4>1. w \in [1..n -> Int] /\ n \in Nat  BY <3>1, <3>2
      <4> HIDE DEF n, w
      <4> QED  BY <4>1
    <3> HIDE DEF w
    <3> QED  BY <3>3, SumIsInt
  <2>6. Total(ch) \in Nat /\ ResidencyOf(ch, "ACT") \in Nat  BY TotalBounds, ResidencyBounds
  <2> HIDE DEF w
  <2>7. ComputeActivePct(chs) \in Fraction  BY ComputeActiveIs
  <2>8. ComputeGPUActivePct(chs) \in Fraction  BY <1>2, <2>2, <2>5, <2>6 DEF Fraction, Percent
  <2>9. ComputeClusterActivePct(chs) \in Fraction
    BY <1>2, <2>3, <2>6 DEF Fraction, Percent
  <2> QED  BY <2>7, <2>8, <2>9
<1>3. ComputeVoltageActivePct(chs) \in Fraction
  BY VoltageFiguresOf, HighestIsHighest DEF Figure
<1> QED  BY <1>1, <1>2, <1>3, FirstRan

\* The first row of the cluster section is that of the channel the library takes.
LEMMA ClusterRowOf ==
    ASSUME NEW chs \in Seq(Channels), StatesNamedOnce,
           Positive(ComputeClusterActivePct(chs))
    PROVE  /\ Len(ClusterRows(chs)) > 0
           /\ ClusterRows(chs)[1].pct = ComputeClusterActivePct(chs)
           /\ ClusterRows(chs) \in Seq([name : STRING, pct : [num : Int, den : Int]])
<1> DEFINE V == [name : STRING, pct : [num : Int, den : Int]]
           ran == Ran(chs)
           acts(ch) == Keep(ch.states, {s \in ToSet(ch.states) : s.name = "ACT"})
           rows(ch) == [j \in 1..Len(acts(ch)) |-> [name |-> ch.name, pct |-> Percent(acts(ch)[j].res, ch)]]
           ss == [i \in 1..Len(ran) |-> rows(ran[i])]
<1>1. ClusterRows(chs) = FlattenSeq(ss)  BY DEF ClusterRows, Select
<1>2. ASSUME NEW ch \in Channels
      PROVE  /\ acts(ch) \in Seq(State)
             /\ \A j \in 1..Len(acts(ch)) :
                   acts(ch)[j].name = "ACT" /\ \E i \in 1..Len(ch.states) : ch.states[i] = acts(ch)[j]
             /\ \A i \in 1..Len(ch.states) : ch.states[i].name = "ACT" => Len(acts(ch)) > 0
  <2> DEFINE A == {s \in ToSet(ch.states) : s.name = "ACT"}
  <2>1. \A s \in A : s.name = "ACT"  OBVIOUS
  <2>2. \A i \in 1..Len(ch.states) : ch.states[i] \in A <=> ch.states[i].name = "ACT"
    BY DEF ToSet
  <2>3. ch.states \in Seq(State)  BY StatesOf
  <2> HIDE DEF A
  <2>4. /\ Keep(ch.states, A) \in Seq(State)
        /\ \A j \in 1..Len(Keep(ch.states, A)) :
              /\ Keep(ch.states, A)[j] \in A
              /\ \E i \in 1..Len(ch.states) : ch.states[i] = Keep(ch.states, A)[j]
        /\ \A i \in 1..Len(ch.states) :
              ch.states[i] \in A => \E j \in 1..Len(Keep(ch.states, A)) : Keep(ch.states, A)[j] = ch.states[i]
    BY <2>3, KeepElements
  <2>5. ASSUME NEW i \in 1..Len(ch.states), ch.states[i].name = "ACT"
        PROVE  Len(Keep(ch.states, A)) > 0
    <3>1. PICK j \in 1..Len(Keep(ch.states, A)) : TRUE  BY <2>2, <2>4, <2>5
    <3> QED  BY <3>1, <2>4
  <2> QED  BY <2>1, <2>2, <2>4, <2>5 DEF A
<1> HIDE DEF acts
<1>3. ASSUME NEW ch \in Channels PROVE rows(ch) \in Seq(V) /\ Len(rows(ch)) = Len(acts(ch))
  <2>1. ASSUME NEW j \in 1..Len(acts(ch))
        PROVE  [name |-> ch.name, pct |-> Percent(acts(ch)[j].res, ch)] \in V
    <3>1. acts(ch)[j] \in State  BY <1>2
    <3>2. ch.name \in STRING /\ Total(ch) \in Nat  BY TotalBounds, ChannelsAssumption
    <3> QED  BY <3>1, <3>2 DEF State, Percent
  <2>2. Len(acts(ch)) \in Nat  BY <1>2
  <2> HIDE DEF V
  <2> QED  BY <2>1, <2>2
<1>4. /\ ran \in Seq(Channels)
      /\ \/ ran = <<>> /\ Running(chs) = <<>>
         \/ Len(ran) > 0 /\ Running(chs) = <<ran[1]>>
  BY RanOf
<1> HIDE DEF ran
<1>5. ss \in Seq(Seq(V)) /\ Len(ss) = Len(ran)
  <2>1. Len(ran) \in Nat /\ \A i \in 1..Len(ran) : ran[i] \in Channels  BY <1>4
  <2>2. \A i \in 1..Len(ran) : rows(ran[i]) \in Seq(V)  BY <2>1, <1>3
  <2> HIDE DEF rows, V
  <2> QED  BY <2>1, <2>2
<1>6. Running(chs) # <<>>
  <2>1. ASSUME Running(chs) = <<>> PROVE FALSE
    <3>1. ComputeClusterActivePct(chs) = Zero  BY Zenon, <2>1 DEF ComputeClusterActivePct
    <3> QED  BY <3>1 DEF Positive, Zero
  <2> QED  BY <2>1
<1> DEFINE ch == ran[1]
<1>7. Len(ran) > 0 /\ Running(chs) = <<ch>> /\ ch \in Channels  BY <1>4, <1>6
<1> HIDE DEF ch
<1>8. ComputeClusterActivePct(chs) = Percent(ResidencyOf(ch, "ACT"), ch)
  BY <1>7 DEF ComputeClusterActivePct
<1>9. ResidencyOf(ch, "ACT") > 0
  <2>1. ResidencyOf(ch, "ACT") \in Nat  BY <1>7, ResidencyBounds
  <2> QED  BY <2>1, <1>8 DEF Positive, Percent
<1>10. PICK k \in 1..Len(ch.states) :
          ch.states[k].name = "ACT" /\ ResidencyOf(ch, "ACT") = ch.states[k].res
  BY <1>7, <1>9, ResidencyBounds
<1>11. Len(acts(ch)) > 0 /\ Len(acts(ch)) \in Nat  BY <1>2, <1>7, <1>10
<1>12. acts(ch)[1].res = ResidencyOf(ch, "ACT")
  <2>1. 1 \in 1..Len(acts(ch))  BY <1>11
  <2>2. PICK i \in 1..Len(ch.states) : ch.states[i] = acts(ch)[1] /\ acts(ch)[1].name = "ACT"
    BY <2>1, <1>2, <1>7
  <2>3. i = k  BY <2>2, <1>7, <1>10 DEF StatesNamedOnce
  <2> QED  BY <2>2, <2>3, <1>10
<1>13. Len(rows(ch)) > 0 /\ rows(ch)[1].pct = Percent(ResidencyOf(ch, "ACT"), ch)
  <2>1. 1 \in 1..Len(acts(ch))  BY <1>11
  <2>2. Len(rows(ch)) > 0  BY <1>3, <1>7, <1>11
  <2>3. rows(ch)[1] = [name |-> ch.name, pct |-> Percent(acts(ch)[1].res, ch)]  BY <2>1
  <2>4. rows(ch)[1].pct = Percent(acts(ch)[1].res, ch)  BY <2>3
  <2> QED  BY <2>2, <2>4, <1>12
<1>14. ss[1] = rows(ch) /\ Len(ss) > 0
  <2>1. 1 \in 1..Len(ran)  BY <1>4, <1>7
  <2>2. ss[1] = rows(ran[1])  BY <2>1
  <2> QED  BY <2>2, <1>5, <1>7 DEF ch
<1> HIDE DEF ss, rows, V
<1>15. /\ FlattenSeq(ss) \in Seq(V)
       /\ Len(ss) > 0 /\ Len(ss[1]) > 0 =>
            Len(FlattenSeq(ss)) > 0 /\ FlattenSeq(ss)[1] = ss[1][1]
  BY <1>5, FlatElements
<1>16. Len(FlattenSeq(ss)) > 0 /\ FlattenSeq(ss)[1] = rows(ch)[1]  BY <1>13, <1>14, <1>15
<1> QED  BY <1>1, <1>8, <1>13, <1>15, <1>16 DEF V

\* What the terminal's voltage history takes for the active part of a channel.
LEMMA ActivePart ==
    ASSUME NEW ch \in Channels
    PROVE  LET active == [num |-> 100 * VminPct(ch).den - VminPct(ch).num, den |-> VminPct(ch).den]
           IN  active = IF Total(ch) > 0 THEN AboveVMIN(ch) ELSE Zero
<1> DEFINE t == Total(ch)
           r == ResidencyOf(ch, "VMIN")
<1>1. t \in Nat /\ r \in Nat  BY TotalBounds, ResidencyBounds
<1>2. CASE t = 0
  <2>1. VminPct(ch) = [num |-> 100, den |-> 1]  BY <1>2 DEF VminPct
  <2> QED  BY <2>1, <1>2 DEF Zero
<1>3. CASE t > 0
  <2>1. VminPct(ch) = [num |-> 100 * r, den |-> t]  BY <1>3, <1>1 DEF VminPct, Percent
  <2>2. AboveVMIN(ch) = [num |-> 100 * (t - r), den |-> t]  BY DEF AboveVMIN, Percent
  <2> HIDE DEF t, r
  <2>3. 100 * (t - r) = 100 * t - 100 * r  BY <1>1
  <2> QED  BY <1>3, <2>1, <2>2, <2>3 DEF t
<1> QED  BY <1>1, <1>2, <1>3

\* The channels that have a VMIN, with or without those that did not run.
LEMMA VoltageSelection ==
    ASSUME NEW chs \in Seq(Channels), NEW A,
           \A i \in 1..Len(chs) :
               HasState(chs[i], "VMIN") /\ Total(chs[i]) > 0 => chs[i] \in A
    PROVE  /\ Keep(chs, A) \in Seq(Channels)
           /\ \A j \in 1..Len(Keep(chs, A)) : Keep(chs, A)[j] \in A
           /\ Same(ComputeVoltageActivePct(Keep(chs, A)), ComputeVoltageActivePct(chs))
<1> DEFINE s == Keep(chs, A)
           p == ComputeVoltageActivePct(s)
           q == ComputeVoltageActivePct(chs)
           v == VoltageFigures(chs)
           w == VoltageFigures(s)
<1>1. /\ s \in Seq(Channels)
      /\ \A j \in 1..Len(s) : s[j] \in A
      /\ Among(s, chs)
      /\ \A i \in 1..Len(chs) : chs[i] \in A => \E j \in 1..Len(s) : s[j] = chs[i]
  BY KeepElements DEF Among
<1> HIDE DEF s
<1>2. ~Less(q, p)  BY <1>1, VoltageGrows
<1>3. p \in Fraction /\ q \in Fraction  BY <1>1, FiguresAreFractions
<1>4. /\ v \in Seq(Figure) /\ Len(v) = Len(chs) /\ q = Highest(v).pct
      /\ w \in Seq(Figure) /\ Len(w) = Len(s) /\ p = Highest(w).pct
  BY <1>1, VoltageFiguresOf
<1>5. Within(p)  BY <1>1, VoltageActiveWithin
<1>6. ASSUME NEW i \in 1..Len(chs), v[i].pct.num > 0 PROVE \E j \in 1..Len(s) : w[j] = v[i]
  <2>1. HasState(chs[i], "VMIN") /\ Total(chs[i]) > 0
    <3>1. Zero.num = 0  BY DEF Zero
    <3> QED  BY <3>1, <1>6 DEF VoltageFigures
  <2>2. PICK j \in 1..Len(s) : s[j] = chs[i]  BY <2>1, <1>1
  <2>3. w[j] = v[i]  BY <2>2 DEF VoltageFigures
  <2> QED  BY <2>3
<1> HIDE DEF v, w, p, q
<1>7. /\ Highest(v) = None \/ (Highest(v).pct.num > 0 /\ \E i \in 1..Len(v) : Highest(v) = v[i])
      /\ \A j \in 1..Len(w) : ~Less(Highest(w).pct, w[j].pct)
  BY <1>4, HighestIsHighest
<1>8. ~Less(p, q)
  <2>1. CASE Highest(v) = None
    <3>1. q.num = 0 /\ q.den = 1  BY <2>1, <1>4 DEF None
    <3>2. p.num >= 0 /\ p.num \in Int /\ p.den \in Int  BY <1>3, <1>5 DEF Within, Fraction
    <3> QED  BY <3>1, <3>2 DEF Less
  <2>2. ASSUME NEW i \in 1..Len(v), Highest(v) = v[i], Highest(v).pct.num > 0
        PROVE  ~Less(p, q)
    <3>1. PICK j \in 1..Len(s) : w[j] = v[i]  BY <2>2, <1>4, <1>6
    <3> QED  BY <3>1, <2>2, <1>4, <1>7
  <2> QED  BY <1>7, <2>1, <2>2
<1>9. Same(p, q)  BY <1>2, <1>3, <1>8, NotLessIsSame
<1> QED  BY <1>1, <1>9 DEF p, q, s

LEMMA FractionIsSame == \A p \in Fraction : Same(p, p)
BY DEF Same, Fraction

LEMMA TerminalFigures ==
    ASSUME Derived, StatesNamedOnce
    PROVE  TerminalAgrees
<1> DEFINE cl == InCategory(delta.Channels, "ClusterPower")
           vo == InCategory(delta.Channels, "Voltage")
           B == {ch \in ToSet(vo) : HasState(ch, "VMIN")}
           volts == Keep(vo, B)
           active(ch) == [num |-> 100 * VminPct(ch).den - VminPct(ch).num, den |-> VminPct(ch).den]
           best == ComputeVoltageActivePct(volts)
<1>1. /\ cl \in Seq(Channels) /\ vo \in Seq(Channels)
      /\ stats.ClusterActivePct = ComputeClusterActivePct(cl)
  BY DerivedParts
<1>3. Select(vo, LAMBDA ch : HasState(ch, "VMIN")) = volts  BY DEF Select
<1>4. \A ch \in B : HasState(ch, "VMIN")  OBVIOUS
<1>5. \A i \in 1..Len(vo) : HasState(vo[i], "VMIN") => vo[i] \in B  BY DEF ToSet
<1> HIDE DEF cl, vo
<1>7. ASSUME Positive(stats.ClusterActivePct)
      PROVE  ClusterRows(cl) # <<>> /\ Same(Head(ClusterRows(cl)).pct, stats.ClusterActivePct)
  <2> DEFINE rows == ClusterRows(cl)
  <2>1. /\ Len(rows) > 0 /\ rows[1].pct = ComputeClusterActivePct(cl)
        /\ rows \in Seq([name : STRING, pct : [num : Int, den : Int]])
    BY <1>1, <1>7, ClusterRowOf
  <2> HIDE DEF rows
  <2>2. rows # <<>> /\ Head(rows) = rows[1]  BY <2>1
  <2>3. Head(rows).pct = stats.ClusterActivePct  BY <2>1, <2>2, <1>1
  <2>4. Same(stats.ClusterActivePct, stats.ClusterActivePct)
    BY <1>1, FiguresAreFractions, FractionIsSame
  <2> QED  BY <2>2, <2>3, <2>4 DEF rows
<1> HIDE DEF B
<1>8. volts \in Seq(Channels) /\ \A i \in 1..Len(volts) : volts[i] \in B
  BY <1>1, KeepElements
<1> HIDE DEF volts
<1> DEFINE v == VoltageFigures(volts)
<1>9. /\ v \in Seq(Figure) /\ Len(v) = Len(volts) /\ best = Highest(v).pct
      /\ Len(volts) \in Nat
  BY <1>8, VoltageFiguresOf
<1>10. ASSUME NEW i \in 1..Len(volts) PROVE v[i].pct = active(volts[i])
  <2>1. volts[i] \in Channels /\ HasState(volts[i], "VMIN")  BY <1>8, <1>4
  <2>2. active(volts[i]) = IF Total(volts[i]) > 0 THEN AboveVMIN(volts[i]) ELSE Zero
    BY <2>1, ActivePart
  <2>3. v[i].pct = IF Total(volts[i]) > 0 THEN AboveVMIN(volts[i]) ELSE Zero
    BY <2>1 DEF VoltageFigures
  <2> QED  BY <2>2, <2>3
<1> HIDE DEF v, active, best
<1>11. /\ \A i \in 1..Len(v) : ~Less(best, v[i].pct)
       /\ Highest(v) = None \/ \E i \in 1..Len(v) : Highest(v) = v[i]
       /\ Highest(v) \in Figure
  BY <1>9, HighestIsHighest
<1>12. \A i \in 1..Len(volts) : ~Less(best, active(volts[i]))  BY <1>9, <1>10, <1>11
<1>13. ASSUME Positive(best) PROVE \E i \in 1..Len(volts) : Same(best, active(volts[i]))
  <2>1. Highest(v) # None
    <3>1. ~Positive(None.pct)  BY DEF None, Positive
    <3> QED  BY <3>1, <1>9, <1>13
  <2>2. PICK i \in 1..Len(v) : Highest(v) = v[i]  BY <2>1, <1>11
  <2>3. best = active(volts[i])  BY <2>2, <1>9, <1>10
  <2>4. Same(best, best)  BY <1>9, <1>11, FractionIsSame DEF Figure
  <2> QED  BY <2>2, <2>3, <2>4, <1>9
<1> QED  BY <1>3, <1>7, <1>12, <1>13 DEF TerminalAgrees, cl, vo, active, best

\* The page's voltage figure, of the channels that ran, and its reasons.
LEMMA PageVoltageIs ==
    ASSUME NEW chs \in Seq(Channels)
    PROVE  Same(PageVoltage(chs), ComputeVoltageActivePct(chs))
<1> DEFINE A == {ch \in ToSet(chs) : HasState(ch, "VMIN") /\ Total(ch) > 0}
           run == Keep(chs, A)
<1>1. PageVoltage(chs) =
        Highest([i \in 1..Len(run) |-> [name |-> run[i].name, pct |-> AboveVMIN(run[i])]]).pct
  BY DEF PageVoltage, Select
<1>2. \A ch \in A : HasState(ch, "VMIN") /\ Total(ch) > 0  OBVIOUS
<1>3. \A i \in 1..Len(chs) :
         HasState(chs[i], "VMIN") /\ Total(chs[i]) > 0 => chs[i] \in A
  BY DEF ToSet
<1> HIDE DEF A
<1>4. /\ run \in Seq(Channels) /\ \A i \in 1..Len(run) : run[i] \in A
      /\ Same(ComputeVoltageActivePct(run), ComputeVoltageActivePct(chs))
  BY <1>3, VoltageSelection
<1> HIDE DEF run
<1>5. VoltageFigures(run) =
        [i \in 1..Len(run) |-> [name |-> run[i].name, pct |-> AboveVMIN(run[i])]]
  BY <1>2, <1>4 DEF VoltageFigures
<1>6. ComputeVoltageActivePct(run) = Highest(VoltageFigures(run)).pct  BY <1>4, VoltageFiguresOf
<1> QED  BY <1>1, <1>4, <1>5, <1>6

LEMMA PageReasonsAre ==
    ASSUME NEW chs \in Seq(Channels), NEW n \in DOMAIN ComputeThrottleReasons(chs),
           Positive(ComputeThrottleReasons(chs)[n])
    PROVE  \E i \in 1..Len(PageReasons(chs)) :
              /\ PageReasons(chs)[i].name = n
              /\ Same(PageReasons(chs)[i].pct, ComputeThrottleReasons(chs)[n])
<1> DEFINE ran == Ran(chs)
           acts == [i \in 1..Len(ran) |->
                       [name |-> ran[i].name, pct |-> Percent(ResidencyOf(ran[i], "ACT"), ran[i])]]
           A == {r \in ToSet(acts) : Positive(r.pct)}
           S == ToSet(acts)
           p == ComputeThrottleReasons(chs)[n]
<1>1. PageReasons(chs) = Keep(acts, A)  BY DEF PageReasons, Select
<1>2. PICK ch \in Channels :
          /\ Total(ch) > 0 /\ ch.name = n
          /\ \E i \in 1..Len(chs) : chs[i] = ch
          /\ p = Percent(ResidencyOf(ch, "ACT"), ch)
  BY ReasonsOf
<1>3. ran \in Seq(Channels) /\ \E j \in 1..Len(ran) : ran[j] = ch
  <2>1. PICK i \in 1..Len(chs) : chs[i] = ch  BY <1>2
  <2>2. Total(chs[i]) > 0  BY <1>2, <2>1
  <2> QED  BY <2>1, <2>2, RanOf
<1> HIDE DEF ran
<1>4. PICK j \in 1..Len(ran) : ran[j] = ch  BY <1>3
<1>5. Len(ran) \in Nat /\ Len(acts) = Len(ran)  BY <1>3
<1>6. acts[j] = [name |-> n, pct |-> p]  BY <1>2, <1>4
<1>7. acts \in Seq(S)  BY <1>5 DEF ToSet
<1>8. acts[j] \in A
  <2>1. acts[j] \in ToSet(acts)  BY <1>5 DEF ToSet
  <2>2. Positive(acts[j].pct)  BY <1>6
  <2> HIDE DEF acts
  <2> QED  BY <2>1, <2>2
<1> HIDE DEF acts, A, S
<1>9. PICK i \in 1..Len(Keep(acts, A)) : Keep(acts, A)[i] = acts[j]
  BY <1>5, <1>7, <1>8, KeepElements
<1>10. Same(p, p)
  <2>1. Total(ch) \in Nat /\ ResidencyOf(ch, "ACT") \in Nat  BY TotalBounds, ResidencyBounds
  <2>2. p \in Fraction  BY <1>2, <2>1 DEF Percent, Fraction
  <2> QED  BY <2>2, FractionIsSame
<1> HIDE DEF p
<1>11. Keep(acts, A)[i].name = n /\ Keep(acts, A)[i].pct = p  BY <1>6, <1>9
<1> QED  BY <1>1, <1>10, <1>11 DEF p

\* The page's mean of the buckets, if it reads their names as the library does.
LEMMA PageCEIs ==
    ASSUME NEW chs \in Seq(Channels), BucketsReadAlike,
           \A i \in 1..Len(chs) : Category(chs[i]) = "ComputeEn"
    PROVE  PageCE(chs) = ComputeActivePct(chs)
<1>1. FirstWith(chs, LAMBDA ch : Total(ch) > 0) = Running(chs)  BY DEF Running
<1>2. CASE Running(chs) = <<>>
  <2>1. PageCE(chs) = Zero  BY Zenon, <1>1, <1>2 DEF PageCE
  <2> QED  BY <2>1, <1>2, ComputeActiveIs
<1>3. ASSUME NEW ch \in Channels, Running(chs) = <<ch>>, NEW i \in 1..Len(chs), chs[i] = ch
      PROVE  PageCE(chs) = ComputeActivePct(chs)
  <2> DEFINE w == [k \in 1..Len(ch.states) |-> PagePct(ch.states[k].name) * ch.states[k].res]
  <2>1. PageCE(chs) = [num |-> SumOf(w), den |-> PctUnit * Total(ch)]
    <3> DEFINE run == FirstWith(chs, LAMBDA c : Total(c) > 0)
    <3>1. PageCE(chs) =
            IF run = <<>> THEN Zero
            ELSE [num |-> SumOf([k \in 1..Len(run[1].states) |->
                                   PagePct(run[1].states[k].name) * run[1].states[k].res]),
                  den |-> PctUnit * Total(run[1])]
      BY DEF PageCE, SumOver
    <3>2. run = <<ch>>  BY <1>1, <1>3
    <3> HIDE DEF run
    <3> QED  BY <3>1, <3>2
  <2>2. Category(ch) = "ComputeEn"  BY <1>3
  <2>3. ch.sub = "Fast-Die CE"  BY <2>2 DEF Category
  <2>4. \A k \in 1..Len(ch.states) : PagePct(ch.states[k].name) = BucketPct(ch.states[k].name)
    BY <2>3 DEF BucketsReadAlike
  <2>5. w = Weights(ch)  BY <2>4 DEF Weights
  <2>6. ComputeActivePct(chs) = BucketMean(ch)  BY <1>3, ComputeActiveIs
  <2> HIDE DEF w
  <2> QED  BY <2>1, <2>5, <2>6 DEF BucketMean
<1> QED  BY <1>2, <1>3, FirstRan

LEMMA PageFigures ==
    ASSUME Derived, BucketsReadAlike
    PROVE  PageAgrees
<1> DEFINE ce == InCategory(delta.Channels, "ComputeEn")
           vo == InCategory(delta.Channels, "Voltage")
           gpu == InCategory(delta.Channels, "GPUStats")
           cl == InCategory(delta.Channels, "ClusterPower")
           td == InCategory(delta.Channels, "ThrottleDetail")
           cluster == PageCluster(delta)
<1>1. /\ ce \in Seq(Channels) /\ vo \in Seq(Channels) /\ gpu \in Seq(Channels)
      /\ cl \in Seq(Channels) /\ td \in Seq(Channels)
      /\ stats.GPUActivePct = ComputeGPUActivePct(gpu)
      /\ stats.ClusterActivePct = ComputeClusterActivePct(cl)
      /\ stats.ThrottleReasons = ComputeThrottleReasons(td)
      /\ stats.ActivePct = IF ComputeActivePct(ce).num = 0
                             THEN ComputeVoltageActivePct(vo) ELSE ComputeActivePct(ce)
  BY DerivedParts
<1>2. PageActive(delta) = IF PageCE(ce).num = 0 THEN PageVoltage(vo) ELSE PageCE(ce)
  BY DEF PageActive
<1>3. PageGPUActive(delta, stats) =
         IF Positive(stats.GPUActivePct) THEN stats.GPUActivePct ELSE ComputeGPUActivePct(gpu)
  BY Zenon DEF PageGPUActive, ComputeGPUActivePct, Running
<1>4. cluster = [i \in 1..Len(Running(cl)) |->
                    Percent(ResidencyOf(Running(cl)[i], "ACT"), Running(cl)[i])]
  BY DEF PageCluster, Running
<1> HIDE DEF ce, vo, gpu, cl, td, cluster
<1>5. Same(PageActive(delta), stats.ActivePct)
  <2>1. PageCE(ce) = ComputeActivePct(ce)
    <3>1. delta.Channels \in Seq(Channels)  BY DerivedParts
    <3>2. \A i \in 1..Len(ce) : Category(ce[i]) = "ComputeEn"  BY <3>1, CategoryOf DEF ce
    <3> QED  BY <1>1, <3>2, PageCEIs
  <2>2. Same(ComputeActivePct(ce), ComputeActivePct(ce))
    BY <1>1, FiguresAreFractions, FractionIsSame
  <2>3. Same(PageVoltage(vo), ComputeVoltageActivePct(vo))  BY <1>1, PageVoltageIs
  <2> QED  BY <1>1, <1>2, <2>1, <2>2, <2>3
<1>6. Same(PageGPUActive(delta, stats), stats.GPUActivePct)
  BY <1>1, <1>3, FiguresAreFractions, FractionIsSame
<1>7. IF cluster = <<>> THEN ~Positive(stats.ClusterActivePct)
      ELSE Same(cluster[1], stats.ClusterActivePct)
  <2>1. CASE Running(cl) = <<>>
    <3>1. cluster = <<>>  BY <2>1, <1>4
    <3>2. stats.ClusterActivePct = Zero  BY Zenon, <2>1, <1>1 DEF ComputeClusterActivePct
    <3> QED  BY <3>1, <3>2 DEF Positive, Zero
  <2>2. ASSUME NEW ch \in Channels, Running(cl) = <<ch>>
        PROVE  cluster # <<>> /\ cluster[1] = stats.ClusterActivePct
    <3>1. ComputeClusterActivePct(cl) = Percent(ResidencyOf(ch, "ACT"), ch)
      BY <2>2 DEF ComputeClusterActivePct
    <3>2. Len(Running(cl)) = 1 /\ Running(cl)[1] = ch  BY <2>2
    <3>3. Len(cluster) = 1 /\ cluster[1] = Percent(ResidencyOf(ch, "ACT"), ch)
      BY <1>4, <3>2
    <3>4. cluster # <<>>
      <4>1. Len(<<>>) = 0  OBVIOUS
      <4> QED  BY <3>3, <4>1
    <3>5. cluster[1] = ComputeClusterActivePct(cl)  BY Zenon, <3>1, <3>3
    <3>6. cluster[1] = stats.ClusterActivePct  BY Zenon, <3>5, <1>1
    <3> QED  BY Zenon, <3>4, <3>6
  <2>3. Same(stats.ClusterActivePct, stats.ClusterActivePct)
    BY <1>1, FiguresAreFractions, FractionIsSame
  <2>4. Running(cl) = <<>> \/ \E ch \in Channels : Running(cl) = <<ch>>
    BY <1>1, FirstRan
  <2> QED  BY <2>1, <2>2, <2>3, <2>4
<1>8. ASSUME NEW n \in DOMAIN stats.ThrottleReasons, Positive(stats.ThrottleReasons[n])
      PROVE  \E i \in 1..Len(PageReasons(td)) :
                /\ PageReasons(td)[i].name = n
                /\ Same(PageReasons(td)[i].pct, stats.ThrottleReasons[n])
  BY <1>1, <1>8, PageReasonsAre
<1> QED  BY <1>5, <1>6, <1>7, <1>8 DEF PageAgrees, cluster, td

\* The terminal and the page, which compute the activities, the cluster and the
\* reasons for throttling by loops of their own, show what the library computed
\* from the same channels, for any list of channels, if a channel lists each of
\* its states once and the page reads the names of the buckets as the library does
\* (main.go:803-832, 903-916; index.html:204-249, 352-364; stats.go:20-200).
THEOREM FiguresAgreeHolds ==
    ASSUME StatesNamedOnce, BucketsReadAlike
    PROVE  Spec => []FiguresAgree
<1>1. ASSUME Derived, StatesNamedOnce, BucketsReadAlike PROVE FiguresAgree
  BY <1>1, TerminalFigures, PageFigures DEF FiguresAgree
<1> QED  BY <1>1, DerivedHolds, PTL

-----------------------------------------------------------------------------
(* The energy of the rows and of the cards.                                *)

\* g is f for the energy channels of chs that are in B, and 0 for the others.
EnergyOnly(g, f, chs, B) ==
    \A i \in 1..Len(chs) :
        g[chs[i]] = IF Category(chs[i]) = "Energy" /\ chs[i] \in B THEN f[chs[i]] ELSE 0

\* A sum over the energy channels that a filter keeps, as one over all channels.
LEMMA EnergyFilter ==
    ASSUME NEW chs \in Seq(Channels), NEW B, NEW f \in [Channels -> Int],
           NEW g \in [Channels -> Int], EnergyOnly(g, f, chs, B)
    PROVE  SumOf(Values(f, Keep(InCategory(chs, "Energy"), B))) = SumOf(Values(g, chs))
<1> DEFINE A == {ch \in ToSet(chs) : Category(ch) = "Energy"}
           E == InCategory(chs, "Energy")
           h == Only(f, Channels, B)
<1>1. E = Keep(chs, A)  BY DEF InCategory, Select
<1>2. E \in Seq(Channels)  BY CategoryOf
<1>3. Restricts(g, h, chs, A)
  <2>1. ASSUME NEW i \in 1..Len(chs)
        PROVE  g[chs[i]] = IF chs[i] \in A THEN h[chs[i]] ELSE 0
    <3>1. chs[i] \in Channels /\ (chs[i] \in A <=> Category(chs[i]) = "Energy")  BY DEF ToSet
    <3>2. g[chs[i]] = IF Category(chs[i]) = "Energy" /\ chs[i] \in B THEN f[chs[i]] ELSE 0
      BY DEF EnergyOnly
    <3>3. h[chs[i]] = IF chs[i] \in B THEN f[chs[i]] ELSE 0  BY <3>1 DEF Only
    <3> HIDE DEF A, h
    <3> QED  BY <3>1, <3>2, <3>3
  <2> HIDE DEF A, h
  <2> QED  BY <2>1 DEF Restricts
<1> HIDE DEF A, E
<1>4. h \in [Channels -> Int] /\ SumOf(Values(f, Keep(E, B))) = SumOf(Values(h, E))
  BY <1>2, OnlySum
<1> HIDE DEF h
<1>5. SumOf(Values(h, Keep(chs, A))) = SumOf(Values(g, chs))  BY <1>3, <1>4, SelectSum
<1> QED  BY Zenon, <1>1, <1>4, <1>5 DEF E

\* The channels of a delta that are in group Energy Model are the ANE's or the
\* GPU's by their names, and none is both.
EnergyNamed(ch) ==
    \/ IsANEName(ch.name) /\ ch.name \notin GPUNames
    \/ ~IsANEName(ch.name) /\ ch.name \in GPUNames

LEMMA EnergyChannels ==
    ASSUME Derived, EnergyNamesApart, NEW i \in 1..Len(delta.Channels)
    PROVE  LET ch == delta.Channels[i] IN
           /\ ch \in Channels
           /\ Category(ch) = "Energy" <=> ch.group = "Energy Model"
           /\ Category(ch) = "Energy" => EnergyNamed(ch)
           /\ Category(ch) = "Energy" => (IsGPUChannel(ch) <=> ch.name \in GPUNames)
           /\ OfANE[ch] = IF Category(ch) = "Energy" /\ IsANEName(ch.name)
                            THEN NanoJoules(ch) ELSE 0
           /\ OfGPU[ch] = IF Category(ch) = "Energy" /\ ch.name \in GPUNames
                            THEN NanoJoules(ch) ELSE 0
<1> DEFINE ch == delta.Channels[i]
<1>1. delta.Channels \in Seq(Channels) /\ delta.Channels = Monitored(raw) /\ raw \in Seq(Channels)
  BY DerivedParts DEF Derived
<1>2. ch \in Channels  BY <1>1
<1>3. Kept(ch)  BY <1>1, MonitoredOf
<1> HIDE DEF ch
<1>4. Category(ch) = "Energy" <=> ch.group = "Energy Model"  BY CategoriesAre
<1>5. ASSUME ch.group = "Energy Model"
      PROVE  EnergyNamed(ch) /\ (IsGPUChannel(ch) <=> ch.name \in GPUNames)
  <2>1. IsGPUChannel(ch) <=> ch.name \in GPUNames  BY <1>5 DEF IsGPUChannel
  <2>2. ~IsANEName(ch.sub)  BY <1>2, <1>5 DEF EnergyNamesApart
  <2>3. ~(IsANEName(ch.name) /\ ch.name \in GPUNames)
    BY DEF EnergyNamesApart, IsANEName
  <2> QED  BY <1>3, <2>1, <2>2, <2>3 DEF Kept, EnergyNamed
<1>6. /\ OfANE[ch] = IF ch.group = "Energy Model" /\ IsANEName(ch.name)
                       THEN NanoJoules(ch) ELSE 0
      /\ OfGPU[ch] = IF ch.group = "Energy Model" /\ IsGPUChannel(ch) THEN NanoJoules(ch) ELSE 0
  BY <1>2 DEF OfANE, OfGPU
<1> QED  BY <1>2, <1>4, <1>5, <1>6 DEF ch

\* The two powers, in nanojoules.
LEMMA PowerSums ==
    ASSUME Derived
    PROVE  /\ delta.PowerW.num = SumOf(Values(OfANE, delta.Channels))
           /\ delta.GPUPowerW.num = SumOf(Values(OfGPU, delta.Channels))
<1>1. delta.Channels \in Seq(Channels)  BY DerivedParts
<1>2. delta.PowerW = ComputeANEPower(delta.Channels) /\ delta.GPUPowerW = ComputeGPUPower(delta.Channels)
  BY DEF Derived, Delta
<1>3. \A x : Watts(x).num = x  BY DEF Watts
<1> QED  BY <1>1, <1>2, <1>3, EnergySums

\* The energies of the rows of one side.
Part(nj, A) == [i \in 1..Len(nj) |-> IF i \in A THEN nj[i] ELSE 0]

LEMMA PartOf ==
    ASSUME NEW nj \in Seq(Int), NEW A
    PROVE  /\ Part(nj, A) \in Seq(Int)
           /\ Len(Part(nj, A)) = Len(nj)
           /\ \A i \in 1..Len(nj) : Part(nj, A)[i] = IF i \in A THEN nj[i] ELSE 0
           /\ EnergyOf(nj, A) = SumOf(Part(nj, A))
           /\ EnergyOf(nj, A) \in Int
<1> DEFINE n == Len(nj)
           t == Part(nj, A)
<1>1. n \in Nat /\ \A i \in 1..n : nj[i] \in Int  OBVIOUS
<1>2. t = [i \in 1..n |-> IF i \in A THEN nj[i] ELSE 0]  BY DEF Part
<1> HIDE DEF n, t
<1>3. t \in Seq(Int) /\ Len(t) = n  BY <1>1, <1>2
<1>4. \A i \in 1..n : t[i] = IF i \in A THEN nj[i] ELSE 0  BY <1>2
<1>5. EnergyOf(nj, A) = SumOf(t)  BY <1>2 DEF EnergyOf, n
<1> QED  BY <1>3, <1>4, <1>5, SumIsInt DEF n, t

\* Rows that add up to a power account for it when they are cut: what is missing
\* is the energy of the rows that were cut, and those are the smallest.
LEMMA CutAccounts ==
    ASSUME NEW nj \in Seq(Int), \A i \in 1..Len(nj) : nj[i] >= 0,
           NEW A \in SUBSET (1..Len(nj))
    PROVE  AccountFor(nj, A, EnergyOf(nj, A))
<1> SUFFICES ASSUME NEW S \in Cuts(nj)
             PROVE  LET missing == EnergyOf(nj, A) - EnergyOf(nj, A \intersect S)
                        cut == A \ S
                    IN  /\ missing >= 0
                        /\ cut = {} => missing = 0
                        /\ \A i \in S : missing <= Cardinality(cut) * nj[i]
  BY DEF AccountFor
<1> DEFINE n == Len(nj)
           cut == A \ S
           missing == EnergyOf(nj, A) - EnergyOf(nj, A \intersect S)
           ones == [i \in 1..n |-> IF i \in cut THEN 1 ELSE 0]
<1>1. n \in Nat /\ \A i \in 1..n : nj[i] \in Int /\ nj[i] >= 0  OBVIOUS
<1>2. S \in SUBSET (1..n) /\ \A i \in S, j \in (1..n) \ S : nj[j] <= nj[i]  BY DEF Cuts
<1>3. missing = SumOf(Part(nj, cut))
  <2>1. \A i \in 1..n : Part(nj, A)[i] = Part(nj, A \intersect S)[i] + Part(nj, cut)[i]
    <3>1. \A i \in 1..n :
            /\ Part(nj, A)[i] = IF i \in A THEN nj[i] ELSE 0
            /\ Part(nj, A \intersect S)[i] = IF i \in A \intersect S THEN nj[i] ELSE 0
            /\ Part(nj, cut)[i] = IF i \in cut THEN nj[i] ELSE 0
      BY PartOf
    <3>2. ASSUME NEW i \in 1..n
          PROVE  Part(nj, A)[i] = Part(nj, A \intersect S)[i] + Part(nj, cut)[i]
      <4> DEFINE m == nj[i]
      <4>1. m \in Int  BY <1>1
      <4>2. /\ Part(nj, A)[i] = IF i \in A THEN m ELSE 0
            /\ Part(nj, A \intersect S)[i] = IF i \in A \intersect S THEN m ELSE 0
            /\ Part(nj, cut)[i] = IF i \in cut THEN m ELSE 0
        BY <3>1
      <4> HIDE DEF m
      <4>3. i \in cut <=> i \in A /\ i \notin S  OBVIOUS
      <4> HIDE DEF cut
      <4> QED  BY <4>1, <4>2, <4>3
    <3> QED  BY <3>2
  <2>2. SumOf(Part(nj, A)) = SumOf(Part(nj, A \intersect S)) + SumOf(Part(nj, cut))
    <3> DEFINE a == Part(nj, A)
               b == Part(nj, A \intersect S)
               c == Part(nj, cut)
    <3>1. /\ a \in Seq(Int) /\ b \in Seq(Int) /\ c \in Seq(Int)
          /\ Len(a) = n /\ Len(b) = n /\ Len(c) = n
      BY PartOf
    <3>2. \A i \in 1..n : a[i] = b[i] + c[i]  BY <2>1
    <3>3. \A i \in 1..Len(a) : a[i] = b[i] + c[i]  BY <3>1, <3>2, Zenon
    <3>4. Len(b) = Len(a) /\ Len(c) = Len(a)  BY <3>1, Zenon
    <3> HIDE DEF a, b, c
    <3>5. SumOf(a) = SumOf(b) + SumOf(c)  BY <3>1, <3>3, <3>4, SumsAdd
    <3> QED  BY <3>5 DEF a, b, c
  <2>3. /\ EnergyOf(nj, A) = SumOf(Part(nj, A))
        /\ EnergyOf(nj, A \intersect S) = SumOf(Part(nj, A \intersect S))
        /\ EnergyOf(nj, A \intersect S) \in Int
        /\ SumOf(Part(nj, cut)) \in Int
    BY PartOf, SumIsInt
  <2> HIDE DEF cut
  <2> QED  BY <2>2, <2>3
<1> DEFINE c == Part(nj, cut)
<1>4. /\ c \in Seq(Int) /\ Len(c) = n
      /\ \A i \in 1..n : c[i] = IF i \in cut THEN nj[i] ELSE 0
  BY PartOf
<1>5. ones \in Seq(Int) /\ Len(ones) = n /\ SumOf(ones) = Cardinality(cut)
  <2>1. cut \in SUBSET (1..n)  OBVIOUS
  <2>2. Len(ones) = n  BY <1>1
  <2> HIDE DEF cut, n
  <2> QED  BY <1>1, <2>1, <2>2, SizeAsSum
<1>6. \A i \in 1..n : ones[i] = IF i \in cut THEN 1 ELSE 0  OBVIOUS
<1>7. SumOf(c) >= 0
  <2>1. \A i \in 1..Len(c) : c[i] >= 0
    <3> HIDE DEF c, cut
    <3>1. ASSUME NEW i \in 1..n PROVE c[i] >= 0
      <4>1. nj[i] \in Int /\ nj[i] >= 0 /\ c[i] = IF i \in cut THEN nj[i] ELSE 0
        BY <1>1, <1>4
      <4> QED  BY <4>1
    <3> QED  BY <1>4, <3>1
  <2> HIDE DEF c
  <2> QED  BY <1>4, <2>1, SumOfNats
<1>8. ASSUME cut = {} PROVE SumOf(c) = 0
  <2>1. \A i \in 1..Len(c) : c[i] = 0  BY <1>4, <1>8
  <2> HIDE DEF c
  <2> QED  BY <1>4, <2>1, SumOfZeros
<1>9. ASSUME NEW i \in S PROVE SumOf(c) <= Cardinality(cut) * nj[i]
  <2> DEFINE m == nj[i]
  <2>1. m \in Int /\ m >= 0  BY <1>1, <1>2
  <2>2. \A j \in 1..n : j \in cut => nj[j] <= m  BY <1>2
  <2>3. Cardinality(cut) \in Int
    <3> HIDE DEF ones, cut, n
    <3> QED  BY <1>5, SumIsInt
  <2> HIDE DEF c, ones, m, cut
  <2>4. \A j \in 1..Len(c) : c[j] <= m * ones[j]
    <3>1. ASSUME NEW j \in 1..n PROVE c[j] <= m * ones[j]
      <4>1. CASE j \in cut
        <5>1. c[j] = nj[j] /\ ones[j] = 1 /\ nj[j] \in Int /\ nj[j] <= m
          BY <4>1, <1>1, <1>4, <1>6, <2>2
        <5> QED  BY <5>1, <2>1
      <4>2. CASE j \notin cut
        <5>1. c[j] = 0 /\ ones[j] = 0  BY <4>2, <1>4, <1>6
        <5> QED  BY <5>1, <2>1
      <4> QED  BY <4>1, <4>2
    <3> QED  BY <3>1, <1>4
  <2>5. SumOf(c) <= m * SumOf(ones)
    <3> HIDE DEF n
    <3> QED  BY <1>4, <1>5, <2>1, <2>4, SumLeq
  <2>6. m * Cardinality(cut) = Cardinality(cut) * m  BY <2>1, <2>3
  <2> QED  BY <1>5, <2>5, <2>6 DEF m
<1> HIDE DEF c, cut, missing
<1> QED  BY <1>3, <1>7, <1>8, <1>9 DEF c, cut, missing

\* A card's rows add up to the energies of the channels that are its own.
LEMMA CardSum ==
    ASSUME Derived, EnergyNotTakenBack, NEW gpu \in BOOLEAN, NEW g \in [Channels -> Int],
           \A i \in 1..Len(delta.Channels) :
              g[delta.Channels[i]] =
                 IF /\ Category(delta.Channels[i]) = "Energy"
                    /\ IF gpu THEN IsGPUEnergyChannel(delta.Channels[i].name)
                       ELSE IsANEEnergyChannel(delta.Channels[i].name)
                 THEN NanoJoules(delta.Channels[i]) ELSE 0
    PROVE  LET card == EnergyCard(delta, gpu)
               nj == [i \in 1..Len(card) |-> card[i].nj]
           IN  /\ nj \in Seq(Int) /\ Len(nj) = Len(card)
               /\ \A i \in 1..Len(nj) : nj[i] >= 0
               /\ EnergyOf(nj, 1..Len(card)) = SumOf(Values(g, delta.Channels))
<1> DEFINE chs == delta.Channels
           E == InCategory(chs, "Energy")
           mine(name) == IF gpu THEN IsGPUEnergyChannel(name) ELSE IsANEEnergyChannel(name)
           B == {ch \in ToSet(E) : mine(ch.name) /\ ch.value > 0}
           rows == Keep(E, B)
           card == EnergyCard(delta, gpu)
           nj == [i \in 1..Len(card) |-> card[i].nj]
<1>1. chs \in Seq(Channels) /\ E \in Seq(Channels)  BY DerivedParts
<1>2. card = [i \in 1..Len(rows) |-> [name |-> rows[i].name, nj |-> NanoJoules(rows[i])]]
  BY DEF EnergyCard, NanoJoules, Select
<1>3. rows \in Seq(Channels)
  <2> HIDE DEF B, E
  <2> QED  BY <1>1, KeepElements
<1>4. /\ nj \in Seq(Int) /\ Len(nj) = Len(card) /\ Len(nj) = Len(rows)
      /\ \A i \in 1..Len(nj) : nj[i] = NanoJoules(rows[i]) /\ rows[i] \in B
      /\ nj = Values(Joules, rows)
  <2>1. \A i \in 1..Len(rows) : rows[i] \in B
    <3> HIDE DEF B, E
    <3> QED  BY <1>1, KeepElements
  <2> HIDE DEF rows, B
  <2>2. Len(rows) \in Nat /\ \A i \in 1..Len(rows) : rows[i] \in Channels  BY <1>3
  <2>3. Len(card) = Len(rows) /\ \A i \in 1..Len(rows) : card[i].nj = NanoJoules(rows[i])
    BY <1>2, <2>2
  <2>4. \A i \in 1..Len(rows) : Joules[rows[i]] = NanoJoules(rows[i]) /\ NanoJoules(rows[i]) \in Int
    BY <2>2, ValuesAreInts DEF Joules
  <2> DEFINE n == Len(rows)
  <2> HIDE DEF card, n
  <2>5. nj = [i \in 1..n |-> card[i].nj] /\ n \in Nat  BY <2>2, <2>3 DEF n
  <2>6. \A i \in 1..n : card[i].nj = NanoJoules(rows[i]) /\ NanoJoules(rows[i]) \in Int
    BY <2>3, <2>4 DEF n
  <2> HIDE DEF nj
  <2>7. nj \in Seq(Int) /\ Len(nj) = n /\ \A i \in 1..n : nj[i] = NanoJoules(rows[i])
    BY <2>5, <2>6
  <2>8. nj = Values(Joules, rows)  BY <2>4, <2>5, <2>6 DEF Values, n
  <2> QED  BY <2>1, <2>3, <2>7, <2>8 DEF n
<1>8. \A i \in 1..Len(nj) : nj[i] >= 0
  <2>1. ASSUME NEW i \in 1..Len(nj) PROVE nj[i] >= 0
    <3>1. rows[i] \in Channels /\ nj[i] = NanoJoules(rows[i]) /\ rows[i] \in B
      <4> HIDE DEF rows, B, nj
      <4> QED  BY <1>3, <1>4
    <3>2. rows[i].value > 0 /\ rows[i].value \in Int  BY <3>1, ChannelsAssumption
    <3> HIDE DEF rows, B, nj
    <3> QED  BY <3>1, <3>2, NanoJoulesSign, ValuesAreInts
  <2> QED  BY <2>1
<1>5. EnergyOnly(g, Joules, chs, B)
  <2>1. ASSUME NEW i \in 1..Len(chs), Category(chs[i]) = "Energy"
        PROVE  g[chs[i]] = IF chs[i] \in B THEN Joules[chs[i]] ELSE 0
    <3>1. chs[i] \in Channels /\ chs[i].value \in Int  BY <1>1, ChannelsAssumption
    <3>2. Joules[chs[i]] = NanoJoules(chs[i])  BY <3>1 DEF Joules
    <3>3. chs[i] \in ToSet(E)
      <4>1. \E j \in 1..Len(E) : E[j] = chs[i]
        <5> HIDE DEF chs
        <5> QED  BY <1>1, <2>1, CategoryOf
      <4> HIDE DEF E
      <4> QED  BY <4>1 DEF ToSet
    <3>4. chs[i].value >= 0
      <4>1. chs[i].group = "Energy Model"  BY <2>1 DEF Category
      <4> QED  BY <4>1, <3>1 DEF EnergyNotTakenBack
    <3>5. g[chs[i]] = IF mine(chs[i].name) THEN NanoJoules(chs[i]) ELSE 0  BY <2>1
    <3>6. chs[i] \in B <=> mine(chs[i].name) /\ chs[i].value > 0  BY <3>3
    <3>7. chs[i].value = 0 => NanoJoules(chs[i]) = 0  BY <3>1, NanoJoulesSign
    <3> HIDE DEF B, mine, chs, E
    <3>8. chs[i].value > 0 \/ chs[i].value = 0  BY <3>1, <3>4
    <3> QED  BY <3>2, <3>5, <3>6, <3>7, <3>8
  <2>2. ASSUME NEW i \in 1..Len(chs), Category(chs[i]) # "Energy" PROVE g[chs[i]] = 0
    BY <2>2
  <2> HIDE DEF B, chs
  <2> QED  BY <2>1, <2>2 DEF EnergyOnly
<1>6. Joules \in [Channels -> Int]  BY ValuesAreInts
<1>7. SumOf(Values(Joules, rows)) = SumOf(Values(g, chs))
  <2> HIDE DEF B, chs
  <2> QED  BY <1>1, <1>5, <1>6, EnergyFilter DEF E
<1>9. EnergyOf(nj, 1..Len(card)) = SumOf(nj)
  <2> HIDE DEF nj, card, rows, B
  <2> DEFINE A == 1..Len(card)
  <2>1. \A i \in 1..Len(nj) : Part(nj, A)[i] = nj[i]  BY <1>4, PartOf
  <2>2. Part(nj, A) = nj
    <3>1. nj = [i \in 1..Len(nj) |-> nj[i]]  BY <1>4
    <3> QED  BY <1>4, <3>1 DEF Part
  <2> QED  BY <1>4, <2>2, PartOf
<1> HIDE DEF rows, B
<1> QED  BY <1>4, <1>7, <1>8, <1>9


\* The terminal's rows of one side add up to the energies of the channels that
\* are of that side; a channel without energy has no row and adds nothing.
LEMMA RowSum ==
    ASSUME Derived, EnergyNotTakenBack, NEW N, NEW g \in [Channels -> Int],
           \A i \in 1..Len(delta.Channels) :
              g[delta.Channels[i]] =
                 IF Category(delta.Channels[i]) = "Energy" /\ delta.Channels[i].name \in N
                 THEN NanoJoules(delta.Channels[i]) ELSE 0
    PROVE  LET shown == EnergyRows(InCategory(delta.Channels, "Energy"))
               nj == [i \in 1..Len(shown) |-> shown[i].watts.nj]
           IN  /\ nj \in Seq(Int) /\ Len(nj) = Len(shown)
               /\ \A i \in 1..Len(shown) : shown[i].name \in STRING
               /\ \A i \in 1..Len(nj) : nj[i] >= 0
               /\ EnergyOf(nj, {i \in 1..Len(shown) : shown[i].name \in N})
                     = SumOf(Values(g, delta.Channels))
<1> DEFINE chs == delta.Channels
           E == InCategory(chs, "Energy")
           B == {ch \in ToSet(E) : ch.value # 0}
           used == Keep(E, B)
           shown == EnergyRows(E)
           nj == [i \in 1..Len(shown) |-> shown[i].watts.nj]
           C == {i \in 1..Len(shown) : shown[i].name \in N}
           h == [ch \in Channels |-> IF ch.name \in N THEN NanoJoules(ch) ELSE 0]
<1>1. chs \in Seq(Channels) /\ E \in Seq(Channels)  BY DerivedParts
<1>2. used \in Seq(Channels)
  <2> HIDE DEF B, E
  <2> QED  BY <1>1, KeepElements
<1>3. Len(used) \in Nat /\ \A i \in 1..Len(used) : used[i] \in Channels
  <2> HIDE DEF used
  <2> QED  BY <1>2
<1>4. shown = [i \in 1..Len(used) |-> [name |-> used[i].name, watts |-> EnergyValueToWatts(used[i])]]
  BY DEF EnergyRows, Select
<1>5. ASSUME NEW ch \in Channels
      PROVE  EnergyValueToWatts(ch).nj = NanoJoules(ch) /\ NanoJoules(ch) \in Int /\ ch.name \in STRING
  <2>1. EnergyValueToWatts(ch).nj = NanoJoules(ch)
    BY DEF EnergyValueToWatts, NanoJoules
  <2>2. NanoJoules(ch) \in Int  BY ValuesAreInts
  <2>3. ch.name \in STRING  BY ChannelsAssumption
  <2> QED  BY <2>1, <2>2, <2>3
<1>15. \A i \in 1..Len(used) : NanoJoules(used[i]) >= 0
  <2>1. ASSUME NEW i \in 1..Len(used) PROVE NanoJoules(used[i]) >= 0
    <3>1. used[i] \in Channels  BY <1>3
    <3>2. used[i] \in B
      <4> HIDE DEF B, E
      <4> QED  BY <1>1, KeepElements
    <3>3. Category(used[i]) = "Energy"
      <4>1. PICK j \in 1..Len(E) : used[i] = E[j]
        <5>1. used[i] \in ToSet(E)  BY <3>2
        <5> HIDE DEF used, E
        <5> QED  BY <1>1, <5>1 DEF ToSet
      <4>2. \A k \in 1..Len(E) : Category(E[k]) = "Energy"
        <5> HIDE DEF chs
        <5> QED  BY <1>1, CategoryOf
      <4> HIDE DEF used, E
      <4> QED  BY <4>1, <4>2
    <3> HIDE DEF used
    <3>4. used[i].group = "Energy Model"  BY <3>3 DEF Category
    <3>5. used[i].value >= 0  BY <3>1, <3>4 DEF EnergyNotTakenBack
    <3> QED  BY <3>1, <3>5, NanoJoulesSign
  <2> QED  BY <2>1
<1> HIDE DEF used, shown, chs, E
<1>6. /\ Len(shown) = Len(used)
      /\ \A i \in 1..Len(used) : /\ shown[i].name = used[i].name
                                 /\ shown[i].watts.nj = NanoJoules(used[i])
  <2>1. ASSUME NEW i \in 1..Len(used)
        PROVE  shown[i].name = used[i].name /\ shown[i].watts.nj = NanoJoules(used[i])
    <3>1. shown[i] = [name |-> used[i].name, watts |-> EnergyValueToWatts(used[i])]  BY <1>4
    <3>2. used[i] \in Channels  BY <1>3
    <3> QED  BY <3>1, <3>2, <1>5
  <2>2. Len(shown) = Len(used)  BY <1>3, <1>4
  <2> QED  BY <2>1, <2>2
<1>7. /\ nj \in Seq(Int) /\ Len(nj) = Len(used)
      /\ \A i \in 1..Len(used) : nj[i] = NanoJoules(used[i])
  <2>1. nj = [i \in 1..Len(used) |-> shown[i].watts.nj]  BY <1>6
  <2>2. \A i \in 1..Len(used) : shown[i].watts.nj = NanoJoules(used[i]) /\ NanoJoules(used[i]) \in Int
    BY <1>3, <1>5, <1>6
  <2> DEFINE n == Len(used)
  <2>3. n \in Nat  BY <1>3
  <2> HIDE DEF n, nj
  <2>4. nj = [i \in 1..n |-> shown[i].watts.nj]  BY <2>1 DEF n
  <2>5. \A i \in 1..n : shown[i].watts.nj = NanoJoules(used[i]) /\ NanoJoules(used[i]) \in Int
    BY <2>2 DEF n
  <2>6. nj \in Seq(Int) /\ Len(nj) = n /\ \A i \in 1..n : nj[i] = NanoJoules(used[i])
    BY <2>3, <2>4, <2>5
  <2> QED  BY <2>6 DEF n
<1>8. h \in [Channels -> Int]
  <2>1. \A ch \in Channels : NanoJoules(ch) \in Int  BY ValuesAreInts
  <2> QED  BY <2>1
<1>9. Part(nj, C) = Values(h, used)
  <2>1. \A i \in 1..Len(used) : h[used[i]] = IF i \in C THEN nj[i] ELSE 0
    <3>1. ASSUME NEW i \in 1..Len(used) PROVE h[used[i]] = IF i \in C THEN nj[i] ELSE 0
      <4>1. h[used[i]] = IF used[i].name \in N THEN NanoJoules(used[i]) ELSE 0
        <5>1. used[i] \in Channels  BY <1>3
        <5> QED  BY <5>1
      <4>2. i \in C <=> used[i].name \in N  BY <1>6
      <4>3. nj[i] = NanoJoules(used[i])  BY <1>7
      <4> HIDE DEF h, nj, C
      <4> QED  BY <4>1, <4>2, <4>3
    <3> QED  BY <3>1
  <2> HIDE DEF h, nj, C
  <2> QED  BY <1>7, <2>1 DEF Part, Values
<1>10. EnergyOf(nj, C) = SumOf(Values(h, used))
  <2> HIDE DEF h, nj, C
  <2> QED  BY <1>7, <1>9, PartOf
<1>11. /\ \A i \in 1..Len(shown) : shown[i].name \in STRING
       /\ \A i \in 1..Len(nj) : nj[i] >= 0
  <2> HIDE DEF nj
  <2> QED  BY <1>3, <1>5, <1>6, <1>7, <1>15
<1>12. EnergyOnly(g, h, chs, B)
  <2>1. ASSUME NEW i \in 1..Len(chs), Category(chs[i]) = "Energy"
        PROVE  g[chs[i]] = IF chs[i] \in B THEN h[chs[i]] ELSE 0
    <3>1. chs[i] \in Channels  BY <1>1
    <3>2. h[chs[i]] = IF chs[i].name \in N THEN NanoJoules(chs[i]) ELSE 0  BY <3>1
    <3>3. chs[i] \in ToSet(E)
      <4>1. chs \in Seq(Channels)  BY <1>1
      <4>2. \E j \in 1..Len(InCategory(chs, "Energy")) : InCategory(chs, "Energy")[j] = chs[i]
        <5>1. \A q \in Seq(Channels) : \A k \in 1..Len(q) : Category(q[k]) = "Energy" =>
                 \E j \in 1..Len(InCategory(q, "Energy")) : InCategory(q, "Energy")[j] = q[k]
          BY CategoryOf
        <5> QED  BY <4>1, <2>1, <5>1
      <4>3. \E j \in 1..Len(E) : E[j] = chs[i]  BY <4>2 DEF E
      <4> QED  BY <4>3 DEF ToSet
    <3>4. g[chs[i]] = IF chs[i].name \in N THEN NanoJoules(chs[i]) ELSE 0  BY <2>1 DEF chs
    <3>5. chs[i] \in B <=> chs[i].value # 0  BY <3>3
    <3>6. chs[i].value = 0 => NanoJoules(chs[i]) = 0  BY <3>1, NanoJoulesSign
    <3> HIDE DEF B, h
    <3> QED  BY <3>2, <3>4, <3>5, <3>6
  <2>2. ASSUME NEW i \in 1..Len(chs), Category(chs[i]) # "Energy" PROVE g[chs[i]] = 0
    BY <2>2 DEF chs
  <2> HIDE DEF B, h
  <2> QED  BY <2>1, <2>2 DEF EnergyOnly
<1>13. SumOf(Values(h, used)) = SumOf(Values(g, chs))
  <2> HIDE DEF B, h
  <2> QED  BY <1>1, <1>8, <1>12, EnergyFilter DEF E, used
<1>14. EnergyOf(nj, C) = SumOf(Values(g, chs))  BY Zenon, <1>10, <1>13
<1>16. Len(nj) = Len(shown)  BY Zenon, <1>6, <1>7
<1> QED  BY Zenon, <1>7, <1>11, <1>14, <1>16 DEF chs, E, shown

\* The terminal's rows and the page's cards account for the energy that the two
\* powers of the library stand for, for any list of channels in any mixture of
\* units and any length of the cut, if no counter runs backwards and no name is both
\* the ANE's and the GPU's: what a cut leaves out is the energy of the rows that were
\* cut, none of which has more than a row that is shown (main.go:236-263, 347-363;
\* index.html:251-281, 461-462, 547, 666; types.go:193-230).
THEOREM EnergyAddsUpHolds ==
    ASSUME EnergyNotTakenBack, EnergyNamesApart
    PROVE  Spec => []EnergyAddsUp
<1>1. ASSUME Derived, EnergyNotTakenBack, EnergyNamesApart PROVE EnergyAddsUp
  <2> DEFINE chs == delta.Channels
             E == InCategory(chs, "Energy")
             shown == EnergyRows(E)
             nj == [i \in 1..Len(shown) |-> shown[i].watts.nj]
             ofANE == {i \in 1..Len(shown) : IsANEName(shown[i].name)}
             rest == (1..Len(shown)) \ ofANE
  <2>1. /\ OfANE \in [Channels -> Int] /\ OfGPU \in [Channels -> Int]
        /\ delta.PowerW.num = SumOf(Values(OfANE, chs))
        /\ delta.GPUPowerW.num = SumOf(Values(OfGPU, chs))
    BY <1>1, ValuesAreInts, PowerSums
  <2>2. ASSUME NEW i \in 1..Len(chs)
        PROVE  /\ OfANE[chs[i]] = IF Category(chs[i]) = "Energy" /\ chs[i].name \in ANENames
                                    THEN NanoJoules(chs[i]) ELSE 0
               /\ OfGPU[chs[i]] = IF Category(chs[i]) = "Energy" /\ chs[i].name \in GPUNames
                                    THEN NanoJoules(chs[i]) ELSE 0
               /\ OfGPU[chs[i]] = IF /\ Category(chs[i]) = "Energy"
                                     /\ chs[i].name \in STRING \ ANENames
                                    THEN NanoJoules(chs[i]) ELSE 0
    <3>1. /\ chs[i] \in Channels
          /\ Category(chs[i]) = "Energy" => EnergyNamed(chs[i])
          /\ OfANE[chs[i]] = IF Category(chs[i]) = "Energy" /\ IsANEName(chs[i].name)
                               THEN NanoJoules(chs[i]) ELSE 0
          /\ OfGPU[chs[i]] = IF Category(chs[i]) = "Energy" /\ chs[i].name \in GPUNames
                               THEN NanoJoules(chs[i]) ELSE 0
      BY <1>1, EnergyChannels
    <3>2. chs[i].name \in STRING  BY <3>1, ChannelsAssumption
    <3> HIDE DEF chs
    <3> QED  BY <3>1, <3>2 DEF EnergyNamed, IsANEName
  <2>3. EnergyRowsAddUp
    <3> DEFINE sideA == {i \in 1..Len(shown) : shown[i].name \in ANENames}
               sideG == {i \in 1..Len(shown) : shown[i].name \in STRING \ ANENames}
    <3>1. /\ nj \in Seq(Int) /\ Len(nj) = Len(shown)
          /\ \A i \in 1..Len(shown) : shown[i].name \in STRING
          /\ \A i \in 1..Len(nj) : nj[i] >= 0
          /\ EnergyOf(nj, sideA) = delta.PowerW.num
      <4>1. \A i \in 1..Len(chs) :
              OfANE[chs[i]] = IF Category(chs[i]) = "Energy" /\ chs[i].name \in ANENames
                                THEN NanoJoules(chs[i]) ELSE 0
        BY <2>2
      <4> QED  BY <1>1, <2>1, <4>1, RowSum
    <3>2. EnergyOf(nj, sideG) = delta.GPUPowerW.num
      BY <1>1, <2>1, <2>2, RowSum
    <3>3. sideA = ofANE  BY DEF IsANEName
    <3>4. sideG = rest
      <4> HIDE DEF shown
      <4> QED  BY <3>1 DEF IsANEName
    <3>5. ofANE \in SUBSET (1..Len(nj)) /\ rest \in SUBSET (1..Len(nj))
      <4> HIDE DEF nj, shown
      <4> QED  BY <3>1
    <3>6. /\ AccountFor(nj, ofANE, EnergyOf(nj, ofANE))
          /\ AccountFor(nj, rest, EnergyOf(nj, rest))
      <4> HIDE DEF nj, ofANE, rest
      <4>1. AccountFor(nj, ofANE, EnergyOf(nj, ofANE))  BY <3>1, <3>5, CutAccounts
      <4>2. AccountFor(nj, rest, EnergyOf(nj, rest))  BY <3>1, <3>5, CutAccounts
      <4> QED  BY <4>1, <4>2
    <3> HIDE DEF sideA, sideG
    <3>7. /\ AccountFor(nj, ofANE, delta.PowerW.num)
          /\ AccountFor(nj, rest, delta.GPUPowerW.num)
      <4> HIDE DEF nj, ofANE, rest
      <4> QED  BY <3>1, <3>2, <3>3, <3>4, <3>6, Zenon
    <3> QED  BY <3>7 DEF EnergyRowsAddUp
  <2>4. CardsAddUp
    <3> DEFINE of(gpu) == [i \in 1..Len(EnergyCard(delta, gpu)) |-> EnergyCard(delta, gpu)[i].nj]
               all(gpu) == 1..Len(EnergyCard(delta, gpu))
    <3>1. /\ of(FALSE) \in Seq(Int) /\ Len(of(FALSE)) = Len(EnergyCard(delta, FALSE))
          /\ \A i \in 1..Len(of(FALSE)) : of(FALSE)[i] >= 0
          /\ EnergyOf(of(FALSE), all(FALSE)) = delta.PowerW.num
      BY <1>1, <2>1, <2>2, CardSum DEF IsANEEnergyChannel, IsANEName
    <3>2. /\ of(TRUE) \in Seq(Int) /\ Len(of(TRUE)) = Len(EnergyCard(delta, TRUE))
          /\ \A i \in 1..Len(of(TRUE)) : of(TRUE)[i] >= 0
          /\ EnergyOf(of(TRUE), all(TRUE)) = delta.GPUPowerW.num
      BY <1>1, <2>1, <2>2, CardSum DEF IsGPUEnergyChannel
    <3>3. ASSUME NEW q \in Seq(Int), NEW n, Len(q) = n, \A i \in 1..Len(q) : q[i] >= 0
          PROVE  AccountFor(q, 1..n, EnergyOf(q, 1..n))
      <4>1. 1..n \in SUBSET (1..Len(q))  BY <3>3
      <4> QED  BY <3>3, <4>1, CutAccounts
    <3>4. AccountFor(of(FALSE), all(FALSE), delta.PowerW.num)  BY <3>1, <3>3
    <3>5. AccountFor(of(TRUE), all(TRUE), delta.GPUPowerW.num)  BY <3>2, <3>3
    <3> QED  BY <3>4, <3>5 DEF CardsAddUp
  <2> QED  BY <2>3, <2>4 DEF EnergyAddsUp
<1> QED  BY <1>1, DerivedHolds, PTL

-----------------------------------------------------------------------------
(* Loops over the characters of a name.                                    *)

\* The characters names and metric names are made of.
Letter == Chars \union Lower \union {"-"}

\* SanitizeMetricName: what is written, and its steps.
Writing == [b : Seq(Letter), prevHyphen : BOOLEAN]
Unwritten == [b |-> <<>>, prevHyphen |-> TRUE]
WriteStep == [p \in Writing \X Letter |-> Write(p[1], p[2])]

\* A step of the loop.
LEMMA WriteStepType ==
    Loop(Letter, Writing, Unwritten, WriteStep)
<1>1. Unwritten \in Writing  BY DEF Unwritten, Writing
<1>2. ASSUME NEW out \in Writing, NEW c \in Letter PROVE Write(out, c) \in Writing
  <2>1. ToLower(c) \in Letter /\ "-" \in Letter
    BY DEF ToLower, Upper, Lower, Letter
  <2>2. out.b \in Seq(Letter) /\ out.prevHyphen \in BOOLEAN  BY DEF Writing
  <2>3. Append(out.b, ToLower(c)) \in Seq(Letter) /\ Append(out.b, "-") \in Seq(Letter)
    BY <2>1, <2>2
  <2> QED  BY <2>3 DEF Write, Writing
<1> QED  BY <1>1, <1>2 DEF Loop, WriteStep

\* What is written goes through the name.
LEMMA WriteFollows ==
    ASSUME NEW s \in Seq(Letter)
    PROVE  \E F : Follows(F, s, Writing, Unwritten, WriteStep) /\ F[Len(s)] = Written(s)
<1> DEFINE Folds(iter) == iter = [d \in SUBSET DOMAIN s |->
                        IF d = {} THEN Unwritten
                        ELSE Write(iter[d \ {Max(d)}], s[Max(d)])]
           it == CHOOSE iter : Folds(iter)
<1>1. Len(s) \in Nat /\ DOMAIN s = 1..Len(s) /\ \A i \in 1..Len(s) : s[i] \in Letter  OBVIOUS
<1>2. Written(s) = it[DOMAIN s]
  BY DEF Written, Unwritten, FoldLeft, MapThenFoldSet
<1>3. Loop(Letter, Writing, Unwritten, WriteStep)  BY WriteStepType
<1>4. PICK iter \in [SUBSET (1..Len(s)) -> Writing] :
          SolvesOver(iter, s, Writing, Unwritten, WriteStep)
  BY <1>3, SolutionExists
<1>5. ASSUME NEW v \in Writing, NEW i \in 1..Len(s)
      PROVE  WriteStep[<<v, s[i]>>] = Write(v, s[i])
  BY <1>1 DEF WriteStep
<1>6. Folds(iter)
  <2>1. ASSUME NEW d \in SUBSET (1..Len(s))
        PROVE  iter[d] = IF d = {} THEN Unwritten
                         ELSE Write(iter[d \ {Max(d)}], s[Max(d)])
    BY <1>4, <1>5 DEF SolvesOver
  <2> QED  BY <1>1, <2>1
<1>7. Folds(it)  BY <1>6
<1> HIDE DEF it
<1>8. \A d \in SUBSET (1..Len(s)) :
         it[d] = IF d = {} THEN Unwritten ELSE Write(it[d \ {Max(d)}], s[Max(d)])
  BY <1>1, <1>7
<1> HIDE DEF Folds
<1>9. ASSUME NEW d \in SUBSET (1..Len(s)), d # {}, it[d \ {Max(d)}] \in Writing
      PROVE  it[d] = WriteStep[<<it[d \ {Max(d)}], s[Max(d)]>>]
  <2>1. Max(d) \in 1..Len(s)  BY <1>1, <1>9, MaxIsGreatest
  <2> QED  BY <1>5, <1>8, <1>9, <2>1
<1>10. it[{}] = Unwritten  BY <1>8
<1>11. SolvesInside(it, s, Writing, Unwritten, WriteStep)
  BY <1>9, <1>10 DEF SolvesInside
<1>12. \E F : Follows(F, s, Writing, Unwritten, WriteStep) /\ F[Len(s)] = it[1..Len(s)]
  BY <1>3, <1>11, SolutionFollows
<1> QED  BY <1>1, <1>2, <1>12

\* What is written of a name with one character more.
LEMMA WriteAppend ==
    ASSUME NEW s \in Seq(Letter), NEW c \in Letter
    PROVE  /\ Written(s) \in Writing
           /\ Written(Append(s, c)) = WriteStep[<<Written(s), c>>]
<1> DEFINE u == Append(s, c)
<1>1. u \in Seq(Letter) /\ Len(u) = Len(s) + 1  OBVIOUS
<1>2. PICK F : Follows(F, s, Writing, Unwritten, WriteStep) /\ F[Len(s)] = Written(s)
  BY WriteFollows
<1> HIDE DEF u
<1>3. PICK H : Follows(H, u, Writing, Unwritten, WriteStep) /\ H[Len(u)] = Written(u)
  BY <1>1, WriteFollows
<1>4. Loop(Letter, Writing, Unwritten, WriteStep)  BY WriteStepType
<1>5. Follows(H, Append(s, c), Writing, Unwritten, WriteStep)  BY <1>3 DEF u
<1>6. F[Len(s)] \in Writing /\ H[Len(s) + 1] = WriteStep[<<F[Len(s)], c>>]
  BY <1>2, <1>4, <1>5, FollowsAppend
<1> QED  BY <1>1, <1>2, <1>3, <1>6 DEF u

\* What is written of no name.
LEMMA WriteEmpty ==
    Written(<<>>) = Unwritten
<1>1. <<>> \in Seq(Letter) /\ Len(<<>>) = 0  OBVIOUS
<1>2. PICK F : Follows(F, <<>>, Writing, Unwritten, WriteStep)
               /\ F[Len(<<>>)] = Written(<<>>)
  BY <1>1, WriteFollows
<1> QED  BY <1>1, <1>2 DEF Follows

\* ParseFloat: what is read, and its steps.
Reading == [num : Nat, den : Nat, decimal : BOOLEAN]
Unread == [num |-> 0, den |-> 1, decimal |-> FALSE]
ReadStep == [p \in Reading \X Chars |-> Read(p[1], p[2])]

\* A step of the loop.
LEMMA ReadStepType ==
    Loop(Chars, Reading, Unread, ReadStep)
<1>1. Unread \in Reading  BY DEF Unread, Reading
<1>2. ASSUME NEW f \in Reading, NEW c \in Chars PROVE Read(f, c) \in Reading
  <2>1. c \in Digits => DigitValue[c] \in Nat  BY AlphabetAssumption
  <2>2. CASE c \in Digits
    <3>1. f.num \in Nat /\ f.den \in Nat /\ f.decimal \in BOOLEAN  BY DEF Reading
    <3>2. 10 * f.num + DigitValue[c] \in Nat /\ 10 * f.den \in Nat  BY <2>1, <2>2, <3>1
    <3>3. [f EXCEPT !.num = 10 * @ + DigitValue[c],
                    !.den = IF f.decimal THEN 10 * @ ELSE @] \in Reading
      BY <3>1, <3>2 DEF Reading
    <3> QED  BY <2>2, <3>3 DEF Read
  <2>3. CASE c \notin Digits  BY <2>3 DEF Read, Reading
  <2> QED  BY <2>2, <2>3
<1> QED  BY <1>1, <1>2 DEF Loop, ReadStep

\* What is read goes through the name.
LEMMA ReadFollows ==
    ASSUME NEW s \in Seq(Chars)
    PROVE  \E F : Follows(F, s, Reading, Unread, ReadStep) /\ F[Len(s)] = ParseFloat(s)
<1> DEFINE Folds(iter) == iter = [d \in SUBSET DOMAIN s |->
                        IF d = {} THEN Unread
                        ELSE Read(iter[d \ {Max(d)}], s[Max(d)])]
           it == CHOOSE iter : Folds(iter)
<1>1. Len(s) \in Nat /\ DOMAIN s = 1..Len(s) /\ \A i \in 1..Len(s) : s[i] \in Chars  OBVIOUS
<1>2. ParseFloat(s) = it[DOMAIN s]
  BY DEF ParseFloat, Unread, FoldLeft, MapThenFoldSet
<1>3. Loop(Chars, Reading, Unread, ReadStep)  BY ReadStepType
<1>4. PICK iter \in [SUBSET (1..Len(s)) -> Reading] :
          SolvesOver(iter, s, Reading, Unread, ReadStep)
  BY <1>3, SolutionExists
<1>5. ASSUME NEW v \in Reading, NEW i \in 1..Len(s)
      PROVE  ReadStep[<<v, s[i]>>] = Read(v, s[i])
  BY <1>1 DEF ReadStep
<1>6. Folds(iter)
  <2>1. ASSUME NEW d \in SUBSET (1..Len(s))
        PROVE  iter[d] = IF d = {} THEN Unread
                         ELSE Read(iter[d \ {Max(d)}], s[Max(d)])
    BY <1>4, <1>5 DEF SolvesOver
  <2> QED  BY <1>1, <2>1
<1>7. Folds(it)  BY <1>6
<1> HIDE DEF it
<1>8. \A d \in SUBSET (1..Len(s)) :
         it[d] = IF d = {} THEN Unread ELSE Read(it[d \ {Max(d)}], s[Max(d)])
  BY <1>1, <1>7
<1> HIDE DEF Folds
<1>9. ASSUME NEW d \in SUBSET (1..Len(s)), d # {}, it[d \ {Max(d)}] \in Reading
      PROVE  it[d] = ReadStep[<<it[d \ {Max(d)}], s[Max(d)]>>]
  <2>1. Max(d) \in 1..Len(s)  BY <1>1, <1>9, MaxIsGreatest
  <2> QED  BY <1>5, <1>8, <1>9, <2>1
<1>10. it[{}] = Unread  BY <1>8
<1>11. SolvesInside(it, s, Reading, Unread, ReadStep)  BY <1>9, <1>10 DEF SolvesInside
<1>12. \E F : Follows(F, s, Reading, Unread, ReadStep) /\ F[Len(s)] = it[1..Len(s)]
  BY <1>3, <1>11, SolutionFollows
<1> QED  BY <1>1, <1>2, <1>12

\* What is read of a name with one character more.
LEMMA ReadAppend ==
    ASSUME NEW s \in Seq(Chars), NEW c \in Chars
    PROVE  /\ ParseFloat(s) \in Reading
           /\ ParseFloat(Append(s, c)) = ReadStep[<<ParseFloat(s), c>>]
<1> DEFINE u == Append(s, c)
<1>1. u \in Seq(Chars) /\ Len(u) = Len(s) + 1  OBVIOUS
<1>2. PICK F : Follows(F, s, Reading, Unread, ReadStep) /\ F[Len(s)] = ParseFloat(s)
  BY ReadFollows
<1> HIDE DEF u
<1>3. PICK H : Follows(H, u, Reading, Unread, ReadStep) /\ H[Len(u)] = ParseFloat(u)
  BY <1>1, ReadFollows
<1>4. Loop(Chars, Reading, Unread, ReadStep)  BY ReadStepType
<1>5. Follows(H, Append(s, c), Reading, Unread, ReadStep)  BY <1>3 DEF u
<1>6. F[Len(s)] \in Reading /\ H[Len(s) + 1] = ReadStep[<<F[Len(s)], c>>]
  BY <1>2, <1>4, <1>5, FollowsAppend
<1> QED  BY <1>1, <1>2, <1>3, <1>6 DEF u

\* What is read of no name.
LEMMA ReadEmpty ==
    ParseFloat(<<>>) = Unread
<1>1. <<>> \in Seq(Chars) /\ Len(<<>>) = 0  OBVIOUS
<1>2. PICK F : Follows(F, <<>>, Reading, Unread, ReadStep)
               /\ F[Len(<<>>)] = ParseFloat(<<>>)
  BY <1>1, ReadFollows
<1> QED  BY <1>1, <1>2 DEF Follows

\* Value, the number that digits are.
ValueStep == [p \in Nat \X Digits |-> 10 * p[1] + DigitValue[p[2]]]

\* A step of the loop.
LEMMA ValueStepType ==
    Loop(Digits, Nat, 0, ValueStep)
<1>1. ASSUME NEW c \in Digits PROVE DigitValue[c] \in Nat  BY AlphabetAssumption
<1> QED  BY <1>1 DEF Loop, ValueStep

\* A number goes through the name.
LEMMA ValueFollows ==
    ASSUME NEW s \in Seq(Digits)
    PROVE  \E F : Follows(F, s, Nat, 0, ValueStep) /\ F[Len(s)] = Value(s)
<1> DEFINE Folds(iter) == iter = [d \in SUBSET DOMAIN s |->
                        IF d = {} THEN 0
                        ELSE 10 * iter[d \ {Max(d)}] + DigitValue[s[Max(d)]]]
           it == CHOOSE iter : Folds(iter)
<1>1. Len(s) \in Nat /\ DOMAIN s = 1..Len(s) /\ \A i \in 1..Len(s) : s[i] \in Digits  OBVIOUS
<1>2. Value(s) = it[DOMAIN s]
  BY DEF Value, FoldLeft, MapThenFoldSet
<1>3. Loop(Digits, Nat, 0, ValueStep)  BY ValueStepType
<1>4. PICK iter \in [SUBSET (1..Len(s)) -> Nat] : SolvesOver(iter, s, Nat, 0, ValueStep)
  BY <1>3, SolutionExists
<1>5. ASSUME NEW v \in Nat, NEW i \in 1..Len(s)
      PROVE  ValueStep[<<v, s[i]>>] = 10 * v + DigitValue[s[i]]
  BY <1>1 DEF ValueStep
<1>6. Folds(iter)
  <2>1. ASSUME NEW d \in SUBSET (1..Len(s))
        PROVE  iter[d] = IF d = {} THEN 0
                         ELSE 10 * iter[d \ {Max(d)}] + DigitValue[s[Max(d)]]
    BY <1>4, <1>5 DEF SolvesOver
  <2> QED  BY <1>1, <2>1
<1>7. Folds(it)  BY <1>6
<1> HIDE DEF it
<1>8. \A d \in SUBSET (1..Len(s)) :
         it[d] = IF d = {} THEN 0 ELSE 10 * it[d \ {Max(d)}] + DigitValue[s[Max(d)]]
  BY <1>1, <1>7
<1> HIDE DEF Folds
<1>9. ASSUME NEW d \in SUBSET (1..Len(s)), d # {}, it[d \ {Max(d)}] \in Nat
      PROVE  it[d] = ValueStep[<<it[d \ {Max(d)}], s[Max(d)]>>]
  <2>1. Max(d) \in 1..Len(s)  BY <1>1, <1>9, MaxIsGreatest
  <2> QED  BY <1>5, <1>8, <1>9, <2>1
<1>10. it[{}] = 0  BY <1>8
<1>11. SolvesInside(it, s, Nat, 0, ValueStep)  BY <1>9, <1>10 DEF SolvesInside
<1>12. \E F : Follows(F, s, Nat, 0, ValueStep) /\ F[Len(s)] = it[1..Len(s)]
  BY <1>3, <1>11, SolutionFollows
<1> QED  BY <1>1, <1>2, <1>12

\* The number of a name with one character more.
LEMMA ValueAppend ==
    ASSUME NEW s \in Seq(Digits), NEW c \in Digits
    PROVE  /\ Value(s) \in Nat
           /\ Value(Append(s, c)) = ValueStep[<<Value(s), c>>]
<1> DEFINE u == Append(s, c)
<1>1. u \in Seq(Digits) /\ Len(u) = Len(s) + 1  OBVIOUS
<1>2. PICK F : Follows(F, s, Nat, 0, ValueStep) /\ F[Len(s)] = Value(s)
  BY ValueFollows
<1> HIDE DEF u
<1>3. PICK H : Follows(H, u, Nat, 0, ValueStep) /\ H[Len(u)] = Value(u)
  BY <1>1, ValueFollows
<1>4. Loop(Digits, Nat, 0, ValueStep)  BY ValueStepType
<1>5. Follows(H, Append(s, c), Nat, 0, ValueStep)  BY <1>3 DEF u
<1>6. F[Len(s)] \in Nat /\ H[Len(s) + 1] = ValueStep[<<F[Len(s)], c>>]
  BY <1>2, <1>4, <1>5, FollowsAppend
<1> QED  BY <1>1, <1>2, <1>3, <1>6 DEF u

\* The number of no name.
LEMMA ValueEmpty ==
    Value(<<>>) = 0
<1>1. <<>> \in Seq(Digits) /\ Len(<<>>) = 0  OBVIOUS
<1>2. PICK F : Follows(F, <<>>, Nat, 0, ValueStep) /\ F[Len(<<>>)] = Value(<<>>)
  BY <1>1, ValueFollows
<1> QED  BY <1>1, <1>2 DEF Follows

-----------------------------------------------------------------------------
(* containsANE.                                                            *)

\* The end of the word that starts at i.
LEMMA WordEnds ==
    ASSUME NEW s, Len(s) \in Nat, NEW i \in 1..Len(s), IsLetter(s[i])
    PROVE  \E last \in i..Len(s) :
              /\ \A k \in i..last : IsLetter(s[k])
              /\ last = Len(s) \/ ~IsLetter(s[last + 1])
<1> DEFINE J == {j \in i..Len(s) : \A k \in i..j : IsLetter(s[k])}
           last == Max(J)
<1>1. i \in J  OBVIOUS
<1>2. J \in SUBSET (1..Len(s)) /\ J # {}  BY <1>1
<1> HIDE DEF J
<1>3. last \in J /\ \A j \in J : last >= j  BY <1>2, MaxIsGreatest
<1> HIDE DEF last
<1>4. last \in i..Len(s) /\ \A k \in i..last : IsLetter(s[k])  BY <1>3 DEF J
<1>5. ASSUME last # Len(s), IsLetter(s[last + 1]) PROVE FALSE
  <2>1. last + 1 \in i..Len(s)  BY <1>4, <1>5
  <2>2. \A k \in i..(last + 1) : k \in i..last \/ k = last + 1  BY <1>4
  <2>3. last + 1 \in J  BY <1>4, <1>5, <2>1, <2>2 DEF J
  <2> QED  BY <1>3, <1>4, <2>3
<1> QED  BY <1>4, <1>5

\* An "ane" that no letter precedes starts a word.
LEMMA WordOfANE ==
    ASSUME NEW s \in Seq(Chars), ContainsANE(s)
    PROVE  \E w \in Words(s) : Len(w) >= 3 /\ ANEAt(w, 1)
<1>1. PICK i \in 1..(Len(s) - 2) : ANEAt(s, i) /\ (i = 1 \/ ~IsLetter(s[i - 1]))
  BY DEF ContainsANE
<1>2. /\ Len(s) \in Nat /\ i \in 1..Len(s) /\ i + 1 \in 1..Len(s) /\ i + 2 \in 1..Len(s)
      /\ i \in Nat /\ i >= 1
  BY <1>1
<1>3. /\ IsLetter(s[i]) /\ IsLetter(s[i + 1]) /\ IsLetter(s[i + 2])
  <2>1. /\ s[i] \in {"a", "A"} /\ s[i + 1] \in {"n", "N"} /\ s[i + 2] \in {"e", "E"}
    BY <1>1 DEF ANEAt
  <2>2. \A c \in {"A", "N", "E", "a", "n", "e"} : IsLetter(c)  BY AlphabetAssumption
  <2> QED  BY <2>1, <2>2
<1>4. PICK last \in i..Len(s) : /\ \A k \in i..last : IsLetter(s[k])
                                /\ last = Len(s) \/ ~IsLetter(s[last + 1])
  BY <1>2, <1>3, WordEnds
<1>5. last >= i + 2
  <2>1. last # i  BY <1>2, <1>3, <1>4
  <2>2. last # i + 1
    <3> SUFFICES ASSUME last = i + 1 PROVE FALSE  OBVIOUS
    <3>1. last + 1 = i + 2  BY <1>2
    <3> QED  BY <1>2, <1>3, <1>4, <3>1
  <2> QED  BY <1>2, <1>4, <2>1, <2>2
<1> DEFINE w == SubSeq(s, i, last)
<1>6. /\ Len(w) >= 3 /\ w[1] = s[i] /\ w[2] = s[i + 1] /\ w[3] = s[i + 2]
  <2>1. last \in Nat /\ last <= Len(s) /\ Len(w) = (last - i) + 1  BY <1>2, <1>4
  <2>2. \A k \in 1..Len(w) : w[k] = s[(i + k) - 1]  BY <1>2, <2>1
  <2>3. Len(w) >= 3  BY <1>2, <1>5, <2>1
  <2> HIDE DEF w
  <2>4. /\ 1 \in 1..Len(w) /\ 2 \in 1..Len(w) /\ 3 \in 1..Len(w)
        /\ (i + 1) - 1 = i /\ (i + 2) - 1 = i + 1 /\ (i + 3) - 1 = i + 2
    BY <1>2, <2>1, <2>3
  <2> QED  BY <2>2, <2>3, <2>4
<1>7. ANEAt(w, 1)
  <2> HIDE DEF w
  <2> QED  BY <1>1, <1>6 DEF ANEAt
<1>8. w \in Words(s)
  <2>1. IsWord(s, i, last)  BY <1>1, <1>4 DEF IsWord
  <2>2. last \in 1..Len(s) /\ i <= last  BY <1>2, <1>4
  <2>3. <<i, last>> \in (1..Len(s)) \X (1..Len(s))  BY <1>2, <2>2
  <2> QED  BY <2>1, <2>2, <2>3 DEF Words
<1> QED  BY <1>6, <1>7, <1>8

\* A word is preceded by no letter.
LEMMA ANEOfWord ==
    ASSUME NEW s \in Seq(Chars), NEW w \in Words(s), Len(w) >= 3, ANEAt(w, 1)
    PROVE  ContainsANE(s)
<1>1. PICK p \in (1..Len(s)) \X (1..Len(s)) :
         p[1] <= p[2] /\ IsWord(s, p[1], p[2]) /\ w = SubSeq(s, p[1], p[2])
  BY DEF Words
<1> DEFINE i == p[1]
           last == p[2]
<1>2. i \in 1..Len(s) /\ last \in 1..Len(s) /\ i <= last /\ Len(s) \in Nat  BY <1>1
<1>3. IsWord(s, i, last) /\ w = SubSeq(s, i, last)  BY <1>1
<1> HIDE DEF i, last
<1>4. Len(w) = (last - i) + 1 /\ \A k \in 1..Len(w) : w[k] = s[(i + k) - 1]
  BY <1>2, <1>3
<1>5. i \in 1..(Len(s) - 2)  BY <1>2, <1>4
<1>6. w[1] = s[i] /\ w[2] = s[i + 1] /\ w[3] = s[i + 2]
  <2>1. /\ 1 \in 1..Len(w) /\ 2 \in 1..Len(w) /\ 3 \in 1..Len(w)
        /\ (i + 1) - 1 = i /\ (i + 2) - 1 = i + 1 /\ (i + 3) - 1 = i + 2
    BY <1>2, <1>4
  <2> QED  BY <1>4, <2>1
<1>7. ANEAt(s, i)  BY <1>6 DEF ANEAt
<1>8. i = 1 \/ ~IsLetter(s[i - 1])  BY <1>3 DEF IsWord
<1> QED  BY <1>5, <1>7, <1>8 DEF ContainsANE

-----------------------------------------------------------------------------
(* Names of any length.                                                    *)

\* A name is characters.
NameInv == spelled \in Seq(Chars)

\* A step adds a character.
LEMMA NameCorrect == Spelling => []NameInv
<1>1. Blank => NameInv  BY DEF Blank, NameInv
<1>2. NameInv /\ [Spell]_spelled => NameInv'  BY DEF Spell, NameInv
<1> QED  BY <1>1, <1>2, PTL DEF Spelling

\* ANEStartsAWord, for names of any length: containsANE accepts a name if and only
\* if one of its words starts with "ane".
THEOREM ANEStartsAWordHolds ==
    Spelling => []ANEStartsAWord
<1>1. NameInv => ANEStartsAWord
  BY WordOfANE, ANEOfWord DEF NameInv, ANEStartsAWord
<1> QED  BY <1>1, NameCorrect, PTL

-----------------------------------------------------------------------------
(* sanitizeMetricName.                                                     *)

\* What the loop has written of s: every hyphen is between two characters, but the
\* last one may still wait for its second, and nothing is lost.
WrittenWell(s) ==
    LET b == Written(s).b
        kept == Keep(s, Alphanumeric)
    IN  /\ \A i \in 1..Len(b) : b[i] \in Lower \union Digits \union {"-"}
        /\ \A i \in 1..Len(b) : b[i] = "-" => i > 1 /\ (i < Len(b) => b[i + 1] # "-")
        /\ Written(s).prevHyphen <=> (b = <<>> \/ b[Len(b)] = "-")
        /\ Keep(b, Alphanumeric) = [i \in 1..Len(kept) |-> ToLower(kept[i])]

\* A letter in lower case or a digit is written.
LEMMA ToLowerIsLower ==
    ASSUME NEW c \in Alphanumeric
    PROVE  /\ ToLower(c) \in Lower \union Digits /\ ToLower(c) \in Alphanumeric
           /\ ToLower(c) # "-"
<1>1. c \in Upper => ToLower(c) \in Lower  BY DEF ToLower, Lower, Upper
<1>2. c \notin Upper => ToLower(c) = c  BY DEF ToLower
<1>3. "-" \notin Lower \union Digits  BY AlphabetAssumption DEF IsLetter
<1> QED  BY <1>1, <1>2, <1>3 DEF Alphanumeric

\* The loop starts well.
LEMMA WrittenEmpty == WrittenWell(<<>>)
<1>1. Written(<<>>) = Unwritten  BY WriteEmpty
<1>2. Keep(<<>>, Alphanumeric) = <<>>  BY KeepEmpty
<1> QED  BY <1>1, <1>2 DEF WrittenWell, Unwritten

\* A letter or a digit is written.
LEMMA WriteLetter ==
    ASSUME NEW s \in Seq(Chars), WrittenWell(s),
           NEW c \in Chars, c \in Alphanumeric
    PROVE  WrittenWell(Append(s, c))
<1> DEFINE b == Written(s).b
           d == ToLower(c)
           r == Append(b, d)
           u == Append(s, c)
           kept == Keep(s, Alphanumeric)
<1>1. s \in Seq(Letter) /\ c \in Letter  BY DEF Letter
<1>2. Written(s) \in Writing /\ Written(u) = Write(Written(s), c)
  BY <1>1, WriteAppend DEF WriteStep
<1>3. Written(u) = [b |-> r, prevHyphen |-> FALSE]
  <2>1. IsLetter(c) \/ c \in Digits  BY DEF Alphanumeric, IsLetter
  <2> QED  BY <1>2, <2>1 DEF Write
<1>4. b \in Seq(Letter)  BY <1>2 DEF Writing
<1>5. /\ d \in Lower \union Digits /\ d \in Alphanumeric /\ d # "-" /\ d \in Letter
  <2>1. d \in Letter  BY <1>1 DEF ToLower, Upper, Lower, Letter
  <2> QED  BY <2>1, ToLowerIsLower
<1>6. Keep(r, Alphanumeric) = Append(Keep(b, Alphanumeric), d)
  <2> HIDE DEF b, d
  <2> QED  BY <1>4, <1>5, KeepAppend
<1>7. kept \in Seq(Chars) /\ Keep(u, Alphanumeric) = Append(kept, c)  BY KeepAppend
<1>8. /\ \A i \in 1..Len(b) : b[i] \in Lower \union Digits \union {"-"}
      /\ \A i \in 1..Len(b) : b[i] = "-" => i > 1 /\ (i < Len(b) => b[i + 1] # "-")
      /\ Keep(b, Alphanumeric) = [i \in 1..Len(kept) |-> ToLower(kept[i])]
  BY DEF WrittenWell
<1> HIDE DEF b, d, kept, u
<1>9. /\ Len(r) = Len(b) + 1 /\ r[Len(b) + 1] = d /\ Len(b) \in Nat
      /\ \A i \in 1..Len(b) : r[i] = b[i]
  BY <1>4, <1>5
<1> HIDE DEF r
<1>10. \A i \in 1..Len(r) : i \in 1..Len(b) \/ i = Len(b) + 1  BY <1>9
<1>11. \A i \in 1..Len(r) : r[i] \in Lower \union Digits \union {"-"}
  BY <1>5, <1>8, <1>9, <1>10
<1>12. ASSUME NEW i \in 1..Len(r), r[i] = "-"
       PROVE  i > 1 /\ (i < Len(r) => r[i + 1] # "-")
  <2>1. i \in 1..Len(b) /\ b[i] = "-"  BY <1>5, <1>9, <1>10, <1>12
  <2>2. i + 1 \in 1..Len(b) \/ i + 1 = Len(b) + 1  BY <1>9, <2>1
  <2>3. i + 1 \in 1..Len(b) => i < Len(b)  BY <1>9
  <2> QED  BY <1>5, <1>8, <1>9, <2>1, <2>2, <2>3
<1>13. r # <<>> /\ r[Len(r)] # "-"  BY <1>5, <1>9
<1>14. LET k == Append(kept, c)
       IN  Append([i \in 1..Len(kept) |-> ToLower(kept[i])], d)
             = [i \in 1..Len(k) |-> ToLower(k[i])]
  BY <1>7 DEF d
<1>15. LET k == Keep(u, Alphanumeric)
       IN  Keep(r, Alphanumeric) = [i \in 1..Len(k) |-> ToLower(k[i])]
  <2>1. Keep(r, Alphanumeric) = Append([i \in 1..Len(kept) |-> ToLower(kept[i])], d)
    BY <1>6, <1>8
  <2> QED  BY <1>7, <1>14, <2>1
<1>16. Written(u).b = r /\ Written(u).prevHyphen = FALSE  BY <1>3
<1>17. WrittenWell(u)
  BY <1>11, <1>12, <1>13, <1>15, <1>16, Zenon DEF WrittenWell
<1> QED  BY <1>17 DEF u

\* Anything else is a hyphen, unless one waits or nothing is written.
LEMMA WriteHyphen ==
    ASSUME NEW s \in Seq(Chars), WrittenWell(s),
           NEW c \in Chars, c \notin Alphanumeric
    PROVE  WrittenWell(Append(s, c))
<1> DEFINE b == Written(s).b
           r == Append(b, "-")
           u == Append(s, c)
           kept == Keep(s, Alphanumeric)
<1>1. s \in Seq(Letter) /\ c \in Letter /\ "-" \in Letter  BY DEF Letter
<1>2. Written(s) \in Writing /\ Written(u) = Write(Written(s), c)
  BY <1>1, WriteAppend DEF WriteStep
<1>3. Written(u) = IF Written(s).prevHyphen THEN Written(s)
                     ELSE [b |-> r, prevHyphen |-> TRUE]
  <2>1. ~(IsLetter(c) \/ c \in Digits)  BY DEF Alphanumeric, IsLetter
  <2> QED  BY <1>2, <2>1 DEF Write
<1>4. b \in Seq(Letter)  BY <1>2 DEF Writing
<1>5. Keep(u, Alphanumeric) = kept  BY KeepAppend
<1>6. CASE Written(s).prevHyphen
  <2>1. Written(u) = Written(s)  BY <1>3, <1>6
  <2> HIDE DEF u
  <2> QED  BY <1>5, <2>1 DEF WrittenWell, u
<1>7. CASE ~Written(s).prevHyphen
  <2>1. Written(u) = [b |-> r, prevHyphen |-> TRUE]  BY <1>3, <1>7
  <2>2. /\ \A i \in 1..Len(b) : b[i] \in Lower \union Digits \union {"-"}
        /\ \A i \in 1..Len(b) : b[i] = "-" => i > 1 /\ (i < Len(b) => b[i + 1] # "-")
        /\ b # <<>> /\ b[Len(b)] # "-"
        /\ Keep(b, Alphanumeric) = [i \in 1..Len(kept) |-> ToLower(kept[i])]
    BY <1>7 DEF WrittenWell
  <2>3. Keep(r, Alphanumeric) = Keep(b, Alphanumeric)
    <3>1. "-" \notin Alphanumeric  BY AlphabetAssumption DEF Alphanumeric, IsLetter
    <3> HIDE DEF b
    <3> QED  BY <1>1, <1>4, <3>1, KeepAppend
  <2> HIDE DEF b, kept, u
  <2>4. /\ Len(r) = Len(b) + 1 /\ r[Len(b) + 1] = "-" /\ Len(b) \in Nat \ {0}
        /\ \A i \in 1..Len(b) : r[i] = b[i]
    BY <1>1, <1>4, <2>2
  <2> HIDE DEF r
  <2>5. \A i \in 1..Len(r) : i \in 1..Len(b) \/ i = Len(b) + 1  BY <2>4
  <2>6. \A i \in 1..Len(r) : r[i] \in Lower \union Digits \union {"-"}
    BY <2>2, <2>4, <2>5
  <2>7. ASSUME NEW i \in 1..Len(r), r[i] = "-"
        PROVE  i > 1 /\ (i < Len(r) => r[i + 1] # "-")
    <3>1. CASE i = Len(b) + 1  BY <2>4, <3>1
    <3>2. CASE i \in 1..Len(b)
      <4>1. b[i] = "-" /\ i # Len(b)  BY <2>2, <2>4, <2>7, <3>2
      <4>2. i < Len(b) /\ i + 1 \in 1..Len(b)  BY <2>4, <3>2, <4>1
      <4> QED  BY <2>2, <2>4, <3>2, <4>1, <4>2
    <3> QED  BY <2>5, <3>1, <3>2
  <2>8. r[Len(r)] = "-"  BY <2>4
  <2> QED  BY <1>5, <2>1, <2>2, <2>3, <2>6, <2>7, <2>8 DEF WrittenWell, u
<1> QED  BY <1>6, <1>7

\* The hyphen that waits is cut.
LEMMA SanitizedWell ==
    ASSUME NEW s \in Seq(Chars), WrittenWell(s)
    PROVE  LET b == SanitizeMetricName(s)
               kept == Keep(s, Alphanumeric)
           IN  /\ \A i \in 1..Len(b) : b[i] \in Lower \union Digits \union {"-"}
               /\ \A i \in 1..Len(b) : b[i] = "-" => i > 1 /\ i < Len(b) /\ b[i + 1] # "-"
               /\ Keep(b, Alphanumeric) = [i \in 1..Len(kept) |-> ToLower(kept[i])]
<1> DEFINE b == Written(s).b
           kept == Keep(s, Alphanumeric)
<1>1. b \in Seq(Letter)
  <2>1. s \in Seq(Letter) /\ "-" \in Letter  BY DEF Letter
  <2>2. Written(s) \in Writing  BY <2>1, WriteAppend
  <2> QED  BY <2>2 DEF Writing
<1>2. /\ \A i \in 1..Len(b) : b[i] \in Lower \union Digits \union {"-"}
      /\ \A i \in 1..Len(b) : b[i] = "-" => i > 1 /\ (i < Len(b) => b[i + 1] # "-")
      /\ Keep(b, Alphanumeric) = [i \in 1..Len(kept) |-> ToLower(kept[i])]
  BY DEF WrittenWell
<1>3. SanitizeMetricName(s) = IF b # <<>> /\ b[Len(b)] = "-" THEN Front(b) ELSE b
  BY DEF SanitizeMetricName
<1> HIDE DEF b, kept
<1>4. CASE b # <<>> /\ b[Len(b)] = "-"
  <2> DEFINE r == Front(b)
  <2>1. /\ r \in Seq(Letter) /\ Len(r) = Len(b) - 1 /\ Len(b) \in Nat \ {0}
        /\ \A i \in 1..Len(r) : r[i] = b[i]
    <3>1. Len(b) \in Nat \ {0}  BY <1>1, <1>4
    <3>2. r = [i \in 1..(Len(b) - 1) |-> b[i]]
      <4>1. r = SubSeq(b, 1, Len(b) - 1)  BY DEF Front
      <4> HIDE DEF r
      <4> QED  BY <1>1, <3>1, <4>1
    <3>3. \A i \in 1..(Len(b) - 1) : b[i] \in Letter  BY <1>1, <3>1
    <3> HIDE DEF r
    <3> QED  BY <3>1, <3>2, <3>3
  <2> HIDE DEF r
  <2>2. b = Append(r, "-")  BY <1>1, <1>4, <2>1
  <2>3. Keep(b, Alphanumeric) = Keep(r, Alphanumeric)
    <3>1. "-" \notin Alphanumeric /\ "-" \in Letter
      BY AlphabetAssumption DEF Alphanumeric, IsLetter, Letter
    <3> QED  BY <2>1, <2>2, <3>1, KeepAppend
  <2>4. \A i \in 1..Len(r) : i \in 1..Len(b) /\ i + 1 \in 1..Len(b) /\ i < Len(b)
    BY <2>1
  <2>5. ASSUME NEW i \in 1..Len(r), r[i] = "-" PROVE i > 1 /\ i < Len(r) /\ r[i + 1] # "-"
    <3>1. b[i] = "-" /\ b[i + 1] # "-" /\ i > 1  BY <1>2, <2>1, <2>4, <2>5
    <3>2. i + 1 # Len(b)  BY <1>4, <3>1
    <3>3. i < Len(r) /\ i + 1 \in 1..Len(r)  BY <2>1, <2>4, <3>2
    <3> QED  BY <2>1, <3>1, <3>3
  <2>6. \A i \in 1..Len(r) : r[i] \in Lower \union Digits \union {"-"}
    BY <1>2, <2>1, <2>4
  <2> QED  BY <1>2, <1>3, <1>4, <2>3, <2>5, <2>6 DEF r, kept
<1>5. CASE ~(b # <<>> /\ b[Len(b)] = "-")
  <2>1. \A i \in 1..Len(b) : b[i] = "-" => i < Len(b)  BY <1>1, <1>5
  <2> QED  BY <1>2, <1>3, <1>5, <2>1 DEF kept
<1> QED  BY <1>4, <1>5

\* SanitizedForm, for names of any length.
THEOREM SanitizedFormHolds ==
    Spelling => []SanitizedForm
<1> DEFINE Inv == NameInv /\ WrittenWell(spelled)
<1>1. Blank => Inv  BY WrittenEmpty DEF Blank, NameInv
<1>2. Inv /\ [Spell]_spelled => Inv'
  <2> SUFFICES ASSUME Inv, [Spell]_spelled PROVE Inv'  OBVIOUS
  <2>1. CASE UNCHANGED spelled  BY <2>1 DEF NameInv, WrittenWell
  <2>2. ASSUME NEW c \in Chars, spelled' = Append(spelled, c) PROVE Inv'
    <3>1. NameInv'  BY <2>2 DEF NameInv
    <3>2. WrittenWell(Append(spelled, c))  BY WriteLetter, WriteHyphen DEF NameInv
    <3>3. WrittenWell(spelled)'  BY <2>2, <3>2 DEF WrittenWell
    <3> QED  BY <3>1, <3>3
  <2> QED  BY <2>1, <2>2 DEF Spell
<1>3. Inv => SanitizedForm
  BY SanitizedWell DEF SanitizedForm, NameInv
<1> QED  BY <1>1, <1>2, <1>3, PTL DEF Spelling

-----------------------------------------------------------------------------
(* parseFloat.                                                             *)

Numeral == Digits \union {"."}

\* The digits of plain up to i, as a number.
WholePart(plain, i) == Value(Keep(SubSeq(plain, 1, i), Digits))

FirstDot(plain, i) == plain[i] = "." /\ \A j \in 1..(i - 1) : plain[j] # "."

\* What the loop has read of s.  The fraction is whole until there is a dot, and
\* then it is between the whole part and the next number.
ReadWell(s) ==
    LET plain == Keep(s, Numeral)
        f == ParseFloat(s)
    IN  /\ ParseFloat(plain) = f
        /\ Keep(plain, Digits) = Keep(s, Digits)
        /\ f.num = Value(Keep(s, Digits))
        /\ ~f.decimal => f.den = 1
        /\ f.decimal <=> \E i \in 1..Len(plain) : plain[i] = "."
        /\ \A i \in 1..Len(plain) : FirstDot(plain, i) =>
              f.den * WholePart(plain, i) <= f.num /\ f.num < f.den * (WholePart(plain, i) + 1)

\* The loop starts well.
LEMMA NothingRead == ReadWell(<<>>)
<1>1. ParseFloat(<<>>) = Unread  BY ReadEmpty
<1>2. \A A : Keep(<<>>, A) = <<>>  BY KeepEmpty
<1>3. Value(<<>>) = 0  BY ValueEmpty
<1> QED  BY <1>1, <1>2, <1>3 DEF ReadWell, Unread

\* The first dot stays the first, with the same digits before it.
LEMMA WholeStays ==
    ASSUME NEW plain \in Seq(Chars), NEW c \in Chars, NEW i \in 1..Len(plain)
    PROVE  /\ WholePart(Append(plain, c), i) = WholePart(plain, i)
           /\ FirstDot(Append(plain, c), i) <=> FirstDot(plain, i)
<1>1. SubSeq(Append(plain, c), 1, i) = SubSeq(plain, 1, i)  OBVIOUS
<1>2. \A j \in 1..i : Append(plain, c)[j] = plain[j]  OBVIOUS
<1>3. FirstDot(Append(plain, c), i) <=> FirstDot(plain, i)
  <2>1. i \in 1..i /\ \A j \in 1..(i - 1) : j \in 1..i  OBVIOUS
  <2> QED  BY <1>2, <2>1 DEF FirstDot
<1> QED  BY <1>1, <1>3 DEF WholePart

\* Ten times a fraction between two numbers, and a digit, over ten times its
\* denominator is between the same two.
LEMMA DigitBelow ==
    ASSUME NEW num \in Nat, NEW den \in Nat, NEW w \in Nat, NEW d \in 0..9,
           den * w <= num, num < den * (w + 1)
    PROVE  (10 * den) * w <= 10 * num + d /\ 10 * num + d < (10 * den) * (w + 1)
<1> DEFINE p == den * w
           q == den * (w + 1)
<1>1. p \in Int /\ q \in Int /\ p <= num /\ num < q  OBVIOUS
<1>2. (10 * den) * w = 10 * p /\ (10 * den) * (w + 1) = 10 * q  OBVIOUS
<1> HIDE DEF p, q
<1>3. 10 * p <= 10 * num + d /\ 10 * num + d < 10 * q  BY <1>1
<1> QED  BY <1>2, <1>3

\* A digit is added to the number, and to the part behind the dot if there was one.
LEMMA ReadDigit ==
    ASSUME NEW s \in Seq(Chars), ReadWell(s),
           NEW c \in Chars, c \in Digits
    PROVE  ReadWell(Append(s, c))
<1> DEFINE plain == Keep(s, Numeral)
           digits == Keep(s, Digits)
           f == ParseFloat(s)
           d == DigitValue[c]
           u == Append(s, c)
           g == [num |-> 10 * f.num + d, den |-> IF f.decimal THEN 10 * f.den ELSE f.den,
                 decimal |-> f.decimal]
<1>1. c # "." /\ c \in Numeral /\ d \in 0..9  BY AlphabetAssumption DEF Numeral
<1>2. plain \in Seq(Chars) /\ Keep(u, Numeral) = Append(plain, c)  BY <1>1, KeepAppend
<1>3. digits \in Seq(Digits) /\ Keep(u, Digits) = Append(digits, c)
  BY KeptIn, KeepAppend
<1>4. f \in Reading /\ ParseFloat(u) = Read(f, c)  BY ReadAppend DEF ReadStep
<1>5. /\ ParseFloat(plain) = f /\ Keep(plain, Digits) = digits
      /\ f.num = Value(digits)
      /\ ~f.decimal => f.den = 1
      /\ f.decimal <=> \E i \in 1..Len(plain) : plain[i] = "."
      /\ \A i \in 1..Len(plain) : FirstDot(plain, i) =>
            f.den * WholePart(plain, i) <= f.num /\ f.num < f.den * (WholePart(plain, i) + 1)
  BY DEF ReadWell
<1>6. \A r \in Reading : Read(r, c) =
         [num |-> 10 * r.num + d, den |-> IF r.decimal THEN 10 * r.den ELSE r.den,
          decimal |-> r.decimal]
  BY DEF Read, Reading
<1> HIDE DEF plain, digits, f, d, u
<1>7. ParseFloat(u) = g  BY <1>4, <1>6
<1>8. ParseFloat(Append(plain, c)) = g
  <2>1. ParseFloat(Append(plain, c)) = Read(f, c)
    BY <1>2, <1>4, <1>5, ReadAppend DEF ReadStep
  <2> QED  BY <1>4, <1>6, <2>1
<1>9. Keep(Append(plain, c), Digits) = Append(digits, c)
  BY <1>2, <1>5, KeepAppend
<1>10. Value(Append(digits, c)) = 10 * Value(digits) + d
  <2>1. /\ Value(digits) \in Nat
        /\ Value(Append(digits, c)) = ValueStep[<<Value(digits), c>>]
    BY <1>3, ValueAppend
  <2> QED  BY <2>1 DEF ValueStep, d
<1>11. /\ f.num \in Nat /\ f.den \in Nat /\ f.decimal \in BOOLEAN
       /\ g.num = 10 * f.num + d /\ g.den = (IF f.decimal THEN 10 * f.den ELSE f.den)
       /\ g.decimal = f.decimal
  BY <1>4 DEF Reading
<1> HIDE DEF g
<1> DEFINE q == Append(plain, c)
<1>12. /\ Len(q) = Len(plain) + 1 /\ q[Len(plain) + 1] = c /\ Len(plain) \in Nat
       /\ \A i \in 1..Len(plain) : q[i] = plain[i]
       /\ \A i \in 1..Len(q) : i \in 1..Len(plain) \/ i = Len(plain) + 1
       /\ \A i \in 1..Len(plain) : i \in 1..Len(q)
  BY <1>2
<1>13. \A i \in 1..Len(plain) :
          WholePart(q, i) = WholePart(plain, i) /\ (FirstDot(q, i) <=> FirstDot(plain, i))
  BY <1>2, WholeStays
<1> HIDE DEF q
<1>14. g.decimal <=> \E i \in 1..Len(q) : q[i] = "."  BY <1>1, <1>5, <1>11, <1>12
<1>15. ASSUME NEW i \in 1..Len(q), FirstDot(q, i)
       PROVE  g.den * WholePart(q, i) <= g.num /\ g.num < g.den * (WholePart(q, i) + 1)
  <2>1. i \in 1..Len(plain)  BY <1>1, <1>12, <1>15 DEF FirstDot
  <2>2. FirstDot(plain, i) /\ WholePart(q, i) = WholePart(plain, i)
    BY <1>13, <1>15, <2>1
  <2>3. f.decimal  BY <1>5, <2>1, <2>2 DEF FirstDot
  <2>4. f.den * WholePart(plain, i) <= f.num /\ f.num < f.den * (WholePart(plain, i) + 1)
    BY <1>5, <2>1, <2>2
  <2>5. WholePart(plain, i) \in Nat
    <3>1. SubSeq(plain, 1, i) \in Seq(Chars)  BY <1>2, <2>1
    <3>2. Keep(SubSeq(plain, 1, i), Digits) \in Seq(Digits)  BY <3>1, KeptIn
    <3> QED  BY <1>1, <3>2, ValueAppend DEF WholePart
  <2> DEFINE w == WholePart(plain, i)
             num == f.num
             den == f.den
  <2>6. w \in Nat /\ num \in Nat /\ den \in Nat /\ den * w <= num /\ num < den * (w + 1)
    BY <1>11, <2>4, <2>5
  <2>7. g.num = 10 * num + d /\ g.den = 10 * den /\ WholePart(q, i) = w
    BY <1>11, <2>2, <2>3
  <2> HIDE DEF w, num, den
  <2>8. (10 * den) * w <= 10 * num + d /\ 10 * num + d < (10 * den) * (w + 1)
    BY <1>1, <2>6, DigitBelow
  <2> QED  BY <2>7, <2>8
<1>16. ~g.decimal => g.den = 1  BY <1>5, <1>11
<1>17. g.num = Value(Append(digits, c))  BY <1>5, <1>10, <1>11
<1>18. ReadWell(u)
  <2>1. Keep(u, Numeral) = q /\ ParseFloat(q) = g /\ Keep(q, Digits) = Append(digits, c)
    BY <1>2, <1>8, <1>9 DEF q
  <2> QED  BY <1>3, <1>7, <1>14, <1>15, <1>16, <1>17, <2>1, Zenon DEF ReadWell
<1> QED  BY <1>18 DEF u

\* The first dot ends the whole part; another changes nothing.
LEMMA ReadDot ==
    ASSUME NEW s \in Seq(Chars), ReadWell(s), "." \in Chars
    PROVE  ReadWell(Append(s, "."))
<1> DEFINE plain == Keep(s, Numeral)
           digits == Keep(s, Digits)
           f == ParseFloat(s)
           u == Append(s, ".")
           g == [num |-> f.num, den |-> f.den, decimal |-> TRUE]
<1>1. "." \notin Digits /\ "." \in Numeral  BY AlphabetAssumption DEF Numeral
<1>2. plain \in Seq(Chars) /\ Keep(u, Numeral) = Append(plain, ".")  BY <1>1, KeepAppend
<1>3. digits \in Seq(Digits) /\ Keep(u, Digits) = digits
  BY <1>1, KeptIn, KeepAppend
<1>4. f \in Reading /\ ParseFloat(u) = Read(f, ".")  BY ReadAppend DEF ReadStep
<1>5. /\ ParseFloat(plain) = f /\ Keep(plain, Digits) = digits
      /\ f.num = Value(digits)
      /\ ~f.decimal => f.den = 1
      /\ f.decimal <=> \E i \in 1..Len(plain) : plain[i] = "."
      /\ \A i \in 1..Len(plain) : FirstDot(plain, i) =>
            f.den * WholePart(plain, i) <= f.num /\ f.num < f.den * (WholePart(plain, i) + 1)
  BY DEF ReadWell
<1>6. Read(f, ".") = g  BY <1>1, <1>4 DEF Read, Reading
<1> HIDE DEF plain, digits, f, u
<1>7. ParseFloat(u) = g  BY <1>4, <1>6
<1>8. ParseFloat(Append(plain, ".")) = g
  BY <1>2, <1>5, <1>6, ReadAppend DEF ReadStep
<1>9. Keep(Append(plain, "."), Digits) = digits  BY <1>1, <1>2, <1>5, KeepAppend
<1>10. /\ f.num \in Nat /\ f.den \in Nat /\ f.decimal \in BOOLEAN
       /\ g.num = f.num /\ g.den = f.den /\ g.decimal = TRUE
  BY <1>4 DEF Reading
<1> HIDE DEF g
<1> DEFINE q == Append(plain, ".")
<1>11. /\ q \in Seq(Chars) /\ Len(q) = Len(plain) + 1 /\ q[Len(q)] = "."
       /\ Len(plain) \in Nat /\ Len(q) \in 1..Len(q)
       /\ \A i \in 1..Len(plain) : q[i] = plain[i]
       /\ \A i \in 1..Len(q) : i \in 1..Len(plain) \/ i = Len(q)
       /\ \A i \in 1..Len(plain) : i \in 1..(Len(q) - 1)
  BY <1>2
<1>12. \A i \in 1..Len(plain) :
          WholePart(q, i) = WholePart(plain, i) /\ (FirstDot(q, i) <=> FirstDot(plain, i))
  BY <1>2, WholeStays
<1>13. SubSeq(q, 1, Len(q)) = q  BY <1>11
<1>14. WholePart(q, Len(q)) = f.num  BY <1>5, <1>9, <1>13 DEF WholePart, q
<1> HIDE DEF q
<1>15. ASSUME NEW i \in 1..Len(q), FirstDot(q, i)
       PROVE  g.den * WholePart(q, i) <= g.num /\ g.num < g.den * (WholePart(q, i) + 1)
  <2>1. CASE i \in 1..Len(plain)  BY <1>5, <1>10, <1>12, <1>15, <2>1
  <2>2. CASE i = Len(q)
    <3>1. ASSUME NEW j \in 1..Len(plain) PROVE plain[j] # "."
      BY <1>11, <1>15, <2>2 DEF FirstDot
    <3>2. f.den = 1  BY <1>5, <3>1
    <3> QED  BY <1>10, <1>14, <2>2, <3>2
  <2> QED  BY <1>11, <2>1, <2>2
<1>16. \E i \in 1..Len(q) : q[i] = "."  BY <1>11
<1>17. ReadWell(u)
  <2>1. Keep(u, Numeral) = q /\ ParseFloat(q) = g /\ Keep(q, Digits) = digits
    BY <1>2, <1>8, <1>9 DEF q
  <2>2. g.num = Value(digits)  BY <1>5, <1>10
  <2> QED  BY <1>3, <1>7, <1>10, <1>15, <1>16, <2>1, <2>2 DEF ReadWell
<1> QED  BY <1>17 DEF u

\* Anything else is passed over.
LEMMA ReadOther ==
    ASSUME NEW s \in Seq(Chars), ReadWell(s),
           NEW c \in Chars, c \notin Digits, c # "."
    PROVE  ReadWell(Append(s, c))
<1> DEFINE u == Append(s, c)
<1>1. Keep(u, Numeral) = Keep(s, Numeral) /\ Keep(u, Digits) = Keep(s, Digits)
  BY KeepAppend DEF Numeral
<1>2. ParseFloat(u) = ParseFloat(s)
  <2>1. ParseFloat(u) = Read(ParseFloat(s), c)  BY ReadAppend DEF ReadStep
  <2> QED  BY <2>1 DEF Read
<1> HIDE DEF u
<1>3. ReadWell(u)  BY <1>1, <1>2 DEF ReadWell
<1> QED  BY <1>3 DEF u

\* ParsesNumbers, for names of any length: parseFloat reads the digits of a name as
\* the number they are, with the first dot where it stands.
THEOREM ParsesNumbersHolds ==
    Spelling => []ParsesNumbers
<1> DEFINE Inv == NameInv /\ ReadWell(spelled)
<1>1. Blank => Inv  BY NothingRead DEF Blank, NameInv
<1>2. Inv /\ [Spell]_spelled => Inv'
  <2> SUFFICES ASSUME Inv, [Spell]_spelled PROVE Inv'  OBVIOUS
  <2>1. CASE UNCHANGED spelled  BY <2>1 DEF NameInv, ReadWell
  <2>2. ASSUME NEW c \in Chars, spelled' = Append(spelled, c) PROVE Inv'
    <3>1. NameInv'  BY <2>2 DEF NameInv
    <3>2. ReadWell(Append(spelled, c))  BY ReadDigit, ReadDot, ReadOther DEF NameInv
    <3>3. ReadWell(spelled)'  BY <2>2, <3>2 DEF ReadWell
    <3> QED  BY <3>1, <3>3
  <2> QED  BY <2>1, <2>2 DEF Spell
<1>3. Inv => ParsesNumbers
  BY DEF ParsesNumbers, ReadWell, Numeral, FirstDot, WholePart
<1> QED  BY <1>1, <1>2, <1>3, PTL DEF Spelling
=============================================================================
