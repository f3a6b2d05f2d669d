------------------------------- MODULE Refresh -------------------------------
(***************************************************************************)
(* What the terminal program remembers from one refresh to the next and    *)
(* which rows it therefore shows (cmd/aneperf/main.go).  channelStateWindow*)
(* smooths the residencies of the GPU and bandwidth channels over the last *)
(* few samples.  channelHistory keeps a list of figures for each voltage,  *)
(* bandwidth, counter and handler-time channel and for the throttle total, *)
(* so that past activity stays on the screen for a while.                  *)
(*                                                                         *)
(* One step is one printLive.  A sample gives each channel a reading: is   *)
(* it listed, its residencies (a function from state names), its value.    *)
(* The rows are a set: their order, the cut to eight, colours and wording  *)
(* are not modelled, nor are the figures beside an idle row.               *)
(***************************************************************************)
EXTENDS FiniteSetsExt, Lists

CONSTANTS
    Listed,     \* the channels [cat, sub, name], as IOReport lists them
    Samples,    \* what one sample may say: functions from channels to readings
    GBps,       \* GBps[s]: what parseBandwidthGBps makes of the state name s
    DurationMs, \* measured duration of an interval
    Limit,      \* samples in the smoothing window (4 in the code)
    HistoryLen  \* historyLen (38 in the code)

\* The row of the throttle total is treated like a channel that is always there.
TotalRow == [cat |-> "Throttle", sub |-> "", name |-> "total"]

Chans == {Listed[i] : i \in 1..Len(Listed)}
InCat(cats) == {ch \in Chans : ch.cat \in cats}
Windowed == InCat({"GPUStats", "Bandwidth"})
Remembered == InCat({"Voltage", "Bandwidth", "Count", "Time"}) \union {TotalRow}

\* A row of the screen and a channel of IOReport are two things.
ASSUME ListedAssumption == Listed \in Seq(Chans) /\ TotalRow \notin Chans

\* The time spent in each of some states, which a machine does not take back.
Residencies(res) == IsFiniteSet(DOMAIN res) /\ res \in [DOMAIN res -> Nat]

\* A channel that is not in a sample has no states there.
ASSUME SamplesAssumption ==
    \A obs \in Samples :
        /\ DOMAIN obs = Chans
        /\ \A ch \in Chans : /\ obs[ch].here \/ DOMAIN obs[ch].res = {}
                             /\ Residencies(obs[ch].res) /\ obs[ch].value \in Int
ASSUME LengthsAssumption == Limit \in Nat \ {0} /\ HistoryLen \in Nat \ {0}

Prefix == [Voltage |-> "volt:", Bandwidth |-> "bw:", Count |-> "cnt:",
           Time |-> "time:", Throttle |-> "throttle:"]

\* The key of channelHistory; the subgroup is no part of it.
Key(ch) == <<Prefix[ch.cat], ch.name>>

VARIABLES
    samples,    \* samples[ch]: the window, oldest first (keyed by channelStateKey)
    history,    \* channelHistory
    rows,       \* what is on the screen: [ch, idle]
    last,       \* ghost: the sample just shown
    seen,       \* ghost: the last Limit residencies that ch itself had
    past        \* ghost: the last HistoryLen figures of ch itself

vars == <<samples, history, rows, last, seen, past>>

Absent == [here |-> FALSE, res |-> <<>>, value |-> 0]

Init ==
    /\ samples = [ch \in Windowed |-> <<>>]
    /\ history = [k \in {Key(ch) : ch \in Remembered} |-> <<>>]
    /\ rows = {}
    /\ last = [ch \in Chans |-> Absent]
    /\ seen = [ch \in Windowed |-> <<>>]
    /\ past = [ch \in Remembered |-> <<>>]

-----------------------------------------------------------------------------
(* The two memories.                                                       *)

Newest(s, n) == IF Len(s) > n THEN SubSeq(s, Len(s) - n + 1, Len(s)) ELSE s

\* Seeded bugs: a sample without states pushes one with states out of the window,
\* and the window holds one sample too many.
Observe_CountsEmpty(obs) ==
    [ch \in Windowed |-> IF obs[ch].here
                           THEN Newest(Append(samples[ch], obs[ch].res), Limit)
                           ELSE samples[ch]]

Observe_OneTooMany(obs) ==
    [ch \in Windowed |-> IF obs[ch].here /\ DOMAIN obs[ch].res # {}
                           THEN Newest(Append(samples[ch], obs[ch].res), Limit + 1)
                           ELSE samples[ch]]

\* observe: a channel without states leaves its window as it is.
Observe(obs) ==
    [ch \in Windowed |-> IF obs[ch].here /\ DOMAIN obs[ch].res # {}
                           THEN Newest(Append(samples[ch], obs[ch].res), Limit)
                           ELSE samples[ch]]

\* smooth: each state's residency summed over the window.
Smooth(window) ==
    [s \in UNION {DOMAIN window[i] : i \in 1..Len(window)} |->
        SumOver(LAMBDA r : IF s \in DOMAIN r THEN r[s] ELSE 0, window)]

Zero == [num |-> 0, den |-> 1]

\* hasHistorySignal
Signal(h) == \E i \in 1..Len(h) : 1000 * h[i].num > h[i].den

\* Seeded bug: zeros are not recorded.
RecordHistory_SkipsZero(h, k, v) ==
    IF v.num = 0 THEN h ELSE [h EXCEPT ![k] = Newest(Append(@, v), HistoryLen)]

RecordHistory(h, k, v) == [h EXCEPT ![k] = Newest(Append(@, v), HistoryLen)]

\* The channels of a sample are recorded in the order in which they are listed,
\* the throttle total too.
RecordAll(here, section) ==
    FoldLeft(LAMBDA h, ch : IF ch \in here \intersect Remembered
                              THEN RecordHistory(h, Key(ch), section[ch].figure) ELSE h,
             history, Append(Listed, TotalRow))

-----------------------------------------------------------------------------
(* What a section makes of one reading: the figure it records, and whether *)
(* it has something to show now.                                           *)

Total(res) == SumFunction(res)
Dominant(res) == Max({res[s] : s \in DOMAIN res})

\* 100 - vminPct; a channel without residency counts as all VMIN.
Voltage(res) ==
    LET all == Total(res)
        vmin == IF "VMIN" \in DOMAIN res THEN res["VMIN"] ELSE 0
    IN  [figure |-> IF all = 0 THEN Zero ELSE [num |-> 100 * (all - vmin), den |-> all],
         now |-> all # 0 /\ 100 * vmin < 99 * all]

\* Only a single state, or as good as: nothing to show.
DCSFloor(res) ==
    LET all == Total(res)
        rendered == {s \in DOMAIN res : 200 * res[s] >= all}
    IN  [figure |-> Zero,
         now |-> all # 0 /\ ~(100 * Dominant(res) >= 99 * all /\ Cardinality(rendered) = 1)]

\* summarizeBandwidth and isInteresting.
Bandwidth(res) ==
    LET all == Total(res)
        tiers == {GBps[s] : s \in DOMAIN res} \ {0}
        ok == all # 0 /\ tiers # {}
        weighted == SumFunction([s \in DOMAIN res |-> GBps[s] * res[s]])
    IN  [figure |-> IF ok THEN [num |-> weighted, den |-> all] ELSE Zero,
         now |-> ok /\ (weighted >= (Min(tiers) + 1) * all \/ 10 * Dominant(res) < 9 * all)]

\* Events or ticks per second.
Rate(value) ==
    [figure |-> IF value > 0 /\ DurationMs > 0
                  THEN [num |-> 1000 * value, den |-> DurationMs] ELSE Zero,
     now |-> value > 0]

\* The readings of a sample, through the sections of printLive; smoothed are the
\* residencies that smooth returns.
Sections(obs, smoothed) ==
    [ch \in Chans \union {TotalRow} |->
        CASE ch = TotalRow ->
               Rate(SumFunction([t \in InCat({"Throttle"}) |->
                                    IF obs[t].value > 0 THEN obs[t].value ELSE 0]))
          [] ch.cat = "Voltage" -> Voltage(obs[ch].res)
          [] ch.cat = "DCSFloor" -> DCSFloor(obs[ch].res)
          [] ch.cat = "GPUStats" -> [figure |-> Zero, now |-> Total(smoothed[ch]) # 0]
          [] ch.cat = "Bandwidth" -> Bandwidth(smoothed[ch])
          [] OTHER -> Rate(obs[ch].value)]

\* Seeded bug: a row needs something in the current sample.
RowsOf_OnlyCurrent(here, section) ==
    {[ch |-> ch, idle |-> FALSE] : ch \in {c \in here : section[c].now}}

\* A channel is shown with its data, or as idle when its history has a signal.
\* In the voltage and bandwidth sections a row with data hides an idle one of
\* the same name.
RowsOf(here, section) ==
    LET active == {ch \in here : section[ch].now}
        hidden(ch) == ch.cat \in {"Voltage", "Bandwidth"} /\
            \E other \in active : other.cat = ch.cat /\ other.name = ch.name
        idle == {ch \in (here \intersect Remembered) \ active :
                    ~hidden(ch) /\ Signal(history'[Key(ch)])}
    IN  [ch : active, idle : {FALSE}] \union [ch : idle, idle : {TRUE}]

\* observe and smooth, then the sections; the channels of a section are recorded
\* before any of its rows is chosen.
PrintLive(obs) ==
    LET here == {ch \in Chans : obs[ch].here} \union {TotalRow} IN
    /\ last' = obs
    /\ samples' = Observe(obs)
    /\ seen' = [ch \in Windowed |-> IF DOMAIN obs[ch].res = {} THEN seen[ch]
                   ELSE LET s == Append(seen[ch], obs[ch].res)
                        IN  IF Len(s) = Limit + 1 THEN Tail(s) ELSE s]
    /\ \E section \in {Sections(obs, [ch \in Windowed |->
                            IF samples'[ch] = <<>> THEN obs[ch].res ELSE Smooth(samples'[ch])])} :
          /\ history' = RecordAll(here, section)
          /\ rows' = RowsOf(here, section)
          /\ past' = [ch \in Remembered |-> IF ch \notin here THEN past[ch]
                         ELSE LET s == Append(past[ch], section[ch].figure)
                              IN  IF Len(s) = HistoryLen + 1 THEN Tail(s) ELSE s]

Next == \E obs \in Samples : PrintLive(obs)

Spec == Init /\ [][Next]_vars

-----------------------------------------------------------------------------
(* Properties.                                                             *)

\* The figures are those of the last Limit samples in which the channel had
\* states, each of them counted once, whatever came and went in between
\* (main.go:1020-1067).
SmoothedIsRecent == \A ch \in Windowed : Smooth(samples[ch]) = Smooth(seen[ch])

\* What the bar of "GPU Active" is computed from: the listed GPU channels, smoothed,
\* and the share of the time in which the first that has residency was not idle.
Smoothed(ch) == IF samples[ch] = <<>> THEN last[ch].res ELSE Smooth(samples[ch])
BarChannels ==
    SelectSeq(Listed, LAMBDA ch : /\ ch.cat = "GPUStats" /\ last[ch].here
                                  /\ Total(Smoothed(ch)) # 0)
Activity(res) ==
    [num |-> SumFunction([s \in DOMAIN res \ {"OFF", "IDLE", "DOWN"} |-> res[s]]),
     den |-> Total(res)]
GPUBar == Activity(Smoothed(BarChannels[1]))

AtMost(a, b) == a.num * b.den <= b.num * a.den

\* The bar is not the GPUActivePct that the library and the page show, which is of
\* the current sample (main.go:177, 220, 1073-1094), but it does not leave their
\* range: among the last Limit samples of its channel one was no more active than
\* the bar says, and one no less.  After Limit samples alike they agree.
GPUBarIsRecent ==
    BarChannels # <<>> =>
        LET recent == {Activity(r) : r \in {seen[BarChannels[1]][i] :
                                              i \in 1..Len(seen[BarChannels[1]])}}
            counted == {a \in recent : a.den > 0}
        IN  /\ \E a \in counted : AtMost(a, GPUBar)
            /\ \E a \in counted : AtMost(GPUBar, a)

\* No two channels of a category have one name, which IOReport does not promise:
\* those that do share a history, whose key has no subgroup.
NamesDiffer ==
    \A i, j \in 1..Len(Listed) :
        Listed[i].cat = Listed[j].cat /\ Listed[i].name = Listed[j].name => i = j

\* main.go:120 says "channelHistory tracks per-channel scalar histories": what is
\* recorded for a channel is the last HistoryLen figures of that channel.  The code
\* keeps to it only where names differ: the key has no subgroup (line 575).
HistoryIsPerChannel == \A ch \in Remembered : history[Key(ch)] = past[ch]

\* main.go:460, 558, 703 and 729 say of four sections "Always records ... so past
\* activity remains visible": a listed channel that was active within its last
\* HistoryLen refreshes has a row, and so has the throttle total.
ActivityStaysVisible ==
    \A ch \in Remembered :
        (ch = TotalRow \/ last[ch].here) /\ Signal(past[ch]) => \E r \in rows : r.ch = ch

\* The states of the bandwidth channels are named after rates, which IOReport does
\* not promise: a channel that spends its time in others has an average of zero.
BandwidthNamesAreRates ==
    \A obs \in Samples, ch \in InCat({"Bandwidth"}) :
        \A s \in DOMAIN obs[ch].res : GBps[s] \in Nat \ {0}

\* A single event is above the threshold of hasHistorySignal, 0.001 per second.
IntervalIsShort == DurationMs \in Nat /\ 0 < DurationMs /\ DurationMs < 1000 * 1000

\* A row goes away again: a channel that was quiet for its last HistoryLen
\* refreshes has none, with data or idle.
IdleRowsDisappear ==
    \A r \in rows : r.ch \in Remembered => Signal(past[r.ch])
=============================================================================
