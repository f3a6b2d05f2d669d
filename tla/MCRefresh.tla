------------------------------ MODULE MCRefresh ------------------------------
(* One channel of each section for TLC, of one name wherever they can share   *)
(* it.  In a sample all channels but one are quiet, or all but one are busy;  *)
(* the one takes any of its readings.  Such samples in any order still bring  *)
(* every channel through all of its own sequences of readings.                *)
EXTENDS Refresh, TLC

Ch(cat, name) == [cat |-> cat, sub |-> "", name |-> name]
States(res) == [here |-> TRUE, res |-> res, value |-> 0]
Value(n) == [here |-> TRUE, res |-> <<>>, value |-> n]

MCListed == <<Ch("Voltage", "ANE"), Ch("DCSFloor", "ANE"), Ch("GPUStats", "GPUPH"),
              Ch("Bandwidth", "ANE"), Ch("Throttle", "ANE"), Ch("Count", "IRQ"), Ch("Time", "IRQ")>>

MCGBps == "VMIN" :> 0 @@ "VMAX" :> 0 @@ "OFF" :> 0 @@ "P1" :> 0 @@ "5GB/s" :> 5 @@ "20GB/s" :> 20

Quiet ==
    [ch \in {MCListed[i] : i \in 1..Len(MCListed)} |->
        CASE ch.cat = "Voltage" -> States("VMIN" :> 2 @@ "VMAX" :> 0)
          [] ch.cat = "DCSFloor" -> States("5GB/s" :> 2 @@ "20GB/s" :> 0)
          [] ch.cat = "GPUStats" -> States("OFF" :> 1)
          [] ch.cat = "Bandwidth" -> States("5GB/s" :> 1 @@ "20GB/s" :> 0)
          [] OTHER -> Value(0)]

Busy ==
    [ch \in DOMAIN Quiet |->
        CASE ch.cat = "Voltage" -> States("VMIN" :> 1 @@ "VMAX" :> 1)
          [] ch.cat = "DCSFloor" -> States("5GB/s" :> 1 @@ "20GB/s" :> 1)
          [] ch.cat = "GPUStats" -> States("OFF" :> 1 @@ "P1" :> 3)
          [] ch.cat = "Bandwidth" -> States("5GB/s" :> 0 @@ "20GB/s" :> 1)
          [] OTHER -> Value(1)]

\* A channel may also be missing from a sample, or be there without states.
MCSamples ==
    {[base EXCEPT ![ch] = r] : base \in {Quiet, Busy}, ch \in DOMAIN Quiet, r \in {Absent}}
    \union {[base EXCEPT ![ch] = r[ch]] :
               base \in {Quiet, Busy}, ch \in DOMAIN Quiet, r \in {Quiet, Busy}}
    \union {[base EXCEPT ![ch] = Value(0)] :
               base \in {Quiet, Busy}, ch \in {c \in DOMAIN Quiet : Quiet[c].res # <<>>}}
    \union {[ch \in DOMAIN Quiet |-> Absent]}

\* What is recorded per name is recorded per channel here, and a row with data has
\* a figure above the threshold.
ASSUME NamesAssumption == NamesDiffer
ASSUME RatesAssumption == BandwidthNamesAreRates /\ IntervalIsShort
=============================================================================
