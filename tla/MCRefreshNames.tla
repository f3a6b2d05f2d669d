--------------------------- MODULE MCRefreshNames ---------------------------
(* Two bandwidth channels of one name, in two subgroups: both are listed in   *)
(* every sample, and each is busy or quiet, whatever the other is.            *)
EXTENDS Refresh, TLC

Channel(sub) == [cat |-> "Bandwidth", sub |-> sub, name |-> "ANE RD"]
MCListed == <<Channel("AF BW"), Channel("DCS BW")>>

MCGBps == "5GB/s" :> 5 @@ "20GB/s" :> 20

States(slow, fast) ==
    [here |-> TRUE, res |-> "5GB/s" :> slow @@ "20GB/s" :> fast, value |-> 0]

MCSamples == [{MCListed[i] : i \in 1..2} -> {States(1, 0), States(0, 1)}]
=============================================================================
