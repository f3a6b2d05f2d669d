------------------------------- MODULE MCStats -------------------------------
(* Channels of every category, running, idle and empty, for TLC. *)
EXTENDS Page

St(n, r) == [name |-> n, res |-> r]
Counter(g, s, n, u, v) ==
    [group |-> g, sub |-> s, name |-> n, unit |-> u, value |-> v, states |-> <<>>]
States(g, s, n, st) ==
    [group |-> g, sub |-> s, name |-> n, unit |-> "", value |-> 0, states |-> st]

MCANENames == {"ANE0", "ANE1", "ANE SOC", "ANE CE", "ANE RD", "ANE PWRS", "PACC0_ANE",
               "ANE Interrupt Handler Count", "ANE Interrupt Handler Time (MATUs)",
               "ANE_THROTTLE_PPT", "ANE_THROTTLE_DITHER"}

MCGPUNames == {"GPU", "GPU SRAM", "GPU CS"}

Interrupts == "Interrupt Statistics (by index)"

\* The names of the buckets, spelled; what the library's parser makes of them; and
\* what a browser does.
Spelled == "0%" :> <<"0", "%">> @@ "45%" :> <<"4", "5", "%">>
           @@ "12.5%" :> <<"1", "2", ".", "5", "%">> @@ "100%" :> <<"1", "0", "0", "%">>
Library == INSTANCE Names WITH Chars <- {}, MaxLen <- 0, LowerOf <- <<>>, spelled <- <<>>,
    DigitValue <- "0" :> 0 @@ "1" :> 1 @@ "2" :> 2 @@ "4" :> 4 @@ "5" :> 5
MCBucketPct(name) ==
    IF name \in DOMAIN Spelled
      THEN LET f == Library!ParseFloat(Spelled[name]) IN (f.num * PctUnit) \div f.den
      ELSE 0
MCPagePct(name) ==
    CASE name = "45%" -> 45 * PctUnit
      [] name = "12.5%" -> (25 * PctUnit) \div 2
      [] name = "100%" -> 100 * PctUnit
      [] OTHER -> 0

\* The difference of two samples: of a counter, what it counted; of a temperature,
\* a few degrees that are nobody's temperature.
Since(ch, before) == [now |-> [ch EXCEPT !.value = @ + before], diff |-> ch]
Sensor(now, before) ==
    LET ch(v) == Counter("GPU Stats", "Temperature", "Die Latest", "C", v)
    IN  [now |-> ch(now), diff |-> ch(now - before)]

Worked == {
    Counter("Energy Model", "", "ANE0", "mJ", 3),
    Counter("Energy Model", "", "ANE1", "mJ", 5),
    Counter("Energy Model", "", "ANE0", "nJ", 0),
    Counter("Energy Model", "", "GPU SRAM", "", 2),
    Counter("Energy Model", "", "GPU", "nJ", 7),
    Counter("Energy Model", "", "GPU CS", "uJ", 4),
    Counter("Energy Model", "", "CPU", "mJ", 9),
    States("PMP", "SOC Floor", "ANE SOC", <<St("VMIN", 3), St("VMAX", 1)>>),
    States("PMP1", "SOC Floor", "ANE SOC", <<St("VMIN", 4), St("VMAX", 0)>>),
    States("PMP", "SOC Floor", "ANE SOC", <<St("VNOM", 2)>>),
    States("PMP", "SOC Floor", "ANE SOC", <<St("VMIN", 0), St("VNOM", 0)>>),
    States("PMP", "DCS Floor", "ANE RD", <<St("F1", 2)>>),
    States("PMP", "Fast-Die CE", "ANE CE", <<St("0%", 4), St("45%", 0)>>),
    States("PMP", "Fast-Die CE", "ANE CE", <<St("12.5%", 1), St("45%", 1), St("100%", 2)>>),
    States("PMP", "Fast-Die CE", "ANE CE", <<St("0%", 0), St("45%", 0)>>),
    States("PMP", "Fast-Die CE", "ANE CE", <<>>),
    Counter("PMP", "AF BW", "ANE RD", "", 2),
    Counter("PMP", "PWRS0", "ANE PWRS", "", 2),
    Counter(Interrupts, "", "ANE Interrupt Handler Count", "", 4),
    Counter(Interrupts, "", "ANE Interrupt Handler Time (MATUs)", "", 9),
    States("GPU Stats", "GPU Performance States", "GPUPH", <<St("OFF", 3), St("P1", 1)>>),
    States("GPU Stats", "GPU Performance States", "GPUPH", <<St("OFF", 5)>>),
    States("GPU Stats", "GPU Performance States", "GPUPH", <<St("OFF", 0), St("P1", 0)>>),
    States("SoC Stats", "Events", "ANE_THROTTLE_PPT", <<St("INACT", 1), St("ACT", 1)>>),
    States("SoC Stats", "Events", "ANE_THROTTLE_PPT", <<St("INACT", 2)>>),
    States("SoC Stats", "Events", "ANE_THROTTLE_DITHER", <<St("INACT", 1)>>),
    States("SoC Stats", "Cluster Power States", "PACC0_ANE", <<St("INACT", 1), St("ACT", 3)>>),
    States("SoC Stats", "Other", "ANE0", <<St("ACT", 1)>>),
    Counter("AMC Stats", "", "ANE RD", "", 6) }

MCReadings == {Since(ch, 60) : ch \in Worked}
    \union {Sensor(5000, 4960), Sensor(47000, 47000), Sensor(200, 120)}

ASSUME MCStatesAssumption == StatesNamedOnce
ASSUME MCEnergyAssumption == EnergyNotTakenBack
ASSUME MCEnergyNamesAssumption == EnergyNamesApart
ASSUME MCFewStatesAssumption == FewStates
ASSUME MCBucketsAssumption == BucketsArePercentages
ASSUME MCParsersAssumption == BucketsReadAlike
=============================================================================
