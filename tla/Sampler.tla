------------------------------- MODULE Sampler -------------------------------
(***************************************************************************)
(* The library's Sampler (sampler.go, ioreport.go, iokit.go), used by one  *)
(* goroutine as the programs use it: NewSampler, then Start and Stop in    *)
(* turn or Sample, then Close.                                             *)
(*                                                                         *)
(* The Go code manages CoreFoundation and IOKit objects by hand, and every *)
(* C call may fail.  live[k] is the number of objects of kind k that exist *)
(* (created or copied and not yet released).  An operation is one step per *)
(* C call that creates or consumes an object, and one for a return that    *)
(* runs the deferred releases.  The accessors of cf.go, which make a key   *)
(* for each lookup, are modelled where ReadDeviceInfo calls them; the keys *)
(* of the other functions never outlive a step.  No code looks whether a   *)
(* key could be made: place "null" is where one could not.                 *)
(*                                                                         *)
(* energy is the counter behind the channels.  It runs on between any two  *)
(* steps, and a raw sample is known by the value it read.                  *)
(***************************************************************************)
EXTENDS Integers, Sequences, FiniteSets

CONSTANTS
    Groups,         \* the IOReport groups of the machine
    DefaultGroups,  \* those that are monitored whatever discovery finds
    MaxEnergy,      \* bound on the energy counter
    MaxOps          \* bound on the number of measurements

ASSUME GroupsAssumption == IsFiniteSet(Groups) /\ DefaultGroups \subseteq Groups
ASSUME BoundsAssumption == MaxEnergy \in Nat /\ MaxOps \in Nat

Kinds == {"all", "channels", "copy", "subscription", "subsystem", "sample", "delta",
          "iter", "service", "props", "key"}

VARIABLES
    pc,         \* the next C call, or where the caller is
    live,       \* live[k]: objects of kind k in existence
    todo, base, \* createSubscription: groups left; is there a merged dict yet?
    copied,     \* createSubscription: did the mutable copy succeed?
    field,      \* ReadDeviceInfo: which of its nine properties is read
    op,         \* the operation under way: "none", "stop" or "sample"
    first,      \* the Snapshot, or Sample's s1: is one held, raw # 0, its energy
    second,     \* Stop's curr, or Sample's s2: raw # 0 and its energy
    differ,     \* did IOReportCreateSamplesDelta succeed?
    energy, ops,
    windows,    \* history: the energy windows of the deltas returned
    halves      \* history: Stops that had just one of their two samples

vars == <<pc, live, todo, base, copied, field, op, first, second, differ, energy, ops,
          windows, halves>>

groupVars   == <<todo, base, copied>>
setupVars   == <<groupVars, field>>
measureVars == <<op, first, second, differ, windows, halves>>

NoSnapshot == [held |-> FALSE, ok |-> FALSE, at |-> 0]

Init ==
    /\ pc = "new"
    /\ live = [k \in Kinds |-> 0]
    /\ todo = {} /\ base = FALSE /\ copied = FALSE /\ field = 0
    /\ op = "none"
    /\ first = NoSnapshot
    /\ second = [ok |-> FALSE, at |-> 0]
    /\ differ = FALSE
    /\ energy = 0 /\ ops = 0
    /\ windows = <<>> /\ halves = 0

\* live after creating one object of each kind in K, or releasing n of kind k.
Created(K)     == [k \in Kinds |-> live[k] + IF k \in K THEN 1 ELSE 0]
Released(K, n) == [k \in Kinds |-> live[k] - IF k \in K THEN n ELSE 0]

-----------------------------------------------------------------------------
(* NewSampler, once the libraries are loaded: createSubscription.          *)

\* discoverMonitoredGroups: without a list of channels, the default groups.
CopyAllChannels ==
    /\ pc = "new"
    /\ \/ live' = Created({"all"}) /\ pc' = "scan" /\ UNCHANGED todo
       \/ todo' = DefaultGroups /\ pc' = "groups" /\ UNCHANGED live
    /\ UNCHANGED <<base, copied, field, measureVars, energy, ops>>

\* The groups with an ANE channel are added, and the list is released.
ScanChannels ==
    /\ pc = "scan"
    /\ \E found \in SUBSET Groups : todo' = DefaultGroups \union found
    /\ live' = Released({"all"}, 1)
    /\ pc' = "groups"
    /\ UNCHANGED <<base, copied, field, measureVars, energy, ops>>

\* The range over the groups: the first that has channels becomes the base.
CopyGroup(g) ==
    /\ pc = "groups" /\ g \in todo
    /\ todo' = todo \ {g}
    /\ \/ UNCHANGED <<live, base, pc>>
       \/ /\ live' = Created({"channels"})
          /\ base' = TRUE
          /\ pc' = IF base THEN "merge" ELSE "groups"
    /\ UNCHANGED <<copied, field, measureVars, energy, ops>>

MergeGroup ==
    /\ pc = "merge"
    /\ live' = Released({"channels"}, 1)
    /\ pc' = "groups"
    /\ UNCHANGED <<setupVars, measureVars, energy, ops>>

\* cfDictionaryCreateMutableCopy, unless no group had a channel.
CopyChannels ==
    /\ pc = "groups" /\ todo = {}
    /\ IF base
         THEN /\ copied' \in BOOLEAN
              /\ live' = IF copied' THEN Created({"copy"}) ELSE live
              /\ pc' = "unbase"
         ELSE pc' = "failed" /\ UNCHANGED <<copied, live>>
    /\ UNCHANGED <<todo, base, field, measureVars, energy, ops>>

ReleaseBase ==
    /\ pc = "unbase"
    /\ live' = Released({"channels"}, 1)
    /\ pc' = IF copied THEN "subscribe" ELSE "failed"
    /\ UNCHANGED <<setupVars, measureVars, energy, ops>>

\* The subscription and its subsystem dictionary come back together; on an
\* error the copy is released.
CreateSubscription ==
    /\ pc = "subscribe"
    /\ \/ live' = Created({"subscription", "subsystem"}) /\ pc' = "ready"
       \/ live' = Released({"copy"}, 1) /\ pc' = "failed"
    /\ UNCHANGED <<setupVars, measureVars, energy, ops>>

\* makeCFString gives NULL, and the lookup and the CFRelease after it are called
\* with that: CoreFoundation ends the process.  The keys are those of the list of
\* all channels, of a group, of ReadDeviceInfo (two of its own and one for each
\* value), and of the two calls of extractChannels in a measurement.
NullKey ==
    /\ \/ pc \in {"scan", "props", "power", "key", "diff", "report"}
       \/ pc = "groups" /\ todo # {}
    /\ pc' = "null"
    /\ UNCHANGED <<live, setupVars, measureVars, energy, ops>>

-----------------------------------------------------------------------------
(* Start, Stop and Sample.                                                 *)

Start ==
    /\ pc = "ready" /\ ~first.held /\ ops < MaxOps
    /\ ops' = ops + 1
    /\ \E ok \in BOOLEAN :
          /\ first' = [held |-> TRUE, ok |-> ok, at |-> energy]
          /\ live' = IF ok THEN Created({"sample"}) ELSE live
    /\ UNCHANGED <<pc, setupVars, op, second, differ, energy, windows, halves>>

\* Stop takes its second sample before it looks at the first.
StopSample ==
    /\ pc = "ready" /\ first.held
    /\ op' = "stop"
    /\ \E ok \in BOOLEAN :
          /\ second' = [ok |-> ok, at |-> energy]
          /\ live' = IF ok THEN Created({"sample"}) ELSE live
    /\ pc' = "device"
    /\ UNCHANGED <<setupVars, first, differ, energy, ops, windows, halves>>

\* Sample reads the device first.
SampleBegin ==
    /\ pc = "ready" /\ ~first.held /\ ops < MaxOps
    /\ ops' = ops + 1
    /\ op' = "sample"
    /\ pc' = "device"
    /\ UNCHANGED <<live, setupVars, first, second, differ, energy, windows, halves>>

\* Where ReadDeviceInfo returns to.  Stop ignores its error, Sample reports it.
AfterDevice(err) ==
    IF op = "stop" THEN pc' = "check" /\ UNCHANGED op
    ELSE IF err THEN pc' = "ready" /\ op' = "none"
    ELSE pc' = "first" /\ UNCHANGED op

\* ReadDeviceInfo: port, matching dictionary, iterator, service, properties.
\* A failure returns through the deferred releases of what there is so far.
GetServices ==
    /\ pc = "device"
    /\ \/ live' = Created({"iter"}) /\ pc' = "iter" /\ UNCHANGED op
       \/ UNCHANGED live /\ AfterDevice(TRUE)
    /\ UNCHANGED <<setupVars, first, second, differ, energy, ops, windows, halves>>

\* Seeded bug: the iterator is not released on the way out.
NextService_KeepsIter ==
    /\ pc = "iter"
    /\ \/ live' = Created({"service"}) /\ pc' = "service" /\ UNCHANGED op
       \/ UNCHANGED live /\ AfterDevice(TRUE)
    /\ UNCHANGED <<setupVars, first, second, differ, energy, ops, windows, halves>>

NextService ==
    /\ pc = "iter"
    /\ \/ live' = Created({"service"}) /\ pc' = "service" /\ UNCHANGED op
       \/ live' = Released({"iter"}, 1) /\ AfterDevice(TRUE)
    /\ UNCHANGED <<setupVars, first, second, differ, energy, ops, windows, halves>>

CreateProperties ==
    /\ pc = "service"
    /\ \/ live' = Created({"props"}) /\ pc' = "props" /\ UNCHANGED op
       \/ live' = Released({"iter", "service"}, 1) /\ AfterDevice(TRUE)
    /\ UNCHANGED <<setupVars, first, second, differ, energy, ops, windows, halves>>

\* The keys of "DeviceProperties" and "IOPowerManagement" stay until
\* ReadDeviceInfo returns; a dictionary that is not there has no properties.
OpenDictionary ==
    /\ pc \in {"props", "power"}
    /\ live' = Created({"key"})
    /\ \/ pc' = "key" /\ field' = IF pc = "props" THEN 1 ELSE 8
       \/ IF pc = "props" THEN pc' = "key" /\ field' = 7
          ELSE pc' = "return" /\ UNCHANGED field
    /\ UNCHANGED <<groupVars, measureVars, energy, ops>>

\* dictGetString, dictGetInt64 or dictGetBool: six properties of the device,
\* FirmwareLoaded, and two of the power management.
MakeKey ==
    /\ pc = "key"
    /\ live' = Created({"key"})
    /\ pc' = "value"
    /\ UNCHANGED <<setupVars, measureVars, energy, ops>>

\* With a value or without, and whatever its type, the key is released.
GetValue ==
    /\ pc = "value"
    /\ live' = Released({"key"}, 1)
    /\ field' = field + 1
    /\ pc' = CASE field = 7 -> "power" [] field = 9 -> "return" [] OTHER -> "key"
    /\ UNCHANGED <<groupVars, measureVars, energy, ops>>

\* The return of ReadDeviceInfo, with the deferred releases.
ReturnInfo ==
    /\ pc = "return"
    /\ live' = [k \in Kinds |-> live[k] -
                  CASE k = "key" -> 2 [] k \in {"iter", "service", "props"} -> 1 [] OTHER -> 0]
    /\ field' = 0
    /\ AfterDevice(FALSE)
    /\ UNCHANGED <<groupVars, first, second, differ, energy, ops, windows, halves>>

\* Stop's "if snap.raw == 0 || curr == 0": it returns with neither released.
StopCheck ==
    /\ pc = "check"
    /\ IF first.ok /\ second.ok
         THEN pc' = "diff" /\ UNCHANGED <<op, first, halves>>
         ELSE /\ pc' = "ready" /\ op' = "none" /\ first' = NoSnapshot
              /\ halves' = IF first.ok # second.ok THEN halves + 1 ELSE halves
    /\ UNCHANGED <<live, setupVars, second, differ, energy, ops, windows>>

SampleFirst ==
    /\ pc = "first"
    /\ \/ /\ first' = [held |-> TRUE, ok |-> TRUE, at |-> energy]
          /\ live' = Created({"sample"})
          /\ pc' = "sleep"
          /\ UNCHANGED op
       \/ pc' = "ready" /\ op' = "none" /\ UNCHANGED <<first, live>>
    /\ UNCHANGED <<setupVars, second, differ, energy, ops, windows, halves>>

\* Seeded bug: the first sample is released before the delta is made.
SampleSecond_FreesFirst ==
    /\ pc = "sleep"
    /\ second' = [ok |-> TRUE, at |-> energy]
    /\ pc' = "diff"
    /\ UNCHANGED <<live, setupVars, op, first, differ, energy, ops, windows, halves>>

\* After the sleep; a failed second sample releases the first.
SampleSecond ==
    /\ pc = "sleep"
    /\ \/ /\ second' = [ok |-> TRUE, at |-> energy]
          /\ live' = Created({"sample"})
          /\ pc' = "diff"
          /\ UNCHANGED <<op, first>>
       \/ /\ live' = Released({"sample"}, 1)
          /\ pc' = "ready" /\ op' = "none" /\ first' = NoSnapshot
          /\ UNCHANGED second
    /\ UNCHANGED <<setupVars, differ, energy, ops, windows, halves>>

\* The rest is the same in Stop and Sample.
CreateDelta ==
    /\ pc = "diff"
    /\ differ' \in BOOLEAN
    /\ live' = IF differ' THEN Created({"delta"}) ELSE live
    /\ pc' = "free"
    /\ UNCHANGED <<setupVars, op, first, second, energy, ops, windows, halves>>

ReleaseSamples ==
    /\ pc = "free"
    /\ live' = Released({"sample"}, 2)
    /\ IF differ
         THEN pc' = "report" /\ UNCHANGED <<op, first>>
         ELSE pc' = "ready" /\ op' = "none" /\ first' = NoSnapshot
    /\ UNCHANGED <<setupVars, second, differ, energy, ops, windows, halves>>

\* Seeded bug: the two samples are swapped.
Report_Swapped ==
    /\ pc = "report"
    /\ windows' = Append(windows, [from |-> second.at, to |-> first.at])
    /\ live' = Released({"delta"}, 1)
    /\ pc' = "ready" /\ op' = "none" /\ first' = NoSnapshot
    /\ UNCHANGED <<setupVars, second, differ, energy, ops, halves>>

\* The channels are extracted, the result returned, the delta released.
Report ==
    /\ pc = "report"
    /\ windows' = Append(windows, [from |-> first.at, to |-> second.at])
    /\ live' = Released({"delta"}, 1)
    /\ pc' = "ready" /\ op' = "none" /\ first' = NoSnapshot
    /\ UNCHANGED <<setupVars, second, differ, energy, ops, halves>>

\* Close; calling it again does nothing.  aneperf's live mode closes on Ctrl-C
\* with a Snapshot still held.
Close ==
    /\ pc = "ready"
    /\ live' = Released({"copy"}, 1)
    /\ pc' = "closed"
    /\ UNCHANGED <<setupVars, measureVars, energy, ops>>

Consume ==
    /\ pc \notin {"failed", "closed", "null"} /\ energy < MaxEnergy
    /\ energy' = energy + 1
    /\ UNCHANGED <<pc, live, setupVars, measureVars, ops>>

Ended == pc \in {"failed", "closed", "null"} /\ UNCHANGED vars

Next ==
    \/ CopyAllChannels \/ ScanChannels \/ (\E g \in Groups : CopyGroup(g)) \/ MergeGroup
    \/ CopyChannels \/ ReleaseBase \/ CreateSubscription \/ NullKey
    \/ Start \/ StopSample \/ SampleBegin
    \/ GetServices \/ NextService \/ CreateProperties
    \/ OpenDictionary \/ MakeKey \/ GetValue \/ ReturnInfo
    \/ StopCheck \/ SampleFirst \/ SampleSecond
    \/ CreateDelta \/ ReleaseSamples \/ Report \/ Close
    \/ Consume \/ Ended

Spec == Init /\ [][Next]_vars

-----------------------------------------------------------------------------
(***************************************************************************)
(* Properties.                                                             *)
(***************************************************************************)

\* The objects each C call is handed (lines of the calls in CopyAll..Report).
Uses(at) ==
    CASE at = "scan" -> {"all"}
      [] at \in {"merge", "unbase"} -> {"channels"}
      [] at = "subscribe" -> {"copy"}
      [] at = "ready" -> {"copy", "subscription"}
      [] at = "iter" -> {"iter"}
      [] at = "service" -> {"iter", "service"}
      [] at \in {"props", "power"} -> {"iter", "service", "props"}
      [] at \in {"key", "value", "return"} -> {"props", "key"}
      [] at \in {"first", "sleep"} -> {"copy", "subscription"}
      [] at \in {"diff", "free"} -> {"sample"}
      [] at = "report" -> {"delta"}
      [] OTHER -> {}

\* No call is handed an object that was released or is not there, and none is
\* released twice, whichever of the calls before it failed, with one exception: a
\* key that could not be made is used and released all the same (cf.go:66-69, 92-93),
\* and nothing is said of what comes after it.  A lookup has its own key besides
\* those that wait for the return, and what it finds belongs to a dictionary that is
\* still there (cf.go:91-127).
CallsUseLiveObjects ==
    pc # "null" =>
        /\ live \in [Kinds -> Nat]
        /\ \A k \in Uses(pc) : live[k] > 0
        /\ pc = "value" => live["key"] = (IF field <= 7 THEN 2 ELSE 3)
        /\ pc \in {"diff", "free"} => live["sample"] >= 2

\* Whenever control is with the caller, the objects in existence are those of
\* the subscription and of the Snapshot the caller holds; the exception is
\* exactly one raw sample for each Stop that had only one of its two samples
\* (sampler.go:57-59).  A NewSampler that failed leaves none.  sampler.go:33 says
\* "Close releases the sampler's IOReport subscription resources": after it the
\* copy of the channels is gone, and of the other two not one more or less is left
\* than the code leaves, with the sample of a Snapshot still held.
Balanced ==
    /\ pc \in {"ready", "closed"} => live = [k \in Kinds |->
          CASE k = "copy" -> IF pc = "ready" THEN 1 ELSE 0
            [] k \in {"subscription", "subsystem"} -> 1
            [] k = "sample" -> halves + (IF first.ok THEN 1 ELSE 0)
            [] OTHER -> 0]
    /\ pc = "failed" => live = [k \in Kinds |-> 0]

\* The measurement windows follow each other: no unit of energy is counted by
\* two deltas, though what is used between a Stop and the next Start is in none.
WindowsDisjoint ==
    /\ \A i \in 1..Len(windows) : windows[i].from <= windows[i].to
    /\ \A i, j \in 1..Len(windows) : i < j => windows[i].to <= windows[j].from
=============================================================================
