----------------------------- MODULE SamplerProofs -----------------------------
(***************************************************************************)
(* The Sampler's bookkeeping of its CoreFoundation objects, for any        *)
(* groups and any number of measurements, whichever C calls fail; only a   *)
(* key that could not be made ends what can be said.                       *)
(*                                                                         *)
(* The properties speak of single places.  What is inductive is the whole  *)
(* account: how many objects of each kind there are at every place in the  *)
(* code (Account), what is known there of the operation and its samples    *)
(* (Phase), and how the counter lies to all that was read from it (Clock). *)
(***************************************************************************)
EXTENDS Sampler, TLAPS

-----------------------------------------------------------------------------
(* The inductive invariant.                                                *)

\* The places: before there is a subscription, with the device's properties
\* open, inside ReadDeviceInfo, with a subscription.
Setup     == {"new", "scan", "groups", "merge", "unbase", "subscribe", "failed"}
Opened    == {"props", "key", "value", "power", "return"}
Device    == {"device", "iter", "service"} \union Opened
Measuring == Device \union {"ready", "check", "first", "sleep", "diff", "free", "report"}

Held(b) == IF b THEN 1 ELSE 0

\* The raw samples: those Stop abandoned, the Snapshot's, and the second one
\* from where it is taken to where both are released.
Samples ==
    IF pc = "report" THEN halves
    ELSE halves + Held(first.ok) +
         Held(\/ pc \in Device \union {"check"} /\ op = "stop" /\ second.ok
              \/ pc \in {"diff", "free"})

\* The keys ReadDeviceInfo has made and not released: one for each dictionary
\* it opened and one for the lookup under way.
Keys ==
    IF pc = "power" THEN 1
    ELSE IF pc = "return" THEN 2
    ELSE IF pc \in {"key", "value"} THEN (IF field <= 7 THEN 1 ELSE 2) + Held(pc = "value")
    ELSE 0

\* The channel dictionaries: the base and the one being merged into it.
Channels ==
    IF pc = "merge" THEN 2
    ELSE IF pc = "groups" THEN Held(base)
    ELSE Held(pc = "unbase")

SubscriptionAccount ==
    pc # "null" =>
        /\ live["all"] = Held(pc = "scan")
        /\ live["channels"] = Channels
        /\ live["copy"] = Held(\/ pc = "unbase" /\ copied
                               \/ pc \in Measuring \union {"subscribe"})
        /\ live["subscription"] = Held(pc \in Measuring \union {"closed"})
        /\ live["subsystem"] = Held(pc \in Measuring \union {"closed"})

SampleAccount ==
    pc # "null" =>
        /\ live["sample"] = Samples
        /\ live["delta"] = Held((pc = "free" /\ differ) \/ pc = "report")

DeviceAccount ==
    pc # "null" =>
        /\ live["iter"] = Held(pc \in Opened \union {"iter", "service"})
        /\ live["service"] = Held(pc \in Opened \union {"service"})
        /\ live["props"] = Held(pc \in Opened)

KeyAccount == pc # "null" => live["key"] = Keys

Account == SubscriptionAccount /\ SampleAccount /\ DeviceAccount /\ KeyAccount

LiveType == live \in [Kinds -> Int]

PlaceType ==
    /\ pc \in Setup \union Measuring \union {"closed", "null"}
    /\ base \in BOOLEAN /\ copied \in BOOLEAN /\ differ \in BOOLEAN
    /\ field \in Nat
    /\ op \in {"none", "stop", "sample"}

DataType ==
    /\ first \in [held : BOOLEAN, ok : BOOLEAN, at : Nat]
    /\ second \in [ok : BOOLEAN, at : Nat]
    /\ energy \in Nat /\ halves \in Nat
    /\ windows \in Seq([from : Nat, to : Nat])

TypeInv == LiveType /\ PlaceType /\ DataType

\* Where the operation is and which samples it has there.
Phase ==
    /\ pc \in {"new", "scan"} => ~base
    /\ pc = "merge" => base
    /\ pc \in Setup => first = NoSnapshot /\ halves = 0
    /\ first.ok => first.held
    /\ ~first.held => first = NoSnapshot
    /\ pc \in Device => op # "none"
    /\ pc \in Device /\ op = "stop" => first.held
    /\ pc \in Device /\ op = "sample" => first = NoSnapshot
    /\ pc = "check" => first.held /\ op = "stop"
    /\ pc = "first" => first = NoSnapshot
    /\ pc = "sleep" => first.ok
    /\ pc \in {"diff", "free"} => first.ok /\ second.ok
    /\ pc = "report" => first.held

\* The second sample of the operation under way has been taken.
Measured ==
    \/ pc \in Device /\ op = "stop"
    \/ pc \in {"check", "diff", "free", "report"}

\* Every window ended by the time the counter was at n.
Ending(n) == \A i \in 1..Len(windows) : windows[i].to <= n

\* The counter has passed all that was read from it.
Clock ==
    /\ Ending(energy)
    /\ first.held => first.at <= energy /\ Ending(first.at)
    /\ Measured => first.at <= second.at /\ second.at <= energy

Inv == TypeInv /\ Phase /\ Account /\ Clock /\ WindowsDisjoint

-----------------------------------------------------------------------------
(* The operations, grouped.                                                *)

Subscribing ==
    \/ CopyAllChannels \/ ScanChannels \/ (\E g \in Groups : CopyGroup(g)) \/ MergeGroup
    \/ CopyChannels \/ ReleaseBase \/ CreateSubscription

Calling == Start \/ StopSample \/ SampleBegin \/ Close

ReadingDevice ==
    \/ GetServices \/ NextService \/ CreateProperties
    \/ OpenDictionary \/ MakeKey \/ GetValue \/ ReturnInfo

MakingDelta ==
    StopCheck \/ SampleFirst \/ SampleSecond \/ CreateDelta \/ ReleaseSamples \/ Report

LEMMA NextCases ==
    ASSUME [Next]_vars
    PROVE  \/ Subscribing \/ Calling \/ ReadingDevice \/ MakingDelta
           \/ NullKey \/ Consume \/ UNCHANGED vars
BY DEF Next, Ended, Subscribing, Calling, ReadingDevice, MakingDelta

\* Counts stay numbers.
LEMMA LiveStep ==
    ASSUME LiveType, [Next]_vars
    PROVE  LiveType'
<1> USE DEF LiveType, setupVars, groupVars, measureVars
<1>1. CASE Subscribing
  BY <1>1 DEF Subscribing, CopyAllChannels, ScanChannels, CopyGroup, MergeGroup,
     CopyChannels, ReleaseBase, CreateSubscription, Created, Released
<1>2. CASE Calling
  BY <1>2 DEF Calling, Start, StopSample, SampleBegin, Close, Created, Released
<1>3. CASE ReadingDevice
  BY <1>3 DEF ReadingDevice, GetServices, NextService, CreateProperties, OpenDictionary,
     MakeKey, GetValue, ReturnInfo, Created, Released, AfterDevice
<1>4. CASE MakingDelta
  BY <1>4 DEF MakingDelta, StopCheck, SampleFirst, SampleSecond, CreateDelta,
     ReleaseSamples, Report, Created, Released
<1>5. CASE Consume  BY <1>5 DEF Consume
<1>6. CASE UNCHANGED vars  BY <1>6 DEF vars
<1>7. CASE NullKey  BY <1>7 DEF NullKey
<1> QED  BY <1>1, <1>2, <1>3, <1>4, <1>5, <1>6, <1>7, NextCases

\* The places, the flags of createSubscription and the operation under way.
LEMMA PlaceStep ==
    ASSUME PlaceType, Phase, [Next]_vars
    PROVE  PlaceType'
<1> USE DEF PlaceType, Phase, Setup, Opened, Device, Measuring, setupVars, groupVars,
            measureVars
<1>1. CASE Subscribing
  BY <1>1 DEF Subscribing, CopyAllChannels, ScanChannels, CopyGroup, MergeGroup,
     CopyChannels, ReleaseBase, CreateSubscription
<1>2. CASE Calling
  BY <1>2 DEF Calling, Start, StopSample, SampleBegin, Close
<1>3. CASE ReadingDevice
  BY <1>3 DEF ReadingDevice, GetServices, NextService, CreateProperties, OpenDictionary,
     MakeKey, GetValue, ReturnInfo, AfterDevice
<1>4. CASE MakingDelta
  BY <1>4 DEF MakingDelta, StopCheck, SampleFirst, SampleSecond, CreateDelta,
     ReleaseSamples, Report
<1>5. CASE Consume  BY <1>5 DEF Consume
<1>6. CASE UNCHANGED vars  BY <1>6 DEF vars
<1>7. CASE NullKey  BY <1>7 DEF NullKey
<1> QED  BY <1>1, <1>2, <1>3, <1>4, <1>5, <1>6, <1>7, NextCases

\* Samples, counters and windows keep their types.
LEMMA DataStep ==
    ASSUME DataType, [Next]_vars
    PROVE  DataType'
<1> USE DEF DataType, NoSnapshot, setupVars, groupVars, measureVars
<1>1. CASE Subscribing
  BY <1>1 DEF Subscribing, CopyAllChannels, ScanChannels, CopyGroup, MergeGroup,
     CopyChannels, ReleaseBase, CreateSubscription
<1>2. CASE Calling
  <2>1. CASE Start  BY <2>1 DEF Start
  <2>2. CASE StopSample  BY <2>2 DEF StopSample
  <2>3. CASE SampleBegin  BY <2>3 DEF SampleBegin
  <2>4. CASE Close  BY <2>4 DEF Close
  <2> QED  BY <1>2, <2>1, <2>2, <2>3, <2>4 DEF Calling
<1>3. CASE ReadingDevice
  BY <1>3 DEF ReadingDevice, GetServices, NextService, CreateProperties, OpenDictionary,
     MakeKey, GetValue, ReturnInfo, AfterDevice
<1>4. CASE MakingDelta
  <2>1. CASE StopCheck
    <3>1. CASE first' = NoSnapshot  BY <2>1, <3>1 DEF StopCheck
    <3>2. CASE first' = first  BY <2>1, <3>2 DEF StopCheck
    <3> QED  BY <2>1, <3>1, <3>2 DEF StopCheck
  <2>2. CASE SampleFirst
    <3>1. first' \in [held : BOOLEAN, ok : BOOLEAN, at : Nat]
      <4>1. first' = [held |-> TRUE, ok |-> TRUE, at |-> energy] \/ first' = first
        BY <2>2 DEF SampleFirst
      <4>2. [held |-> TRUE, ok |-> TRUE, at |-> energy] \in [held : BOOLEAN, ok : BOOLEAN, at : Nat]
        OBVIOUS
      <4>3. first \in [held : BOOLEAN, ok : BOOLEAN, at : Nat]  OBVIOUS
      <4> QED  BY <4>1, <4>2, <4>3, Zenon
    <3> QED  BY <2>2, <3>1 DEF SampleFirst
  <2>3. CASE SampleSecond
    <3>1. first' \in [held : BOOLEAN, ok : BOOLEAN, at : Nat]
      <4>1. first' = first \/ first' = NoSnapshot  BY <2>3 DEF SampleSecond
      <4>2. NoSnapshot \in [held : BOOLEAN, ok : BOOLEAN, at : Nat]  OBVIOUS
      <4>3. first \in [held : BOOLEAN, ok : BOOLEAN, at : Nat]  OBVIOUS
      <4> QED  BY <4>1, <4>2, <4>3, Zenon
    <3>2. second' \in [ok : BOOLEAN, at : Nat]
      <4>1. second' = second \/ second' = [ok |-> TRUE, at |-> energy]  BY <2>3 DEF SampleSecond
      <4>2. [ok |-> TRUE, at |-> energy] \in [ok : BOOLEAN, at : Nat]  OBVIOUS
      <4>3. second \in [ok : BOOLEAN, at : Nat]  OBVIOUS
      <4> QED  BY <4>1, <4>2, <4>3, Zenon
    <3> QED  BY <2>3, <3>1, <3>2 DEF SampleSecond
  <2>4. CASE CreateDelta  BY <2>4 DEF CreateDelta
  <2>5. CASE ReleaseSamples
    <3>1. CASE first' = NoSnapshot  BY <2>5, <3>1 DEF ReleaseSamples
    <3>2. CASE first' = first  BY <2>5, <3>2 DEF ReleaseSamples
    <3> QED  BY <2>5, <3>1, <3>2 DEF ReleaseSamples
  <2>6. CASE Report  BY <2>6 DEF Report
  <2> QED  BY <1>4, <2>1, <2>2, <2>3, <2>4, <2>5, <2>6 DEF MakingDelta
<1>5. CASE Consume  BY <1>5 DEF Consume
<1>6. CASE UNCHANGED vars  BY <1>6 DEF vars
<1>7. CASE NullKey  BY <1>7 DEF NullKey
<1> QED  BY <1>1, <1>2, <1>3, <1>4, <1>5, <1>6, <1>7, NextCases

\* Each place in the code knows which samples are there.
LEMMA PhaseStep ==
    ASSUME TypeInv, Phase, [Next]_vars
    PROVE  Phase'
<1> USE DEF TypeInv, PlaceType, DataType, Phase, NoSnapshot, Setup, Opened, Device,
            Measuring, setupVars, groupVars, measureVars
<1>1. CASE Subscribing
  BY <1>1 DEF Subscribing, CopyAllChannels, ScanChannels, CopyGroup, MergeGroup,
     CopyChannels, ReleaseBase, CreateSubscription
<1>2. CASE Calling
  BY <1>2 DEF Calling, Start, StopSample, SampleBegin, Close
<1>3. CASE ReadingDevice
  BY <1>3 DEF ReadingDevice, GetServices, NextService, CreateProperties, OpenDictionary,
     MakeKey, GetValue, ReturnInfo, AfterDevice
<1>4. CASE MakingDelta
  BY <1>4 DEF MakingDelta, StopCheck, SampleFirst, SampleSecond, CreateDelta,
     ReleaseSamples, Report
<1>5. CASE Consume  BY <1>5 DEF Consume
<1>6. CASE UNCHANGED vars  BY <1>6 DEF vars
<1>7. CASE NullKey  BY <1>7 DEF NullKey
<1> QED  BY <1>1, <1>2, <1>3, <1>4, <1>5, <1>6, <1>7, NextCases

-----------------------------------------------------------------------------
(* The account of the objects, kind by kind.                               *)

\* createSubscription and Close.
LEMMA SubscriptionStep ==
    ASSUME LiveType, PlaceType, Phase, SubscriptionAccount, [Next]_vars
    PROVE  SubscriptionAccount'
<1> USE DEF LiveType, PlaceType, Phase, SubscriptionAccount, Channels, Held, Setup, Opened,
            Device, Measuring, setupVars, groupVars, measureVars
<1>0. /\ "all" \in Kinds /\ "channels" \in Kinds /\ "copy" \in Kinds
      /\ "subscription" \in Kinds /\ "subsystem" \in Kinds
  BY DEF Kinds
<1>1. CASE Subscribing
  BY <1>0, <1>1 DEF Subscribing, CopyAllChannels, ScanChannels, CopyGroup, MergeGroup,
     CopyChannels, ReleaseBase, CreateSubscription, Created, Released
<1>2. CASE Calling
  BY <1>0, <1>2 DEF Calling, Start, StopSample, SampleBegin, Close, Created, Released
<1>3. CASE ReadingDevice
  BY <1>0, <1>3 DEF ReadingDevice, GetServices, NextService, CreateProperties,
     OpenDictionary, MakeKey, GetValue, ReturnInfo, Created, Released, AfterDevice
<1>4. CASE MakingDelta
  BY <1>0, <1>4 DEF MakingDelta, StopCheck, SampleFirst, SampleSecond, CreateDelta,
     ReleaseSamples, Report, Created, Released
<1>5. CASE Consume  BY <1>0, <1>5 DEF Consume
<1>6. CASE UNCHANGED vars  BY <1>6 DEF vars
<1>7. CASE NullKey  BY <1>7 DEF NullKey
<1> QED  BY <1>1, <1>2, <1>3, <1>4, <1>5, <1>6, <1>7, NextCases

\* The raw samples and their delta.
LEMMA SampleStep ==
    ASSUME TypeInv, Phase, SampleAccount, [Next]_vars
    PROVE  SampleAccount'
<1> USE DEF LiveType, PlaceType, DataType, TypeInv, Phase, SampleAccount, Samples, Held,
            NoSnapshot, Setup, Opened, Device, Measuring, setupVars, groupVars, measureVars
<1>0. "sample" \in Kinds /\ "delta" \in Kinds
  BY DEF Kinds
<1>1. CASE Subscribing
  <2>1. CASE CopyAllChannels  BY <1>0, <2>1 DEF CopyAllChannels, Created
  <2>2. CASE ScanChannels  BY <1>0, <2>2 DEF ScanChannels, Released
  <2>3. ASSUME NEW g \in Groups, CopyGroup(g) PROVE SampleAccount'
    <3>1. live'["sample"] = live["sample"] /\ live'["delta"] = live["delta"]
      BY <1>0, <2>3 DEF CopyGroup, Created
    <3>2. pc = "groups" /\ pc' \in {"groups", "merge"}  BY <1>0, <2>3 DEF CopyGroup
    <3> QED  BY <1>0, <2>3, <3>1, <3>2 DEF CopyGroup
  <2>4. CASE MergeGroup  BY <1>0, <2>4 DEF MergeGroup, Released
  <2>5. ASSUME CopyChannels PROVE SampleAccount'
    <3>1. live'["sample"] = live["sample"] /\ live'["delta"] = live["delta"]
      BY <1>0, <2>5 DEF CopyChannels, Created
    <3>2. pc = "groups" /\ pc' \in {"unbase", "failed"}  BY <2>5 DEF CopyChannels
    <3> QED  BY <1>0, <2>5, <3>1, <3>2 DEF CopyChannels
  <2>6. CASE ReleaseBase  BY <1>0, <2>6 DEF ReleaseBase, Released
  <2>7. ASSUME CreateSubscription PROVE SampleAccount'
    <3>1. live'["sample"] = live["sample"] /\ live'["delta"] = live["delta"]
      <4>1. CASE live' = Created({"subscription", "subsystem"})  BY <1>0, <4>1 DEF Created
      <4>2. CASE live' = Released({"copy"}, 1)  BY <1>0, <4>2 DEF Released
      <4> QED  BY <2>7, <4>1, <4>2 DEF CreateSubscription
    <3>2. pc = "subscribe" /\ pc' \in {"ready", "failed"}  BY <2>7 DEF CreateSubscription
    <3> QED  BY <2>7, <3>1, <3>2 DEF CreateSubscription
  <2> QED  BY <1>1, <2>1, <2>2, <2>3, <2>4, <2>5, <2>6, <2>7 DEF Subscribing
<1>2. CASE Calling
  <2>1. CASE Start  BY <1>0, <2>1 DEF Start, Created
  <2>2. CASE StopSample  BY <1>0, <2>2 DEF StopSample, Created
  <2>3. CASE SampleBegin  BY <1>0, <2>3 DEF SampleBegin
  <2>4. CASE Close  BY <1>0, <2>4 DEF Close, Released
  <2> QED  BY <1>2, <2>1, <2>2, <2>3, <2>4 DEF Calling
<1>3. CASE ReadingDevice
  <2>1. CASE GetServices  BY <1>0, <2>1, SMTT(30) DEF GetServices, Created, AfterDevice
  <2>2. CASE NextService
    <3>1. live'["sample"] = live["sample"] /\ live'["delta"] = live["delta"]
      <4>1. CASE live' = Created({"service"})  BY <1>0, <2>2, <4>1 DEF Created
      <4>2. CASE live' = Released({"iter"}, 1)  BY <1>0, <2>2, <4>2 DEF Released
      <4> QED  BY <1>0, <2>2, <4>1, <4>2 DEF NextService
    <3>2. pc \in Device /\ UNCHANGED <<first, second, halves>>  BY <1>0, <2>2 DEF NextService
    <3>3. \/ pc' \in Device /\ op' = op
          \/ pc' = "check" /\ op = "stop" /\ op' = op
          \/ pc' = "ready" /\ op # "stop"
      BY <1>0, <2>2 DEF NextService, AfterDevice
    <3> QED  BY <3>1, <3>2, <3>3
  <2>3. CASE CreateProperties
    <3>1. live'["sample"] = live["sample"] /\ live'["delta"] = live["delta"]
      <4>1. CASE live' = Created({"props"})  BY <1>0, <2>3, <4>1 DEF Created
      <4>2. CASE live' = Released({"iter", "service"}, 1)  BY <1>0, <2>3, <4>2 DEF Released
      <4> QED  BY <1>0, <2>3, <4>1, <4>2 DEF CreateProperties
    <3>2. pc \in Device /\ UNCHANGED <<first, second, halves>>  BY <1>0, <2>3 DEF CreateProperties
    <3>3. \/ pc' \in Device /\ op' = op
          \/ pc' = "check" /\ op = "stop" /\ op' = op
          \/ pc' = "ready" /\ op # "stop"
      BY <1>0, <2>3 DEF CreateProperties, AfterDevice
    <3> QED  BY <3>1, <3>2, <3>3
  <2>4. CASE OpenDictionary  BY <1>0, <2>4 DEF OpenDictionary, Created
  <2>5. CASE MakeKey  BY <1>0, <2>5 DEF MakeKey, Created
  <2>6. CASE GetValue  BY <1>0, <2>6 DEF GetValue, Released
  <2>7. CASE ReturnInfo  BY <1>0, <2>7 DEF ReturnInfo, AfterDevice
  <2> QED  BY <1>3, <2>1, <2>2, <2>3, <2>4, <2>5, <2>6, <2>7 DEF ReadingDevice
<1>4. CASE MakingDelta
  <2>1. CASE StopCheck  BY <1>0, <2>1 DEF StopCheck
  <2>2. CASE SampleFirst
    <3>1. CASE pc' = "sleep"
      <4>1. live'["sample"] = live["sample"] + 1 /\ live'["delta"] = live["delta"]
        <5>1. live' = Created({"sample"})  BY <1>0, <2>2, <3>1 DEF SampleFirst
        <5> QED  BY <1>0, <2>2, <5>1 DEF Created
      <4>2. ~first.ok /\ first'.ok /\ halves' = halves /\ pc = "first"
        BY <1>0, <2>2, <3>1 DEF SampleFirst
      <4> QED  BY <3>1, <4>1, <4>2
    <3>2. CASE pc' = "ready"  BY <1>0, <2>2, <3>2 DEF SampleFirst
    <3> QED  BY <1>0, <2>2, <3>1, <3>2 DEF SampleFirst
  <2>3. CASE SampleSecond
    <3>1. CASE pc' = "diff"
      <4>1. first.ok /\ live["sample"] = halves + 1  BY <1>0, <2>3 DEF SampleSecond
      <4> QED  BY <1>0, <2>3, <3>1, <4>1 DEF SampleSecond, Created
    <3>2. CASE pc' = "ready"
      <4>1. first.ok /\ live["sample"] = halves + 1  BY <1>0, <2>3 DEF SampleSecond
      <4> QED  BY <1>0, <2>3, <3>2, <4>1 DEF SampleSecond, Released
    <3> QED  BY <1>0, <2>3, <3>1, <3>2 DEF SampleSecond
  <2>4. CASE CreateDelta  BY <1>0, <2>4 DEF CreateDelta, Created
  <2>5. CASE ReleaseSamples  BY <1>0, <2>5 DEF ReleaseSamples, Released
  <2>6. CASE Report  BY <1>0, <2>6 DEF Report, Released
  <2> QED  BY <1>4, <2>1, <2>2, <2>3, <2>4, <2>5, <2>6 DEF MakingDelta
<1>5. CASE Consume  BY <1>0, <1>5 DEF Consume
<1>6. CASE UNCHANGED vars  BY <1>6 DEF vars
<1>7. CASE NullKey  BY <1>7 DEF NullKey
<1> QED  BY <1>1, <1>2, <1>3, <1>4, <1>5, <1>6, <1>7, NextCases

\* The objects of ReadDeviceInfo ...
LEMMA DeviceStep ==
    ASSUME LiveType, PlaceType, DeviceAccount, [Next]_vars
    PROVE  DeviceAccount'
<1> USE DEF LiveType, PlaceType, DeviceAccount, Held, Setup, Opened, Device, Measuring,
            setupVars, groupVars, measureVars
<1>0. "iter" \in Kinds /\ "service" \in Kinds /\ "props" \in Kinds
  BY DEF Kinds
<1>1. CASE Subscribing
  BY <1>0, <1>1 DEF Subscribing, CopyAllChannels, ScanChannels, CopyGroup, MergeGroup,
     CopyChannels, ReleaseBase, CreateSubscription, Created, Released
<1>2. CASE Calling
  BY <1>0, <1>2 DEF Calling, Start, StopSample, SampleBegin, Close, Created, Released
<1>3. CASE ReadingDevice
  BY <1>0, <1>3 DEF ReadingDevice, GetServices, NextService, CreateProperties,
     OpenDictionary, MakeKey, GetValue, ReturnInfo, Created, Released, AfterDevice
<1>4. CASE MakingDelta
  BY <1>0, <1>4 DEF MakingDelta, StopCheck, SampleFirst, SampleSecond, CreateDelta,
     ReleaseSamples, Report, Created, Released
<1>5. CASE Consume  BY <1>0, <1>5 DEF Consume
<1>6. CASE UNCHANGED vars  BY <1>6 DEF vars
<1>7. CASE NullKey  BY <1>7 DEF NullKey
<1> QED  BY <1>1, <1>2, <1>3, <1>4, <1>5, <1>6, <1>7, NextCases

\* ... and its keys.
LEMMA KeyStep ==
    ASSUME LiveType, PlaceType, KeyAccount, [Next]_vars
    PROVE  KeyAccount'
<1> USE DEF LiveType, PlaceType, KeyAccount, Keys, Held, Setup, Opened, Device, Measuring,
            setupVars, groupVars, measureVars
<1>0. "key" \in Kinds
  BY DEF Kinds
<1>1. CASE Subscribing
  BY <1>0, <1>1 DEF Subscribing, CopyAllChannels, ScanChannels, CopyGroup, MergeGroup,
     CopyChannels, ReleaseBase, CreateSubscription, Created, Released
<1>2. CASE Calling
  BY <1>0, <1>2 DEF Calling, Start, StopSample, SampleBegin, Close, Created, Released
<1>3. CASE ReadingDevice
  BY <1>0, <1>3 DEF ReadingDevice, GetServices, NextService, CreateProperties,
     OpenDictionary, MakeKey, GetValue, ReturnInfo, Created, Released, AfterDevice
<1>4. CASE MakingDelta
  BY <1>0, <1>4 DEF MakingDelta, StopCheck, SampleFirst, SampleSecond, CreateDelta,
     ReleaseSamples, Report, Created, Released
<1>5. CASE Consume  BY <1>0, <1>5 DEF Consume
<1>6. CASE UNCHANGED vars  BY <1>6 DEF vars
<1>7. CASE NullKey  BY <1>7 DEF NullKey
<1> QED  BY <1>1, <1>2, <1>3, <1>4, <1>5, <1>6, <1>7, NextCases

-----------------------------------------------------------------------------
(* The windows.                                                            *)

LEMMA WindowTypes ==
    ASSUME NEW ws \in Seq([from : Nat, to : Nat])
    PROVE  \A i \in 1..Len(ws) : ws[i].from \in Nat /\ ws[i].to \in Nat
<1> DEFINE W == [from : Nat, to : Nat]
<1>1. \A w \in W : w.from \in Nat /\ w.to \in Nat  OBVIOUS
<1>2. ws \in Seq(W)  OBVIOUS
<1> HIDE DEF W
<1>3. \A i \in 1..Len(ws) : ws[i] \in W  BY <1>2
<1> QED  BY <1>1, <1>3

\* A window that begins after all others ended, put at the end.
LEMMA WindowAppended ==
    ASSUME NEW ws \in Seq([from : Nat, to : Nat]), NEW a \in Nat, NEW b \in Nat, NEW n \in Nat,
           a <= b, b <= n, \A i \in 1..Len(ws) : ws[i].to <= a
    PROVE  LET t == Append(ws, [from |-> a, to |-> b])
           IN  /\ \A i \in 1..Len(t) : t[i].to <= n
               /\ (\A i \in 1..Len(ws) : ws[i].from <= ws[i].to) =>
                     \A i \in 1..Len(t) : t[i].from <= t[i].to
               /\ (\A i, j \in 1..Len(ws) : i < j => ws[i].to <= ws[j].from) =>
                     \A i, j \in 1..Len(t) : i < j => t[i].to <= t[j].from
<1> DEFINE t == Append(ws, [from |-> a, to |-> b])
<1>1. /\ Len(ws) \in Nat /\ Len(t) = Len(ws) + 1
      /\ \A i \in 1..Len(ws) : t[i] = ws[i]
      /\ t[Len(ws) + 1] = [from |-> a, to |-> b]
  <2> DEFINE W == [from : Nat, to : Nat]
  <2>1. ws \in Seq(W) /\ [from |-> a, to |-> b] \in W  OBVIOUS
  <2> HIDE DEF W
  <2>2. \A w \in W : /\ Len(ws) \in Nat /\ Len(Append(ws, w)) = Len(ws) + 1
                     /\ \A i \in 1..Len(ws) : Append(ws, w)[i] = ws[i]
                     /\ Append(ws, w)[Len(ws) + 1] = w
    BY <2>1
  <2> QED  BY <2>1, <2>2
<1>2. \A i \in 1..Len(ws) : ws[i].to \in Nat /\ ws[i].from \in Nat
  BY WindowTypes
<1> HIDE DEF t
<1>3. \A i \in 1..Len(t) : i \in 1..Len(ws) \/ i = Len(ws) + 1
  BY <1>1
<1>4. t[Len(ws) + 1].from = a /\ t[Len(ws) + 1].to = b
  BY <1>1
<1>5. \A i \in 1..Len(t) : t[i].to <= n
  BY <1>1, <1>2, <1>3, <1>4
<1>6. ASSUME \A i \in 1..Len(ws) : ws[i].from <= ws[i].to
      PROVE  \A i \in 1..Len(t) : t[i].from <= t[i].to
  BY <1>1, <1>3, <1>4, <1>6
<1>7. ASSUME \A i, j \in 1..Len(ws) : i < j => ws[i].to <= ws[j].from
      PROVE  \A i, j \in 1..Len(t) : i < j => t[i].to <= t[j].from
  <2> SUFFICES ASSUME NEW i \in 1..Len(t), NEW j \in 1..Len(t), i < j
               PROVE  t[i].to <= t[j].from
    OBVIOUS
  <2>1. i \in 1..Len(ws)  BY <1>1
  <2>2. CASE j \in 1..Len(ws)  BY <1>1, <1>7, <2>1, <2>2
  <2>3. CASE j = Len(ws) + 1  BY <1>1, <1>4, <2>1, <2>3
  <2> QED  BY <1>3, <2>2, <2>3
<1> QED  BY <1>5, <1>6, <1>7 DEF t

\* Everything read from the counter is behind it, the first sample before the
\* second, every window before the samples that come after it.
LEMMA ClockStep ==
    ASSUME TypeInv, Phase, Clock, [Next]_vars
    PROVE  Clock'
<1> USE DEF TypeInv, PlaceType, DataType, Phase, Clock, Measured, Ending, NoSnapshot,
            Setup, Opened, Device, Measuring, setupVars, groupVars, measureVars
<1>1. CASE Subscribing
  BY <1>1 DEF Subscribing, CopyAllChannels, ScanChannels, CopyGroup, MergeGroup,
     CopyChannels, ReleaseBase, CreateSubscription
<1>2. CASE Calling
  <2>1. CASE Start  BY <2>1 DEF Start
  <2>2. CASE StopSample  BY <2>2 DEF StopSample
  <2>3. CASE SampleBegin  BY <2>3 DEF SampleBegin
  <2>4. CASE Close  BY <2>4 DEF Close
  <2> QED  BY <1>2, <2>1, <2>2, <2>3, <2>4 DEF Calling
<1>3. CASE ReadingDevice
  BY <1>3, SMTT(30) DEF ReadingDevice, GetServices, NextService, CreateProperties, OpenDictionary,
     MakeKey, GetValue, ReturnInfo, AfterDevice
<1>4. CASE MakingDelta
  <2>1. CASE StopCheck  BY <2>1 DEF StopCheck
  <2>2. CASE SampleFirst  BY <2>2 DEF SampleFirst
  <2>3. CASE SampleSecond  BY <2>3 DEF SampleSecond
  <2>4. CASE CreateDelta  BY <2>4 DEF CreateDelta
  <2>5. CASE ReleaseSamples  BY <2>5 DEF ReleaseSamples
  <2>6. CASE Report
    <3>1. /\ windows \in Seq([from : Nat, to : Nat]) /\ first.at \in Nat /\ second.at \in Nat
          /\ first.at <= second.at /\ second.at <= energy /\ energy \in Nat
          /\ Ending(first.at)
      BY <2>6 DEF Report
    <3>2. /\ windows' = Append(windows, [from |-> first.at, to |-> second.at])
          /\ ~first'.held /\ energy' = energy /\ ~Measured'
      BY <2>6 DEF Report
    <3>3. \A i \in 1..Len(windows') : windows'[i].to <= energy
      BY <3>1, <3>2, WindowAppended
    <3> QED  BY <3>2, <3>3
  <2> QED  BY <1>4, <2>1, <2>2, <2>3, <2>4, <2>5, <2>6 DEF MakingDelta
<1>5. CASE Consume
  <2>1. \A i \in 1..Len(windows) : windows[i].to \in Nat /\ windows[i].to <= energy
    <3>1. windows \in Seq([from : Nat, to : Nat])  OBVIOUS
    <3> QED  BY <3>1, WindowTypes
  <2>2. /\ energy' = energy + 1 /\ energy \in Nat
        /\ UNCHANGED <<pc, op, first, second, windows>>
    BY <1>5 DEF Consume
  <2>3. /\ \A n \in Nat : n <= energy => n <= energy + 1
        /\ first.at \in Nat /\ second.at \in Nat
    BY <2>2
  <2> QED  BY <2>1, <2>2, <2>3
<1>6. CASE UNCHANGED vars  BY <1>6 DEF vars
<1>7. CASE NullKey  BY <1>7 DEF NullKey
<1> QED  BY <1>1, <1>2, <1>3, <1>4, <1>5, <1>6, <1>7, NextCases

\* Report appends a window that begins at the first sample.
LEMMA WindowsStep ==
    ASSUME TypeInv, Phase, Clock, WindowsDisjoint, [Next]_vars
    PROVE  WindowsDisjoint'
<1>1. CASE Report
  <2>1. /\ windows \in Seq([from : Nat, to : Nat]) /\ first.at \in Nat /\ second.at \in Nat
        /\ first.at <= second.at /\ Ending(first.at)
    BY <1>1 DEF Report, TypeInv, DataType, Phase, Clock, Measured
  <2>2. windows' = Append(windows, [from |-> first.at, to |-> second.at])
    BY <1>1 DEF Report
  <2>3. second.at <= second.at  BY <2>1
  <2> QED  BY <2>1, <2>2, <2>3, WindowAppended DEF WindowsDisjoint, Ending
<1>2. CASE ~Report
  <2>1. windows' = windows
    BY <1>2 DEF Next, vars, Ended, measureVars, CopyAllChannels, ScanChannels, CopyGroup,
       MergeGroup, CopyChannels, ReleaseBase, CreateSubscription, NullKey, Start, StopSample, SampleBegin,
       GetServices, NextService, CreateProperties, OpenDictionary, MakeKey, GetValue, ReturnInfo,
       StopCheck, SampleFirst, SampleSecond, CreateDelta, ReleaseSamples, Close, Consume
  <2> QED  BY <2>1 DEF WindowsDisjoint
<1> QED  BY <1>1, <1>2

-----------------------------------------------------------------------------
(* The theorems.                                                           *)

LEMMA InvInit == ASSUME Init PROVE Inv
<1> USE DEF Init, Setup, Opened, Device, Measuring
<1>1. LiveType  BY DEF LiveType
<1>2. PlaceType  BY DEF PlaceType
<1>3. first \in [held : BOOLEAN, ok : BOOLEAN, at : Nat]  BY DEF NoSnapshot
<1>4. windows = <<>> /\ Len(windows) = 0 /\ windows \in Seq([from : Nat, to : Nat])  OBVIOUS
<1>5. DataType  BY <1>3, <1>4 DEF DataType
<1>6. Phase  BY DEF Phase, NoSnapshot
<1>7. Account
  BY DEF Account, SubscriptionAccount, SampleAccount, DeviceAccount, KeyAccount, Samples, Keys,
         Channels, Held, Kinds, NoSnapshot
<1>8. Clock  BY <1>4 DEF Clock, Ending, Measured, NoSnapshot
<1>9. WindowsDisjoint  BY <1>4 DEF WindowsDisjoint
<1> QED  BY <1>1, <1>2, <1>5, <1>6, <1>7, <1>8, <1>9 DEF Inv, TypeInv

LEMMA InvCorrect == Spec => []Inv
<1>1. Init => Inv  BY InvInit
<1>2. Inv /\ [Next]_vars => Inv'
  BY LiveStep, PlaceStep, DataStep, PhaseStep, SubscriptionStep, SampleStep, DeviceStep, KeyStep,
     ClockStep, WindowsStep DEF Inv, TypeInv, Account
<1> QED  BY <1>1, <1>2, PTL DEF Spec

\* Up to a NULL key the account is never negative: nothing is released twice.
LEMMA CountsAreNat == ASSUME Inv, pc # "null" PROVE live \in [Kinds -> Nat]
<1> USE DEF Inv, TypeInv, PlaceType, DataType
<1>1. halves \in Nat  OBVIOUS
<1>2. \A b \in BOOLEAN : Held(b) \in {0, 1}  BY DEF Held
<1>3. live["sample"] \in Nat
  BY <1>1 DEF Account, SampleAccount, Samples, Held
<1>4. live["key"] \in Nat  BY DEF Account, KeyAccount, Keys, Held
<1>5. live["channels"] \in Nat  BY DEF Account, SubscriptionAccount, Channels, Held
<1>6. /\ live["all"] \in Nat /\ live["copy"] \in Nat /\ live["subscription"] \in Nat
      /\ live["subsystem"] \in Nat
  BY DEF Account, SubscriptionAccount, Held
<1>7. live["delta"] \in Nat  BY DEF Account, SampleAccount, Held
<1>8. live["iter"] \in Nat /\ live["service"] \in Nat /\ live["props"] \in Nat
  BY DEF Account, DeviceAccount, Held
<1>9. \A k \in Kinds : live[k] \in Nat
  BY <1>3, <1>4, <1>5, <1>6, <1>7, <1>8 DEF Kinds
<1> QED  BY <1>9 DEF LiveType

\* Wherever a call is made, what it uses is on the account.
LEMMA InvUses == ASSUME Inv PROVE CallsUseLiveObjects
<1> USE DEF Inv, TypeInv, PlaceType, Account, Setup, Opened, Device, Measuring, Held
<1> SUFFICES ASSUME pc # "null" PROVE CallsUseLiveObjects
  BY DEF CallsUseLiveObjects
<1>1. live \in [Kinds -> Nat]  BY CountsAreNat
<1>2. \A k \in Uses(pc) : live[k] > 0
  <2> SUFFICES ASSUME NEW k \in Uses(pc) PROVE live[k] > 0
    OBVIOUS
  <2>1. CASE pc \in {"scan", "merge", "unbase", "subscribe"}
    BY <2>1 DEF Uses, SubscriptionAccount, Channels
  <2>2. CASE pc \in {"ready", "first", "sleep"}
    BY <2>2 DEF Uses, SubscriptionAccount
  <2>3. CASE pc \in {"iter", "service", "props", "power"}
    BY <2>3 DEF Uses, DeviceAccount
  <2>4. CASE pc \in {"key", "value", "return"}
    BY <2>4 DEF Uses, DeviceAccount, KeyAccount, Keys
  <2>5. CASE pc \in {"diff", "free"}
    <3>1. first.ok /\ live["sample"] = halves + 2 /\ halves \in Nat
      BY <2>5 DEF Phase, DataType, SampleAccount, Samples
    <3> QED  BY <2>5, <3>1 DEF Uses
  <2>6. CASE pc = "report"
    BY <2>6 DEF Uses, SampleAccount
  <2>7. CASE pc \in {"new", "groups", "failed", "device", "check", "closed"}
    BY <2>7 DEF Uses
  <2> QED  BY <2>1, <2>2, <2>3, <2>4, <2>5, <2>6, <2>7
<1>3. pc = "value" => live["key"] = (IF field <= 7 THEN 2 ELSE 3)
  BY DEF KeyAccount, Keys
<1>4. pc \in {"diff", "free"} => live["sample"] >= 2
  BY DEF Phase, DataType, SampleAccount, Samples
<1> QED  BY <1>1, <1>2, <1>3, <1>4 DEF CallsUseLiveObjects

\* Where control is with the caller, the account is that of Balanced.
LEMMA InvBalanced == ASSUME Inv PROVE Balanced
<1> USE DEF Inv, TypeInv, LiveType, Account, Setup, Opened, Device, Measuring, Held
<1>1. ASSUME pc \in {"ready", "closed"}
      PROVE  live = [k \in Kinds |->
          CASE k = "copy" -> IF pc = "ready" THEN 1 ELSE 0
            [] k \in {"subscription", "subsystem"} -> 1
            [] k = "sample" -> halves + (IF first.ok THEN 1 ELSE 0)
            [] OTHER -> 0]
  <2>1. /\ live["copy"] = (IF pc = "ready" THEN 1 ELSE 0)
        /\ live["subscription"] = 1 /\ live["subsystem"] = 1
        /\ live["all"] = 0 /\ live["channels"] = 0
    BY <1>1 DEF SubscriptionAccount, Channels
  <2>2. live["sample"] = halves + (IF first.ok THEN 1 ELSE 0) /\ live["delta"] = 0
    BY <1>1 DEF DataType, SampleAccount, Samples
  <2>3. live["iter"] = 0 /\ live["service"] = 0 /\ live["props"] = 0 /\ live["key"] = 0
    BY <1>1 DEF DeviceAccount, KeyAccount, Keys
  <2> QED  BY <2>1, <2>2, <2>3 DEF Kinds
<1>2. ASSUME pc = "failed" PROVE live = [k \in Kinds |-> 0]
  <2>1. /\ live["copy"] = 0 /\ live["subscription"] = 0 /\ live["subsystem"] = 0
        /\ live["all"] = 0 /\ live["channels"] = 0
    BY <1>2 DEF SubscriptionAccount, Channels
  <2>2. live["sample"] = 0 /\ live["delta"] = 0
    BY <1>2 DEF Phase, NoSnapshot, SampleAccount, Samples
  <2>3. live["iter"] = 0 /\ live["service"] = 0 /\ live["props"] = 0 /\ live["key"] = 0
    BY <1>2 DEF DeviceAccount, KeyAccount, Keys
  <2> QED  BY <2>1, <2>2, <2>3 DEF Kinds
<1> QED  BY <1>1, <1>2 DEF Balanced

\* No C call is handed a released object and none is released twice, in any
\* sequence of NewSampler, Start, Stop, Sample and Close, whichever of the calls
\* in them fail (sampler.go:19-122, ioreport.go:71-151, iokit.go:57-119), up to the
\* first key that makeCFString could not make (cf.go:66-69), which ends the process.
THEOREM CallsCorrect == Spec => []CallsUseLiveObjects
<1>1. Inv => CallsUseLiveObjects  BY InvUses
<1> QED  BY <1>1, InvCorrect, PTL

\* The Sampler leaks nothing but the sample of a Stop that had one of its two
\* (sampler.go:57-59): at every return to the caller the objects are those of the
\* subscription and the Snapshot, and none after a NewSampler that failed.
THEOREM BalancedCorrect == Spec => []Balanced
<1>1. Inv => Balanced  BY InvBalanced
<1> QED  BY <1>1, InvCorrect, PTL

\* No unit of energy is counted by two deltas, for any number of measurements
\* by Stop or Sample in any mixture (sampler.go:41-122).
THEOREM WindowsCorrect == Spec => []WindowsDisjoint
<1>1. Inv => WindowsDisjoint  BY DEF Inv
<1> QED  BY <1>1, InvCorrect, PTL
=============================================================================
