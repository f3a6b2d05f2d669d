# A verification development of aneperf

aneperf measures the Apple Neural Engine. It is a Go library that reads IOReport
and IOKit through hand-loaded C functions, a terminal program (`cmd/aneperf`) and
a web server (`cmd/aneperfweb`) that streams measurements to browsers. This
directory holds TLA+ modules translated from that code, TLC configurations that
check them on small instances, and proofs checked by TLAPS. Paths below are
relative to the repository.

## 1. Inventory

| Component | State | Operations | What is hard | What makes it correct |
|---|---|---|---|---|
| Web server (`cmd/aneperfweb/main.go`) | hub's map of channels, mutex, `done`; one channel and connection per handler; the http server; `sig` | `run`, the signal goroutine, `hub.run`, `stop`, `addClient`, `removeClient`, `handleStream` | four kinds of goroutine in any order; full channels; stalled peers; Close and exit without waiting for the hub; random `select` | the map is used by one goroutine at a time; channels are registered exactly as long as their handler lives; a browser sees an increasing selection of deltas, without a gap at first; nobody can block the hub; Ctrl-C ends the process; the Sampler is not used once closed |
| Sampler (`sampler.go`, `ioreport.go`, `iokit.go`) | CoreFoundation and IOKit objects managed by hand; the Snapshot | `createSubscription`, `Start`, `Stop`, `Sample`, `ReadDeviceInfo`, `Close` | every C call may fail half way, and not every failure is checked | nothing released or never made is used, nothing leaks, windows do not overlap |
| Library loading (`cf.go`, `iokit.go`, `ioreport.go`) | three handles, 34 function variables | `loadCF`, `loadIOKit`, `loadIOReport` | handle set before the functions, no lock, concurrent callers | success means that every needed function is set; concurrent callers only read |
| Statistics (`stats.go`, `classify.go`, `types.go`, `ioreport.go`) | none | `extractChannels`, `ClassifyChannels`, `ComputeStats`, powers, temperature, `ReportMetrics` | empty channels, order of channels, whether a figure is from the second sample or from the delta | percentages are percentages, idle is shown idle, work is not missed, a list and its reverse give the same sums |
| Name algorithms (`ioreport.go`, `types.go`, `stats.go`) | none | `containsANE`, `sanitizeMetricName`, `parseFloat` | boundaries of words and names | an ANE name has a word that starts with "ane"; metric names have one form |
| Terminal program: life cycle (`cmd/aneperf/main.go`) | terminal mode, signal handling, Sampler, power histories | `main`, `run`, `runOnce`, `runLive` | Ctrl-C and a panic at any point, deferred calls, ticks that never cease | the terminal is given back, the Sampler closed, Ctrl-C works |
| Terminal program: memory between refreshes | `channelStateWindow`, `channelHistory` | `observe`, `smooth`, `recordHistory`, `printStateSection`, `printBandwidth`, `printThrottle`, `printCounters` | channels that come and go; two memories with two keys; one map for five sections | no sample counted twice or kept too long; past activity visible, then gone |
| Terminal program: sections without memory | none | the energy rows, `printClusterPower`, `printComputeUtilization`, `printThrottleDetail` | figures computed a second time, by other loops | the two agree; what is reported is shown; a cut leaves out the smallest |
| Browser dashboard (`web/index.html`) | the connection, histories in refs, two hooks, what is drawn | `EventSource` and its three handlers, `App` | reconnection at any point; state read at a later render; figures computed a third time | histories in order, no gap since the connection was made; the dot tells the truth; the page agrees with the library |
| CoreFoundation accessors (`cf.go`) | keys and strings | `dictGetString`, `dictGetInt64`, `dictGetBool` | a release on each way out | as the Sampler |
| Test workload (`testworkload`) | none of this program | | | |

How they interact. `NewSampler` loads the libraries and makes the subscription.
The hub (web) or the live loop (terminal) calls `Stop` and `Start` on each tick;
`Stop` calls `ReadDeviceInfo` and the statistics. The web server's `/api/device`
handlers call `ReadDeviceInfo` at the same time as the hub. The hub hands a
serialised delta to a buffered channel per streaming handler, which writes it to
its connection; the page at the other end makes a new connection when it loses one.
`Sampler.sub` is shared by main (Close) and the hub without a lock.

## 2. Modules

| Module | Models | Checked by | Proved in |
|---|---|---|---|
| `Hub` | the web server process | `MCHub` (3 runs) | `HubProofs` |
| `Feed` | abstract: what the server promises its browsers | refinement in run `hub_one` | `HubProofs` (implemented by `Hub`) |
| `Sampler` | measuring, with object ownership | `Sampler.cfg` | `SamplerProofs` |
| `Loader` | lazy library loading | `MCLoader` | `LoaderProofs` |
| `Lists` | the loops over a list that the programs share | `MCStats`, `MCRefresh`, `MCRefreshNames` | `FoldLemmas` |
| `Stats` | from raw channels to figures and metrics | `MCStats` | `StatsProofs`, with `FoldLemmas` |
| `Display` | the terminal's sections that keep nothing; EXTENDS `Stats` | `MCStats` | `StatsProofs` |
| `Page` | the figures of the browser page; EXTENDS `Display` | `MCStats` | `StatsProofs` |
| `Names` | the three name algorithms, by character | `MCNames` | `StatsProofs` |
| `Live` | the terminal program's life cycle | `Live.cfg` | `LiveProofs` |
| `Refresh` | what the terminal remembers between refreshes, its rows and the bar of the GPU | `MCRefresh`, `MCRefreshNames` (violation) | `RefreshProofs`, with `FoldLemmas` |
| `Dashboard` | the page's connection, histories and rendering, composed with `Feed` | `Dashboard.cfg` | `DashboardProofs` |

An operator named `X_Something`, before `X`, is `X` with a plausible bug seeded
into it. It is used by no specification: put in the place of `X`, it makes the
property it was written for fail, which shows that the property depends on that
piece of code.

### Hub and Feed

One action is one step that another goroutine can see. `mpc`, `spc`, `hpc` and
`cpc[c]` are where main, the signal goroutine, the hub and the handler of request
`c` are. `mu` is the holder of `hub.mu`, `clients` the map, `chan[c]` the buffered
channel, `pending` what the hub's `range` has left, `done` and `tick` the channels
of the `select`. A delta is known by its number. `conn[c]` is the connection, whose
closing cancels the request's context.

- `SampleCalled` and `SampleTaken` split each use of the Sampler in two: reading
  `s.sub` and letting IOReport use the dictionary. Between them, and before them,
  main may run `ReleaseChannels` and `ClearSub`. The race on `s.sub` is the choice
  between the old pointer and nil; use of a released dictionary is the choice
  between going on and a crash. The ghost `misuse` remembers both, and the panic of
  `NewTicker` on an interval that is not positive. `SafeWhileServing` says that there
  is none before the server has returned, but for that panic.
- A handler that is in `write` is inside `Fprintf` or `Flush`. `WriteDelivered`
  happens when the peer has read enough, so that it may never happen; `WriteFails`
  when the connection is closed. Both go back to the loop, since the code ignores
  the error.
- `Listen`, `AcceptFails` and `ServeReturns` are the three ways through
  `ListenAndServe`: a bind error, an accept error and `ErrServerClosed`. A
  connection that the accept loop took just before the listener was closed is
  still served (`Request`).
- `MaxPublished` bounds the deltas: the hub takes no further tick after so many.

`Feed` knows no hub, mutex or queue. Deltas are numbered; a subscriber is handed
an increasing selection of those published after it subscribed, and the first
`Window` without a gap. `Hub` implements it with `received <- delivered` and
`status` read off the handler's place. The step that subscribes is the insertion in
the map; a write is a delivery; a fan-out is a publication.

### Sampler

`live[k]` counts the objects of kind `k` (the channel dictionaries, the mutable
copy, subscription, subsystem dictionary, raw samples, deltas, iterator, service,
properties, keys). One action is one C call that creates or consumes an object,
with a disjunct for its failure. `OpenDictionary`, `MakeKey`, `GetValue` and
`ReturnInfo` are the nine lookups of `ReadDeviceInfo` through the accessors of
`cf.go`: `field` is the property that is read, two keys wait for the deferred
releases, one more lives for a lookup. The values are left out, and so are the keys
of other functions, which live within a step. One failure is checked nowhere: a key
that CFStringCreateWithCString could not make is NULL (`cf.go:66-69`), and
CoreFoundation ends the process that uses it. `NullKey` is that, wherever a key is
made, and the place "null" it leads to is the exception that `CallsUseLiveObjects`
names: at no other place does a call meet an object that is not there.

`energy` is the machine's counter and runs on between any two steps; a sample
is known by the value it read. `windows` are the energy windows of the deltas
returned, `halves` counts the Stops that had only one of their two samples. That
case leaks one raw sample (`sampler.go:57-59`), and `Close` leaves two of the three
objects of a subscription. `Balanced` says that there is no other leak and exactly
how large these are.

### Loader

`frames[c]` is the stack of load functions that caller `c` is in, each at its
handle check, its `Dlopen` or its n-th `RegisterLibFunc`. Main calls `NewSampler`,
again after an error; readers call `ReadDeviceInfo` once there is a Sampler, which
is what the two programs do. A missing symbol panics.

### Stats and Names

The variables `curr` and `raw` of `Stats` are the two lists that `extractChannels`
builds in `Stop`, of the second sample and of the delta of the two samples. Each step
adds a channel to both, so that an invariant speaks of every list in every order. What
IOReport makes of a pair of samples is not in this code: a channel comes as a pair
(`Readings`) of what the second sample and what the delta say of it. The temperature
is read from the first list, everything else from the second. `delta`, `stats` and
`reports` are what `Stop`, `ComputeStats` and `ReportMetrics` make of the lists, through
operators with the names of the code. Percentages and watts are fractions.

What the code asks of a name is asked of constants here: `ANENames` and `GPUNames` are
the names that `containsANE` accepts, and those that start with GPU; `BucketPct(name)`
is what `parseFloat` makes of the name of a histogram bucket, in parts of a percent
(`PctUnit`), any natural number. `Names` has the algorithms themselves, and the instance
of run `stats` takes `BucketPct` from its `ParseFloat`. The variable of `Names` is
a name (`spelled`) that grows by a character per step, from `Blank` by `Spell`. The
alphabet is a parameter, with the kinds of characters that ASCII has apart
(`AlphabetAssumption`).

`Lists` has what the loops of these modules and of `Refresh` come down to: a running
total (`SumOf`), a filter (`Keep`), the first element of a kind, the highest figure.
It uses the folds of the community modules and neither RECURSIVE nor `SelectSeq`, so
that the lemmas can be about it.

### Display and Page

Two more operators per figure: `Display` has those of `cmd/aneperf/main.go` that need
no memory (energy rows, cluster line, histogram, throttle detail), and `Page` those
that `index.html` computes in JavaScript, whose own parser is the constant `PagePct`.
Their properties relate the implementations on every list of channels: `PeakIsOnTop`,
and three that join a part about the terminal to a part about the page. `EnergyAddsUp`
is `EnergyRowsAddUp` and `CardsAddUp`, `FiguresAgree` is `TerminalAgrees` and
`PageAgrees`, `NothingHidden` is `ReasonsAreShown` and `BusyGPUHasCard`.

Both programs sort the energy rows and show no more than four (`MaxRows`).
`Cuts(nj)` are the sets of rows that may be left of rows with the energies `nj`; which
of equals is first is left open. `EnergyAddsUp` does not say that the rows on the
screen add up to the power above them, since they need not: it says that what is
missing is the energy of the rows that were cut, of which none has more than a row
that is shown, and that nothing is missing when none was cut.

The bar of the GPU on the terminal is not in `Display`: it is made of smoothed
residencies, and so it is in `Refresh`.

### Live and Refresh

`Live` is the one goroutine of `cmd/aneperf` with signals and ticks from outside.
The deferred calls are steps of their own (`LeaveLiveScreen`, `SignalStop`,
`Close`), taken on the normal way out and by a panic, of `NewTicker` or of
`sparkline` on a negative power. Of the two power histories, which are treated
alike, one is modelled; deltas are numbered modulo `Cycle`.

In `Refresh` one step is one refresh (`printLive`), in which each channel may be
absent, have no states, or have any of its readings. `samples` is both smoothing
windows, `history` is `channelHistory` with the keys of all sections, `rows` is what
the screen shows (without order, the cut to eight rows and the wording). The ghosts
`seen` and `past` are what each channel itself had, kept without windows, keys or
sections; the properties compare the code's memory with them. `GPUBar` is the figure
beside "GPU Active", computed from what `smooth` returns. While the GPU's load changes
it is another figure than the `GPUActivePct` of the library and the page;
`GPUBarIsRecent` says how far it may be: among the last `Limit` samples of its channel
one was no more active than the bar says, and one no less.

### Dashboard

`link` is the state of the `EventSource`, `conn` the number of its connection, each
of which is one subscriber of `Feed` (`Server == INSTANCE Feed WITH Subscribers <-
Conns`, whose actions are conjuncts of the actions here). `tasks` is what the
browser has queued for the page, `power` and `channels` are histories kept in refs,
`delta` and `connected` the hooks, `screen` what the last render drew. `Lose` may
happen at any time and discards what was on the way, not what is queued;
the server may notice later (`Leave`) or go on writing to a connection that is gone
(`Deliver`). Since `handleStream` flushes its header with the first delta, the
"open" event comes with that delta. The ghosts `current` and `handled` are the
connection whose events the page is handling and how many of its deltas it had.
The two properties on reconnection are about `Dashboard` and `Feed` together; that
the server process is such a `Feed` is the refinement checked in `hub_one`.

## 3. Runs

| Run | Question | Instance, and why it is enough |
|---|---|---|
| `hub_two` | Do two browsers, the hub, main and the signal goroutine get in each other's way? Types, `MapAccessExclusive`, `RegisteredHaveHandlers`, `SafeWhileServing` | two handlers are the least that contend with each other and with the hub for the mutex; capacity 1 and two deltas fill a channel; interval 0 panics. Symmetric in the browsers |
| `hub_one` | Is the stream right? `StreamOrdered`, `NoEarlyLoss`, refinement `ImplementsFeed` | capacity 2 and four deltas: a channel that fills, drops, drains and fills again, with two queued so that order shows |
| `hub_live` | Does everything that must happen happen? `HubNeverBlocked`, `ShutdownCompletes`, `DisconnectReleases`, `QueuedIsDelivered` | capacity 1 and two deltas: a peer that never reads fills the channel |
| `sampler` | Ownership and windows: `CallsUseLiveObjects`, `Balanced`, `WindowsDisjoint` | three groups, one of them only found by discovery; all nine lookups of `ReadDeviceInfo`; any key may be NULL; four measurements allow a half-failed Stop between good ones; the counter runs to 3 |
| `loader` | `LoadedMeansRegistered`, and that readers only read | the code's own numbers of functions (13, 6, 15), the hub and two handlers as readers |
| `stats` | `PercentagesInRange`, `SameReversed`, `TemperatureFromSample`, `IdleShowsIdle`, `BusyIsSeen`, `PeakIsOnTop`, `EnergyAddsUp`, `FiguresAgree`, `NothingHidden` | every list of up to three of 32 channels: each category running, idle and empty, and three at once for the firsts, sums and maxima. Counters and temperatures differ between sample and delta; two rows are shown (`MaxRows`), so that three channels are cut; buckets are named 0%, 12.5%, 45% and 100%, in tenths of a percent (`PctUnit`) |
| `stats_rate` (violation) | Does the interrupt rate count interrupts only? No | two channels |
| `names` | `ANEStartsAWord`, `SanitizedForm`, `ParsesNumbers` | every name of up to five of seven characters: three letters and one on each side |
| `live` | `CleanExit`, `HistoryIsRecent`, `CtrlCStops` | history of two over numbers modulo five |
| `refresh` | `SmoothedIsRecent`, `GPUBarIsRecent`, `ActivityStaysVisible`, `IdleRowsDisappear` | a channel for each section, of one name wherever two sections could mix them up, window and history of two: activity leaves the window and then the history. In a sample all but one are quiet or all but one busy; the sequence of samples is unbounded |
| `refresh_names` (violation) | Is a history that of one channel? Not if two have one name: `HistoryIsPerChannel` | two bandwidth channels of one name in two subgroups, busy or quiet |
| `dashboard` | `HistoriesInOrder`, `NoGapSinceConnected`, `ChartEndsAtDelta`, `DotIsRight`, `LostIsShown` | two connections and four deltas, histories of two: deltas before, between and after the connections, more of them than a history holds |

Deadlock is checked in every run; a process that has ended stutters (`Ended`), and
so does an instance at its bound (`Quiet` in `Dashboard`).

### Fairness

`Hub!FairSpec`: weak fairness of main, the signal goroutine, the hub, the timer and
each handler, which is what the Go scheduler and runtime timers give. Strong
fairness in two places. `select` picks at random among its ready cases, so `done`
(hub) and `ctx.Done` (handler) are taken in the end though other cases are ready
too. `sync.Mutex` hands itself to a waiter that waited for over 1 ms, so each waiter
gets it. Nothing is assumed of the peers: `WriteDelivered`, `Disconnect` and
`Interrupt` have no fairness, and `QueuedIsDelivered` has the peer's part as its
antecedent. `Live!FairSpec`: the goroutine runs, and `select` takes the signal in
the end. `Dashboard!FairSpec`: the browser runs the tasks it has queued and renders
when a hook has changed; nothing is assumed of the server or the network.

## 4. What disagrees with the documentation

Shown by runs, and listed as findings in `PROJECT.json`:

- `refresh_names`: "channelHistory tracks per-channel scalar histories"
  (`cmd/aneperf/main.go:120`), but two bandwidth channels of one name in two
  subgroups append to one history (`cmd/aneperf/main.go:575`).
- `stats_rate`: `InterruptRate`, "interrupts/sec", sums handler times as well.

Seen in the source while modelling, with no run spent on them:

- On shutdown `sampler.Close` runs while the hub may be inside `Stop` or `Start`, or
  about to enter it, with nobody waiting for the hub (`cmd/aneperfweb/main.go:53`,
  `160-167`). The process is on its way out, but may end in a panic or a crash instead
  of exit 0. `--interval 0` panics in the hub (`cmd/aneperfweb/main.go:156`).
- A key that CoreFoundation could not make is used and released unchecked
  (`cf.go:92-93`, `iokit.go:92-93`, `109-110`).
- The page shows four energy rows without a note of the others (`index.html:547`,
  `666`); the terminal says how many there are.
- `parseFloat` of the library reads every digit of a name and no sign or exponent, that
  of a browser a number at its start: they differ on names such as "-5%", "5e1%" or
  "P1 50%", and on a bucket named over 100% both give more than 100
  (`stats.go:202-222`, `index.html:210-211`). The documentation of the buckets knows
  "0%" to "100%" only (`doc.go:65-66`).
- The terminal's "GPU Active" bar is smoothed over four samples, the page's figure and
  the library's `GPUActivePct` are not (`cmd/aneperf/main.go:177`, `220`).
- `Close` "releases the sampler's IOReport subscription resources"
  (`sampler.go:33`) but releases one of three objects; `Balanced` counts the two.
- `ComputeStats` falls back to the voltage states whenever the CE histogram says
  0%, not only when there is none (`stats.go:27`; `cmd/aneperf/main.go:217`).
- Benchmarks print the last ANE energy channel of a unit, not the "total ANE
  energy" (`types.go:93`, `120`); any PMP counter with an ANE name is reported as
  throttle events (`types.go:95`, `148`); `ReportMetrics` without arguments reports
  no interrupts, which `README.md:101` lists.
- Of two such channels a row with data hides the idle row of the other
  (`cmd/aneperf/main.go:592`). Run `refresh` has one channel of a name per section, and
  `NamesDiffer` is a hypothesis of two theorems.
- A voltage channel without a VMIN state is recorded as 100% active in its history
  (`cmd/aneperf/main.go:469`), and as nothing by `ComputeStats` (`stats.go:86-109`).
  `TerminalAgrees` therefore speaks of channels that have one.
- The energy rows of the terminal divide by the nominal interval and the power in the
  heading by the measured one (`cmd/aneperf/main.go:236`, `sampler.go:69-72`).
  `EnergyRowsAddUp` compares the energies.
- The page records histories "so past activity remains visible when idle"
  (`index.html:396`), but a voltage or bandwidth channel that is idle now has no row
  to draw its history in (`index.html:708`, `770-775`).
- With a GPU temperature and no other GPU channel neither program shows it
  (`cmd/aneperf/main.go:968-970`, `index.html:469`).

## 5. Proofs

Each theorem holds for every value of the module's constants that its named
assumptions allow: any number of browsers, readers, connections or channels, any
capacity or length, every bound. Each inductive invariant was checked by TLC on the
instance of the module's run before it was proved.

| Module | Theorem | Property |
|---|---|---|
| `HubProofs` | `TypeCorrect` | `TypeOK`, with no channel over its capacity |
| | `SafeServing` | `SafeWhileServing` |
| | `MapExclusive` | `MapAccessExclusive` |
| | `RegisteredCorrect` | `RegisteredHaveHandlers` |
| | `StreamCorrect` | `StreamOrdered` |
| | `EarlyCorrect` | `NoEarlyLoss` |
| | `FeedImplemented` | `ImplementsFeed`, the refinement of `Feed` |
| `SamplerProofs` | `CallsCorrect`, `BalancedCorrect`, `WindowsCorrect` | `CallsUseLiveObjects`, `Balanced`, `WindowsDisjoint` |
| `LoaderProofs` | `LoadedCorrect` | `LoadedMeansRegistered` |
| | `ReadersCorrect` | `ReadersOnlyRead`, an action property |
| `LiveProofs` | `ExitIsClean`, `HistoryCorrect` | `CleanExit`, `HistoryIsRecent` |
| `RefreshProofs` | `SmoothedCorrect` | `SmoothedIsRecent` |
| | `VisibleCorrect` | `ActivityStaysVisible` |
| | `DisappearCorrect` | `IdleRowsDisappear` |
| `StatsProofs` | `PercentagesHold`, `TemperatureHolds` | `PercentagesInRange`, `TemperatureFromSample` |
| | `SameReversedHolds` | `SameReversed` |
| | `BusyIsSeenHolds`, `IdleShowsIdleHolds` | `BusyIsSeen`, `IdleShowsIdle` |
| | `PeakIsOnTopHolds` | `PeakIsOnTop`, of `Display` |
| | `EnergyAddsUpHolds`, `FiguresAgreeHolds`, `NothingHiddenHolds` | `EnergyAddsUp`, `FiguresAgree`, `NothingHidden`, of `Display` and `Page` together |
| | `ANEStartsAWordHolds`, `SanitizedFormHolds`, `ParsesNumbersHolds` | `ANEStartsAWord`, `SanitizedForm`, `ParsesNumbers`, of `Names` |
| `DashboardProofs` | `HistoriesCorrect`, `NoGapCorrect`, `ChartCorrect`, `DotCorrect` | `HistoriesInOrder`, `NoGapSinceConnected`, `ChartEndsAtDelta`, `DotIsRight` |

### The arguments

**HubProofs**, from a capacity above zero, natural numbers for intervals and bound,
and clients that are not the two other values of `mu`. The first five theorems have
the inductive invariant `TypeOK /\ ServingInv /\ LockInv /\ RegisteredHaveHandlers
/\ StreamInv`.

- `ServingInv` strengthens `SafeWhileServing`. "No misuse while serving" is not
  inductive; what is, is that before main has released anything `sub` is still live,
  or main has not built it and nobody was started who could use it.
- `LockInv` says who holds `mu`: the hub exactly in its `send` loop, a handler
  exactly while adding or removing. Exclusion follows from one holder.
- `RegisteredHaveHandlers` is inductive by itself once the types are known.
- `StreamInv` adds to `StreamOrdered` what its steps need. The stream is cut in
  three, the part delivered, the part held by the handler and the part queued: each
  is increasing, each comes before the next, and all lie between `since[c]` and
  `published`. A request that has not joined has nothing. The hub's range loop
  visits registered clients only and only inside `send`, and a client that is still
  pending has nothing of the current number, so that appending `published` keeps
  its stream increasing. The lemmas `Joined`, `Split` and `Appended` say what
  happens to increasing sequences that are joined, cut or appended to.
- `EarlyInv` is `NoEarlyLoss` position by position. With the above it is inductive:
  a channel cannot be full before `ChanCap` deltas went through it, so the first
  drop comes after them.
- The refinement goes through the step lemmas one action at a time: each is an
  action of `Feed` or leaves `Feed`'s variables alone. It needs one more invariant,
  `HeldInv` (a handler holds one delta exactly while it writes it), and `EarlyInv`,
  since `Feed` promises the first deltas without a gap.

**SamplerProofs**, for any finite set of groups that has the default ones. `Balanced`
says what exists when the caller has control; `Account` says it at every statement,
kind by kind: a sum of what the place, the flags and the Snapshot stand for. `Phase`
says which samples there are at each place, and `Clock` that the counter has passed
all that was read from it, from which `WindowsDisjoint` follows.

**LoaderProofs**, for any number of readers and of functions in each library. A set
handle says nothing, as it is set first. `MainInv` lists the ten shapes that the
stack of load calls of `NewSampler` can have, and what is loaded in each; a reader is
never deeper than its first check, because main has loaded everything before a
reader runs.

**LiveProofs**, for every set of intervals and every length of the history.
`StretchInv` says what is in force at each statement: os.Interrupt is caught on a
wider stretch than the one in which the screen is the alternate one, and the Sampler
is closed before "exit" is reached. `HistoryInv` says how many deltas were taken
after each entry of the history.

**RefreshProofs**, for any list of channels, any samples, any window and any length of
the histories. The windows equal the ghosts (`WindowInv`), for all channels. The sections record one
channel after the other, a fold over the list: `RecordAllSteps` takes the fold apart
into single calls of `recordHistory`, and `RecordedSoFar` says what the map holds
after the first k of them. This and the rows need `NamesDiffer`, that no two
channels of a category have one name. It is a hypothesis of the theorems and not an
assumption of the module, since IOReport does not promise it: without it the
histories do get mixed, as run `refresh_names` shows. The instance of run `refresh`
satisfies it.

`DisappearCorrect` joins the two memories. A row with data is there because of the
residencies of now and goes away because of the histories: what makes a section show a
channel must be recorded for it above the threshold of `hasHistorySignal`. This needs the
arithmetic of each section (`VoltageSignals`, `BandwidthSignals`, `RateSignals`), sums
over the states of a channel, and that the window holds only what samples gave the
channel (`ReadingsInv`). Two more hypotheses, of which each is needed.
`BandwidthNamesAreRates`: a channel that spends its time in two states that are no
rates has none above 90%, is shown, and records an average of zero. `IntervalIsShort`:
one event in 1000 seconds is at the threshold.

**StatsProofs**, for any set of channels and lists of any length. A step only adds a
channel and derives the figures anew, so that the inductive invariant (`Derived`) says
no more than which list each figure is made of, and the bound `MaxChannels` plays no
part in it. The work is in the lemmas: what a loop over any list of channels or states
returns. Where the code filters and then adds, the sum of a filtered list is the sum
of the whole with zeros for what is dropped (`SumOfKept`), and so does not depend on
the order (`SumOfReverse`) and is positive if one channel's part is (`SumOfNats`).
Where two loops compute one figure, both are brought to the same sum (`FiguresAgree`,
`EnergyAddsUp`), and where one takes the first channel of a kind, so does the other
(`KeepFirst`). Five theorems have hypotheses on the machine, which are not assumptions
of the modules since the other theorems do not need them and IOReport promises none:

- `StatesNamedOnce`: a channel lists a state once. Of two VMIN or ACT states the library
  and the page count the last one, and the cluster line shows both.
- `EnergyNotTakenBack`: no energy counter runs backwards. The library adds negative
  energies, so that two channels could cancel out; the page leaves out their rows.
- `EnergyNamesApart`: no name is both the ANE's and the GPU's, or the energy would count
  twice; and no energy channel is the ANE's by its subgroup only, or it would have a row
  on the terminal and be in neither power.
- `BucketsArePercentages`: no bucket of the compute histogram is named over 100%, or
  the mean over them could be over 100 (`ComputeActiveWithin`).
- `BucketsReadAlike`: the two parsers read the names of those buckets alike. That they
  do is not proved: JavaScript's parser is outside the code, and section 4 has names on
  which they differ.
- `FewStates`: a histogram has at most 200 buckets. In one with more, the largest can be
  under the 0.5% below which no bar is drawn, so that the peak of the heading has none.

The energies take one more lemma, `CutAccounts`: of rows that add up to a power, what a
cut of the sorted rows leaves out is the sum of those not shown (`SumsAdd`), each no more
than any row shown (`SumLeq`, with the number of rows as a sum of ones, `SizeAsSum`).

`MCStats` has each of the hypotheses as an ASSUME: the instance of run `stats` satisfies them.

The theorems about `Names` are in the same module, for any alphabet that
`AlphabetAssumption` allows and names of any length; `MaxLen` plays no part in them.
A step appends a character, and so are `WrittenWell` and `ReadWell` proved: what the
loop has written or read of a name (`WriteAppend`, `ReadAppend`), with the filter that
the property compares it to (`KeepAppend`). `WrittenWell` says of the hyphens that
only the last can be without a successor, and that `prevHyphen` is exactly that or
that nothing is written; cutting it gives `SanitizedForm`. `ReadWell` has the fraction
between the whole part and the next number, and the denominator 1 until there is a
dot, so that the first dot starts with equality. `ANEStartsAWord` needs no induction:
the word ends at the greatest index up to which there are only letters (`WordEnds`).

**DashboardProofs**, for any number of connections and deltas, any channels and any
length of the histories. Of the page's state alone nothing is inductive, because
events of a lost connection are still queued. `OrderInv` says that every queued delta
is newer than the handled ones and not newer than what the browser can have;
`HistoryInv` then keeps the histories in order, each ending with the delta on
display. `StreamInv` labels each queued task with its connection and its place
there, consecutive within a connection, so that a gap could only come from the
server, which promises none (`FeedInv`, the promise of `Feed`); `RecentInv` carries
this to the histories. `DotInv` says that the last queued task leaves the dot right.

**FoldLemmas**. The provers cannot instantiate the library's induction theorems, whose
parameter is an operator. `RangeInduction` is induction for a set of numbers instead,
derived from the library's fact that strict inclusion is well-founded on finite
sets. `FoldExists` uses it to show that the equation which defines `FoldLeft` has a
solution, so that a fold over a list takes its steps one by one. On it rest the lemmas
about sums, filters, highest figures, reversal and concatenation of lists;
`FollowsAppend` says that a loop over one element more takes one step more;
`SubsetInduction` does the same for sums over a finite set (`SumFunction`).

### Only model-checked

- `GPUBarIsRecent`, which needs that a quotient of sums lies between the quotients of
  the parts.
- Liveness (`ShutdownCompletes`, `HubNeverBlocked`, `DisconnectReleases`,
  `QueuedIsDelivered`, `CtrlCStops`, `LostIsShown`): the prover has neither fairness
  nor ENABLED.

## 6. Not modelled

- Layout, wording and colours of both programs, the order of rows, and the limits on
  rows other than those of energies; `webURL`,
  `handleIndex`, `init`, which pick a file or a text.
- `cmd/aneperf/main.go:298-345`, which repeats functions of `stats.go` and is called
  by nothing.
- What the CoreFoundation accessors copy: types that do not match, and names of more
  than 255 bytes, which become empty (`cf.go:71-84`).
- HTTP keep-alive, TLS and the inside of net/http, beyond accept, close and cancel;
  an HTTP error on which an `EventSource` gives up for good, which `handleStream`
  gives only to a writer that cannot flush; a peer that vanishes without closing.
- The page's request for `/api/device`, whose answer is used until a delta has one.
- Signals other than os.Interrupt, but for SIGTERM in `Live`, which leaves the
  terminal in the alternate screen.
- Floating-point rounding: fractions are exact.
- `testworkload`.

## 7. Plan

Done: all modules of section 2, the runs of section 3 and the proofs of section 5.
Next: a proof of `GPUBarIsRecent`, and what the cut to eight rows of a section with
memory leaves visible.
