--------------------------------- MODULE Live ---------------------------------
(***************************************************************************)
(* The terminal program, cmd/aneperf/main.go: main, run, runOnce (--json)  *)
(* and runLive with its deferred calls, Ctrl-C and the terminal's state.   *)
(* There is one goroutine; signals and ticks come from outside at any      *)
(* moment.  What printLive computes is in Stats, Display and Refresh.      *)
(***************************************************************************)
EXTENDS Naturals, Sequences

CONSTANTS
    Intervals,      \* values the --interval flag may have
    HistoryLen,     \* historyLen, 38 in the code
    Cycle           \* deltas are numbered modulo Cycle, to bound the numbers

ASSUME LiveAssumption ==
    Intervals \subseteq Nat /\ HistoryLen \in Nat \ {0} /\ Cycle \in Nat /\ Cycle > HistoryLen

VARIABLES
    proc,       \* "running", or how the process ended
    pc,         \* the statement run() is at
    interval, json,     \* the flags
    panicking,  \* is a panic unwinding the deferred calls?
    failed,     \* does run() return an error?
    handled, sig,       \* os.Interrupt is sent to sig?  is one waiting in it?
    screen,     \* "normal", or "alternate" with the cursor hidden
    tick,       \* is one waiting in ticker.C?
    sampler,    \* "none", "open" or "closed"
    taken,      \* number of the last delta
    powerHistory        \* the deltas whose power is still shown

vars == <<proc, pc, interval, json, panicking, failed, handled, sig, screen, tick,
          sampler, taken, powerHistory>>

Init ==
    /\ proc = "running" /\ pc = "new"
    /\ interval \in Intervals /\ json \in BOOLEAN
    /\ panicking = FALSE /\ failed = FALSE
    /\ handled = FALSE /\ sig = FALSE
    /\ screen = "normal"
    /\ tick = FALSE
    /\ sampler = "none"
    /\ taken = 0 /\ powerHistory = <<>>

At(l) == proc = "running" /\ pc = l
GoTo(l) == pc' = l

flags == <<interval, json>>
signals == <<handled, sig>>
data == <<taken, powerHistory>>

NewSampler ==
    /\ At("new")
    /\ \/ sampler' = "open" /\ GoTo(IF json THEN "once" ELSE "notify") /\ UNCHANGED failed
       \/ failed' = TRUE /\ GoTo("exit") /\ UNCHANGED sampler
    /\ UNCHANGED <<proc, flags, panicking, signals, screen, tick, data>>

\* runOnce: one Sample, encoded to stdout; an error of either is returned.
RunOnce ==
    /\ At("once")
    /\ failed' \in BOOLEAN
    /\ GoTo("close")
    /\ UNCHANGED <<proc, flags, panicking, signals, screen, tick, sampler, data>>

Notify ==
    /\ At("notify")
    /\ handled' = TRUE
    /\ powerHistory' = <<>>
    /\ GoTo("enter")
    /\ UNCHANGED <<proc, flags, panicking, failed, sig, screen, tick, sampler, taken>>

EnterLiveScreen ==
    /\ At("enter")
    /\ screen' = "alternate"
    /\ GoTo("ticker")
    /\ UNCHANGED <<proc, flags, panicking, failed, signals, tick, sampler, data>>

\* The first Start, then NewTicker, which panics unless the interval is positive.
NewTicker ==
    /\ At("ticker")
    /\ IF interval > 0
         THEN GoTo("select") /\ UNCHANGED panicking
         ELSE GoTo("leave") /\ panicking' = TRUE
    /\ UNCHANGED <<proc, flags, failed, signals, screen, tick, sampler, data>>

\* Seeded bug: the signal is looked at only when no tick is waiting.
SelectSignal_AfterTicks ==
    /\ At("select") /\ sig /\ ~tick
    /\ sig' = FALSE
    /\ GoTo("leave")
    /\ UNCHANGED <<proc, flags, panicking, failed, handled, screen, tick, sampler, data>>

SelectSignal ==
    /\ At("select") /\ sig
    /\ sig' = FALSE
    /\ GoTo("leave")
    /\ UNCHANGED <<proc, flags, panicking, failed, handled, screen, tick, sampler, data>>

SelectTick ==
    /\ At("select") /\ tick
    /\ tick' = FALSE
    /\ taken' = (taken + 1) % Cycle
    /\ GoTo("print")
    /\ UNCHANGED <<proc, flags, panicking, failed, signals, screen, sampler, powerHistory>>

\* Seeded bug: the history is cut at the wrong end.
PrintLive_KeepsOldest ==
    /\ At("print")
    /\ powerHistory' = IF Len(powerHistory) < HistoryLen
                         THEN Append(powerHistory, taken) ELSE powerHistory
    /\ GoTo("select")
    /\ UNCHANGED <<proc, flags, panicking, failed, signals, screen, tick, sampler, taken>>

\* sparkline: a negative power beside a positive one makes a negative index.
Sparkline ==
    \/ GoTo("select") /\ UNCHANGED panicking
    \/ GoTo("leave") /\ panicking' = TRUE

\* Stop and Start, the histories cut to their length, printLive.
PrintLive ==
    /\ At("print")
    /\ LET h == Append(powerHistory, taken) IN
       powerHistory' = IF Len(h) > HistoryLen
                         THEN SubSeq(h, Len(h) - HistoryLen + 1, Len(h)) ELSE h
    /\ Sparkline
    /\ UNCHANGED <<proc, flags, failed, signals, screen, tick, sampler, taken>>

\* Seeded bug: the call is not deferred, so that a panic passes it by.
LeaveLiveScreen_NotDeferred ==
    /\ At("leave")
    /\ screen' = IF panicking THEN screen ELSE "normal"
    /\ GoTo("unnotify")
    /\ UNCHANGED <<proc, flags, panicking, failed, signals, tick, sampler, data>>

\* The deferred calls, last first: leaveLiveScreen, signal.Stop, sampler.Close.
LeaveLiveScreen ==
    /\ At("leave")
    /\ screen' = "normal"
    /\ GoTo("unnotify")
    /\ UNCHANGED <<proc, flags, panicking, failed, signals, tick, sampler, data>>

SignalStop ==
    /\ At("unnotify")
    /\ handled' = FALSE
    /\ GoTo("close")
    /\ UNCHANGED <<proc, flags, panicking, failed, sig, screen, tick, sampler, data>>

Close ==
    /\ At("close")
    /\ sampler' = "closed"
    /\ GoTo("exit")
    /\ UNCHANGED <<proc, flags, panicking, failed, signals, screen, tick, data>>

Exit ==
    /\ At("exit")
    /\ proc' = IF panicking THEN "crashed" ELSE IF failed THEN "exit1" ELSE "exit0"
    /\ UNCHANGED <<pc, flags, panicking, failed, signals, screen, tick, sampler, data>>

\* Ctrl-C: by default it kills; a second one is dropped while one is waiting.
Interrupt ==
    /\ proc = "running"
    /\ IF handled THEN ~sig /\ sig' = TRUE /\ UNCHANGED proc
       ELSE proc' = "interrupted" /\ UNCHANGED sig
    /\ UNCHANGED <<pc, flags, panicking, failed, handled, screen, tick, sampler, data>>

\* SIGTERM and the like, which the program leaves to their default action.
Terminate ==
    /\ proc = "running"
    /\ proc' = "terminated"
    /\ UNCHANGED <<pc, flags, panicking, failed, signals, screen, tick, sampler, data>>

Tick ==
    /\ proc = "running" /\ pc \in {"select", "print"} /\ ~tick
    /\ tick' = TRUE
    /\ UNCHANGED <<proc, pc, flags, panicking, failed, signals, screen, sampler, data>>

Ended == proc # "running" /\ UNCHANGED vars

Step ==
    \/ NewSampler \/ RunOnce \/ Notify \/ EnterLiveScreen \/ NewTicker
    \/ SelectSignal \/ SelectTick \/ PrintLive
    \/ LeaveLiveScreen \/ SignalStop \/ Close \/ Exit

Next == Step \/ Interrupt \/ Terminate \/ Tick \/ Ended

Spec == Init /\ [][Next]_vars

\* The goroutine runs on; select picks a ready case at random, so the signal is
\* not passed over for ever.
FairSpec == Spec /\ WF_vars(Step) /\ SF_vars(SelectSignal)

-----------------------------------------------------------------------------
(* Properties.                                                             *)

\* However the process ends, short of a signal it does not handle, it gives the
\* terminal back, and a run() that returns or panics has closed the Sampler it
\* opened: Ctrl-C at any moment, the panic of NewTicker and that of a sparkline
\* included (main.go:71, 132-147, where the order of the calls and the deferred
\* calls matters).
CleanExit ==
    /\ proc \in {"exit0", "exit1", "crashed", "interrupted"} => screen = "normal"
    /\ proc \in {"exit0", "exit1", "crashed"} => sampler # "open"

\* The power history is the last HistoryLen deltas, in order and without a gap,
\* and before there were so many all of them (main.go:136-137, 159-166).
HistoryIsRecent ==
    LET k == Len(powerHistory) IN
    pc = "select" =>
        /\ k <= HistoryLen
        /\ \A i \in 1..k : (powerHistory[i] + k - i) % Cycle = taken
        /\ k < HistoryLen => k = taken

\* "Press Ctrl-C to stop" (main.go:292): a signal that was sent to the program
\* ends it, ticks or no ticks.
CtrlCStops == sig ~> (proc # "running")
=============================================================================
