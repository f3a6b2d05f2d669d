--------------------------------- MODULE Hub ---------------------------------
(***************************************************************************)
(* The web server, cmd/aneperfweb/main.go: the life of one aneperfweb      *)
(* process with all of its goroutines.                                     *)
(*                                                                         *)
(*   main    run(): builds the Sampler, starts the others, sits in         *)
(*           ListenAndServe, closes the Sampler on the way out    (mpc)    *)
(*   signal  the func literal that waits for os.Interrupt         (spc)    *)
(*   hub     hub.run(): samples on every tick and fans out        (hpc)    *)
(*   c       one handleStream call per streaming request     (cpc[c])      *)
(*                                                                         *)
(* A delta is known by the number of the publication it came from.  The    *)
(* Sampler is seen here only through the pointer and the CF object that    *)
(* the goroutines share without a lock; module Sampler has the rest of it. *)
(***************************************************************************)
EXTENDS Naturals, Sequences, FiniteSets

CONSTANTS
    Clients,        \* streaming requests; each one gets a channel of its own
    ChanCap,        \* capacity of that channel (8 in the code)
    Intervals,      \* values the --interval flag may have
    MaxPublished    \* bound: the hub takes no further tick after so many deltas

ASSUME ClientsAssumption == "free" \notin Clients /\ "hub" \notin Clients
ASSUME ChanCapAssumption == ChanCap \in Nat \ {0}
ASSUME IntervalsAssumption == Intervals \subseteq Nat
ASSUME MaxPublishedAssumption == MaxPublished \in Nat

VARIABLES
    proc,       \* "running", or how the process ended
    interval,   \* the --interval flag
    mpc, failed,            \* main: where it is; whether run() returns an error
    server,                 \* the http.Server: "none", "listening", "down"
    spc, sig,               \* signal goroutine; the channel sig (capacity 1)
    sub,                    \* Sampler.sub and the channels dictionary it holds
    misuse,                 \* uses of the Sampler that Go or CF does not allow
    done, tick,             \* hub.done closed?  a tick waiting in ticker.C?
    hpc, pending,           \* hub: where it is; clients its range loop has left
    mu, clients,            \* hub.mu's holder; the registered channels
    published,              \* deltas fanned out so far
    chan,                   \* chan[c]: the channel's content
    cpc, held,              \* handler: where it is; the delta it is writing
    conn,                   \* conn[c]: "none", "open" or "closed"
    delivered, since        \* history: what reached c; published when c joined

mainVars   == <<mpc, failed>>
signalVars == <<spc, sig>>
hubVars    == <<hpc, pending>>
samplerVars == <<sub, misuse>>
clientVars == <<cpc, held, conn, delivered, since>>
fanVars    == <<mu, clients, published, chan, clientVars>>

vars == <<proc, interval, mainVars, server, signalVars, samplerVars, done, tick,
          hubVars, fanVars>>

SystemTypeOK ==
    /\ proc \in {"running", "exit0", "exit1", "killed", "crashed"}
    /\ interval \in Intervals
    /\ mpc \in {"new", "spawn", "notify", "listen", "serve", "release", "clear", "exit"}
    /\ server \in {"none", "listening", "down"}
    /\ spc \in {"none", "wait", "stop", "close", "conns", "end"}
    /\ sub \in {"none", "live", "released", "cleared"}
    /\ misuse \subseteq {"nilSub", "releasedChannels", "badInterval"}
    /\ hpc \in {"none", "start", "startC", "ticker", "select", "stop", "stopC",
                "restart", "restartC", "marshal", "lock", "send", "returned"}
    /\ pending \subseteq Clients

FlagsTypeOK == failed \in BOOLEAN /\ sig \in BOOLEAN /\ done \in BOOLEAN /\ tick \in BOOLEAN

FanTypeOK ==
    /\ mu \in {"free", "hub"} \union Clients
    /\ clients \subseteq Clients
    /\ published \in Nat
    /\ chan \in [Clients -> Seq(Nat)]
    /\ cpc \in [Clients -> {"none", "add", "adding", "loop", "write",
                            "remove", "removing", "returned"}]
    /\ held \in [Clients -> Seq(Nat)]
    /\ conn \in [Clients -> {"none", "open", "closed"}]
    /\ delivered \in [Clients -> Seq(Nat)]
    /\ since \in [Clients -> Nat]

\* A Go channel holds no more than its capacity.
WithinCapacity == \A c \in Clients : Len(chan[c]) <= ChanCap

TypeOK == SystemTypeOK /\ FlagsTypeOK /\ FanTypeOK /\ WithinCapacity

Init ==
    /\ proc = "running"
    /\ interval \in Intervals
    /\ mpc = "new" /\ failed = FALSE
    /\ server = "none"
    /\ spc = "none" /\ sig = FALSE
    /\ sub = "none" /\ misuse = {}
    /\ done = FALSE /\ tick = FALSE
    /\ hpc = "none" /\ pending = {}
    /\ mu = "free" /\ clients = {}
    /\ published = 0
    /\ chan = [c \in Clients |-> <<>>]
    /\ cpc = [c \in Clients |-> "none"]
    /\ held = [c \in Clients |-> <<>>]
    /\ conn = [c \in Clients |-> "none"]
    /\ delivered = [c \in Clients |-> <<>>]
    /\ since = [c \in Clients |-> 0]

-----------------------------------------------------------------------------
(* The main goroutine: run().                                              *)

\* Seeded bug: the error of NewSampler is ignored.
NewSampler_IgnoresError ==
    /\ proc = "running" /\ mpc = "new"
    /\ mpc' = "spawn" /\ sub' \in {"none", "live"}
    /\ UNCHANGED <<proc, interval, failed, server, signalVars, misuse, done, tick, hubVars,
                   fanVars>>

\* An error returns before Close is deferred.
NewSampler ==
    /\ proc = "running" /\ mpc = "new"
    /\ \/ mpc' = "spawn" /\ sub' = "live" /\ UNCHANGED failed
       \/ mpc' = "exit" /\ failed' = TRUE /\ UNCHANGED sub
    /\ UNCHANGED <<proc, interval, server, signalVars, misuse, done, tick, hubVars, fanVars>>

SpawnHub ==
    /\ proc = "running" /\ mpc = "spawn"
    /\ mpc' = "notify"
    /\ hpc' = "start"
    /\ UNCHANGED <<proc, interval, failed, server, signalVars, samplerVars, done, tick,
                   pending, fanVars>>

\* signal.Notify, and the goroutine that waits for the signal.
Notify ==
    /\ proc = "running" /\ mpc = "notify"
    /\ mpc' = "listen"
    /\ spc' = "wait"
    /\ UNCHANGED <<proc, interval, failed, server, sig, samplerVars, done, tick, hubVars, fanVars>>

\* ListenAndServe up to its accept loop.  A server closed before it got here
\* returns ErrServerClosed, which run() does not report; a bind error it does,
\* one that comes after the close as well.
Listen ==
    /\ proc = "running" /\ mpc = "listen"
    /\ \/ server = "none" /\ server' = "listening" /\ mpc' = "serve" /\ UNCHANGED failed
       \/ mpc' = "release" /\ failed' = TRUE /\ UNCHANGED server
       \/ server = "down" /\ mpc' = "release" /\ UNCHANGED <<failed, server>>
    /\ UNCHANGED <<proc, interval, signalVars, samplerVars, done, tick, hubVars, fanVars>>

\* The accept loop of a closed server ends with ErrServerClosed.
ServeReturns ==
    /\ proc = "running" /\ mpc = "serve" /\ server = "down"
    /\ mpc' = "release"
    /\ UNCHANGED <<proc, interval, failed, server, signalVars, samplerVars, done, tick,
                   hubVars, fanVars>>

\* Accept fails for good: run() returns the error, the connections stay.
AcceptFails ==
    /\ proc = "running" /\ mpc = "serve" /\ server = "listening"
    /\ mpc' = "release"
    /\ server' = "down"
    /\ failed' = TRUE
    /\ UNCHANGED <<proc, interval, signalVars, samplerVars, done, tick, hubVars, fanVars>>

\* The two statements of the deferred sampler.Close().
ReleaseChannels ==
    /\ proc = "running" /\ mpc = "release"
    /\ mpc' = "clear"
    /\ sub' = "released"
    /\ UNCHANGED <<proc, interval, failed, server, signalVars, misuse, done, tick, hubVars, fanVars>>

ClearSub ==
    /\ proc = "running" /\ mpc = "clear"
    /\ mpc' = "exit"
    /\ sub' = "cleared"
    /\ UNCHANGED <<proc, interval, failed, server, signalVars, misuse, done, tick, hubVars, fanVars>>

\* main() returns, or calls os.Exit(1): the other goroutines end with it.
Exit ==
    /\ proc = "running" /\ mpc = "exit"
    /\ proc' = IF failed THEN "exit1" ELSE "exit0"
    /\ UNCHANGED <<interval, mainVars, server, signalVars, samplerVars, done, tick, hubVars, fanVars>>

MainStep ==
    \/ NewSampler \/ SpawnHub \/ Notify \/ Listen \/ ServeReturns
    \/ ReleaseChannels \/ ClearSub \/ Exit

-----------------------------------------------------------------------------
(* Ctrl-C and the goroutine that answers it.                               *)

\* Before Notify the default action kills the process; afterwards a second
\* signal finds the channel full and is dropped.
Interrupt ==
    /\ proc = "running"
    /\ IF spc = "none"
         THEN proc' = "killed" /\ UNCHANGED sig
         ELSE sig = FALSE /\ sig' = TRUE /\ UNCHANGED proc
    /\ UNCHANGED <<interval, mainVars, server, spc, samplerVars, done, tick, hubVars, fanVars>>

SigReceive ==
    /\ proc = "running" /\ spc = "wait" /\ sig
    /\ sig' = FALSE
    /\ spc' = "stop"
    /\ UNCHANGED <<proc, interval, mainVars, server, samplerVars, done, tick, hubVars, fanVars>>

\* hub.stop()
HubStop ==
    /\ proc = "running" /\ spc = "stop"
    /\ done' = TRUE
    /\ spc' = "close"
    /\ UNCHANGED <<proc, interval, mainVars, server, sig, samplerVars, tick, hubVars, fanVars>>

\* Seeded bug: the server is left listening.
CloseListeners_Skipped ==
    /\ proc = "running" /\ spc = "close"
    /\ spc' = "conns"
    /\ UNCHANGED <<proc, interval, mainVars, server, sig, samplerVars, done, tick, hubVars,
                   fanVars>>

\* server.Close(): the listeners first, then every connection.
CloseListeners ==
    /\ proc = "running" /\ spc = "close"
    /\ server' = "down"
    /\ spc' = "conns"
    /\ UNCHANGED <<proc, interval, mainVars, sig, samplerVars, done, tick, hubVars, fanVars>>

CloseConns ==
    /\ proc = "running" /\ spc = "conns"
    /\ conn' = [c \in Clients |-> IF conn[c] = "open" THEN "closed" ELSE conn[c]]
    /\ spc' = "end"
    /\ UNCHANGED <<proc, interval, mainVars, server, sig, samplerVars, done, tick, hubVars,
                   mu, clients, published, chan, cpc, held, delivered, since>>

SignalStep == SigReceive \/ HubStop \/ CloseListeners \/ CloseConns

-----------------------------------------------------------------------------
(* The hub goroutine: hub.run().                                           *)

ctlVars == <<interval, mainVars, server, signalVars, sub, done>>

\* s.sub.sample() begins: s.sub is read with no lock.  Once Close has set it to
\* nil the read may still return the old pointer (a data race), or nil, which
\* panics and ends the process.
SampleCalled(from, to) ==
    /\ proc = "running" /\ hpc = from
    /\ \/ /\ hpc' = to
          /\ UNCHANGED <<proc, misuse>>
       \/ /\ sub = "cleared"
          /\ misuse' = misuse \union {"nilSub"}
          /\ proc' = "crashed"
          /\ UNCHANGED hpc
    /\ UNCHANGED <<ctlVars, tick, pending, fanVars>>

\* IOReportCreateSamples reads the channels dictionary.  Reading one that was
\* released is undefined: the call may return or take the process down.
SampleTaken(from, to) ==
    /\ proc = "running" /\ hpc = from
    /\ hpc' = to
    /\ IF sub = "live"
         THEN UNCHANGED <<proc, misuse>>
         ELSE /\ misuse' = misuse \union {"releasedChannels"}
              /\ proc' \in {"running", "crashed"}
    /\ UNCHANGED <<ctlVars, tick, pending, fanVars>>

StartCalled   == SampleCalled("start", "startC")
StartTaken    == SampleTaken("startC", "ticker")
StopCalled    == SampleCalled("stop", "stopC")
StopTaken     == SampleTaken("stopC", "restart")
RestartCalled == SampleCalled("restart", "restartC")
RestartTaken  == SampleTaken("restartC", "marshal")

\* time.NewTicker panics on an interval that is not positive.
NewTicker ==
    /\ proc = "running" /\ hpc = "ticker"
    /\ IF interval > 0
         THEN hpc' = "select" /\ UNCHANGED <<proc, misuse>>
         ELSE /\ misuse' = misuse \union {"badInterval"}
              /\ proc' = "crashed"
              /\ UNCHANGED hpc
    /\ UNCHANGED <<ctlVars, tick, pending, fanVars>>

\* The runtime's timer: a tick that finds the last one unread is dropped.
Tick ==
    /\ proc = "running"
    /\ hpc \notin {"none", "start", "startC", "ticker", "returned"}
    /\ tick = FALSE
    /\ tick' = TRUE
    /\ UNCHANGED <<proc, misuse, ctlVars, hubVars, fanVars>>

SelectDone ==
    /\ proc = "running" /\ hpc = "select" /\ done
    /\ hpc' = "returned"
    /\ UNCHANGED <<proc, misuse, ctlVars, tick, pending, fanVars>>

SelectTick ==
    /\ proc = "running" /\ hpc = "select" /\ tick
    /\ published < MaxPublished
    /\ tick' = FALSE
    /\ hpc' = "stop"
    /\ UNCHANGED <<proc, misuse, ctlVars, pending, fanVars>>

\* json.Marshal; an error skips the fan-out.
Marshal ==
    /\ proc = "running" /\ hpc = "marshal"
    /\ hpc' \in {"lock", "select"}
    /\ UNCHANGED <<proc, misuse, ctlVars, tick, pending, fanVars>>

HubLock ==
    /\ proc = "running" /\ hpc = "lock" /\ mu = "free"
    /\ mu' = "hub"
    /\ published' = published + 1
    /\ pending' = clients
    /\ hpc' = "send"
    /\ UNCHANGED <<proc, misuse, ctlVars, tick, clients, chan, clientVars>>

\* Seeded bugs: the fan-out queues one too many, drops the oldest instead of the
\* newest, or waits for room.
HubSend_Overfull(c) ==
    /\ proc = "running" /\ hpc = "send" /\ c \in pending
    /\ pending' = pending \ {c}
    /\ chan' = IF Len(chan[c]) <= ChanCap
                 THEN [chan EXCEPT ![c] = Append(@, published)] ELSE chan
    /\ UNCHANGED <<proc, misuse, ctlVars, tick, hpc, mu, clients, published, clientVars>>

HubSend_DropsOldest(c) ==
    /\ proc = "running" /\ hpc = "send" /\ c \in pending
    /\ pending' = pending \ {c}
    /\ chan' = [chan EXCEPT ![c] =
                   Append(IF Len(@) < ChanCap THEN @ ELSE Tail(@), published)]
    /\ UNCHANGED <<proc, misuse, ctlVars, tick, hpc, mu, clients, published, clientVars>>

HubSend_Waits(c) ==
    /\ proc = "running" /\ hpc = "send" /\ c \in pending
    /\ Len(chan[c]) < ChanCap
    /\ pending' = pending \ {c}
    /\ chan' = [chan EXCEPT ![c] = Append(@, published)]
    /\ UNCHANGED <<proc, misuse, ctlVars, tick, hpc, mu, clients, published, clientVars>>

\* One turn of the range loop, in any order: a full channel is skipped.
HubSend(c) ==
    /\ proc = "running" /\ hpc = "send" /\ c \in pending
    /\ pending' = pending \ {c}
    /\ chan' = IF Len(chan[c]) < ChanCap
                 THEN [chan EXCEPT ![c] = Append(@, published)]
                 ELSE chan
    /\ UNCHANGED <<proc, misuse, ctlVars, tick, hpc, mu, clients, published, clientVars>>

HubUnlock ==
    /\ proc = "running" /\ hpc = "send" /\ pending = {}
    /\ mu' = "free"
    /\ hpc' = "select"
    /\ UNCHANGED <<proc, misuse, ctlVars, tick, pending, clients, published, chan, clientVars>>

HubStep ==
    \/ StartCalled \/ StartTaken \/ NewTicker \/ SelectDone \/ SelectTick
    \/ StopCalled \/ StopTaken \/ RestartCalled \/ RestartTaken
    \/ Marshal \/ HubLock \/ HubUnlock \/ (\E c \in Clients : HubSend(c))

-----------------------------------------------------------------------------
(* A streaming request: handleStream, addClient, removeClient.             *)

systemVars == <<proc, interval, mainVars, server, signalVars, samplerVars, done, tick, hubVars>>

\* A connection is accepted and its handler started.  The accept loop may still
\* serve one that it took from the listener before Close got to it; server.Close
\* may then have closed the others already.
Request(c) ==
    /\ proc = "running" /\ mpc = "serve" /\ cpc[c] = "none"
    /\ conn' = [conn EXCEPT ![c] = "open"]
    /\ cpc' = [cpc EXCEPT ![c] = "add"]
    /\ UNCHANGED <<systemVars, mu, clients, published, chan, held, delivered, since>>

\* Seeded bug: the mutex is not waited for.
AddLock_Unlocked(c) ==
    /\ proc = "running" /\ cpc[c] = "add"
    /\ cpc' = [cpc EXCEPT ![c] = "adding"]
    /\ UNCHANGED <<systemVars, mu, clients, published, chan, held, conn, delivered, since>>

AddLock(c) ==
    /\ proc = "running" /\ cpc[c] = "add" /\ mu = "free"
    /\ mu' = c
    /\ cpc' = [cpc EXCEPT ![c] = "adding"]
    /\ UNCHANGED <<systemVars, clients, published, chan, held, conn, delivered, since>>

\* Seeded bugs: the unlock is missing; a new browser is sent the last delta at once.
AddUnlock_KeepsLock(c) ==
    /\ proc = "running" /\ cpc[c] = "adding"
    /\ clients' = clients \union {c}
    /\ since' = [since EXCEPT ![c] = published]
    /\ cpc' = [cpc EXCEPT ![c] = "loop"]
    /\ UNCHANGED <<systemVars, mu, published, chan, held, conn, delivered>>

AddUnlock_SendsLast(c) ==
    /\ proc = "running" /\ cpc[c] = "adding"
    /\ clients' = clients \union {c}
    /\ since' = [since EXCEPT ![c] = published]
    /\ chan' = [chan EXCEPT ![c] = IF published > 0 THEN <<published>> ELSE @]
    /\ mu' = "free"
    /\ cpc' = [cpc EXCEPT ![c] = "loop"]
    /\ UNCHANGED <<systemVars, published, held, conn, delivered>>

AddUnlock(c) ==
    /\ proc = "running" /\ cpc[c] = "adding"
    /\ clients' = clients \union {c}
    /\ since' = [since EXCEPT ![c] = published]
    /\ mu' = "free"
    /\ cpc' = [cpc EXCEPT ![c] = "loop"]
    /\ UNCHANGED <<systemVars, published, chan, held, conn, delivered>>

Receive(c) ==
    /\ proc = "running" /\ cpc[c] = "loop" /\ chan[c] # <<>>
    /\ held' = [held EXCEPT ![c] = <<Head(chan[c])>>]
    /\ chan' = [chan EXCEPT ![c] = Tail(@)]
    /\ cpc' = [cpc EXCEPT ![c] = "write"]
    /\ UNCHANGED <<systemVars, mu, clients, published, conn, delivered, since>>

\* Seeded bug: the handler returns after its first delta.
WriteDelivered_Returns(c) ==
    /\ proc = "running" /\ cpc[c] = "write" /\ conn[c] = "open"
    /\ delivered' = [delivered EXCEPT ![c] = @ \o held[c]]
    /\ held' = [held EXCEPT ![c] = <<>>]
    /\ cpc' = [cpc EXCEPT ![c] = "remove"]
    /\ UNCHANGED <<systemVars, mu, clients, published, chan, conn, since>>

\* Fprintf and Flush return: the peer has read enough, or is gone, in which
\* case the error is ignored and the loop goes on.
WriteDelivered(c) ==
    /\ proc = "running" /\ cpc[c] = "write" /\ conn[c] = "open"
    /\ delivered' = [delivered EXCEPT ![c] = @ \o held[c]]
    /\ held' = [held EXCEPT ![c] = <<>>]
    /\ cpc' = [cpc EXCEPT ![c] = "loop"]
    /\ UNCHANGED <<systemVars, mu, clients, published, chan, conn, since>>

WriteFails(c) ==
    /\ proc = "running" /\ cpc[c] = "write" /\ conn[c] = "closed"
    /\ held' = [held EXCEPT ![c] = <<>>]
    /\ cpc' = [cpc EXCEPT ![c] = "loop"]
    /\ UNCHANGED <<systemVars, mu, clients, published, chan, conn, delivered, since>>

\* Seeded bug: the deferred removeClient is missing.
ContextDone_NoRemove(c) ==
    /\ proc = "running" /\ cpc[c] = "loop" /\ conn[c] = "closed"
    /\ cpc' = [cpc EXCEPT ![c] = "returned"]
    /\ UNCHANGED <<systemVars, mu, clients, published, chan, held, conn, delivered, since>>

\* The request's context is cancelled when its connection is closed.
ContextDone(c) ==
    /\ proc = "running" /\ cpc[c] = "loop" /\ conn[c] = "closed"
    /\ cpc' = [cpc EXCEPT ![c] = "remove"]
    /\ UNCHANGED <<systemVars, mu, clients, published, chan, held, conn, delivered, since>>

RemoveLock(c) ==
    /\ proc = "running" /\ cpc[c] = "remove" /\ mu = "free"
    /\ mu' = c
    /\ cpc' = [cpc EXCEPT ![c] = "removing"]
    /\ UNCHANGED <<systemVars, clients, published, chan, held, conn, delivered, since>>

RemoveUnlock(c) ==
    /\ proc = "running" /\ cpc[c] = "removing"
    /\ clients' = clients \ {c}
    /\ mu' = "free"
    /\ cpc' = [cpc EXCEPT ![c] = "returned"]
    /\ UNCHANGED <<systemVars, published, chan, held, conn, delivered, since>>

\* The browser goes away.
Disconnect(c) ==
    /\ proc = "running" /\ conn[c] = "open"
    /\ conn' = [conn EXCEPT ![c] = "closed"]
    /\ UNCHANGED <<systemVars, mu, clients, published, chan, cpc, held, delivered, since>>

\* The steps a handler takes without waiting for the peer.
HandlerStep(c) ==
    \/ AddLock(c) \/ AddUnlock(c) \/ Receive(c) \/ WriteFails(c)
    \/ ContextDone(c) \/ RemoveLock(c) \/ RemoveUnlock(c)

-----------------------------------------------------------------------------
\* A process that has ended takes no step.
Ended == proc # "running" /\ UNCHANGED vars

Next ==
    \/ MainStep \/ SignalStep \/ HubStep
    \/ Interrupt \/ Tick \/ AcceptFails
    \/ \E c \in Clients :
          HandlerStep(c) \/ Request(c) \/ WriteDelivered(c) \/ Disconnect(c)
    \/ Ended

Spec == Init /\ [][Next]_vars

(***************************************************************************)
(* Fairness.  The Go scheduler runs every goroutine that can run, and      *)
(* timers fire.  Two places need more: select picks among its ready cases  *)
(* at random, so a case that is ready time and again is picked in the end; *)
(* sync.Mutex hands the lock to a waiter that was passed over for 1 ms.    *)
(* Nothing is assumed of the peers: WriteDelivered may never come.         *)
(***************************************************************************)
Waiting(c) == AddLock(c) \/ ContextDone(c) \/ RemoveLock(c)

Fairness ==
    /\ WF_vars(MainStep)
    /\ WF_vars(SignalStep)
    /\ WF_vars(HubStep)
    /\ WF_vars(Tick)
    /\ SF_vars(SelectDone)
    /\ \A c \in Clients : WF_vars(HandlerStep(c)) /\ SF_vars(Waiting(c))

FairSpec == Spec /\ Fairness

-----------------------------------------------------------------------------
(***************************************************************************)
(* Properties.                                                             *)
(***************************************************************************)

\* What handler c has taken or can still take from its channel, oldest first.
Stream(c) == delivered[c] \o held[c] \o chan[c]

\* hub.clients is a Go map: it is only ever ranged over, inserted into or
\* deleted from by one goroutine at a time (hub.mu, lines 174-182, 190-202).
MapAccessExclusive ==
    \A c \in Clients :
        cpc[c] \in {"adding", "removing"} =>
            /\ hpc # "send"
            /\ \A d \in Clients \ {c} : cpc[d] \notin {"adding", "removing"}

\* A channel is in the hub's map exactly while a handler may still read it: a
\* handler that returned leaves nothing behind for the hub to fill
\* (the deferred removeClient, line 216).
RegisteredHaveHandlers ==
    \A c \in Clients :
        c \in clients <=> cpc[c] \in {"loop", "write", "remove", "removing"}

\* Each browser sees deltas in the order they were published, none twice and
\* none from before it joined, whatever the hub dropped in between.
StreamOrdered ==
    \A c \in Clients : LET s == Stream(c) IN
        /\ \A i \in 1..Len(s) : since[c] < s[i] /\ s[i] <= published
        /\ \A i, j \in 1..Len(s) : i < j => s[i] < s[j]

\* "slow client, drop" (line 179) never touches the first ChanCap deltas after
\* a browser joined: those come without a gap as long as it is connected.
NoEarlyLoss ==
    \A c \in clients : conn[c] = "open" =>
        LET s == Stream(c)
            sent == IF c \in pending THEN published - 1 ELSE published
        IN  /\ \A i \in 1..Len(s) : i <= ChanCap => s[i] = since[c] + i
            /\ Len(s) < ChanCap => since[c] + Len(s) = sent

\* While the server is accepting, the shared Sampler is never called on
\* released resources; only a zero --interval can take the process down.
SafeWhileServing == mpc = "serve" => misuse \subseteq {"badInterval"}

\* The hub is in nobody's hands: with browsers that never read, a round of
\* fan-out that began still comes back to the select (lines 166-182).
HubNeverBlocked ==
    (hpc = "stop") ~> (hpc \in {"select", "returned"} \/ proc # "running")

\* Ctrl-C ends the process, however many browsers are stuck in a write.
ShutdownCompletes == (spc = "stop") ~> (proc # "running")

\* A browser that went away does not stay registered (lines 216, 221-222).
DisconnectReleases ==
    \A c \in Clients :
        (conn[c] = "closed") ~> (cpc[c] = "returned" \/ proc # "running")

\* A delta that was queued reaches a browser that keeps reading and stays: what
\* the peer has to do, finish its reads, is the antecedent (lines 219-226).
QueuedIsDelivered ==
    \A c \in Clients :
        WF_vars(WriteDelivered(c)) =>
            \A n \in 1..MaxPublished :
                (n \in {chan[c][i] : i \in 1..Len(chan[c])}) ~>
                    \/ n \in {delivered[c][i] : i \in 1..Len(delivered[c])}
                    \/ conn[c] = "closed"
                    \/ proc # "running"

\* The server implements the feed: a handler is subscribed from the insertion
\* of its channel to its removal, and receives what reaches the peer.
Feed == INSTANCE Feed WITH
    Subscribers <- Clients,
    Window <- ChanCap,
    status <- [c \in Clients |->
                  IF cpc[c] \in {"none", "add", "adding"} THEN "new"
                  ELSE IF cpc[c] = "returned" THEN "off" ELSE "on"],
    received <- delivered

\* Every step of the server is a step of the feed or leaves it alone.
ImplementsFeed == Feed!Spec
=============================================================================
