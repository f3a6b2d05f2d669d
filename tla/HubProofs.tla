------------------------------ MODULE HubProofs ------------------------------
(***************************************************************************)
(* Proofs about the web server, for any set of clients and any capacity of *)
(* their channels: types, the shared Sampler, the mutex, registration, the *)
(* order of the stream, and that the server implements the abstract Feed.  *)
(*                                                                         *)
(* NoEarlyLoss is inductive once it is known what is registered, pending   *)
(* and queued: a channel cannot be full before ChanCap deltas were sent    *)
(* through it.  The refinement needs one fact more, that a handler holds a *)
(* delta exactly while it writes one.                                      *)
(***************************************************************************)
EXTENDS Hub, Integers, TLAPS

-----------------------------------------------------------------------------
(* The type invariant.                                                     *)

\* Every step but those of the hub and the handlers leaves the fan-out alone.
LEMMA SystemLeavesFan ==
    ASSUME MainStep \/ SigReceive \/ HubStop \/ CloseListeners \/ Interrupt \/ Tick \/ AcceptFails
           \/ Ended
    PROVE  UNCHANGED fanVars
BY DEF MainStep, Interrupt, Tick, AcceptFails, Ended, vars, NewSampler, SpawnHub,
       Notify, Listen, ServeReturns, ReleaseChannels, ClearSub, Exit, SigReceive, HubStop,
       CloseListeners

LEMMA SystemType ==
    ASSUME TypeOK, MainStep \/ SignalStep \/ Interrupt \/ Tick \/ AcceptFails \/ Ended
    PROVE  SystemTypeOK'
<1> USE DEF TypeOK, SystemTypeOK, mainVars, signalVars, hubVars, samplerVars
<1>1. CASE NewSampler    BY <1>1 DEF NewSampler
<1>2. CASE SpawnHub      BY <1>2 DEF SpawnHub
<1>3. CASE Notify        BY <1>3 DEF Notify
<1>4. CASE Listen        BY <1>4 DEF Listen
<1>5. CASE ServeReturns  BY <1>5 DEF ServeReturns
<1>6. CASE ReleaseChannels BY <1>6 DEF ReleaseChannels
<1>7. CASE ClearSub      BY <1>7 DEF ClearSub
<1>8. CASE Exit          BY <1>8 DEF Exit
<1>9. CASE SigReceive    BY <1>9 DEF SigReceive
<1>10. CASE HubStop      BY <1>10 DEF HubStop
<1>11. CASE CloseListeners BY <1>11 DEF CloseListeners
<1>12. CASE CloseConns   BY <1>12 DEF CloseConns
<1>13. CASE Interrupt    BY <1>13 DEF Interrupt
<1>14. CASE Tick         BY <1>14 DEF Tick, ctlVars
<1>15. CASE AcceptFails  BY <1>15 DEF AcceptFails
<1>16. CASE Ended        BY <1>16 DEF Ended, vars
<1> QED
  BY <1>1, <1>2, <1>3, <1>4, <1>5, <1>6, <1>7, <1>8, <1>9, <1>10, <1>11, <1>12, <1>13,
     <1>14, <1>15, <1>16 DEF MainStep, SignalStep

LEMMA FlagsType ==
    ASSUME TypeOK, MainStep \/ SignalStep \/ Interrupt \/ Tick \/ AcceptFails \/ Ended
    PROVE  FlagsTypeOK'
<1> USE DEF TypeOK, FlagsTypeOK, mainVars, signalVars, hubVars, samplerVars
<1>1. CASE NewSampler    BY <1>1 DEF NewSampler
<1>2. CASE SpawnHub      BY <1>2 DEF SpawnHub
<1>3. CASE Notify        BY <1>3 DEF Notify
<1>4. CASE Listen        BY <1>4 DEF Listen
<1>5. CASE ServeReturns  BY <1>5 DEF ServeReturns
<1>6. CASE ReleaseChannels BY <1>6 DEF ReleaseChannels
<1>7. CASE ClearSub      BY <1>7 DEF ClearSub
<1>8. CASE Exit          BY <1>8 DEF Exit
<1>9. CASE SigReceive    BY <1>9 DEF SigReceive
<1>10. CASE HubStop      BY <1>10 DEF HubStop
<1>11. CASE CloseListeners BY <1>11 DEF CloseListeners
<1>12. CASE CloseConns   BY <1>12 DEF CloseConns
<1>13. CASE Interrupt    BY <1>13 DEF Interrupt
<1>14. CASE Tick         BY <1>14 DEF Tick, ctlVars
<1>15. CASE AcceptFails  BY <1>15 DEF AcceptFails
<1>16. CASE Ended        BY <1>16 DEF Ended, vars
<1> QED
  BY <1>1, <1>2, <1>3, <1>4, <1>5, <1>6, <1>7, <1>8, <1>9, <1>10, <1>11, <1>12, <1>13,
     <1>14, <1>15, <1>16 DEF MainStep, SignalStep

\* The parts of hub.run() that sample keep the types.
LEMMA SampleType ==
    ASSUME TypeOK, NEW from, NEW to,
           to \in {"startC", "ticker", "stopC", "restart", "restartC", "marshal"},
           SampleCalled(from, to) \/ SampleTaken(from, to)
    PROVE  SystemTypeOK' /\ FlagsTypeOK'
<1> USE DEF TypeOK, mainVars, signalVars, ctlVars
<1>1. CASE SampleCalled(from, to)
  <2>1. SystemTypeOK'
    <3>1. CASE hpc' = to /\ UNCHANGED <<proc, misuse>>
      BY <1>1, <3>1 DEF SampleCalled, SystemTypeOK
    <3>2. CASE /\ misuse' = misuse \union {"nilSub"}
               /\ proc' = "crashed"
               /\ UNCHANGED hpc
      BY <1>1, <3>2 DEF SampleCalled, SystemTypeOK
    <3> QED  BY <1>1, <3>1, <3>2 DEF SampleCalled
  <2>2. FlagsTypeOK'   BY <1>1 DEF SampleCalled, FlagsTypeOK
  <2> QED  BY <2>1, <2>2
<1>2. CASE SampleTaken(from, to)
  <2>1. SystemTypeOK'  BY <1>2, ZenonT(30) DEF SampleTaken, SystemTypeOK
  <2>2. UNCHANGED <<failed, sig, done, tick>>  BY <1>2 DEF SampleTaken
  <2>3. FlagsTypeOK'   BY <2>2 DEF FlagsTypeOK
  <2> QED  BY <2>1, <2>3
<1> QED  BY <1>1, <1>2

\* A step of the hub keeps the types.
LEMMA HubType == ASSUME TypeOK, HubStep PROVE SystemTypeOK' /\ FlagsTypeOK'
<1> USE DEF TypeOK, mainVars, signalVars, ctlVars
<1>1. CASE \/ StartCalled \/ StartTaken \/ StopCalled \/ StopTaken
           \/ RestartCalled \/ RestartTaken
  BY <1>1, SampleType DEF StartCalled, StartTaken, StopCalled, StopTaken, RestartCalled,
                          RestartTaken
<1>2. CASE NewTicker
  <2>1. SystemTypeOK'  BY <1>2 DEF NewTicker, SystemTypeOK
  <2>2. FlagsTypeOK'   BY <1>2 DEF NewTicker, FlagsTypeOK
  <2> QED  BY <2>1, <2>2
<1>3. CASE SelectTick
  <2>1. SystemTypeOK'  BY <1>3 DEF SelectTick, SystemTypeOK
  <2>2. FlagsTypeOK'   BY <1>3 DEF SelectTick, FlagsTypeOK
  <2> QED  BY <2>1, <2>2
<1> USE DEF SystemTypeOK, FlagsTypeOK
<1>4. CASE SelectDone  BY <1>4 DEF SelectDone
<1>5. CASE Marshal     BY <1>5 DEF Marshal
<1>6. CASE HubLock     BY <1>6 DEF HubLock, FanTypeOK
<1>7. CASE HubUnlock   BY <1>7 DEF HubUnlock
<1>8. ASSUME NEW c \in Clients, HubSend(c) PROVE SystemTypeOK' /\ FlagsTypeOK'
  BY <1>8 DEF HubSend
<1> QED
  BY <1>1, <1>2, <1>3, <1>4, <1>5, <1>6, <1>7, <1>8 DEF HubStep

\* The steps of the hub outside its critical section leave the fan-out alone.
LEMMA HubLeavesFan ==
    ASSUME HubStep, ~HubLock, ~HubUnlock, \A c \in Clients : ~HubSend(c)
    PROVE  UNCHANGED fanVars
BY DEF HubStep, StartCalled, StartTaken, StopCalled, StopTaken, RestartCalled, RestartTaken,
       SampleCalled, SampleTaken, NewTicker, SelectDone, SelectTick, Marshal

LEMMA UnchangedFanType ==
    ASSUME TypeOK, UNCHANGED fanVars
    PROVE  FanTypeOK' /\ WithinCapacity'
BY DEF TypeOK, FanTypeOK, WithinCapacity, fanVars, clientVars

LEMMA HubFanType == ASSUME TypeOK, HubStep PROVE FanTypeOK' /\ WithinCapacity'
<1> USE DEF TypeOK, FanTypeOK, clientVars
<1>1. CASE HubLock    BY <1>1 DEF HubLock, WithinCapacity
<1>2. CASE HubUnlock  BY <1>2 DEF HubUnlock, WithinCapacity
<1>3. ASSUME NEW c \in Clients, HubSend(c) PROVE FanTypeOK' /\ WithinCapacity'
  <2>1. CASE Len(chan[c]) < ChanCap
    <3>1. chan' = [chan EXCEPT ![c] = Append(chan[c], published)]
      BY <1>3, <2>1 DEF HubSend
    <3>2. Append(chan[c], published) \in Seq(Nat)
          /\ Len(Append(chan[c], published)) = Len(chan[c]) + 1
      OBVIOUS
    <3>3. FanTypeOK'  BY <1>3, <3>1, <3>2 DEF HubSend
    <3>4. WithinCapacity'
      BY <2>1, <3>1, <3>2, ChanCapAssumption DEF WithinCapacity
    <3> QED  BY <3>3, <3>4
  <2>2. CASE ~(Len(chan[c]) < ChanCap)
    BY <1>3, <2>2 DEF HubSend, WithinCapacity
  <2> QED  BY <2>1, <2>2
<1>4. CASE ~HubLock /\ ~HubUnlock /\ \A c \in Clients : ~HubSend(c)
  BY <1>4, HubLeavesFan, UnchangedFanType
<1> QED  BY <1>1, <1>2, <1>3, <1>4

\* The steps of a streaming request.
RequestStep(c) == HandlerStep(c) \/ Request(c) \/ WriteDelivered(c) \/ Disconnect(c)

LEMMA RequestLeavesSystem ==
    ASSUME NEW c \in Clients, RequestStep(c) PROVE UNCHANGED systemVars
BY DEF RequestStep, HandlerStep, Request, AddLock, AddUnlock, Receive, WriteDelivered,
       WriteFails, ContextDone, RemoveLock, RemoveUnlock, Disconnect

LEMMA UnchangedSystemType ==
    ASSUME TypeOK, UNCHANGED systemVars
    PROVE  SystemTypeOK' /\ FlagsTypeOK'
<1>1. UNCHANGED <<failed, sig, done, tick>>  BY DEF systemVars, mainVars, signalVars
<1>2. FlagsTypeOK'   BY <1>1 DEF TypeOK, FlagsTypeOK
<1>3. SystemTypeOK'
  BY DEF TypeOK, SystemTypeOK, systemVars, mainVars, signalVars, samplerVars, hubVars
<1> QED  BY <1>2, <1>3

LEMMA RequestFanType ==
    ASSUME TypeOK, NEW c \in Clients, RequestStep(c)
    PROVE  FanTypeOK' /\ WithinCapacity'
<1> USE DEF TypeOK, FanTypeOK, WithinCapacity
<1>1. CASE Request(c)       BY <1>1 DEF Request
<1>2. CASE AddLock(c)       BY <1>2 DEF AddLock
<1>3. CASE AddUnlock(c)     BY <1>3 DEF AddUnlock
<1>4. CASE Receive(c)
  <2>1. /\ chan[c] \in Seq(Nat) /\ chan[c] # <<>>
        /\ chan' = [chan EXCEPT ![c] = Tail(chan[c])]
        /\ held' = [held EXCEPT ![c] = <<Head(chan[c])>>]
    BY <1>4 DEF Receive
  <2>2. Tail(chan[c]) \in Seq(Nat) /\ <<Head(chan[c])>> \in Seq(Nat)
    BY <2>1
  <2>3. Len(Tail(chan[c])) = Len(chan[c]) - 1 /\ Len(chan[c]) \in Nat
    BY <2>1
  <2>4. FanTypeOK'  BY <1>4, <2>1, <2>2 DEF Receive
  <2>5. WithinCapacity'
    <3> SUFFICES ASSUME NEW d \in Clients PROVE Len(chan'[d]) <= ChanCap
      OBVIOUS
    <3>1. CASE d = c  BY <2>1, <2>3, <3>1, ChanCapAssumption
    <3>2. CASE d # c  BY <2>1, <3>2
    <3> QED  BY <3>1, <3>2
  <2> QED  BY <2>4, <2>5
<1>5. CASE WriteDelivered(c)
  <2>1. delivered[c] \o held[c] \in Seq(Nat)  OBVIOUS
  <2> QED  BY <1>5, <2>1 DEF WriteDelivered
<1>6. CASE WriteFails(c)    BY <1>6 DEF WriteFails
<1>7. CASE ContextDone(c)   BY <1>7 DEF ContextDone
<1>8. CASE RemoveLock(c)    BY <1>8 DEF RemoveLock
<1>9. CASE RemoveUnlock(c)  BY <1>9 DEF RemoveUnlock
<1>10. CASE Disconnect(c)   BY <1>10 DEF Disconnect
<1> QED
  BY <1>1, <1>2, <1>3, <1>4, <1>5, <1>6, <1>7, <1>8, <1>9, <1>10 DEF RequestStep, HandlerStep

LEMMA CloseConnsType == ASSUME TypeOK, CloseConns PROVE FanTypeOK' /\ WithinCapacity'
BY DEF TypeOK, FanTypeOK, WithinCapacity, CloseConns

\* The steps of Next, one goroutine or outside event at a time.
LEMMA NextCases ==
    ASSUME Next
    PROVE  \/ MainStep \/ SigReceive \/ HubStop \/ CloseListeners \/ Interrupt \/ Tick
              \/ AcceptFails \/ Ended
           \/ CloseConns
           \/ HubStep
           \/ \E c \in Clients : RequestStep(c)
BY DEF Next, SignalStep, RequestStep

LEMMA TypeStep == ASSUME TypeOK, [Next]_vars PROVE TypeOK'
<1>1. CASE MainStep \/ SigReceive \/ HubStop \/ CloseListeners \/ Interrupt \/ Tick
           \/ AcceptFails \/ Ended
  BY <1>1, SystemType, FlagsType, SystemLeavesFan, UnchangedFanType DEF SignalStep, TypeOK
<1>2. CASE CloseConns
  BY <1>2, SystemType, FlagsType, CloseConnsType DEF SignalStep, TypeOK
<1>3. CASE HubStep
  BY <1>3, HubType, HubFanType DEF TypeOK
<1>4. ASSUME NEW c \in Clients, RequestStep(c) PROVE TypeOK'
  BY <1>4, RequestLeavesSystem, UnchangedSystemType, RequestFanType DEF TypeOK
<1>5. CASE UNCHANGED vars
  <2>1. UNCHANGED <<systemVars, fanVars>>  BY <1>5 DEF vars, systemVars
  <2> QED  BY <2>1, UnchangedSystemType, UnchangedFanType DEF TypeOK
<1> QED  BY <1>1, <1>2, <1>3, <1>4, <1>5, NextCases

LEMMA TypeInit == ASSUME Init PROVE TypeOK
<1>1. SystemTypeOK  BY DEF Init, SystemTypeOK
<1>2. FlagsTypeOK
  <2>1. failed = FALSE /\ sig = FALSE /\ done = FALSE /\ tick = FALSE  BY DEF Init
  <2> QED  BY <2>1 DEF FlagsTypeOK
<1>3. FanTypeOK  BY DEF Init, FanTypeOK
<1>4. WithinCapacity  BY ChanCapAssumption DEF Init, WithinCapacity
<1> QED  BY <1>1, <1>2, <1>3, <1>4 DEF TypeOK

\* Every state of the server is well typed, and no channel is over its capacity.
THEOREM TypeCorrect == Spec => []TypeOK
<1>1. Init => TypeOK  BY TypeInit
<1>2. TypeOK /\ [Next]_vars => TypeOK'  BY TypeStep
<1> QED  BY <1>1, <1>2, PTL DEF Spec

-----------------------------------------------------------------------------
(* The Sampler while the server is accepting.                              *)

Early == {"new", "spawn", "notify", "listen", "serve", "release"}

\* Until main's deferred Close the Sampler the hub was given is a live one.
ServingInv ==
    /\ mpc \in {"new", "spawn"} => hpc = "none"
    /\ mpc \in Early \ {"new"} => sub = "live"
    /\ mpc \in Early => misuse \subseteq {"badInterval"}

LEMMA ServingStep == ASSUME TypeOK, ServingInv, [Next]_vars PROVE ServingInv'
<1> USE DEF ServingInv, Early
<1>1. CASE MainStep \/ AcceptFails
  <2> USE DEF mainVars, samplerVars, hubVars
  <2>1. CASE NewSampler    BY <2>1 DEF NewSampler
  <2>2. CASE SpawnHub      BY <2>2 DEF SpawnHub
  <2>3. CASE Notify        BY <2>3 DEF Notify
  <2>4. CASE Listen        BY <2>4 DEF Listen
  <2>5. CASE ServeReturns  BY <2>5 DEF ServeReturns
  <2>6. CASE ReleaseChannels BY <2>6 DEF ReleaseChannels
  <2>7. CASE ClearSub      BY <2>7 DEF ClearSub
  <2>8. CASE Exit          BY <2>8 DEF Exit
  <2>9. CASE AcceptFails   BY <2>9 DEF AcceptFails
  <2> QED  BY <1>1, <2>1, <2>2, <2>3, <2>4, <2>5, <2>6, <2>7, <2>8, <2>9 DEF MainStep
<1>2. CASE HubStep
  <2>1. UNCHANGED <<mpc, sub>>
    BY <1>2 DEF HubStep, StartCalled, StartTaken, StopCalled, StopTaken, RestartCalled,
                RestartTaken, SampleCalled, SampleTaken, NewTicker, SelectDone, SelectTick,
                Marshal, HubLock, HubUnlock, HubSend, ctlVars, mainVars
  <2>2. hpc # "none"
    BY <1>2 DEF HubStep, StartCalled, StartTaken, StopCalled, StopTaken, RestartCalled,
                RestartTaken, SampleCalled, SampleTaken, NewTicker, SelectDone, SelectTick,
                Marshal, HubLock, HubUnlock, HubSend
  <2>3. sub = "live" => misuse' \subseteq misuse \union {"badInterval"}
    BY <1>2 DEF HubStep, StartCalled, StartTaken, StopCalled, StopTaken, RestartCalled,
                RestartTaken, SampleCalled, SampleTaken, NewTicker, SelectDone, SelectTick,
                Marshal, HubLock, HubUnlock, HubSend
  <2> QED  BY <2>1, <2>2, <2>3
<1>3. CASE UNCHANGED <<mpc, sub, misuse, hpc>>
  BY <1>3
<1>4. CASE SignalStep \/ Interrupt \/ Tick \/ Ended \/ UNCHANGED vars
  <2>1. UNCHANGED <<mpc, sub, misuse, hpc>>
    BY <1>4 DEF SignalStep, SigReceive, HubStop, CloseListeners, CloseConns, Interrupt, Tick,
                Ended, vars, ctlVars, mainVars, samplerVars, hubVars
  <2> QED  BY <2>1, <1>3
<1>5. ASSUME NEW c \in Clients, RequestStep(c) PROVE ServingInv'
  <2>1. UNCHANGED <<mpc, sub, misuse, hpc>>
    BY <1>5, RequestLeavesSystem DEF systemVars, mainVars, samplerVars, hubVars
  <2> QED  BY <2>1, <1>3
<1> QED  BY <1>1, <1>2, <1>4, <1>5, NextCases DEF SignalStep

\* While the server is accepting, nothing calls the Sampler on released
\* resources (cmd/aneperfweb/main.go:48-83, 154-184; sampler.go:34-46).
THEOREM SafeServing == Spec => []SafeWhileServing
<1>1. Init => ServingInv
  BY DEF Init, ServingInv, Early
<1>2. TypeOK /\ ServingInv /\ [Next]_vars => ServingInv'
  BY ServingStep
<1>3. ServingInv => SafeWhileServing
  BY DEF ServingInv, Early, SafeWhileServing
<1> QED  BY <1>1, <1>2, <1>3, TypeCorrect, PTL DEF Spec

-----------------------------------------------------------------------------
(* The mutex and the registration.                                         *)

\* hub.mu is held exactly by whoever is in one of its critical sections.
LockInv ==
    /\ mu = "hub" <=> hpc = "send"
    /\ \A c \in Clients : mu = c <=> cpc[c] \in {"adding", "removing"}

\* A step that moves neither the hub in or out of its critical section nor a
\* handler nor the mutex.
LEMMA LockUnchanged ==
    ASSUME LockInv, UNCHANGED <<mu, cpc>>, hpc = "send" <=> hpc' = "send"
    PROVE  LockInv'
BY DEF LockInv

LEMMA LockStep ==
    ASSUME TypeOK, ServingInv, LockInv, [Next]_vars
    PROVE  LockInv'
<1> USE ClientsAssumption
<1>1. CASE MainStep
  <2>1. (hpc' # "send" /\ hpc # "send") \/ UNCHANGED hpc
    BY <1>1 DEF MainStep, NewSampler, SpawnHub, Notify, Listen, ServeReturns, ReleaseChannels,
                ClearSub, Exit, hubVars, ServingInv
  <2> QED  BY <1>1, <2>1, SystemLeavesFan, LockUnchanged DEF fanVars, clientVars
<1>2. CASE SigReceive \/ HubStop \/ CloseListeners \/ Interrupt \/ Tick \/ AcceptFails \/ Ended
           \/ UNCHANGED vars
  <2>1. UNCHANGED <<hpc, fanVars>>
    BY <1>2, SystemLeavesFan DEF SigReceive, HubStop, CloseListeners, Interrupt, Tick,
                                 AcceptFails, Ended, vars, hubVars
  <2> QED  BY <2>1, LockUnchanged DEF fanVars, clientVars
<1>3. CASE CloseConns
  BY <1>3, LockUnchanged DEF CloseConns, hubVars
<1>4. CASE HubStep
  <2>1. CASE HubLock    BY <2>1 DEF HubLock, LockInv, clientVars
  <2>2. CASE HubUnlock  BY <2>2 DEF HubUnlock, LockInv, clientVars
  <2>3. ASSUME NEW c \in Clients, HubSend(c) PROVE LockInv'
    BY <2>3, LockUnchanged DEF HubSend, clientVars
  <2>4. CASE ~HubLock /\ ~HubUnlock /\ \A c \in Clients : ~HubSend(c)
    <3>1. hpc # "send" /\ hpc' # "send"
      BY <1>4, <2>4 DEF HubStep, StartCalled, StartTaken, StopCalled, StopTaken, RestartCalled,
           RestartTaken, SampleCalled, SampleTaken, NewTicker, SelectDone, SelectTick, Marshal
    <3> QED  BY <1>4, <2>4, <3>1, HubLeavesFan, LockUnchanged DEF fanVars, clientVars
  <2> QED  BY <2>1, <2>2, <2>3, <2>4
<1>5. ASSUME NEW c \in Clients, RequestStep(c) PROVE LockInv'
  <2>1. UNCHANGED hpc
    BY <1>5, RequestLeavesSystem DEF systemVars, hubVars
  <2>2. c # "free" /\ c # "hub"
    OBVIOUS
  <2> USE DEF LockInv, TypeOK, FanTypeOK
  <2>3. CASE Request(c)         BY <2>1, <2>3 DEF Request
  <2>4. CASE AddLock(c)         BY <2>1, <2>2, <2>4 DEF AddLock
  <2>5. CASE AddUnlock(c)       BY <2>1, <2>2, <2>5 DEF AddUnlock
  <2>6. CASE Receive(c)         BY <2>1, <2>6 DEF Receive
  <2>7. CASE WriteDelivered(c)  BY <2>1, <2>7 DEF WriteDelivered
  <2>8. CASE WriteFails(c)      BY <2>1, <2>8 DEF WriteFails
  <2>9. CASE ContextDone(c)     BY <2>1, <2>9 DEF ContextDone
  <2>10. CASE RemoveLock(c)     BY <2>1, <2>2, <2>10 DEF RemoveLock
  <2>11. CASE RemoveUnlock(c)   BY <2>1, <2>2, <2>11 DEF RemoveUnlock
  <2>12. CASE Disconnect(c)     BY <2>1, <2>12 DEF Disconnect
  <2> QED  BY <1>5, <2>3, <2>4, <2>5, <2>6, <2>7, <2>8, <2>9, <2>10, <2>11, <2>12
              DEF RequestStep, HandlerStep
<1> QED  BY <1>1, <1>2, <1>3, <1>4, <1>5, NextCases

LEMMA LockInit == ASSUME Init PROVE ServingInv /\ LockInv
BY ClientsAssumption DEF Init, ServingInv, Early, LockInv

LEMMA LockCorrect == Spec => [](TypeOK /\ ServingInv /\ LockInv)
<1>1. Init => TypeOK /\ ServingInv /\ LockInv
  BY TypeInit, LockInit
<1>2. TypeOK /\ ServingInv /\ LockInv /\ [Next]_vars => (TypeOK /\ ServingInv /\ LockInv)'
  BY TypeStep, ServingStep, LockStep
<1> QED  BY <1>1, <1>2, PTL DEF Spec

\* At most one goroutine at a time uses the map hub.clients: the hub's range
\* loop, an insertion or a deletion (cmd/aneperfweb/main.go:174-182, 190-202).
THEOREM MapExclusive == Spec => []MapAccessExclusive
<1>1. LockInv => MapAccessExclusive
  BY ClientsAssumption DEF LockInv, MapAccessExclusive
<1> QED  BY <1>1, LockCorrect, PTL

\* Only a streaming request moves its handler or registers.
LEMMA OthersLeaveHandlers ==
    ASSUME [Next]_vars, \A c \in Clients : ~RequestStep(c)
    PROVE  UNCHANGED <<clients, cpc, held, delivered, since>>
<1>1. CASE HubStep
  <2>1. CASE HubLock \/ HubUnlock \/ \E c \in Clients : HubSend(c)
    BY <2>1 DEF HubLock, HubUnlock, HubSend, clientVars
  <2>2. CASE ~HubLock /\ ~HubUnlock /\ \A c \in Clients : ~HubSend(c)
    BY <1>1, <2>2, HubLeavesFan DEF fanVars, clientVars
  <2> QED  BY <2>1, <2>2
<1>2. CASE CloseConns          BY <1>2 DEF CloseConns
<1>3. CASE UNCHANGED vars      BY <1>3 DEF vars, fanVars, clientVars
<1>4. CASE UNCHANGED fanVars   BY <1>4 DEF fanVars, clientVars
<1> QED  BY <1>1, <1>2, <1>3, <1>4, NextCases, SystemLeavesFan

LEMMA RegisteredStep ==
    ASSUME TypeOK, RegisteredHaveHandlers, [Next]_vars
    PROVE  RegisteredHaveHandlers'
<1> USE DEF RegisteredHaveHandlers, TypeOK, FanTypeOK
<1>1. CASE \A c \in Clients : ~RequestStep(c)
  BY <1>1, OthersLeaveHandlers
<1>2. ASSUME NEW c \in Clients, RequestStep(c) PROVE RegisteredHaveHandlers'
  <2>1. CASE Request(c)         BY <2>1 DEF Request
  <2>2. CASE AddLock(c)         BY <2>2 DEF AddLock
  <2>3. CASE AddUnlock(c)       BY <2>3 DEF AddUnlock
  <2>4. CASE Receive(c)         BY <2>4 DEF Receive
  <2>5. CASE WriteDelivered(c)  BY <2>5 DEF WriteDelivered
  <2>6. CASE WriteFails(c)      BY <2>6 DEF WriteFails
  <2>7. CASE ContextDone(c)     BY <2>7 DEF ContextDone
  <2>8. CASE RemoveLock(c)      BY <2>8 DEF RemoveLock
  <2>9. CASE RemoveUnlock(c)    BY <2>9 DEF RemoveUnlock
  <2>10. CASE Disconnect(c)     BY <2>10 DEF Disconnect
  <2> QED  BY <1>2, <2>1, <2>2, <2>3, <2>4, <2>5, <2>6, <2>7, <2>8, <2>9, <2>10
              DEF RequestStep, HandlerStep
<1> QED  BY <1>1, <1>2

\* A handler that returned has taken its channel out of the map, and one that
\* may still read is in it (the deferred removeClient, main.go:216).
THEOREM RegisteredCorrect == Spec => []RegisteredHaveHandlers
<1>1. Init => RegisteredHaveHandlers
  BY DEF Init, RegisteredHaveHandlers
<1>2. TypeOK /\ RegisteredHaveHandlers /\ [Next]_vars => RegisteredHaveHandlers'
  BY RegisteredStep
<1> QED  BY <1>1, <1>2, TypeCorrect, PTL DEF Spec

-----------------------------------------------------------------------------
(* Increasing sequences.                                                   *)

Increasing(s) == \A i, j \in 1..Len(s) : i < j => s[i] < s[j]
Above(s, n)   == \A i \in 1..Len(s) : n < s[i]
UpTo(s, n)    == \A i \in 1..Len(s) : s[i] <= n
Before(s, t)  == \A i \in 1..Len(s) : \A j \in 1..Len(t) : s[i] < t[j]

\* What there is to say of s joined with t.
LEMMA Joined ==
    ASSUME NEW s \in Seq(Nat), NEW t \in Seq(Nat), NEW n \in Int
    PROVE  /\ s \o t \in Seq(Nat)
           /\ Increasing(s) /\ Increasing(t) /\ Before(s, t) => Increasing(s \o t)
           /\ Above(s, n) /\ Above(t, n) => Above(s \o t, n)
           /\ UpTo(s, n) /\ UpTo(t, n) => UpTo(s \o t, n)
           /\ \A u \in Seq(Nat) : Before(s, u) /\ Before(t, u) => Before(s \o t, u)
<1>1. s \o t \in Seq(Nat)  OBVIOUS
<1>2. /\ Len(s) \in Nat /\ Len(t) \in Nat
      /\ Len(s \o t) = Len(s) + Len(t)
      /\ \A i \in 1..Len(s) : (s \o t)[i] = s[i]
      /\ \A i \in 1..Len(s \o t) : i > Len(s) =>
            /\ i - Len(s) \in 1..Len(t)
            /\ (s \o t)[i] = t[i - Len(s)]
  OBVIOUS
<1>3. ASSUME Increasing(s), Increasing(t), Before(s, t) PROVE Increasing(s \o t)
  <2> SUFFICES ASSUME NEW i \in 1..Len(s \o t), NEW j \in 1..Len(s \o t), i < j
               PROVE  (s \o t)[i] < (s \o t)[j]
    BY DEF Increasing
  <2>1. CASE j <= Len(s)
    <3>1. i \in 1..Len(s) /\ j \in 1..Len(s)  BY <1>2, <2>1
    <3> QED  BY <1>2, <1>3, <3>1 DEF Increasing
  <2>2. CASE i > Len(s)
    <3>1. i - Len(s) \in 1..Len(t) /\ j - Len(s) \in 1..Len(t) /\ i - Len(s) < j - Len(s)
      BY <1>2, <2>2
    <3>2. t[i - Len(s)] < t[j - Len(s)]  BY <1>3, <3>1 DEF Increasing
    <3> QED  BY <1>2, <2>2, <3>2
  <2>3. CASE i <= Len(s) /\ j > Len(s)
    <3>1. i \in 1..Len(s) /\ j - Len(s) \in 1..Len(t)  BY <1>2, <2>3
    <3>2. s[i] < t[j - Len(s)]  BY <1>3, <3>1 DEF Before
    <3> QED  BY <1>2, <2>3, <3>1, <3>2
  <2> QED  BY <1>2, <2>1, <2>2, <2>3, SMTT(30)
<1>4. ASSUME NEW i \in 1..Len(s \o t)
      PROVE  \/ \E k \in 1..Len(s) : (s \o t)[i] = s[k]
             \/ \E k \in 1..Len(t) : (s \o t)[i] = t[k]
  <2>1. CASE i <= Len(s)
    <3>1. i \in 1..Len(s)  BY <1>2, <2>1
    <3> QED  BY <1>2, <3>1
  <2>2. CASE i > Len(s)  BY <1>2, <2>2
  <2> QED  BY <1>2, <2>1, <2>2
<1>5. Above(s, n) /\ Above(t, n) => Above(s \o t, n)  BY <1>4 DEF Above
<1>6. UpTo(s, n) /\ UpTo(t, n) => UpTo(s \o t, n)  BY <1>4 DEF UpTo
<1>7. \A u \in Seq(Nat) : Before(s, u) /\ Before(t, u) => Before(s \o t, u)
  BY <1>4 DEF Before
<1> QED  BY <1>1, <1>3, <1>5, <1>6, <1>7

LEMMA Split ==
    ASSUME NEW s \in Seq(Nat), s # <<>>
    PROVE  /\ Tail(s) \in Seq(Nat) /\ <<Head(s)>> \in Seq(Nat)
           /\ Increasing(<<Head(s)>>)
           /\ Increasing(s) => Increasing(Tail(s)) /\ Before(<<Head(s)>>, Tail(s))
           /\ \A n \in Int : Above(s, n) => Above(Tail(s), n) /\ Above(<<Head(s)>>, n)
           /\ \A n \in Int : UpTo(s, n) => UpTo(Tail(s), n) /\ UpTo(<<Head(s)>>, n)
           /\ \A u \in Seq(Nat) : Before(u, s) => Before(u, Tail(s)) /\ Before(u, <<Head(s)>>)
<1>1. /\ Tail(s) \in Seq(Nat) /\ <<Head(s)>> \in Seq(Nat)
      /\ Len(s) \in Nat /\ Len(s) > 0 /\ Len(Tail(s)) = Len(s) - 1
      /\ \A i \in 1..Len(Tail(s)) : i + 1 \in 1..Len(s) /\ Tail(s)[i] = s[i + 1]
      /\ Len(<<Head(s)>>) = 1 /\ <<Head(s)>>[1] = s[1] /\ 1 \in 1..Len(s)
  OBVIOUS
<1>2. Increasing(<<Head(s)>>)  BY <1>1 DEF Increasing
<1>3. Increasing(s) => Increasing(Tail(s)) /\ Before(<<Head(s)>>, Tail(s))
  BY <1>1 DEF Increasing, Before
<1>4. \A n \in Int : Above(s, n) => Above(Tail(s), n) /\ Above(<<Head(s)>>, n)
  BY <1>1 DEF Above
<1>5. \A n \in Int : UpTo(s, n) => UpTo(Tail(s), n) /\ UpTo(<<Head(s)>>, n)
  BY <1>1 DEF UpTo
<1>6. \A u \in Seq(Nat) : Before(u, s) => Before(u, Tail(s)) /\ Before(u, <<Head(s)>>)
  BY <1>1 DEF Before
<1> QED  BY <1>1, <1>2, <1>3, <1>4, <1>5, <1>6

\* The same of s with one more element.
LEMMA Appended ==
    ASSUME NEW s \in Seq(Nat), NEW x \in Nat
    PROVE  /\ Append(s, x) \in Seq(Nat)
           /\ Increasing(s) /\ UpTo(s, x - 1) => Increasing(Append(s, x))
           /\ \A n \in Int : Above(s, n) /\ n < x => Above(Append(s, x), n)
           /\ UpTo(s, x - 1) => UpTo(Append(s, x), x)
           /\ \A u \in Seq(Nat) : Before(u, s) /\ UpTo(u, x - 1) => Before(u, Append(s, x))
<1>1. /\ Append(s, x) \in Seq(Nat)
      /\ Len(s) \in Nat /\ Len(Append(s, x)) = Len(s) + 1
      /\ \A i \in 1..Len(s) : Append(s, x)[i] = s[i] /\ s[i] \in Nat
      /\ Append(s, x)[Len(s) + 1] = x
      /\ \A i \in 1..Len(Append(s, x)) : i \in 1..Len(s) \/ i = Len(s) + 1
  OBVIOUS
<1>2. Increasing(s) /\ UpTo(s, x - 1) => Increasing(Append(s, x))
  BY <1>1 DEF Increasing, UpTo
<1>3. \A n \in Int : Above(s, n) /\ n < x => Above(Append(s, x), n)
  BY <1>1 DEF Above
<1>4. UpTo(s, x - 1) => UpTo(Append(s, x), x)
  BY <1>1 DEF UpTo
<1>5. \A u \in Seq(Nat) : Before(u, s) /\ UpTo(u, x - 1) => Before(u, Append(s, x))
  <2> SUFFICES ASSUME NEW u \in Seq(Nat), Before(u, s), UpTo(u, x - 1),
                      NEW i \in 1..Len(u), NEW j \in 1..Len(Append(s, x))
               PROVE  u[i] < Append(s, x)[j]
    BY DEF Before
  <2>1. u[i] \in Nat  OBVIOUS
  <2> QED  BY <1>1, <2>1 DEF Before, UpTo
<1> QED  BY <1>1, <1>2, <1>3, <1>4, <1>5

\* And of the empty sequence.
LEMMA EmptySequence ==
    ASSUME NEW n
    PROVE  /\ <<>> \in Seq(Nat) /\ Increasing(<<>>) /\ Above(<<>>, n) /\ UpTo(<<>>, n)
           /\ \A u \in Seq(Nat) : Before(<<>>, u) /\ Before(u, <<>>)
BY DEF Increasing, Above, UpTo, Before

-----------------------------------------------------------------------------
(* The order of the deltas.  The stream of a browser is cut in three: what *)
(* was delivered, what its handler holds and what is in its channel.       *)

NothingSent(c) == delivered[c] = <<>> /\ held[c] = <<>> /\ chan[c] = <<>>

Between(c, low, high) ==
    /\ Above(delivered[c], low) /\ Above(held[c], low) /\ Above(chan[c], low)
    /\ UpTo(delivered[c], high) /\ UpTo(held[c], high) /\ UpTo(chan[c], high)

InOrder(c) ==
    /\ Increasing(delivered[c]) /\ Increasing(held[c]) /\ Increasing(chan[c])
    /\ Before(delivered[c], held[c]) /\ Before(delivered[c], chan[c])
    /\ Before(held[c], chan[c])

\* During a fan-out the clients still to come have nothing of the new delta.
ClientInv(c) ==
    /\ cpc[c] \in {"none", "add", "adding"} => NothingSent(c)
    /\ since[c] <= published
    /\ InOrder(c)
    /\ Between(c, since[c], published)
    /\ c \in pending => since[c] < published /\ Between(c, since[c], published - 1)

PendingInv == pending \subseteq clients /\ (pending # {} => hpc = "send")

StreamInv == PendingInv /\ \A c \in Clients : ClientInv(c)

LEMMA PendingStep ==
    ASSUME TypeOK, LockInv, LockInv', PendingInv, [Next]_vars
    PROVE  PendingInv'
<1> USE ClientsAssumption DEF PendingInv
<1>1. CASE HubLock   BY <1>1 DEF HubLock, clientVars
<1>2. CASE HubUnlock  BY <1>2 DEF HubUnlock
<1>3. ASSUME NEW c \in Clients, HubSend(c) PROVE PendingInv'
  BY <1>3 DEF HubSend
<1>4. CASE UNCHANGED <<pending, clients, mu>>
  BY <1>4 DEF LockInv
<1>5. CASE HubStep /\ ~HubLock /\ ~HubUnlock /\ \A c \in Clients : ~HubSend(c)
  <2>1. UNCHANGED pending
    BY <1>5 DEF HubStep, StartCalled, StartTaken, StopCalled, StopTaken, RestartCalled,
                RestartTaken, SampleCalled, SampleTaken, NewTicker, SelectDone, SelectTick, Marshal
  <2> QED  BY <1>4, <1>5, <2>1, HubLeavesFan DEF fanVars
<1>6. CASE MainStep \/ SigReceive \/ HubStop \/ CloseListeners \/ Interrupt \/ Tick \/ AcceptFails
           \/ Ended \/ UNCHANGED vars
  <2>1. UNCHANGED pending
    BY <1>6 DEF MainStep, NewSampler, SpawnHub, Notify, Listen, ServeReturns, ReleaseChannels,
                ClearSub, Exit, SigReceive, HubStop, CloseListeners, Interrupt, Tick, AcceptFails,
                Ended, vars, hubVars
  <2>2. UNCHANGED <<clients, mu>>  BY <1>6, SystemLeavesFan DEF fanVars, vars
  <2> QED  BY <1>4, <2>1, <2>2
<1>7. CASE CloseConns  BY <1>4, <1>7 DEF CloseConns, hubVars
<1>8. ASSUME NEW c \in Clients, RequestStep(c) PROVE PendingInv'
  <2>1. UNCHANGED <<pending, hpc>>
    BY <1>8, RequestLeavesSystem DEF systemVars, hubVars
  <2>2. CASE RemoveUnlock(c)
    <3>1. mu = c  BY <2>2 DEF RemoveUnlock, LockInv
    <3>2. pending = {}  BY <3>1 DEF LockInv
    <3> QED  BY <2>1, <3>2
  <2>3. CASE ~RemoveUnlock(c)
    <3>1. clients \subseteq clients'
      BY <1>8, <2>3 DEF RequestStep, HandlerStep, Request, AddLock, AddUnlock, Receive,
                        WriteDelivered, WriteFails, ContextDone, RemoveLock, Disconnect
    <3> QED  BY <2>1, <3>1
  <2> QED  BY <2>2, <2>3
<1> QED  BY <1>1, <1>2, <1>3, <1>5, <1>6, <1>7, <1>8, NextCases

\* A step that leaves client d alone, but may take it out of pending.
LEMMA ClientUnchanged ==
    ASSUME NEW d \in Clients, ClientInv(d),
           cpc'[d] = cpc[d], delivered'[d] = delivered[d], held'[d] = held[d],
           chan'[d] = chan[d], since'[d] = since[d],
           published' = published, pending' \subseteq pending
    PROVE  ClientInv(d)'
BY DEF ClientInv, NothingSent, InOrder, Between

\* The fan-out begins: the new number is above whatever was sent.
LEMMA HubLockClients ==
    ASSUME TypeOK, RegisteredHaveHandlers, StreamInv, HubLock, NEW d \in Clients
    PROVE  ClientInv(d)'
<1>1. /\ UNCHANGED <<cpc, delivered, held, chan, since>>
      /\ published' = published + 1 /\ pending' = clients
  BY DEF HubLock, clientVars
<1>2. /\ delivered[d] \in Seq(Nat) /\ held[d] \in Seq(Nat) /\ chan[d] \in Seq(Nat)
      /\ since[d] \in Nat /\ published \in Nat
  BY DEF TypeOK, FanTypeOK
<1>3. ClientInv(d)  BY DEF StreamInv
<1>4. \A s \in Seq(Nat) : UpTo(s, published) => UpTo(s, published + 1)
  BY <1>2 DEF UpTo
<1>5. Between(d, since[d], published + 1)  BY <1>2, <1>3, <1>4 DEF ClientInv, Between
<1>6. published + 1 - 1 = published  BY <1>2
<1> QED  BY <1>1, <1>2, <1>3, <1>5, <1>6 DEF ClientInv, Between, InOrder, NothingSent

LEMMA HubSendClients ==
    ASSUME TypeOK, RegisteredHaveHandlers, StreamInv,
           NEW c \in Clients, HubSend(c), NEW d \in Clients
    PROVE  ClientInv(d)'
<1>1. /\ UNCHANGED <<cpc, delivered, held, since, published>>
      /\ pending' = pending \ {c} /\ c \in pending
      /\ chan' = IF Len(chan[c]) < ChanCap
                   THEN [chan EXCEPT ![c] = Append(@, published)] ELSE chan
  BY DEF HubSend, clientVars
<1>2. /\ delivered[d] \in Seq(Nat) /\ held[d] \in Seq(Nat) /\ chan[d] \in Seq(Nat)
      /\ since[d] \in Nat /\ published \in Nat
      /\ chan \in [Clients -> Seq(Nat)]
  BY DEF TypeOK, FanTypeOK
<1>3. ClientInv(d)  BY DEF StreamInv
<1>4. CASE d = c /\ Len(chan[c]) < ChanCap
  <2>1. chan'[d] = Append(chan[d], published)  BY <1>1, <1>2, <1>4
  <2>2. d \in clients /\ cpc[d] \notin {"none", "add", "adding"}
    BY <1>1, <1>4 DEF StreamInv, PendingInv, RegisteredHaveHandlers
  <2>3. since[d] < published /\ Between(d, since[d], published - 1)
    BY <1>1, <1>3, <1>4 DEF ClientInv
  <2>4. InOrder(d)'
    BY <1>1, <1>2, <1>3, <2>1, <2>3, Appended DEF ClientInv, InOrder, Between
  <2>5. Above(chan'[d], since[d]) /\ UpTo(chan'[d], published)
    BY <1>2, <2>1, <2>3, Appended DEF Between
  <2>6. Between(d, since[d], published)'
    BY <1>1, <1>3, <2>5 DEF ClientInv, Between
  <2> QED  BY <1>1, <1>3, <1>4, <2>2, <2>4, <2>6 DEF ClientInv
<1>5. CASE ~(d = c /\ Len(chan[c]) < ChanCap)
  <2>1. chan'[d] = chan[d]  BY <1>1, <1>2, <1>5
  <2> QED  BY <1>1, <1>3, <2>1, ClientUnchanged
<1> QED  BY <1>4, <1>5

\* What a streaming request does to its own client.
LEMMA RequestOwnClient ==
    ASSUME TypeOK, LockInv, StreamInv, NEW c \in Clients, RequestStep(c)
    PROVE  ClientInv(c)'
<1> USE DEF ClientInv, NothingSent, InOrder, Between
<1>1. UNCHANGED <<pending, published>>
  BY RequestLeavesSystem DEF systemVars, hubVars, RequestStep, HandlerStep, Request, AddLock,
     AddUnlock, Receive, WriteDelivered, WriteFails, ContextDone, RemoveLock, RemoveUnlock,
     Disconnect
<1>2. /\ delivered[c] \in Seq(Nat) /\ held[c] \in Seq(Nat) /\ chan[c] \in Seq(Nat)
      /\ since[c] \in Int /\ published \in Int /\ published - 1 \in Int
      /\ chan \in [Clients -> Seq(Nat)] /\ held \in [Clients -> Seq(Nat)]
      /\ delivered \in [Clients -> Seq(Nat)] /\ since \in [Clients -> Nat]
      /\ cpc \in [Clients -> {"none", "add", "adding", "loop", "write",
                              "remove", "removing", "returned"}]
  BY DEF TypeOK, FanTypeOK
<1>3. ClientInv(c)  BY DEF StreamInv
<1>4. CASE Request(c)       BY <1>1, <1>2, <1>3, <1>4 DEF Request
<1>5. CASE AddLock(c)       BY <1>1, <1>2, <1>3, <1>5 DEF AddLock
<1>6. CASE AddUnlock(c)
  <2>1. UNCHANGED <<chan, held, delivered>> /\ since'[c] = published /\ cpc'[c] = "loop"
    BY <1>2, <1>6 DEF AddUnlock
  <2>2. NothingSent(c)  BY <1>3, <1>6 DEF AddUnlock
  <2>3. c \notin pending
    <3>1. mu = c  BY <1>6 DEF AddUnlock, LockInv
    <3>2. hpc # "send"  BY <3>1, ClientsAssumption DEF LockInv
    <3> QED  BY <3>2 DEF StreamInv, PendingInv
  <2>4. Between(c, published, published)' /\ InOrder(c)'
    BY <1>1, <2>1, <2>2, EmptySequence
  <2> QED  BY <1>1, <1>2, <2>1, <2>3, <2>4
<1>7. CASE Receive(c)
  <2>1. /\ chan[c] # <<>> /\ chan'[c] = Tail(chan[c]) /\ held'[c] = <<Head(chan[c])>>
        /\ cpc'[c] = "write" /\ UNCHANGED <<delivered, since>>
    BY <1>2, <1>7 DEF Receive
  <2>2. InOrder(c)'  BY <1>2, <1>3, <2>1, Split
  <2>3. \A n \in Int :
           /\ Above(chan[c], n) => Above(chan'[c], n) /\ Above(held'[c], n)
           /\ UpTo(chan[c], n) => UpTo(chan'[c], n) /\ UpTo(held'[c], n)
    BY <1>2, <2>1, Split
  <2>4. Above(chan'[c], since[c]) /\ Above(held'[c], since[c])
    BY <1>2, <1>3, <2>3
  <2>5. UpTo(chan'[c], published) /\ UpTo(held'[c], published)
    BY <1>2, <1>3, <2>3
  <2>6. c \in pending => UpTo(chan'[c], published - 1) /\ UpTo(held'[c], published - 1)
    BY <1>2, <1>3, <2>3
  <2> QED  BY <1>1, <1>3, <2>1, <2>2, <2>4, <2>5, <2>6
<1>8. CASE WriteDelivered(c)
  <2>1. /\ delivered'[c] = delivered[c] \o held[c] /\ held'[c] = <<>>
        /\ cpc'[c] = "loop" /\ UNCHANGED <<chan, since>>
    BY <1>2, <1>8 DEF WriteDelivered
  <2>2. InOrder(c)'
    <3>1. Increasing(delivered'[c]) /\ Before(delivered'[c], chan[c])
      BY <1>2, <1>3, <2>1, Joined
    <3>2. delivered'[c] \in Seq(Nat)
      BY <1>2, <2>1, Joined
    <3>3. Increasing(held'[c]) /\ Before(delivered'[c], held'[c]) /\ Before(held'[c], chan[c])
      BY <1>2, <2>1, <3>2, EmptySequence
    <3> QED  BY <1>3, <2>1, <3>1, <3>3
  <2>3. \A n \in Int :
           /\ Above(delivered[c], n) /\ Above(held[c], n) => Above(delivered'[c], n)
           /\ UpTo(delivered[c], n) /\ UpTo(held[c], n) => UpTo(delivered'[c], n)
           /\ Above(held'[c], n) /\ UpTo(held'[c], n)
    BY <1>2, <2>1, Joined, EmptySequence
  <2>4. Above(delivered'[c], since[c]) /\ Above(held'[c], since[c])
    BY <1>2, <1>3, <2>3
  <2>5. UpTo(delivered'[c], published) /\ UpTo(held'[c], published)
    BY <1>2, <1>3, <2>3
  <2>6. c \in pending => UpTo(delivered'[c], published - 1) /\ UpTo(held'[c], published - 1)
    BY <1>2, <1>3, <2>3
  <2> QED  BY <1>1, <1>3, <2>1, <2>2, <2>4, <2>5, <2>6
<1>9. CASE WriteFails(c)
  <2>1. /\ held'[c] = <<>> /\ cpc'[c] = "loop" /\ UNCHANGED <<chan, delivered, since>>
    BY <1>2, <1>9 DEF WriteFails
  <2> QED  BY <1>1, <1>2, <1>3, <2>1, EmptySequence
<1>10. CASE ContextDone(c)   BY <1>1, <1>2, <1>3, <1>10 DEF ContextDone
<1>11. CASE RemoveLock(c)    BY <1>1, <1>2, <1>3, <1>11 DEF RemoveLock
<1>12. CASE RemoveUnlock(c)  BY <1>1, <1>2, <1>3, <1>12 DEF RemoveUnlock
<1>13. CASE Disconnect(c)    BY <1>1, <1>2, <1>3, <1>13 DEF Disconnect
<1> QED
  BY <1>4, <1>5, <1>6, <1>7, <1>8, <1>9, <1>10, <1>11, <1>12, <1>13 DEF RequestStep, HandlerStep

LEMMA RequestOtherClient ==
    ASSUME TypeOK, StreamInv, NEW c \in Clients, RequestStep(c), NEW d \in Clients, d # c
    PROVE  ClientInv(d)'
<1>1. UNCHANGED <<pending, published>>
  BY RequestLeavesSystem DEF systemVars, hubVars, RequestStep, HandlerStep, Request, AddLock,
     AddUnlock, Receive, WriteDelivered, WriteFails, ContextDone, RemoveLock, RemoveUnlock,
     Disconnect
<1>2. /\ cpc'[d] = cpc[d] /\ delivered'[d] = delivered[d] /\ held'[d] = held[d]
      /\ chan'[d] = chan[d] /\ since'[d] = since[d]
  BY DEF TypeOK, FanTypeOK, RequestStep, HandlerStep, Request, AddLock,
     AddUnlock, Receive, WriteDelivered, WriteFails, ContextDone, RemoveLock, RemoveUnlock,
     Disconnect
<1> QED  BY <1>1, <1>2, ClientUnchanged DEF StreamInv

\* The remaining steps publish nothing and send nothing.
LEMMA OtherStepsClients ==
    ASSUME StreamInv, [Next]_vars, \A c \in Clients : ~RequestStep(c),
           ~HubLock, \A c \in Clients : ~HubSend(c), NEW d \in Clients
    PROVE  ClientInv(d)'
<1>1. CASE MainStep \/ SigReceive \/ HubStop \/ CloseListeners \/ Interrupt \/ Tick \/ AcceptFails
           \/ Ended \/ UNCHANGED vars
  <2>1. UNCHANGED pending
    BY <1>1 DEF MainStep, NewSampler, SpawnHub, Notify, Listen, ServeReturns, ReleaseChannels,
                ClearSub, Exit, SigReceive, HubStop, CloseListeners, Interrupt, Tick, AcceptFails,
                Ended, vars, hubVars
  <2>2. UNCHANGED fanVars  BY <1>1, SystemLeavesFan DEF vars
  <2> QED  BY <2>1, <2>2, ClientUnchanged DEF StreamInv, fanVars, clientVars
<1>2. CASE CloseConns
  BY <1>2, ClientUnchanged DEF CloseConns, StreamInv, hubVars
<1>3. CASE HubStep
  <2>1. CASE HubUnlock
    BY <2>1, ClientUnchanged DEF HubUnlock, StreamInv, clientVars
  <2>2. CASE ~HubUnlock
    <3>1. UNCHANGED pending
      BY <1>3, <2>2 DEF HubStep, StartCalled, StartTaken, StopCalled, StopTaken, RestartCalled,
           RestartTaken, SampleCalled, SampleTaken, NewTicker, SelectDone, SelectTick, Marshal
    <3>2. UNCHANGED fanVars  BY <1>3, <2>2, HubLeavesFan
    <3> QED  BY <3>1, <3>2, ClientUnchanged DEF StreamInv, fanVars, clientVars
  <2> QED  BY <2>1, <2>2
<1> QED  BY <1>1, <1>2, <1>3, NextCases

LEMMA StreamStep ==
    ASSUME TypeOK, LockInv, LockInv', RegisteredHaveHandlers, StreamInv, [Next]_vars
    PROVE  StreamInv'
<1>1. PendingInv'  BY PendingStep DEF StreamInv
<1>2. ASSUME NEW d \in Clients PROVE ClientInv(d)'
  <2>1. CASE HubLock  BY <2>1, HubLockClients
  <2>2. ASSUME NEW c \in Clients, HubSend(c) PROVE ClientInv(d)'
    BY <2>2, HubSendClients
  <2>3. ASSUME NEW c \in Clients, RequestStep(c) PROVE ClientInv(d)'
    BY <2>3, RequestOwnClient, RequestOtherClient
  <2> QED  BY <2>1, <2>2, <2>3, OtherStepsClients
<1> QED  BY <1>1, <1>2 DEF StreamInv

LEMMA StreamInit == ASSUME Init PROVE StreamInv
<1>1. PendingInv  BY DEF Init, PendingInv
<1>2. ASSUME NEW c \in Clients PROVE ClientInv(c)
  <2>1. NothingSent(c) /\ since[c] = 0 /\ published = 0 /\ c \notin pending
    BY DEF Init, NothingSent
  <2>2. InOrder(c) /\ Between(c, 0, 0)
    BY <2>1, EmptySequence DEF NothingSent, InOrder, Between
  <2> QED  BY <2>1, <2>2 DEF ClientInv
<1> QED  BY <1>1, <1>2 DEF StreamInv

LEMMA StreamImpliesOrder == ASSUME TypeOK, StreamInv PROVE StreamOrdered
<1> SUFFICES ASSUME NEW c \in Clients
             PROVE  Increasing(Stream(c)) /\ Above(Stream(c), since[c])
                    /\ UpTo(Stream(c), published)
  BY DEF StreamOrdered, Increasing, Above, UpTo
<1>1. /\ delivered[c] \in Seq(Nat) /\ held[c] \in Seq(Nat) /\ chan[c] \in Seq(Nat)
      /\ since[c] \in Int /\ published \in Int
  BY DEF TypeOK, FanTypeOK
<1>2. ClientInv(c)  BY DEF StreamInv
<1> DEFINE s == delivered[c] \o held[c]
<1>3. /\ s \in Seq(Nat) /\ Increasing(s) /\ Above(s, since[c]) /\ UpTo(s, published)
      /\ Before(s, chan[c])
  BY <1>1, <1>2, Joined DEF ClientInv, InOrder, Between
<1>4. Increasing(s \o chan[c]) /\ Above(s \o chan[c], since[c]) /\ UpTo(s \o chan[c], published)
  BY <1>1, <1>2, <1>3, Joined DEF ClientInv, InOrder, Between
<1> QED  BY <1>4 DEF Stream

\* Whatever the number of browsers and the capacity of their channels, each gets
\* deltas in the order of publication, none twice and none from before it joined
\* (cmd/aneperfweb/main.go:174-182, 190-228).
THEOREM StreamCorrect == Spec => []StreamOrdered
<1>1. Init => StreamInv
  BY StreamInit
<1>2. TypeOK /\ LockInv /\ LockInv' /\ RegisteredHaveHandlers /\ StreamInv /\ [Next]_vars
        => StreamInv'
  BY StreamStep
<1>3. TypeOK /\ StreamInv => StreamOrdered
  BY StreamImpliesOrder
<1> QED  BY <1>1, <1>2, <1>3, LockCorrect, RegisteredCorrect, PTL DEF Spec

-----------------------------------------------------------------------------
(* What concatenation and Append do to a stream, position by position.     *)

LEMMA StreamParts ==
    ASSUME NEW s \in Seq(Nat), NEW t \in Seq(Nat), NEW u \in Seq(Nat)
    PROVE  /\ s \o t \o u \in Seq(Nat)
           /\ Len(s \o t \o u) = Len(s) + Len(t) + Len(u)
           /\ \A i \in 1..Len(s) : (s \o t \o u)[i] = s[i]
           /\ \A i \in 1..Len(t) : (s \o t \o u)[Len(s) + i] = t[i]
           /\ \A i \in 1..Len(u) : (s \o t \o u)[Len(s) + Len(t) + i] = u[i]
<1>1. s \o t \in Seq(Nat) /\ Len(s \o t) = Len(s) + Len(t)
  OBVIOUS
<1>2. s \o t \o u \in Seq(Nat) /\ Len(s \o t \o u) = Len(s) + Len(t) + Len(u)
  BY <1>1
<1>3. \A i \in 1..Len(s) : (s \o t \o u)[i] = s[i]
  BY <1>1
<1>4. \A i \in 1..Len(t) : (s \o t \o u)[Len(s) + i] = t[i]
  BY <1>1
<1>5. \A i \in 1..Len(u) : (s \o t \o u)[Len(s) + Len(t) + i] = u[i]
  BY <1>1
<1> QED  BY <1>2, <1>3, <1>4, <1>5

\* Taking the head of the queue in hand leaves the stream as it is.
LEMMA StreamReceive ==
    ASSUME NEW s \in Seq(Nat), NEW u \in Seq(Nat), u # <<>>
    PROVE  s \o <<Head(u)>> \o Tail(u) = s \o <<>> \o u
OBVIOUS

\* And so does handing over what is held.
LEMMA StreamWrite ==
    ASSUME NEW s \in Seq(Nat), NEW t \in Seq(Nat), NEW u \in Seq(Nat)
    PROVE  s \o t \o <<>> \o u = s \o t \o u
OBVIOUS

LEMMA StreamAppend ==
    ASSUME NEW s \in Seq(Nat), NEW t \in Seq(Nat), NEW u \in Seq(Nat), NEW n \in Nat
    PROVE  s \o t \o Append(u, n) = Append(s \o t \o u, n)
OBVIOUS

-----------------------------------------------------------------------------
(* A handler holds one delta while it writes and none otherwise.           *)

HeldInv ==
    \A c \in Clients : Len(held[c]) = (IF cpc[c] = "write" THEN 1 ELSE 0)

LEMMA HeldStep == ASSUME TypeOK, HeldInv, [Next]_vars PROVE HeldInv'
<1>1. /\ held \in [Clients -> Seq(Nat)]
      /\ cpc \in [Clients -> {"none", "add", "adding", "loop", "write",
                              "remove", "removing", "returned"}]
  BY DEF TypeOK, FanTypeOK
<1>2. CASE \A c \in Clients : ~RequestStep(c)
  BY <1>2, OthersLeaveHandlers DEF HeldInv
<1>3. ASSUME NEW c \in Clients, RequestStep(c) PROVE HeldInv'
  <2> SUFFICES ASSUME NEW d \in Clients
               PROVE  Len(held'[d]) = (IF cpc'[d] = "write" THEN 1 ELSE 0)
    BY DEF HeldInv
  <2>1. Len(held[d]) = (IF cpc[d] = "write" THEN 1 ELSE 0)  BY DEF HeldInv
  <2>2. CASE d # c
    <3>1. held'[d] = held[d] /\ cpc'[d] = cpc[d]
      BY <1>1, <1>3, <2>2 DEF RequestStep, HandlerStep, Request, AddLock, AddUnlock, Receive,
         WriteDelivered, WriteFails, ContextDone, RemoveLock, RemoveUnlock, Disconnect
    <3> QED  BY <2>1, <3>1
  <2>3. CASE d = c
    <3> USE <1>1, <2>1, <2>3
    <3>1. CASE Request(c)         BY <3>1 DEF Request
    <3>2. CASE AddLock(c)         BY <3>2 DEF AddLock
    <3>3. CASE AddUnlock(c)       BY <3>3 DEF AddUnlock
    <3>4. CASE Receive(c)         BY <3>4 DEF Receive
    <3>5. CASE WriteDelivered(c)  BY <3>5 DEF WriteDelivered
    <3>6. CASE WriteFails(c)      BY <3>6 DEF WriteFails
    <3>7. CASE ContextDone(c)     BY <3>7 DEF ContextDone
    <3>8. CASE RemoveLock(c)      BY <3>8 DEF RemoveLock
    <3>9. CASE RemoveUnlock(c)    BY <3>9 DEF RemoveUnlock
    <3>10. CASE Disconnect(c)     BY <3>10 DEF Disconnect
    <3> QED  BY <1>3, <3>1, <3>2, <3>3, <3>4, <3>5, <3>6, <3>7, <3>8, <3>9, <3>10
                DEF RequestStep, HandlerStep
  <2> QED  BY <2>2, <2>3
<1> QED  BY <1>2, <1>3

-----------------------------------------------------------------------------
(* No early loss.                                                          *)

Sent(c) == IF c \in pending THEN published - 1 ELSE published

\* s begins without a gap after n, and has all there is to have up to m until it
\* is ChanCap long.
NoGap(s, n, m) ==
    /\ \A i \in 1..Len(s) : i <= ChanCap => s[i] = n + i
    /\ Len(s) < ChanCap => n + Len(s) = m

EarlyInv(c) == c \in clients /\ conn[c] = "open" => NoGap(Stream(c), since[c], Sent(c))

\* NoEarlyLoss, one client at a time.
LEMMA EarlyIsNoEarlyLoss ==
    ASSUME clients \subseteq Clients
    PROVE  NoEarlyLoss <=> \A c \in Clients : EarlyInv(c)
BY DEF NoEarlyLoss, EarlyInv, NoGap, Sent

LEMMA StreamType ==
    ASSUME TypeOK, NEW c \in Clients
    PROVE  /\ Stream(c) \in Seq(Nat)
           /\ Len(Stream(c)) = Len(delivered[c]) + Len(held[c]) + Len(chan[c])
BY StreamParts DEF TypeOK, FanTypeOK, Stream

LEMMA NoGapAppend ==
    ASSUME NEW s \in Seq(Nat), NEW n \in Nat, NEW m \in Nat, NoGap(s, n, m - 1)
    PROVE  NoGap(Append(s, m), n, m)
<1>1. /\ Len(s) \in Nat /\ Len(Append(s, m)) = Len(s) + 1
      /\ \A i \in 1..Len(s) : Append(s, m)[i] = s[i]
      /\ Append(s, m)[Len(s) + 1] = m
  OBVIOUS
<1>2. ASSUME NEW i \in 1..Len(Append(s, m)), i <= ChanCap
      PROVE  Append(s, m)[i] = n + i
  <2>1. CASE i \in 1..Len(s)  BY <1>1, <1>2, <2>1 DEF NoGap
  <2>2. CASE i = Len(s) + 1
    <3>1. n + Len(s) = m - 1  BY <1>1, <1>2, <2>2, ChanCapAssumption DEF NoGap
    <3> QED  BY <1>1, <2>2, <3>1
  <2> QED  BY <1>1, <2>1, <2>2
<1>3. Len(Append(s, m)) < ChanCap => n + Len(Append(s, m)) = m
  BY <1>1, ChanCapAssumption DEF NoGap
<1> QED  BY <1>2, <1>3 DEF NoGap

\* A step that leaves c's stream alone, and no more of it to be sent.
LEMMA EarlyUnchanged ==
    ASSUME NEW c \in Clients, EarlyInv(c), Stream(c)' = Stream(c), since'[c] = since[c],
           Sent(c)' = Sent(c), c \in clients' => c \in clients,
           conn'[c] = "open" => conn[c] = "open"
    PROVE  EarlyInv(c)'
BY DEF EarlyInv, NoGap

\* The fan-out begins: everyone registered has this delta to come.
LEMMA EarlyHubLock ==
    ASSUME TypeOK, LockInv, StreamInv, HubLock, NEW c \in Clients, EarlyInv(c)
    PROVE  EarlyInv(c)'
<1>1. /\ pending = {} /\ pending' = clients /\ published' = published + 1
      /\ UNCHANGED <<clients, chan, held, delivered, since, conn>>
      /\ published \in Nat
  BY ClientsAssumption DEF HubLock, LockInv, StreamInv, PendingInv, clientVars, TypeOK, FanTypeOK
<1>2. Stream(c)' = Stream(c)  BY <1>1 DEF Stream
<1>3. c \in clients => Sent(c)' = Sent(c)  BY <1>1 DEF Sent
<1> QED  BY <1>1, <1>2, <1>3 DEF EarlyInv, NoGap

\* A delta is queued, or dropped because ChanCap of them are queued.
LEMMA EarlyHubSend ==
    ASSUME TypeOK, StreamInv, NEW d \in Clients, HubSend(d), NEW c \in Clients, EarlyInv(c)
    PROVE  EarlyInv(c)'
<1>1. /\ UNCHANGED <<clients, held, delivered, since, conn, published>>
      /\ pending' = pending \ {d} /\ d \in pending
      /\ chan' = IF Len(chan[d]) < ChanCap
                   THEN [chan EXCEPT ![d] = Append(@, published)] ELSE chan
  BY DEF HubSend, clientVars
<1>2. /\ delivered[c] \in Seq(Nat) /\ held[c] \in Seq(Nat) /\ chan[c] \in Seq(Nat)
      /\ since[c] \in Nat /\ published \in Nat /\ chan \in [Clients -> Seq(Nat)]
  BY DEF TypeOK, FanTypeOK
<1>3. Stream(c) \in Seq(Nat) /\ Len(Stream(c)) \in Nat /\ Len(Stream(c)) >= Len(chan[c])
  <2>1. Len(delivered[c]) \in Nat /\ Len(held[c]) \in Nat /\ Len(chan[c]) \in Nat
    BY <1>2
  <2>2. /\ Stream(c) \in Seq(Nat)
        /\ Len(Stream(c)) = Len(delivered[c]) + Len(held[c]) + Len(chan[c])
    BY StreamType
  <2>3. \A i, j, k \in Nat : i + j + k \in Nat /\ i + j + k >= k  OBVIOUS
  <2>4. /\ Len(delivered[c]) + Len(held[c]) + Len(chan[c]) \in Nat
        /\ Len(delivered[c]) + Len(held[c]) + Len(chan[c]) >= Len(chan[c])
    BY <2>1, <2>3, Zenon
  <2> QED  BY <2>2, <2>4
<1>4. CASE c # d
  <2>1. chan'[c] = chan[c]  BY <1>1, <1>2, <1>4
  <2>2. Stream(c)' = Stream(c) /\ Sent(c)' = Sent(c)  BY <1>1, <1>4, <2>1 DEF Stream, Sent
  <2> QED  BY <1>1, <2>2, EarlyUnchanged
<1>5. CASE c = d /\ Len(chan[c]) < ChanCap
  <2>1. Stream(c)' = Append(Stream(c), published)
    <3>1. chan'[c] = Append(chan[c], published)  BY <1>1, <1>2, <1>5
    <3>2. Stream(c)' = delivered[c] \o held[c] \o Append(chan[c], published)
      BY <1>1, <3>1 DEF Stream
    <3>3. delivered[c] \o held[c] \o Append(chan[c], published)
            = Append(delivered[c] \o held[c] \o chan[c], published)
      BY <1>2, StreamAppend
    <3> QED  BY <3>2, <3>3 DEF Stream
  <2>2. Sent(c) = published - 1 /\ Sent(c)' = published  BY <1>1, <1>5 DEF Sent
  <2>3. ASSUME NoGap(Stream(c), since[c], published - 1)
        PROVE  NoGap(Append(Stream(c), published), since[c], published)
    BY <1>2, <1>3, <2>3, NoGapAppend
  <2> QED  BY <1>1, <2>1, <2>2, <2>3 DEF EarlyInv
<1>6. CASE c = d /\ ~(Len(chan[c]) < ChanCap)
  <2>1. Stream(c)' = Stream(c)  BY <1>1, <1>6 DEF Stream
  <2>2. ~(Len(Stream(c)) < ChanCap)  BY <1>2, <1>3, <1>6, ChanCapAssumption
  <2> QED  BY <1>1, <2>1, <2>2 DEF EarlyInv, NoGap
<1> QED  BY <1>4, <1>5, <1>6

\* What a streaming request does to its own stream.
LEMMA EarlyRequestOwn ==
    ASSUME TypeOK, LockInv, RegisteredHaveHandlers, StreamInv, HeldInv,
           NEW c \in Clients, RequestStep(c), EarlyInv(c)
    PROVE  EarlyInv(c)'
<1>1. UNCHANGED <<pending, published>>
  BY RequestLeavesSystem DEF systemVars, hubVars, RequestStep, HandlerStep, Request, AddLock,
     AddUnlock, Receive, WriteDelivered, WriteFails, ContextDone, RemoveLock, RemoveUnlock,
     Disconnect
<1>2. /\ delivered[c] \in Seq(Nat) /\ held[c] \in Seq(Nat) /\ chan[c] \in Seq(Nat)
      /\ since[c] \in Nat /\ published \in Nat
      /\ chan \in [Clients -> Seq(Nat)] /\ held \in [Clients -> Seq(Nat)]
      /\ delivered \in [Clients -> Seq(Nat)] /\ since \in [Clients -> Nat]
      /\ conn \in [Clients -> {"none", "open", "closed"}]
  BY DEF TypeOK, FanTypeOK
<1>3. Sent(c)' = Sent(c)  BY <1>1 DEF Sent
<1>4. CASE Request(c)
  <2>1. c \notin clients'  BY <1>4 DEF Request, RegisteredHaveHandlers
  <2> QED  BY <2>1 DEF EarlyInv
<1>5. CASE AddUnlock(c)
  <2>1. NothingSent(c)  BY <1>5 DEF AddUnlock, StreamInv, ClientInv
  <2>2. Stream(c)' = <<>>  BY <1>5, <2>1 DEF AddUnlock, Stream, NothingSent
  <2>3. since'[c] = published  BY <1>2, <1>5 DEF AddUnlock
  <2>4. Sent(c)' = published
    <3>1. mu = c  BY <1>5 DEF AddUnlock, LockInv
    <3>2. c \notin pending  BY <3>1, ClientsAssumption DEF LockInv, StreamInv, PendingInv
    <3> QED  BY <1>3, <3>2 DEF Sent
  <2>5. NoGap(<<>>, published, published)  BY <1>2 DEF NoGap
  <2> QED  BY <2>2, <2>3, <2>4, <2>5 DEF EarlyInv
<1>6. CASE Receive(c)
  <2>1. /\ chan[c] # <<>> /\ chan'[c] = Tail(chan[c]) /\ held'[c] = <<Head(chan[c])>>
        /\ UNCHANGED <<clients, conn, delivered, since>> /\ cpc[c] = "loop"
    BY <1>2, <1>6 DEF Receive
  <2>2. held[c] = <<>>  BY <1>2, <2>1 DEF HeldInv
  <2>3. Stream(c)' = Stream(c)  BY <1>2, <2>1, <2>2, StreamReceive DEF Stream
  <2> QED  BY <1>3, <2>1, <2>3, EarlyUnchanged
<1>7. CASE WriteDelivered(c)
  <2>1. /\ delivered'[c] = delivered[c] \o held[c] /\ held'[c] = <<>>
        /\ UNCHANGED <<clients, conn, chan, since>>
    BY <1>2, <1>7 DEF WriteDelivered
  <2>2. Stream(c)' = Stream(c)  BY <1>2, <2>1, StreamWrite DEF Stream
  <2> QED  BY <1>3, <2>1, <2>2, EarlyUnchanged
<1>8. CASE WriteFails(c)   BY <1>8 DEF WriteFails, EarlyInv
<1>9. CASE Disconnect(c)   BY <1>2, <1>9 DEF Disconnect, EarlyInv
<1>10. CASE AddLock(c) \/ ContextDone(c) \/ RemoveLock(c) \/ RemoveUnlock(c)
  <2>1. UNCHANGED <<conn, delivered, held, chan, since>> /\ clients' \subseteq clients
    BY <1>10 DEF AddLock, ContextDone, RemoveLock, RemoveUnlock
  <2>2. Stream(c)' = Stream(c)  BY <2>1 DEF Stream
  <2> QED  BY <1>3, <2>1, <2>2, EarlyUnchanged
<1> QED  BY <1>4, <1>5, <1>6, <1>7, <1>8, <1>9, <1>10 DEF RequestStep, HandlerStep

LEMMA EarlyRequestOther ==
    ASSUME TypeOK, NEW d \in Clients, RequestStep(d), NEW c \in Clients, c # d, EarlyInv(c)
    PROVE  EarlyInv(c)'
<1>1. UNCHANGED <<pending, published>>
  BY RequestLeavesSystem DEF systemVars, hubVars, RequestStep, HandlerStep, Request, AddLock,
     AddUnlock, Receive, WriteDelivered, WriteFails, ContextDone, RemoveLock, RemoveUnlock,
     Disconnect
<1>2. /\ delivered'[c] = delivered[c] /\ held'[c] = held[c] /\ chan'[c] = chan[c]
      /\ since'[c] = since[c] /\ conn'[c] = conn[c] /\ (c \in clients' <=> c \in clients)
  BY DEF TypeOK, FanTypeOK, RequestStep, HandlerStep, Request, AddLock, AddUnlock, Receive,
     WriteDelivered, WriteFails, ContextDone, RemoveLock, RemoveUnlock, Disconnect
<1>3. Stream(c)' = Stream(c) /\ Sent(c)' = Sent(c)  BY <1>1, <1>2 DEF Stream, Sent
<1> QED  BY <1>2, <1>3, EarlyUnchanged

\* The remaining steps queue nothing, deliver nothing and open no connection.
LEMMA OtherStepsFan ==
    ASSUME TypeOK, [Next]_vars, \A c \in Clients : ~RequestStep(c),
           ~HubLock, \A c \in Clients : ~HubSend(c)
    PROVE  /\ UNCHANGED <<clients, published, chan, cpc, held, delivered, since>>
           /\ pending' = pending
           /\ \A c \in Clients : conn'[c] = "open" => conn[c] = "open"
<1>1. CASE MainStep \/ SigReceive \/ HubStop \/ CloseListeners \/ Interrupt \/ Tick \/ AcceptFails
           \/ Ended \/ UNCHANGED vars
  <2>1. UNCHANGED pending
    BY <1>1 DEF MainStep, NewSampler, SpawnHub, Notify, Listen, ServeReturns, ReleaseChannels,
                ClearSub, Exit, SigReceive, HubStop, CloseListeners, Interrupt, Tick, AcceptFails,
                Ended, vars, hubVars
  <2>2. UNCHANGED fanVars  BY <1>1, SystemLeavesFan DEF vars
  <2> QED  BY <2>1, <2>2 DEF fanVars, clientVars
<1>2. CASE CloseConns
  BY <1>2 DEF CloseConns, hubVars, TypeOK, FanTypeOK
<1>3. CASE HubStep
  <2>1. CASE HubUnlock  BY <2>1 DEF HubUnlock, clientVars
  <2>2. CASE ~HubUnlock
    <3>1. UNCHANGED pending
      BY <1>3, <2>2 DEF HubStep, StartCalled, StartTaken, StopCalled, StopTaken, RestartCalled,
           RestartTaken, SampleCalled, SampleTaken, NewTicker, SelectDone, SelectTick, Marshal
    <3>2. UNCHANGED fanVars  BY <1>3, <2>2, HubLeavesFan
    <3> QED  BY <3>1, <3>2 DEF fanVars, clientVars
  <2> QED  BY <2>1, <2>2
<1> QED  BY <1>1, <1>2, <1>3, NextCases

LEMMA EarlyStep ==
    ASSUME TypeOK, LockInv, RegisteredHaveHandlers, StreamInv, HeldInv, NoEarlyLoss,
           [Next]_vars, TypeOK'
    PROVE  NoEarlyLoss'
<1>1. clients \subseteq Clients /\ clients' \subseteq Clients
  BY DEF TypeOK, FanTypeOK
<1>2. \A c \in Clients : EarlyInv(c)
  BY <1>1, EarlyIsNoEarlyLoss
<1>3. ASSUME NEW c \in Clients PROVE EarlyInv(c)'
  <2>1. EarlyInv(c)  BY <1>2
  <2>2. CASE HubLock  BY <2>1, <2>2, EarlyHubLock
  <2>3. ASSUME NEW d \in Clients, HubSend(d) PROVE EarlyInv(c)'
    BY <2>1, <2>3, EarlyHubSend
  <2>4. ASSUME NEW d \in Clients, RequestStep(d) PROVE EarlyInv(c)'
    BY <2>1, <2>4, EarlyRequestOwn, EarlyRequestOther
  <2>5. CASE ~HubLock /\ (\A d \in Clients : ~HubSend(d)) /\ \A d \in Clients : ~RequestStep(d)
    <3>1. /\ UNCHANGED <<clients, published, chan, held, delivered, since, pending>>
          /\ conn'[c] = "open" => conn[c] = "open"
      BY <2>5, OtherStepsFan
    <3>2. Stream(c)' = Stream(c) /\ Sent(c)' = Sent(c)  BY <3>1 DEF Stream, Sent
    <3> QED  BY <2>1, <3>1, <3>2, EarlyUnchanged
  <2> QED  BY <2>2, <2>3, <2>4, <2>5
<1>4. QED
  BY <1>1, <1>3 DEF NoEarlyLoss, EarlyInv, NoGap, Sent, Stream

\* What the theorems above say of the fan-out, and HeldInv, in every state.
FanInv == TypeOK /\ LockInv /\ RegisteredHaveHandlers /\ StreamInv /\ HeldInv

LEMMA FanCorrect == Spec => []FanInv
<1>1. Init => StreamInv /\ HeldInv
  <2>1. Init => HeldInv  BY DEF Init, HeldInv
  <2> QED  BY <2>1, StreamInit
<1>2. TypeOK /\ LockInv /\ LockInv' /\ RegisteredHaveHandlers /\ StreamInv /\ [Next]_vars
        => StreamInv'
  BY StreamStep
<1>3. TypeOK /\ HeldInv /\ [Next]_vars => HeldInv'
  BY HeldStep
<1> QED  BY <1>1, <1>2, <1>3, LockCorrect, RegisteredCorrect, PTL DEF Spec, FanInv

\* "slow client, drop" never touches the first ChanCap deltas after a browser
\* joined, whatever the number of browsers and the capacity: those come without
\* a gap as long as it is connected (cmd/aneperfweb/main.go:174-182, 190-228).
THEOREM EarlyCorrect == Spec => []NoEarlyLoss
<1>1. Init => NoEarlyLoss
  BY DEF Init, NoEarlyLoss
<1>2. FanInv /\ FanInv' /\ NoEarlyLoss /\ [Next]_vars => NoEarlyLoss'
  BY EarlyStep DEF FanInv
<1> QED  BY <1>1, <1>2, FanCorrect, PTL DEF Spec

-----------------------------------------------------------------------------
(* The server implements the feed.  Publish is the lock taken by hub.run() *)
(* for a fan-out; Subscribe and Leave are the unlocks of addClient and     *)
(* removeClient; Deliver is a write that returned.                         *)

\* What the feed sees of a handler.
Status(c) == IF cpc[c] \in {"none", "add", "adding"} THEN "new"
             ELSE IF cpc[c] = "returned" THEN "off" ELSE "on"

LEMMA FeedStutter ==
    ASSUME UNCHANGED <<published, since, delivered>>,
           \A c \in Clients : Status(c)' = Status(c)
    PROVE  UNCHANGED Feed!vars
BY DEF Feed!vars, Status

LEMMA FeedPublish == ASSUME HubLock PROVE Feed!Publish
BY DEF HubLock, clientVars, Feed!Publish

LEMMA FeedSubscribe ==
    ASSUME TypeOK, NEW c \in Clients, AddUnlock(c)
    PROVE  Feed!Subscribe(c)
<1>1. cpc \in [Clients -> {"none", "add", "adding", "loop", "write",
                           "remove", "removing", "returned"}]
  BY DEF TypeOK, FanTypeOK
<1> QED  BY <1>1 DEF AddUnlock, Feed!Subscribe

LEMMA FeedLeave ==
    ASSUME TypeOK, NEW c \in Clients, RemoveUnlock(c)
    PROVE  Feed!Leave(c)
<1>1. cpc \in [Clients -> {"none", "add", "adding", "loop", "write",
                           "remove", "removing", "returned"}]
  BY DEF TypeOK, FanTypeOK
<1> QED  BY <1>1 DEF RemoveUnlock, Feed!Leave

\* A sequence of one element, and what joining it comes to.
LEMMA Singleton ==
    ASSUME NEW s \in Seq(Nat), NEW t \in Seq(Nat), Len(t) = 1
    PROVE  /\ t[1] \in Nat /\ 1 \in 1..Len(t)
           /\ s \o t = Append(s, t[1])
<1>1. t[1] \in Nat /\ 1 \in 1..Len(t)  BY SMTT(30)
<1>2. t = <<t[1]>>  OBVIOUS
<1>3. \A n \in Nat : s \o <<n>> = Append(s, n)  OBVIOUS
<1> QED  BY <1>1, <1>2, <1>3, Zenon

\* A write hands over a delta newer than the last, and the next one as long as
\* fewer than ChanCap were handed over.
LEMMA FeedDeliver ==
    ASSUME FanInv, NoEarlyLoss, NEW c \in Clients, WriteDelivered(c)
    PROVE  \E n \in 1..published : Feed!Deliver(c, n)
<1> DEFINE n == held[c][1]
           L == Len(delivered[c])
<1>1. /\ cpc \in [Clients -> {"none", "add", "adding", "loop", "write",
                              "remove", "removing", "returned"}]
      /\ delivered \in [Clients -> Seq(Nat)]
      /\ delivered[c] \in Seq(Nat) /\ held[c] \in Seq(Nat) /\ chan[c] \in Seq(Nat)
      /\ since[c] \in Nat /\ published \in Nat /\ L \in Nat
  BY DEF FanInv, TypeOK, FanTypeOK
<1>2. /\ cpc[c] = "write" /\ conn[c] = "open"
      /\ delivered' = [delivered EXCEPT ![c] = @ \o held[c]]
      /\ cpc' = [cpc EXCEPT ![c] = "loop"]
      /\ UNCHANGED <<published, since>>
  BY DEF WriteDelivered
<1>3. Len(held[c]) = 1  BY <1>2 DEF FanInv, HeldInv
<1>4. n \in Nat /\ 1 \in 1..Len(held[c]) /\ delivered[c] \o held[c] = Append(delivered[c], n)
  BY <1>1, <1>3, Singleton
<1>5. ClientInv(c)  BY DEF FanInv, StreamInv
<1>6. since[c] < n /\ n <= published
  BY <1>4, <1>5 DEF ClientInv, Between, Above, UpTo
<1>7. Feed!Latest(c) = IF delivered[c] = <<>> THEN since[c] ELSE delivered[c][L]
  BY DEF Feed!Latest
<1>8. L > 0 <=> delivered[c] # <<>>  BY <1>1
<1>9. Feed!Latest(c) < n
  <2>1. CASE delivered[c] = <<>>  BY <1>6, <1>7, <2>1
  <2>2. CASE delivered[c] # <<>>
    <3>1. L \in 1..L  BY <1>1, <1>8, <2>2
    <3>2. delivered[c][L] < n
      BY <1>4, <1>5, <3>1 DEF ClientInv, InOrder, Before
    <3> QED  BY <1>7, <2>2, <3>2
  <2> QED  BY <2>1, <2>2
<1>10. n = Feed!Latest(c) + 1 \/ L >= ChanCap
  <2> SUFFICES ASSUME ~(L >= ChanCap) PROVE n = Feed!Latest(c) + 1
    OBVIOUS
  <2>1. L + 1 <= ChanCap /\ (L > 0 => L <= ChanCap)
    BY <1>1, ChanCapAssumption
  <2>2. c \in clients  BY <1>2 DEF FanInv, RegisteredHaveHandlers
  <2>3. EarlyInv(c)
    BY EarlyIsNoEarlyLoss DEF FanInv, TypeOK, FanTypeOK
  <2>4. \A i \in 1..Len(Stream(c)) : i <= ChanCap => Stream(c)[i] = since[c] + i
    BY <1>2, <2>2, <2>3 DEF EarlyInv, NoGap
  <2>5. /\ Len(Stream(c)) = L + 1 + Len(chan[c])
        /\ \A i \in 1..L : Stream(c)[i] = delivered[c][i]
        /\ Stream(c)[L + 1] = n
    <3>1. /\ Len(Stream(c)) = L + Len(held[c]) + Len(chan[c])
          /\ \A i \in 1..L : Stream(c)[i] = delivered[c][i]
          /\ \A i \in 1..Len(held[c]) : Stream(c)[L + i] = held[c][i]
      BY <1>1, StreamParts, ZenonT(30) DEF Stream
    <3> QED  BY <1>3, <1>4, <3>1
  <2>6. Len(chan[c]) \in Nat  BY <1>1
  <2>7. L + 1 \in 1..Len(Stream(c)) /\ (L > 0 => L \in 1..L /\ L \in 1..Len(Stream(c)))
    <3>1. \A a, b \in Nat : /\ a + 1 \in 1..(a + 1 + b)
                            /\ a > 0 => a \in 1..a /\ a \in 1..(a + 1 + b)
      OBVIOUS
    <3> QED  BY <1>1, <2>5, <2>6, <3>1, Zenon
  <2>8. n = (since[c] + L) + 1
    <3>1. n = since[c] + (L + 1)  BY <2>1, <2>4, <2>5, <2>7
    <3>2. \A a, b \in Nat : a + (b + 1) = (a + b) + 1  OBVIOUS
    <3> QED  BY <1>1, <3>1, <3>2, Zenon
  <2>9. CASE delivered[c] = <<>>
    <3>1. L = 0  BY <1>1, <1>8, <2>9
    <3> QED  BY <1>1, <1>7, <2>8, <2>9, <3>1
  <2>10. CASE delivered[c] # <<>>
    <3>1. delivered[c][L] = since[c] + L
      BY <1>8, <2>1, <2>4, <2>5, <2>7, <2>10
    <3> QED  BY <1>7, <2>8, <2>10, <3>1, Zenon
  <2> QED  BY <2>9, <2>10
<1>11. n \in 1..published  BY <1>1, <1>4, <1>6
<1>12. Feed!Deliver(c, n)
  <2>1. delivered' = [delivered EXCEPT ![c] = Append(@, n)]  BY <1>1, <1>2, <1>4
  <2>2. \A d \in Clients : Status(d)' = Status(d)  BY <1>1, <1>2 DEF Status
  <2> HIDE DEF n, L
  <2>3. Len(delivered[c]) >= ChanCap <=> L >= ChanCap  BY DEF L
  <2> QED  BY <1>2, <1>6, <1>9, <1>10, <2>1, <2>2, <2>3 DEF Feed!Deliver, Status
<1> QED  BY <1>11, <1>12

LEMMA FeedStep ==
    ASSUME FanInv, NoEarlyLoss, [Next]_vars
    PROVE  [Feed!Next]_(Feed!vars)
<1>1. cpc \in [Clients -> {"none", "add", "adding", "loop", "write",
                           "remove", "removing", "returned"}]
  BY DEF FanInv, TypeOK, FanTypeOK
<1>2. CASE HubLock  BY <1>2, FeedPublish DEF Feed!Next
<1>3. ASSUME NEW c \in Clients, HubSend(c) PROVE UNCHANGED Feed!vars
  BY <1>3, FeedStutter DEF HubSend, clientVars, Status
<1>4. ASSUME NEW c \in Clients, RequestStep(c)
      PROVE  Feed!Next \/ UNCHANGED Feed!vars
  <2>1. CASE AddUnlock(c)       BY <2>1, FeedSubscribe DEF FanInv, Feed!Next
  <2>2. CASE RemoveUnlock(c)    BY <2>2, FeedLeave DEF FanInv, Feed!Next
  <2>3. CASE WriteDelivered(c)  BY <2>3, FeedDeliver DEF Feed!Next
  <2>4. CASE Request(c) \/ AddLock(c) \/ Receive(c) \/ WriteFails(c) \/ ContextDone(c)
               \/ RemoveLock(c) \/ Disconnect(c)
    <3>1. UNCHANGED <<published, since, delivered>>
      BY <2>4 DEF Request, AddLock, Receive, WriteFails, ContextDone, RemoveLock, Disconnect
    <3>2. \A d \in Clients : Status(d)' = Status(d)
      BY <1>1, <2>4 DEF Status, Request, AddLock, Receive, WriteFails, ContextDone, RemoveLock,
                        Disconnect
    <3> QED  BY <3>1, <3>2, FeedStutter
  <2> QED  BY <1>4, <2>1, <2>2, <2>3, <2>4 DEF RequestStep, HandlerStep
<1>5. CASE ~HubLock /\ (\A c \in Clients : ~HubSend(c)) /\ \A c \in Clients : ~RequestStep(c)
  <2>1. UNCHANGED <<published, cpc, since, delivered>>
    BY <1>5, OtherStepsFan DEF FanInv
  <2> QED  BY <2>1, FeedStutter DEF Status
<1> QED  BY <1>2, <1>3, <1>4, <1>5

\* The web server is a feed: every subscriber is handed, in increasing order,
\* deltas published after its addClient, and the first ChanCap of them without a
\* gap; whatever the hub, the handlers and the mutex do besides is invisible
\* there (cmd/aneperfweb/main.go:143-228).
THEOREM FeedImplemented == Spec => ImplementsFeed
<1>1. Init => Feed!Init
  BY DEF Init, Feed!Init
<1>2. FanInv /\ NoEarlyLoss /\ [Next]_vars => [Feed!Next]_(Feed!vars)
  BY FeedStep
<1> QED  BY <1>1, <1>2, FanCorrect, EarlyCorrect, PTL DEF Spec, Feed!Spec, ImplementsFeed
=============================================================================
