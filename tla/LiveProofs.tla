------------------------------ MODULE LiveProofs ------------------------------
(***************************************************************************)
(* CleanExit and HistoryIsRecent of module Live for every set of intervals *)
(* and every length of the history: the terminal is given back and the     *)
(* Sampler closed on every way out, and the history on the screen is the   *)
(* newest deltas, each of them once and in order.                          *)
(*                                                                         *)
(* StretchInv says what has been set up at each statement: os.Interrupt is *)
(* caught on a wider stretch than the one in which the screen is the       *)
(* alternate one, so that no Ctrl-C can kill the process there; and the    *)
(* Sampler is open on a stretch that ends before "exit".                   *)
(*                                                                         *)
(* HistoryInv counts how many deltas were taken after each entry of the    *)
(* history, in sums, so that the provers meet the remainder of Number only *)
(* where a number wraps.                                                   *)
(***************************************************************************)
EXTENDS Live, TLAPS

Catching == {"enter", "ticker", "select", "print", "leave", "unnotify"}

\* What is in force at each statement, and where a process can have ended.
StretchInv ==
    /\ handled <=> pc \in Catching
    /\ screen # "normal" => pc \in {"ticker", "select", "print", "leave"}
    /\ pc \in {"new", "exit"} => sampler # "open"
    /\ proc \in {"exit0", "exit1", "crashed"} => pc = "exit"
    /\ proc = "interrupted" => ~handled

\* The program starts with nothing set up.
LEMMA StretchInit == Init => StretchInv
BY DEF Init, StretchInv, Catching

\* Every step keeps what is in force where it should be.
LEMMA StretchStep == StretchInv /\ [Next]_vars => StretchInv'
<1> SUFFICES ASSUME StretchInv, [Next]_vars PROVE StretchInv'
    OBVIOUS
<1> USE DEF StretchInv, Catching, At, GoTo, flags, signals, data
<1>1. CASE NewSampler
    BY <1>1 DEF NewSampler
<1>2. CASE RunOnce
    BY <1>2 DEF RunOnce
<1>3. CASE Notify
    BY <1>3 DEF Notify
<1>4. CASE EnterLiveScreen
    BY <1>4 DEF EnterLiveScreen
<1>5. CASE NewTicker
    BY <1>5 DEF NewTicker
<1>6. CASE SelectSignal
    BY <1>6 DEF SelectSignal
<1>7. CASE SelectTick
    BY <1>7 DEF SelectTick
<1>8. CASE PrintLive
    BY <1>8 DEF PrintLive, Sparkline
<1>9. CASE LeaveLiveScreen
    BY <1>9 DEF LeaveLiveScreen
<1>10. CASE SignalStop
    BY <1>10 DEF SignalStop
<1>11. CASE Close
    BY <1>11 DEF Close
<1>12. CASE Exit
    BY <1>12 DEF Exit
<1>13. CASE Interrupt
    BY <1>13 DEF Interrupt
<1>14. CASE Terminate
    BY <1>14 DEF Terminate
<1>15. CASE Tick
    BY <1>15 DEF Tick
<1>16. CASE UNCHANGED vars
    BY <1>16 DEF vars
<1>17. QED
    BY <1>1, <1>2, <1>3, <1>4, <1>5, <1>6, <1>7, <1>8, <1>9, <1>10, <1>11, <1>12,
       <1>13, <1>14, <1>15, <1>16 DEF Next, Step, Ended

\* However the process ends, short of a signal it does not handle, the terminal is
\* restored and the Sampler closed (cmd/aneperf/main.go:71, 132-147).
THEOREM ExitIsClean == Spec => []CleanExit
<1>1. StretchInv => CleanExit
    BY DEF StretchInv, CleanExit, Catching
<1>2. QED
    BY <1>1, StretchInit, StretchStep, PTL DEF Spec

-----------------------------------------------------------------------------
(* The power history.  The numbers of the deltas wrap round, so that the    *)
(* distance of two of them is known only because a history is shorter than  *)
(* a cycle; the invariant says it with sums instead of remainders.          *)

\* The number that follows n deltas after the zeroth.
Number(n) == n % Cycle

LEMMA Wrap ==
    \A n \in Nat : /\ n < Cycle => Number(n) = n
                   /\ Cycle <= n /\ n < Cycle + Cycle => Number(n) = n - Cycle
<1>1. \A C \in Nat \ {0} : \A n \in Nat :
         /\ n < C => n % C = n
         /\ C <= n /\ n < C + C => n % C = n - C
  OBVIOUS
<1>2. Cycle \in Nat \ {0}  BY LiveAssumption
<1> QED  BY <1>1, <1>2 DEF Number

\* Is a delta taken and not yet in the history?
Waiting == IF pc = "print" THEN 1 ELSE 0

\* d deltas were taken after n.
Ago(n, d) == n + d = taken \/ n + d = taken + Cycle

NumberTypes ==
    /\ taken \in 0..(Cycle - 1)
    /\ powerHistory \in Seq(0..(Cycle - 1))
    /\ Len(powerHistory) <= HistoryLen

RecentInv ==
    LET k == Len(powerHistory) IN
    /\ \A i \in 1..k : Ago(powerHistory[i], (k - i) + Waiting)
    /\ k < HistoryLen => k + Waiting = taken

\* No delta is taken before the loop, and after it the history is not shown.
HistoryInv ==
    /\ NumberTypes
    /\ pc \in {"new", "notify", "enter", "ticker"} => taken = 0 /\ powerHistory = <<>>
    /\ pc \in {"select", "print"} => RecentInv

LEMMA TickHistory == HistoryInv /\ SelectTick => HistoryInv'
<1> SUFFICES ASSUME HistoryInv, SelectTick PROVE HistoryInv'
  OBVIOUS
<1> DEFINE k == Len(powerHistory)
<1>1. /\ pc = "select" /\ pc' = "print" /\ taken' = (taken + 1) % Cycle
      /\ powerHistory' = powerHistory
  BY DEF SelectTick, At, GoTo
<1>2. /\ taken \in 0..(Cycle - 1) /\ Cycle \in Nat \ {0} /\ HistoryLen < Cycle
      /\ HistoryLen \in Nat /\ k \in Nat /\ k <= HistoryLen
      /\ powerHistory \in Seq(0..(Cycle - 1))
  BY LiveAssumption DEF HistoryInv, NumberTypes
<1>3. /\ taken + 1 < Cycle => taken' = taken + 1
      /\ taken + 1 = Cycle => taken' = 0
  <2>1. /\ taken + 1 \in Nat /\ taken + 1 < Cycle + Cycle
        /\ taken + 1 = Cycle => taken + 1 - Cycle = 0
    BY <1>2
  <2>2. taken' = Number(taken + 1)  BY <1>1 DEF Number
  <2> QED  BY <1>2, <2>1, <2>2, Wrap
<1>4. taken' \in 0..(Cycle - 1)  BY <1>2, <1>3
<1>5. Waiting = 0 /\ Waiting' = 1  BY <1>1 DEF Waiting
<1>6. /\ \A i \in 1..k : Ago(powerHistory[i], (k - i) + 0)
      /\ k < HistoryLen => k + 0 = taken
  BY <1>1, <1>5 DEF HistoryInv, RecentInv
<1>7. ASSUME NEW i \in 1..k PROVE Ago(powerHistory[i], (k - i) + 1)'
  <2>1. powerHistory[i] \in 0..(Cycle - 1)  BY <1>2
  <2>2. \/ powerHistory[i] + (k - i) = taken
        \/ powerHistory[i] + (k - i) = taken + Cycle
    BY <1>2, <1>6 DEF Ago
  <2>3. taken + 1 < Cycle \/ taken + 1 = Cycle  BY <1>2
  <2>4. \/ powerHistory[i] + ((k - i) + 1) = taken'
        \/ powerHistory[i] + ((k - i) + 1) = taken' + Cycle
    <3> DEFINE n == powerHistory[i]
               d == k - i
    <3>1. n \in 0..(Cycle - 1) /\ d \in Nat /\ d < Cycle - 1  BY <1>2, <2>1
    <3>2. n + d = taken \/ n + d = taken + Cycle  BY <2>2
    <3> HIDE DEF n, d
    <3>3. n + (d + 1) = taken' \/ n + (d + 1) = taken' + Cycle
      <4>1. CASE taken + 1 < Cycle  BY <1>2, <1>3, <3>1, <3>2, <4>1
      <4>2. CASE taken + 1 = Cycle
        <5>1. taken' = 0  BY <1>3, <4>2
        <5>2. n + d = taken  BY <1>2, <3>1, <3>2, <4>2
        <5> QED  BY <1>2, <3>1, <4>2, <5>1, <5>2
      <4> QED  BY <2>3, <4>1, <4>2
    <3> QED  BY <3>3 DEF n, d
  <2> QED  BY <1>1, <2>4 DEF Ago
<1>8. k < HistoryLen => k + 1 = taken'  BY <1>2, <1>3, <1>6
<1>9. RecentInv'  BY <1>1, <1>5, <1>7, <1>8 DEF RecentInv
<1> QED  BY <1>1, <1>2, <1>4, <1>9 DEF HistoryInv, NumberTypes

\* printLive: the new delta joins the history, and the oldest leaves a full one.
LEMMA PrintHistory == HistoryInv /\ PrintLive => HistoryInv'
<1> SUFFICES ASSUME HistoryInv, PrintLive PROVE HistoryInv'
  OBVIOUS
<1> DEFINE k == Len(powerHistory)
           h == Append(powerHistory, taken)
           j == Len(powerHistory')
<1>1. /\ pc = "print" /\ pc' \in {"select", "leave"} /\ taken' = taken
      /\ powerHistory' = IF Len(h) > HistoryLen
                           THEN SubSeq(h, Len(h) - HistoryLen + 1, Len(h)) ELSE h
  BY DEF PrintLive, Sparkline, At, GoTo
<1>2. /\ taken \in 0..(Cycle - 1) /\ Cycle \in Nat \ {0} /\ HistoryLen < Cycle
      /\ HistoryLen \in Nat \ {0} /\ k \in Nat /\ k <= HistoryLen
      /\ powerHistory \in Seq(0..(Cycle - 1))
  BY LiveAssumption DEF HistoryInv, NumberTypes
<1>3. Waiting = 1 /\ Waiting' = 0  BY <1>1 DEF Waiting
<1>4. /\ \A i \in 1..k : Ago(powerHistory[i], (k - i) + 1)
      /\ k < HistoryLen => k + 1 = taken
  BY <1>1, <1>3 DEF HistoryInv, RecentInv
<1>5. /\ h \in Seq(0..(Cycle - 1)) /\ Len(h) = k + 1 /\ h[k + 1] = taken
      /\ \A i \in 1..k : h[i] = powerHistory[i]
  BY <1>2
<1>6. \A i \in 1..(k + 1) : Ago(h[i], (k + 1) - i)
  <2> SUFFICES ASSUME NEW i \in 1..(k + 1) PROVE Ago(h[i], (k + 1) - i)
    OBVIOUS
  <2>1. CASE i = k + 1
    <3>1. (k + 1) - i = 0 /\ h[i] + 0 = taken  BY <1>2, <1>5, <2>1
    <3> QED  BY <3>1 DEF Ago
  <2>2. CASE i \in 1..k
    <3>1. (k - i) + 1 = (k + 1) - i  BY <1>2
    <3> QED  BY <1>4, <1>5, <2>2, <3>1
  <2> QED  BY <1>2, <2>1, <2>2
<1>7. /\ powerHistory' \in Seq(0..(Cycle - 1)) /\ j \in Nat /\ j <= HistoryLen
      /\ j = k + 1 \/ (j = HistoryLen /\ k = HistoryLen)
      /\ \A i \in 1..j : powerHistory'[i] = h[i + (k + 1 - j)]
  <2> HIDE DEF h, k
  <2>1. CASE k + 1 > HistoryLen
    <3>1. k = HistoryLen /\ Len(h) - HistoryLen + 1 = 2  BY <1>2, <1>5, <2>1
    <3>2. powerHistory' = SubSeq(h, 2, k + 1)  BY <1>1, <1>5, <2>1, <3>1
    <3>3. /\ SubSeq(h, 2, k + 1) \in Seq(0..(Cycle - 1)) /\ Len(SubSeq(h, 2, k + 1)) = k
          /\ \A i \in 1..k : SubSeq(h, 2, k + 1)[i] = h[i + 1]
      BY <1>2, <1>5
    <3> QED  BY <1>2, <3>1, <3>2, <3>3
  <2>2. CASE k + 1 <= HistoryLen
    <3>1. powerHistory' = h  BY <1>1, <1>2, <1>5, <2>2
    <3>2. h \in Seq(0..(Cycle - 1)) /\ Len(h) = k + 1  BY <1>5
    <3>3. \A i \in 1..(k + 1) : i + (k + 1 - (k + 1)) = i  BY <1>2
    <3> QED  BY <1>2, <2>2, <3>1, <3>2, <3>3
  <2> QED  BY <1>2, <2>1, <2>2
<1>8. ASSUME NEW i \in 1..j PROVE Ago(powerHistory[i], (Len(powerHistory) - i) + 0)'
  <2> HIDE DEF h, k, j
  <2>1. /\ i + (k + 1 - j) \in 1..(k + 1)
        /\ (k + 1) - (i + (k + 1 - j)) = (j - i) + 0
    BY <1>2, <1>7
  <2>2. Ago(powerHistory'[i], (j - i) + 0)  BY <1>6, <1>7, <2>1
  <2>3. Ago(powerHistory'[i], (Len(powerHistory') - i) + 0)  BY <2>2 DEF j
  <2> QED  BY <1>1, <2>3 DEF Ago
<1>9. j < HistoryLen => j + 0 = taken'  BY <1>1, <1>2, <1>4, <1>7
<1>10. RecentInv'  BY <1>3, <1>8, <1>9 DEF RecentInv
<1> QED  BY <1>1, <1>2, <1>7, <1>10 DEF HistoryInv, NumberTypes

\* The other steps take no delta, and enter the loop with an empty history.
LEMMA OtherHistory ==
    ASSUME HistoryInv, [Next]_vars, ~SelectTick, ~PrintLive
    PROVE  HistoryInv'
<1>1. /\ taken' = taken /\ (powerHistory' = powerHistory \/ powerHistory' = <<>>)
      /\ pc' \in {"select", "print"} => pc' = pc \/ pc = "ticker"
      /\ pc' \in {"new", "notify", "enter", "ticker"} =>
            pc \in {"new", "notify", "enter", "ticker"}
      /\ pc' = pc => powerHistory' = powerHistory
      /\ pc' # "enter" => powerHistory' = powerHistory
  BY DEF Next, Step, Ended, NewSampler, RunOnce, Notify, EnterLiveScreen, NewTicker,
         SelectSignal, LeaveLiveScreen, SignalStop, Close, Exit, Interrupt, Terminate,
         Tick, At, GoTo, data, vars
<1>2. /\ NumberTypes /\ Cycle \in Nat \ {0} /\ HistoryLen \in Nat \ {0} /\ HistoryLen < Cycle
  BY LiveAssumption DEF HistoryInv
<1>3. NumberTypes'
  <2>1. CASE powerHistory' = powerHistory  BY <1>1, <1>2, <2>1 DEF NumberTypes
  <2>2. CASE powerHistory' = <<>>
    <3>1. powerHistory' \in Seq(0..(Cycle - 1)) /\ Len(powerHistory') = 0  BY <2>2
    <3>2. 0 <= HistoryLen  BY <1>2
    <3> QED  BY <1>1, <1>2, <3>1, <3>2 DEF NumberTypes
  <2> QED  BY <1>1, <2>1, <2>2
<1>4. pc' \in {"new", "notify", "enter", "ticker"} => taken' = 0 /\ powerHistory' = <<>>
  BY <1>1 DEF HistoryInv
<1>5. ASSUME pc' \in {"select", "print"} PROVE RecentInv'
  <2>1. powerHistory' = powerHistory  BY <1>1, <1>5
  <2>2. CASE pc' = pc
    <3>1. RecentInv /\ Waiting' = Waiting  BY <1>5, <2>2 DEF HistoryInv, Waiting
    <3> QED  BY <1>1, <2>1, <3>1 DEF RecentInv, Ago
  <2>3. CASE pc = "ticker"
    <3>1. pc' = "select" /\ powerHistory = <<>> /\ taken = 0
      BY <1>5, <2>3 DEF HistoryInv, Next, Step, Ended, NewSampler, RunOnce, Notify,
         EnterLiveScreen, NewTicker, SelectSignal, LeaveLiveScreen, SignalStop, Close, Exit,
         Interrupt, Terminate, Tick, At, GoTo, vars
    <3>2. Len(powerHistory') = 0 /\ Waiting' = 0  BY <2>1, <3>1 DEF Waiting
    <3> QED  BY <1>1, <3>1, <3>2 DEF RecentInv
  <2> QED  BY <1>1, <1>5, <2>2, <2>3
<1> QED  BY <1>3, <1>4, <1>5 DEF HistoryInv

LEMMA HistoryInit == Init => HistoryInv
<1> SUFFICES ASSUME Init PROVE HistoryInv
  OBVIOUS
<1>1. Cycle \in Nat \ {0} /\ HistoryLen \in Nat \ {0}  BY LiveAssumption
<1>2. taken = 0 /\ powerHistory = <<>> /\ pc = "new"  BY DEF Init
<1>3. 0 \in 0..(Cycle - 1) /\ powerHistory \in Seq(0..(Cycle - 1)) /\ Len(powerHistory) = 0
  BY <1>1, <1>2
<1> QED  BY <1>1, <1>2, <1>3 DEF HistoryInv, NumberTypes

\* In every select the power history is the last HistoryLen deltas, in order and
\* without a gap (cmd/aneperf/main.go:136-137, 159-166).
THEOREM HistoryCorrect == Spec => []HistoryIsRecent
<1>1. HistoryInv /\ [Next]_vars => HistoryInv'
  BY TickHistory, PrintHistory, OtherHistory
<1>2. ASSUME HistoryInv PROVE HistoryIsRecent
  <2> DEFINE k == Len(powerHistory)
  <2> SUFFICES ASSUME pc = "select"
               PROVE  /\ k <= HistoryLen
                      /\ \A i \in 1..k : (powerHistory[i] + k - i) % Cycle = taken
                      /\ k < HistoryLen => k = taken
    BY DEF HistoryIsRecent
  <2>1. NumberTypes /\ RecentInv /\ Waiting = 0  BY <1>2 DEF HistoryInv, Waiting
  <2>2. /\ taken \in 0..(Cycle - 1) /\ k \in Nat /\ k <= HistoryLen
        /\ powerHistory \in Seq(0..(Cycle - 1)) /\ Cycle \in Nat \ {0}
    BY <2>1, LiveAssumption DEF NumberTypes
  <2>3. ASSUME NEW i \in 1..k PROVE (powerHistory[i] + k - i) % Cycle = taken
    <3> DEFINE x == powerHistory[i] + k - i
    <3>1. powerHistory[i] \in Nat  BY <2>2
    <3>2. Ago(powerHistory[i], (k - i) + 0)  BY <2>1 DEF RecentInv
    <3>3. x = taken \/ x = taken + Cycle  BY <2>2, <3>1, <3>2 DEF Ago
    <3> HIDE DEF x
    <3>4. Number(x) = taken  BY <2>2, <3>3, Wrap
    <3> QED  BY <3>4 DEF x, Number
  <2>4. k < HistoryLen => k = taken  BY <2>1, <2>2 DEF RecentInv
  <2> QED  BY <2>2, <2>3, <2>4
<1> QED  BY <1>1, <1>2, HistoryInit, PTL DEF Spec
=============================================================================
