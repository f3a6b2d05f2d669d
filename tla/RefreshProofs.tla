---------------------------- MODULE RefreshProofs ----------------------------
(***************************************************************************)
(* What the terminal remembers between refreshes, for any list of          *)
(* channels, any samples, any window and any length of the histories.      *)
(*                                                                         *)
(* The window of a channel is what that channel itself had, without a      *)
(* condition.  The history of a channel is its own, and the rows follow    *)
(* it, if no two channels of a category have one name: the prefixes keep   *)
(* the sections apart, and nothing keeps two such channels apart.          *)
(*                                                                         *)
(* The sections record one channel after the other: RecordedSoFar says     *)
(* what the map holds after the first k of the list, by induction on k.    *)
(***************************************************************************)
EXTENDS Refresh, FoldLemmas, TLAPS

\* A sequence that is cut to its newest n loses its oldest entry when it is
\* over full, and never more.
LEMMA NewestIsTail ==
    ASSUME NEW S, NEW s \in Seq(S), NEW e \in S, NEW n \in Nat \ {0}, Len(s) <= n
    PROVE  /\ Newest(Append(s, e), n) =
                IF Len(Append(s, e)) = n + 1 THEN Tail(Append(s, e)) ELSE Append(s, e)
           /\ Newest(Append(s, e), n) \in Seq(S)
           /\ Len(Newest(Append(s, e), n)) <= n
<1> DEFINE a == Append(s, e)
<1>1. a \in Seq(S) /\ Len(a) = Len(s) + 1 /\ Len(s) \in Nat  OBVIOUS
<1> HIDE DEF a
<1>2. CASE Len(a) = n + 1
  <2>1. Newest(a, n) = SubSeq(a, 2, Len(a))  BY <1>1, <1>2 DEF Newest
  <2>2. SubSeq(a, 2, Len(a)) = Tail(a)  BY <1>1, <1>2
  <2>3. Tail(a) \in Seq(S) /\ Len(Tail(a)) = n  BY <1>1, <1>2
  <2> QED  BY <1>2, <2>1, <2>2, <2>3 DEF a
<1>3. CASE Len(a) # n + 1
  <2>1. Newest(a, n) = a /\ Len(a) <= n  BY <1>1, <1>3 DEF Newest
  <2> QED  BY <1>1, <1>3, <2>1 DEF a
<1> QED  BY <1>2, <1>3

-----------------------------------------------------------------------------
(* The smoothing window.                                                   *)

\* The windows and the ghosts are the same sequences, of at most Limit entries.
WindowInv ==
    /\ samples = seen
    /\ \E S : samples \in [Windowed -> Seq(S)]
    /\ \A ch \in Windowed : Len(samples[ch]) <= Limit

LEMMA WindowInit == Init => WindowInv
<1> SUFFICES ASSUME Init PROVE WindowInv  OBVIOUS
<1>1. samples = [ch \in Windowed |-> <<>>] /\ seen = samples  BY DEF Init
<1>2. samples \in [Windowed -> Seq({})]  BY <1>1
<1>3. \A ch \in Windowed : Len(samples[ch]) <= Limit  BY <1>1, LengthsAssumption
<1> QED  BY <1>1, <1>2, <1>3 DEF WindowInv

\* A refresh does to each window what it does to the ghost.
LEMMA WindowStep ==
    ASSUME WindowInv, NEW obs \in Samples, PrintLive(obs)
    PROVE  WindowInv'
<1>1. /\ samples' = Observe(obs)
      /\ seen' = [ch \in Windowed |-> IF DOMAIN obs[ch].res = {} THEN seen[ch]
                     ELSE LET s == Append(seen[ch], obs[ch].res)
                          IN  IF Len(s) = Limit + 1 THEN Tail(s) ELSE s]
  BY DEF PrintLive
<1>2. PICK S : samples \in [Windowed -> Seq(S)]  BY DEF WindowInv
<1>3. /\ samples = seen /\ Limit \in Nat \ {0}
      /\ \A ch \in Windowed : ch \in Chans /\ Len(samples[ch]) <= Limit
  BY LengthsAssumption DEF WindowInv, Windowed, InCat
<1> DEFINE S2 == S \union {obs[ch].res : ch \in Windowed}
<1>4. ASSUME NEW ch \in Windowed
      PROVE  /\ samples'[ch] = seen'[ch]
             /\ samples'[ch] \in Seq(S2)
             /\ Len(samples'[ch]) <= Limit
  <2>1. samples[ch] \in Seq(S2) /\ obs[ch].res \in S2 /\ S \subseteq S2  BY <1>2
  <2>2. CASE DOMAIN obs[ch].res = {}
    <3>1. samples'[ch] = samples[ch] /\ seen'[ch] = seen[ch]  BY <1>1, <2>2 DEF Observe
    <3> QED  BY <1>3, <2>1, <3>1
  <2>3. CASE DOMAIN obs[ch].res # {}
    <3>1. obs[ch].here  BY <2>3, <1>3, SamplesAssumption
    <3>2. samples'[ch] = Newest(Append(samples[ch], obs[ch].res), Limit)
      BY <1>1, <2>3, <3>1 DEF Observe
    <3>3. seen'[ch] = IF Len(Append(samples[ch], obs[ch].res)) = Limit + 1
                        THEN Tail(Append(samples[ch], obs[ch].res))
                        ELSE Append(samples[ch], obs[ch].res)
      BY <1>1, <1>3, <2>3
    <3>4. Limit \in Nat \ {0} /\ Len(samples[ch]) <= Limit  BY <1>3
    <3> HIDE DEF S2
    <3>5. /\ Newest(Append(samples[ch], obs[ch].res), Limit) =
                IF Len(Append(samples[ch], obs[ch].res)) = Limit + 1
                  THEN Tail(Append(samples[ch], obs[ch].res))
                  ELSE Append(samples[ch], obs[ch].res)
          /\ Newest(Append(samples[ch], obs[ch].res), Limit) \in Seq(S2)
          /\ Len(Newest(Append(samples[ch], obs[ch].res), Limit)) <= Limit
      BY <2>1, <3>4, NewestIsTail, Zenon
    <3> QED  BY <3>2, <3>3, <3>5
  <2> QED  BY <2>2, <2>3
<1>5. samples' = [ch \in Windowed |-> samples'[ch]]  BY <1>1 DEF Observe
<1>6. seen' = [ch \in Windowed |-> seen'[ch]]  BY <1>1
<1>7. samples' = seen'  BY <1>4, <1>5, <1>6
<1>8. samples' \in [Windowed -> Seq(S2)]  BY <1>4, <1>5
<1> QED  BY <1>4, <1>7, <1>8 DEF WindowInv

LEMMA WindowCorrect == Spec => []WindowInv
<1>1. WindowInv /\ [Next]_vars => WindowInv'
  <2> SUFFICES ASSUME WindowInv, [Next]_vars PROVE WindowInv'  OBVIOUS
  <2>1. CASE Next  BY <2>1, WindowStep DEF Next
  <2>2. CASE UNCHANGED vars
    BY <2>2 DEF WindowInv, vars, Windowed, InCat, Chans
  <2> QED  BY <2>1, <2>2
<1> QED  BY <1>1, WindowInit, PTL DEF Spec

\* The figures on the screen are those of the last Limit samples in which the
\* channel had states (channelStateWindow, main.go:1020-1067), for every list of
\* channels and every sequence of samples.
THEOREM SmoothedCorrect == Spec => []SmoothedIsRecent
<1>1. WindowInv => SmoothedIsRecent  BY DEF WindowInv, SmoothedIsRecent
<1> QED  BY <1>1, WindowCorrect, PTL

-----------------------------------------------------------------------------
(* The histories.                                                          *)

Keys == {Key(ch) : ch \in Remembered}
List == Append(Listed, TotalRow)
Histories(S) == [Keys -> {s \in Seq(S) : Len(s) <= HistoryLen}]

\* What recordHistory is called for when the list has come to ch.
Record(h, here, section, ch) ==
    IF ch \in here \intersect Remembered
      THEN RecordHistory(h, Key(ch), section[ch].figure) ELSE h

\* The prefixes and the names tell the channels apart.
LEMMA KeysDiffer ==
    ASSUME NamesDiffer, NEW a \in Remembered, NEW b \in Remembered, Key(a) = Key(b)
    PROVE  a = b
<1>1. Prefix[a.cat] = Prefix[b.cat] /\ a.name = b.name  BY DEF Key
<1>2. TotalRow.cat = "Throttle"  BY DEF TotalRow
<1>3. ASSUME NEW ch \in Remembered
      PROVE  \/ ch = TotalRow
             \/ ch \in Chans /\ ch.cat \in {"Voltage", "Bandwidth", "Count", "Time"}
  BY DEF Remembered, InCat
<1>4. a.cat = b.cat  BY <1>1, <1>2, <1>3 DEF Prefix
<1>5. a = TotalRow <=> b = TotalRow  BY <1>2, <1>3, <1>4
<1>6. CASE a \in Chans /\ b \in Chans
  BY <1>1, <1>4, <1>6 DEF Chans, NamesDiffer
<1> QED  BY <1>3, <1>5, <1>6

\* Every channel has one place in the list, and the throttle total the last.
LEMMA ListIsInjective ==
    ASSUME NamesDiffer
    PROVE  /\ Len(Listed) \in Nat /\ Len(List) = Len(Listed) + 1
           /\ \A ch \in Remembered : \E i \in 1..Len(List) : List[i] = ch
           /\ \A i, j \in 1..Len(List) : List[i] = List[j] => i = j
<1>1. Listed \in Seq(Chans) /\ TotalRow \notin Chans  BY ListedAssumption
<1>2. Len(Listed) \in Nat /\ Len(List) = Len(Listed) + 1  BY <1>1 DEF List
<1>3. \A i \in 1..Len(Listed) : List[i] = Listed[i] /\ List[i] \in Chans  BY <1>1 DEF List
<1>4. List[Len(Listed) + 1] = TotalRow  BY <1>1 DEF List
<1>5. \A i, j \in 1..Len(List) : List[i] = List[j] => i = j
  BY <1>1, <1>2, <1>3, <1>4 DEF NamesDiffer
<1>6. \A ch \in Remembered : \E i \in 1..Len(List) : List[i] = ch
  BY <1>2, <1>3, <1>4 DEF Remembered, InCat, Chans
<1> QED  BY <1>2, <1>5, <1>6

\* One call of recordHistory: the figure is appended, and no history grows over
\* HistoryLen.
LEMMA RecordStays ==
    ASSUME NEW S, NEW h \in Histories(S), NEW here, NEW section, NEW ch,
           ch \in here \intersect Remembered => section[ch].figure \in S
    PROVE  Record(h, here, section, ch) \in Histories(S)
<1>1. CASE ch \in here \intersect Remembered
  <2>1. Key(ch) \in Keys  BY <1>1 DEF Keys
  <2>2. h[Key(ch)] \in Seq(S) /\ Len(h[Key(ch)]) <= HistoryLen  BY <2>1 DEF Histories
  <2>3. section[ch].figure \in S /\ HistoryLen \in Nat \ {0}  BY <1>1, LengthsAssumption
  <2> DEFINE new == Newest(Append(h[Key(ch)], section[ch].figure), HistoryLen)
  <2>4. new \in Seq(S) /\ Len(new) <= HistoryLen  BY <2>2, <2>3, NewestIsTail, Zenon
  <2>5. Record(h, here, section, ch) = [h EXCEPT ![Key(ch)] = new]
    BY <1>1 DEF Record, RecordHistory
  <2> HIDE DEF new
  <2> QED  BY <2>4, <2>5 DEF Histories
<1>2. CASE ch \notin here \intersect Remembered  BY <1>2 DEF Record
<1> QED  BY <1>1, <1>2

\* F[k] is the map after the first k entries of the list.
CallByCall(F, S, here, section) ==
    /\ F \in [0..Len(List) -> Histories(S)]
    /\ F[0] = history
    /\ \A k \in 1..Len(List) : F[k] = Record(F[k - 1], here, section, List[k])
    /\ F[Len(List)] = RecordAll(here, section)

\* The fold of RecordAll is a sequence of such calls, one for each entry of the list.
LEMMA RecordAllSteps ==
    ASSUME NEW S, history \in Histories(S), NEW here, NEW section,
           \A ch \in here \intersect Remembered : section[ch].figure \in S
    PROVE  \E F : CallByCall(F, S, here, section)
<1> DEFINE n == Len(List)
           V == Histories(S)
           G == [p \in V \X (1..n) |-> Record(p[1], here, section, List[p[2]])]
           Folds(iter) == iter = [s \in SUBSET DOMAIN List |->
                             IF s = {} THEN history
                             ELSE Record(iter[s \ {Max(s)}], here, section, List[Max(s)])]
           it == CHOOSE iter : Folds(iter)
<1>1. n \in Nat /\ DOMAIN List = 1..n  BY ListedAssumption DEF List
<1>2. RecordAll(here, section) = it[DOMAIN List]
  BY DEF RecordAll, FoldLeft, MapThenFoldSet, Record, List
<1>3. G \in [V \X (1..n) -> V]
  <2>1. ASSUME NEW h \in V, NEW i \in 1..n PROVE Record(h, here, section, List[i]) \in V
    BY RecordStays
  <2> QED  BY <2>1
<1>4. \A v \in V, i \in 1..n : G[<<v, i>>] = Record(v, here, section, List[i])  OBVIOUS
<1> HIDE DEF G
<1>5. PICK iter \in [SUBSET (1..n) -> V] : Solves(iter, n, history, G)
  BY <1>1, <1>3, FoldExists
<1>6. ASSUME NEW s \in SUBSET (1..n), s # {}
      PROVE  iter[s \ {Max(s)}] \in V /\ Max(s) \in 1..n
  BY <1>1, <1>6, MaxIsGreatest
<1>7. Folds(iter)
  <2>1. ASSUME NEW s \in SUBSET (1..n)
        PROVE  iter[s] = IF s = {} THEN history
                         ELSE Record(iter[s \ {Max(s)}], here, section, List[Max(s)])
    BY <1>4, <1>5, <1>6 DEF Solves
  <2> HIDE DEF V, n
  <2> QED  BY <1>1, <2>1
<1>8. Folds(it)  BY <1>7
<1> HIDE DEF it
<1>9. \A s \in SUBSET (1..n) :
         it[s] = IF s = {} THEN history
                 ELSE Record(it[s \ {Max(s)}], here, section, List[Max(s)])
  BY <1>1, <1>8
<1> HIDE DEF Folds, n
<1> DEFINE F == [k \in 0..n |-> it[1..k]]
<1>10. F[0] = history
  <2>1. 1..0 = {} /\ 0 \in 0..n  BY <1>1
  <2> QED  BY <1>9, <2>1
<1>11. \A k \in 1..n : F[k] = Record(F[k - 1], here, section, List[k])
  <2> SUFFICES ASSUME NEW k \in 1..n
               PROVE  F[k] = Record(F[k - 1], here, section, List[k])
    OBVIOUS
  <2>1. k \in 0..n /\ k - 1 \in 0..n /\ k \in Nat \ {0} /\ 1..k \in SUBSET (1..n)  BY <1>1
  <2>2. Max(1..k) = k /\ (1..k) \ {Max(1..k)} = 1..(k - 1) /\ 1..k # {}
    BY <2>1, MaxOfRange
  <2>3. it[1..k] = Record(it[1..(k - 1)], here, section, List[k])  BY <1>9, <2>1, <2>2
  <2> QED  BY <2>1, <2>3
<1>12. \A k \in 0..n : F[k] \in V
  <2> DEFINE T == {k \in 0..n : F[k] \in V}
  <2> HIDE DEF F, V
  <2>1. 0 \in T  BY <1>1, <1>10 DEF V
  <2>2. \A k \in 1..n : k - 1 \in T => k \in T
    <3> SUFFICES ASSUME NEW k \in 1..n, F[k - 1] \in V PROVE F[k] \in V
      BY <1>1
    <3> QED  BY <1>11, RecordStays DEF V
  <2>3. ASSUME NEW k \in 0..n PROVE k \in T
    <3>1. k \in Nat /\ \A j \in 1..k : j - 1 \in T => j \in T  BY <1>1, <2>2
    <3> HIDE DEF T
    <3> QED  BY <2>1, <3>1, RangeInduction
  <2> QED  BY <2>3
<1>13. F \in [0..n -> V] /\ F[n] = RecordAll(here, section)
  BY <1>1, <1>2, <1>12
<1> HIDE DEF F
<1> QED  BY <1>10, <1>11, <1>13 DEF n, CallByCall

\* What one refresh adds to the history of a channel that it finds here.
Grown(ch, section) == Newest(Append(history[Key(ch)], section[ch].figure), HistoryLen)

\* After the first k entries of the list, the channels among them have their figure
\* and the others their old history.
RecordedSoFar(h, k, here, section) ==
    \A ch \in Remembered :
        h[Key(ch)] = IF ch \in here /\ \E i \in 1..k : List[i] = ch
                       THEN Grown(ch, section) ELSE history[Key(ch)]

\* One call keeps RecordedSoFar: its key is that of no other channel.
LEMMA RecordedOneMore ==
    ASSUME NamesDiffer, NEW S, NEW h \in Histories(S), NEW here, NEW section,
           NEW k \in 1..Len(List), RecordedSoFar(h, k - 1, here, section)
    PROVE  RecordedSoFar(Record(h, here, section, List[k]), k, here, section)
<1> DEFINE new == Record(h, here, section, List[k])
<1>1. /\ Len(List) \in Nat
      /\ \A i, j \in 1..Len(List) : List[i] = List[j] => i = j
  BY ListIsInjective
<1>2. \A i \in 1..(k - 1) : List[i] # List[k]  BY <1>1
<1>3. ASSUME NEW ch \in Remembered, ch # List[k]
      PROVE  /\ new[Key(ch)] = h[Key(ch)]
             /\ (\E i \in 1..k : List[i] = ch) <=> \E i \in 1..(k - 1) : List[i] = ch
  <2>1. CASE List[k] \in here \intersect Remembered
    <3>1. Key(List[k]) # Key(ch)  BY <1>3, <2>1, KeysDiffer
    <3>2. Key(ch) \in Keys  BY DEF Keys
    <3> QED  BY <1>3, <2>1, <3>1, <3>2 DEF Record, RecordHistory, Histories
  <2>2. CASE List[k] \notin here \intersect Remembered  BY <1>3, <2>2 DEF Record
  <2> QED  BY <2>1, <2>2
<1>4. ASSUME NEW ch \in Remembered, ch = List[k]
      PROVE  new[Key(ch)] = IF ch \in here THEN Grown(ch, section) ELSE history[Key(ch)]
  <2>1. h[Key(ch)] = history[Key(ch)]  BY <1>2, <1>4 DEF RecordedSoFar
  <2>2. CASE ch \in here
    <3>1. Key(ch) \in Keys  BY DEF Keys
    <3> QED  BY <1>4, <2>1, <2>2, <3>1 DEF Record, RecordHistory, Histories, Grown
  <2>3. CASE ch \notin here  BY <1>4, <2>1, <2>3 DEF Record
  <2> QED  BY <2>2, <2>3
<1> HIDE DEF new
<1>5. ASSUME NEW ch \in Remembered
      PROVE  new[Key(ch)] = IF ch \in here /\ \E i \in 1..k : List[i] = ch
                              THEN Grown(ch, section) ELSE history[Key(ch)]
  <2>1. CASE ch = List[k]  BY <1>4, <2>1
  <2>2. CASE ch # List[k]  BY <1>3, <2>2 DEF RecordedSoFar
  <2> QED  BY <2>1, <2>2
<1> QED  BY <1>5 DEF RecordedSoFar, new

\* What a refresh makes of the map of histories.
LEMMA AllRecorded ==
    ASSUME NamesDiffer, NEW S, history \in Histories(S), NEW here, NEW section,
           \A ch \in here \intersect Remembered : section[ch].figure \in S
    PROVE  /\ RecordAll(here, section) \in Histories(S)
           /\ \A ch \in Remembered :
                RecordAll(here, section)[Key(ch)] =
                  IF ch \in here THEN Grown(ch, section) ELSE history[Key(ch)]
<1>1. PICK F : CallByCall(F, S, here, section)  BY RecordAllSteps
<1>2. /\ Len(List) \in Nat
      /\ \A ch \in Remembered : \E i \in 1..Len(List) : List[i] = ch
  BY ListIsInjective
<1> DEFINE T == {k \in 0..Len(List) : RecordedSoFar(F[k], k, here, section)}
<1>3. 0 \in T
  <2>1. RecordedSoFar(F[0], 0, here, section)  BY <1>1 DEF RecordedSoFar, CallByCall
  <2> QED  BY <1>2, <2>1
<1>4. \A k \in 1..Len(List) : k - 1 \in T => k \in T
  <2> SUFFICES ASSUME NEW k \in 1..Len(List), RecordedSoFar(F[k - 1], k - 1, here, section)
               PROVE  RecordedSoFar(F[k], k, here, section)
    BY <1>2
  <2>1. F[k - 1] \in Histories(S)  BY <1>1, <1>2 DEF CallByCall
  <2>2. F[k] = Record(F[k - 1], here, section, List[k])  BY <1>1 DEF CallByCall
  <2> QED  BY <2>1, <2>2, RecordedOneMore
<1>5. Len(List) \in T
  <2> HIDE DEF T
  <2> QED  BY <1>2, <1>3, <1>4, RangeInduction
<1>6. RecordedSoFar(RecordAll(here, section), Len(List), here, section)
  BY <1>1, <1>5 DEF CallByCall
<1>7. RecordAll(here, section) \in Histories(S)  BY <1>1, <1>2 DEF CallByCall
<1> QED  BY <1>2, <1>6, <1>7 DEF RecordedSoFar

\* The map has a history for every key, none too long, and each is its channel's own.
HistoryInv ==
    /\ \E S : history \in Histories(S)
    /\ HistoryIsPerChannel

LEMMA HistoryInit == Init => HistoryInv
<1> SUFFICES ASSUME Init PROVE HistoryInv  OBVIOUS
<1>1. history = [k \in Keys |-> <<>>] /\ past = [ch \in Remembered |-> <<>>]
  BY DEF Init, Keys
<1>2. <<>> \in {s \in Seq({}) : Len(s) <= HistoryLen}  BY LengthsAssumption
<1>3. history \in Histories({})  BY <1>1, <1>2 DEF Histories
<1>4. \A ch \in Remembered : Key(ch) \in Keys  BY DEF Keys
<1>5. HistoryIsPerChannel  BY <1>1, <1>4 DEF HistoryIsPerChannel
<1> QED  BY <1>3, <1>5 DEF HistoryInv

\* The channels that a refresh prints, the throttle total among them.
Here(obs) == {ch \in Chans : obs[ch].here} \union {TotalRow}

\* A refresh, as far as the histories and the rows go.
Refreshed(obs, section) ==
    /\ last' = obs
    /\ history' = RecordAll(Here(obs), section)
    /\ rows' = RowsOf(Here(obs), section)
    /\ past' = [ch \in Remembered |-> IF ch \notin Here(obs) THEN past[ch]
                   ELSE LET s == Append(past[ch], section[ch].figure)
                        IN  IF Len(s) = HistoryLen + 1 THEN Tail(s) ELSE s]

\* Each refresh is such a step, whatever the sections make of the readings.
LEMMA PrintLiveRefreshes ==
    ASSUME NEW obs, PrintLive(obs)
    PROVE  \E section : Refreshed(obs, section)
BY DEF PrintLive, Refreshed, Here

LEMMA HistoryStep ==
    ASSUME NamesDiffer, HistoryInv, NEW obs, NEW section, Refreshed(obs, section)
    PROVE  HistoryInv'
<1> DEFINE here == Here(obs)
<1>1. PICK S : history \in Histories(S)  BY DEF HistoryInv
<1> DEFINE S2 == S \union {section[ch].figure : ch \in Remembered}
<1>2. history \in Histories(S2)
  <2>1. {s \in Seq(S) : Len(s) <= HistoryLen} \subseteq {s \in Seq(S2) : Len(s) <= HistoryLen}
    OBVIOUS
  <2> HIDE DEF S2
  <2> QED  BY <1>1, <2>1 DEF Histories
<1>3. \A ch \in Remembered : section[ch].figure \in S2  OBVIOUS
<1> HIDE DEF S2
<1>4. /\ RecordAll(here, section) \in Histories(S2)
      /\ \A ch \in Remembered :
           RecordAll(here, section)[Key(ch)] =
             IF ch \in here THEN Grown(ch, section) ELSE history[Key(ch)]
  <2>1. \A ch \in here \intersect Remembered : section[ch].figure \in S2  BY <1>3
  <2> HIDE DEF here
  <2> QED  BY <1>2, <2>1, AllRecorded
<1>5. history' = RecordAll(here, section)  BY DEF Refreshed
<1>6. ASSUME NEW ch \in Remembered PROVE history'[Key(ch)] = past'[ch]
  <2>1. history[Key(ch)] = past[ch]  BY DEF HistoryInv, HistoryIsPerChannel
  <2>2. CASE ch \in here
    <3>1. Key(ch) \in Keys  BY DEF Keys
    <3>2. past[ch] \in Seq(S2) /\ Len(past[ch]) <= HistoryLen
      BY <1>2, <2>1, <3>1 DEF Histories
    <3>3. section[ch].figure \in S2 /\ HistoryLen \in Nat \ {0}
      BY <1>3, LengthsAssumption
    <3>4. Newest(Append(past[ch], section[ch].figure), HistoryLen) =
            IF Len(Append(past[ch], section[ch].figure)) = HistoryLen + 1
              THEN Tail(Append(past[ch], section[ch].figure))
              ELSE Append(past[ch], section[ch].figure)
      BY <3>2, <3>3, NewestIsTail, Zenon
    <3>5. history'[Key(ch)] = Newest(Append(past[ch], section[ch].figure), HistoryLen)
      BY <1>4, <1>5, <2>1, <2>2 DEF Grown
    <3> QED  BY <2>2, <3>4, <3>5 DEF Refreshed
  <2>3. CASE ch \notin here  BY <1>4, <1>5, <2>1, <2>3 DEF Refreshed
  <2> QED  BY <2>2, <2>3
<1>7. HistoryIsPerChannel'  BY <1>6 DEF HistoryIsPerChannel
<1>8. \E T : history' \in Histories(T)  BY <1>4, <1>5
<1> QED  BY <1>7, <1>8 DEF HistoryInv

\* A row that has data hides no other: the channel of its name is its own.  One
\* without data stays on the screen as long as its history has a signal.
LEMMA VisibleStep ==
    ASSUME NamesDiffer, NEW obs, NEW section, Refreshed(obs, section), HistoryInv'
    PROVE  ActivityStaysVisible'
<1> SUFFICES ASSUME NEW ch \in Remembered, ch = TotalRow \/ last'[ch].here, Signal(past'[ch])
             PROVE  \E r \in rows' : r.ch = ch
  BY DEF ActivityStaysVisible
<1> DEFINE here == Here(obs)
           active == {c \in here : section[c].now}
           hidden == /\ ch.cat \in {"Voltage", "Bandwidth"}
                     /\ \E other \in active : other.cat = ch.cat /\ other.name = ch.name
<1>1. ch \in here
  <2>1. last' = obs  BY DEF Refreshed
  <2> QED  BY <2>1 DEF Remembered, InCat, Here
<1>2. CASE section[ch].now
  <2>1. [ch |-> ch, idle |-> FALSE] \in rows'
    BY <1>1, <1>2 DEF Refreshed, RowsOf
  <2> QED  BY <2>1
<1>3. CASE ~section[ch].now
  <2>1. ~hidden
    <3> SUFFICES ASSUME ch.cat \in {"Voltage", "Bandwidth"}, NEW other \in active,
                        other.cat = ch.cat, other.name = ch.name
                 PROVE  FALSE
      OBVIOUS
    <3>1. TotalRow.cat = "Throttle"  BY DEF TotalRow
    <3>2. ch \in Chans /\ other \in Chans
      BY <3>1 DEF Remembered, InCat, Here
    <3>3. ch = other  BY <3>2 DEF Chans, NamesDiffer
    <3> QED  BY <1>3, <3>3
  <2>2. Signal(history'[Key(ch)])  BY DEF HistoryInv, HistoryIsPerChannel
  <2>3. [ch |-> ch, idle |-> TRUE] \in rows'
    BY <1>1, <1>3, <2>1, <2>2 DEF Refreshed, RowsOf
  <2> QED  BY <2>3
<1> QED  BY <1>2, <1>3

\* The rows follow the histories.
RowsInv == HistoryInv /\ ActivityStaysVisible

LEMMA RowsCorrect == ASSUME NamesDiffer PROVE Spec => []RowsInv
<1>1. Init => RowsInv
  <2>1. Init => ActivityStaysVisible  BY DEF Init, ActivityStaysVisible, Signal
  <2> QED  BY <2>1, HistoryInit DEF RowsInv
<1>2. RowsInv /\ [Next]_vars => RowsInv'
  <2> SUFFICES ASSUME RowsInv, [Next]_vars PROVE RowsInv'  OBVIOUS
  <2>1. CASE Next
    <3>1. PICK obs \in Samples : PrintLive(obs)  BY <2>1 DEF Next
    <3>2. PICK section : Refreshed(obs, section)  BY <3>1, PrintLiveRefreshes
    <3>3. HistoryInv'  BY <3>2, HistoryStep DEF RowsInv
    <3> QED  BY <3>2, <3>3, VisibleStep DEF RowsInv
  <2>2. CASE UNCHANGED vars
    BY <2>2 DEF RowsInv, HistoryInv, HistoryIsPerChannel, ActivityStaysVisible, vars
  <2> QED  BY <2>1, <2>2
<1> QED  BY <1>1, <1>2, PTL DEF Spec

\* "Past activity remains visible" (main.go:460, 558, 703, 729): a listed channel that
\* was active within its last HistoryLen refreshes has a row.
THEOREM VisibleCorrect == ASSUME NamesDiffer PROVE Spec => []ActivityStaysVisible
<1>1. RowsInv => ActivityStaysVisible  BY DEF RowsInv
<1> QED  BY <1>1, RowsCorrect, PTL
-----------------------------------------------------------------------------
(* Rows go away again.  A row with data has a figure above the threshold,  *)
(* and that figure is the last of the channel's history.                   *)

\* What observe has seen of ch are residencies that some sample gave it.
Readings(ch) == {obs[ch].res : obs \in Samples}
ReadingsInv == \A ch \in Windowed : samples[ch] \in Seq(Readings(ch))

LEMMA ReadingsStep ==
    ASSUME WindowInv, ReadingsInv, NEW obs \in Samples, PrintLive(obs)
    PROVE  ReadingsInv'
<1> SUFFICES ASSUME NEW ch \in Windowed PROVE samples'[ch] \in Seq(Readings(ch))
  BY DEF ReadingsInv, Readings, Windowed, InCat, Chans
<1>1. /\ samples[ch] \in Seq(Readings(ch)) /\ Len(samples[ch]) <= Limit
      /\ Limit \in Nat \ {0}
  BY LengthsAssumption DEF WindowInv, ReadingsInv
<1>2. obs[ch].res \in Readings(ch)  BY DEF Readings
<1>3. Newest(Append(samples[ch], obs[ch].res), Limit) \in Seq(Readings(ch))
  BY <1>1, <1>2, NewestIsTail, Zenon
<1>4. \/ samples'[ch] = samples[ch]
      \/ samples'[ch] = Newest(Append(samples[ch], obs[ch].res), Limit)
  BY DEF PrintLive, Observe
<1> QED  BY <1>1, <1>3, <1>4

\* Whatever names the channel's states have in the samples, they have in the sum over
\* its window, and the sum is of residencies again.
LEMMA SmoothIsResidency ==
    ASSUME NEW R, \A r \in R : Residencies(r), NEW window \in Seq(R)
    PROVE  /\ Residencies(Smooth(window))
           /\ \A s \in DOMAIN Smooth(window) : \E r \in R : s \in DOMAIN r
<1> DEFINE n == Len(window)
           f == [i \in 1..n |-> DOMAIN window[i]]
           D == UNION {DOMAIN window[i] : i \in 1..n}
<1>1. n \in Nat /\ \A i \in 1..n : window[i] \in R  OBVIOUS
<1>2. IsFiniteSet(D)
  <2>1. f \in [1..n -> Range(f)] /\ Range(f) = {DOMAIN window[i] : i \in 1..n}
    BY DEF Range
  <2>2. f \in Surjection(1..n, Range(f))  BY <2>1 DEF Range, Surjection
  <2>3. IsFiniteSet(1..n)  BY <1>1, FS_Interval
  <2> HIDE DEF f
  <2>4. IsFiniteSet(Range(f))  BY <2>2, <2>3, FS_Surjection
  <2>5. \A d \in Range(f) : IsFiniteSet(d)  BY <1>1, <2>1 DEF Residencies
  <2>6. IsFiniteSet(UNION Range(f))  BY <2>4, <2>5, FS_UNION
  <2> QED  BY <2>1, <2>6
<1>3. ASSUME NEW s \in D
      PROVE  SumOf([i \in 1..n |-> IF s \in DOMAIN window[i] THEN window[i][s] ELSE 0]) \in Nat
  <2> DEFINE t == [i \in 1..n |-> IF s \in DOMAIN window[i] THEN window[i][s] ELSE 0]
  <2>1. ASSUME NEW i \in 1..n PROVE t[i] \in Nat
    BY <1>1 DEF Residencies
  <2>2. t \in Seq(Int) /\ Len(t) = n /\ \A i \in 1..Len(t) : t[i] >= 0
    <3>1. t = [i \in 1..n |-> t[i]]  OBVIOUS
    <3> HIDE DEF t
    <3> QED  BY <1>1, <2>1, <3>1
  <2> HIDE DEF t
  <2>3. SumOf(t) \in Int /\ SumOf(t) >= 0  BY <2>2, SumIsInt, SumOfNats
  <2> QED  BY <2>3 DEF t
<1>4. Smooth(window) = [s \in D |->
         SumOf([i \in 1..n |-> IF s \in DOMAIN window[i] THEN window[i][s] ELSE 0])]
  BY DEF Smooth, SumOver
<1>5. DOMAIN Smooth(window) = D /\ Smooth(window) \in [D -> Nat]
  <2> HIDE DEF D, n
  <2> QED  BY <1>3, <1>4
<1>6. \A s \in D : \E r \in R : s \in DOMAIN r  BY <1>1
<1> HIDE DEF D
<1> QED  BY <1>2, <1>5, <1>6 DEF Residencies

Above(figure) == 1000 * figure.num > figure.den

LEMMA TotalIsNat ==
    ASSUME NEW res, Residencies(res)
    PROVE  Total(res) \in Nat
BY SumOfNaturals DEF Residencies, Total

LEMMA VoltageSignals ==
    ASSUME NEW res, Residencies(res), Voltage(res).now
    PROVE  Above(Voltage(res).figure)
<1> DEFINE all == Total(res)
           vmin == IF "VMIN" \in DOMAIN res THEN res["VMIN"] ELSE 0
<1>1. all \in Nat  BY TotalIsNat
<1>2. vmin \in Nat  BY DEF Residencies
<1> HIDE DEF all, vmin
<1>3. /\ Voltage(res).now = (all # 0 /\ 100 * vmin < 99 * all)
      /\ Voltage(res).figure = IF all = 0 THEN Zero ELSE [num |-> 100 * (all - vmin), den |-> all]
  BY DEF Voltage, all, vmin
<1>4. all # 0 /\ 100 * vmin < 99 * all  BY <1>3
<1>5. 1000 * (100 * (all - vmin)) > all  BY <1>1, <1>2, <1>4
<1> QED  BY <1>3, <1>4, <1>5 DEF Above

LEMMA BandwidthSignals ==
    ASSUME NEW res, Residencies(res), \A s \in DOMAIN res : GBps[s] \in Nat \ {0},
           Bandwidth(res).now
    PROVE  Above(Bandwidth(res).figure)
<1> DEFINE D == DOMAIN res
           rated == [s \in D |-> GBps[s] * res[s]]
           all == Total(res)
           weighted == SumFunction(rated)
<1>1. IsFiniteSet(D) /\ res \in [D -> Nat]  BY DEF Residencies
<1>2. ASSUME NEW s \in D PROVE rated[s] \in Int /\ res[s] \in Int /\ res[s] <= rated[s]
  <2>1. GBps[s] \in Nat \ {0} /\ res[s] \in Nat  BY <1>1
  <2>2. \A g \in Nat \ {0}, m \in Nat : g * m \in Int /\ m <= g * m
    <3> SUFFICES ASSUME NEW g \in Nat \ {0}, NEW m \in Nat PROVE g * m \in Int /\ m <= g * m
      OBVIOUS
    <3>1. g = (g - 1) + 1 /\ g - 1 \in Nat  OBVIOUS
    <3>2. (g - 1) * m \in Nat /\ g * m = (g - 1) * m + m  BY <3>1
    <3> QED  BY <3>2
  <2> QED  BY <2>1, <2>2
<1>3. all \in Nat  BY TotalIsNat
<1>4. weighted \in Int /\ all <= weighted
  <2>1. rated \in [D -> Int] /\ res \in [D -> Int]  BY <1>1, <1>2
  <2> HIDE DEF rated, D
  <2> QED  BY <1>1, <1>2, <2>1, SumsInOrder DEF Total
<1>5. Bandwidth(res).now => all # 0 /\ Bandwidth(res).figure = [num |-> weighted, den |-> all]
  BY DEF Bandwidth
<1> HIDE DEF all, weighted
<1>6. 1000 * weighted > all  BY <1>3, <1>4, <1>5
<1> QED  BY <1>5, <1>6 DEF Above

LEMMA RateSignals ==
    ASSUME IntervalIsShort, NEW value \in Int, Rate(value).now
    PROVE  Above(Rate(value).figure)
<1>1. value > 0 /\ DurationMs \in Nat /\ 0 < DurationMs /\ DurationMs < 1000 * 1000  BY DEF Rate, IntervalIsShort
<1>2. Rate(value).figure = [num |-> 1000 * value, den |-> DurationMs]  BY <1>1 DEF Rate
<1>3. 1000 * (1000 * value) > DurationMs  BY <1>1
<1> QED  BY <1>2, <1>3 DEF Above

\* The residencies that a refresh shows of a windowed channel.
SmoothedNow(obs) ==
    [ch \in Windowed |-> IF samples'[ch] = <<>> THEN obs[ch].res ELSE Smooth(samples'[ch])]

LEMMA PrintLiveSections ==
    ASSUME NEW obs, PrintLive(obs)
    PROVE  Refreshed(obs, Sections(obs, SmoothedNow(obs)))
BY DEF PrintLive, Refreshed, Here, SmoothedNow

\* They are residencies, of states that the channel has in some sample.
LEMMA SmoothedIsResidency ==
    ASSUME ReadingsInv', NEW obs \in Samples, NEW ch \in Windowed
    PROVE  /\ Residencies(SmoothedNow(obs)[ch])
           /\ \A s \in DOMAIN SmoothedNow(obs)[ch] : \E o \in Samples : s \in DOMAIN o[ch].res
<1>1. ch \in Chans  BY DEF Windowed, InCat
<1>2. \A r \in Readings(ch) : Residencies(r)  BY <1>1, SamplesAssumption DEF Readings
<1>3. samples'[ch] \in Seq(Readings(ch))
  BY DEF ReadingsInv, Readings, Windowed, InCat, Chans
<1>4. CASE samples'[ch] = <<>>
  <2>1. SmoothedNow(obs)[ch] = obs[ch].res  BY <1>4 DEF SmoothedNow
  <2> QED  BY <1>1, <2>1, SamplesAssumption
<1>5. CASE samples'[ch] # <<>>
  <2>1. SmoothedNow(obs)[ch] = Smooth(samples'[ch])  BY <1>5 DEF SmoothedNow
  <2>2. /\ Residencies(Smooth(samples'[ch]))
        /\ \A s \in DOMAIN Smooth(samples'[ch]) : \E r \in Readings(ch) : s \in DOMAIN r
    BY <1>2, <1>3, SmoothIsResidency
  <2> QED  BY <2>1, <2>2 DEF Readings
<1> QED  BY <1>4, <1>5

\* What a section makes of a reading: a channel that has something to show now
\* records a figure above the threshold.
LEMMA SectionSignals ==
    ASSUME BandwidthNamesAreRates, IntervalIsShort, ReadingsInv', NEW obs \in Samples,
           NEW ch \in Remembered, Sections(obs, SmoothedNow(obs))[ch].now
    PROVE  Above(Sections(obs, SmoothedNow(obs))[ch].figure)
<1> DEFINE smoothed == SmoothedNow(obs)
           section == Sections(obs, smoothed)[ch]
           events == [t \in InCat({"Throttle"}) |-> IF obs[t].value > 0 THEN obs[t].value ELSE 0]
<1>1. TotalRow.cat = "Throttle" /\ TotalRow \notin Chans
  BY ListedAssumption DEF TotalRow
<1>2. \/ ch = TotalRow
      \/ ch \in Chans /\ ch # TotalRow /\ ch.cat \in {"Voltage", "Bandwidth", "Count", "Time"}
  BY <1>1 DEF Remembered, InCat
<1>3. CASE ch = TotalRow
  <2>1. section = Rate(SumFunction(events))  BY <1>1, <1>3 DEF Sections
  <2>2. SumFunction(events) \in Int
    <3>1. IsFiniteSet(InCat({"Throttle"}))
      <4>1. IsFiniteSet(Chans)
        <5>1. Len(Listed) \in Nat /\ IsFiniteSet(1..Len(Listed))
          BY ListedAssumption, FS_Interval
        <5>2. Listed \in Surjection(1..Len(Listed), Chans)
          BY ListedAssumption DEF Surjection, Chans
        <5> QED  BY <5>1, <5>2, FS_Surjection
      <4>2. InCat({"Throttle"}) \subseteq Chans  BY DEF InCat
      <4> QED  BY <4>1, <4>2, FS_Subset
    <3>2. events \in [InCat({"Throttle"}) -> Int]  BY SamplesAssumption DEF InCat
    <3> HIDE DEF events
    <3> QED  BY <3>1, <3>2, SumsInOrder
  <2> HIDE DEF events
  <2> QED  BY <2>1, <2>2, RateSignals
<1>4. CASE ch \in Chans /\ ch.cat = "Voltage"
  <2>1. section = Voltage(obs[ch].res)  BY <1>1, <1>4 DEF Sections
  <2>2. Residencies(obs[ch].res)  BY <1>4, SamplesAssumption
  <2> QED  BY <2>1, <2>2, VoltageSignals
<1>5. CASE ch \in Chans /\ ch.cat = "Bandwidth"
  <2>1. section = Bandwidth(smoothed[ch])  BY <1>1, <1>5 DEF Sections
  <2>2. ch \in Windowed /\ ch \in InCat({"Bandwidth"})  BY <1>5 DEF Windowed, InCat
  <2>3. /\ Residencies(smoothed[ch])
        /\ \A s \in DOMAIN smoothed[ch] : \E o \in Samples : s \in DOMAIN o[ch].res
    BY <2>2, SmoothedIsResidency
  <2>4. \A s \in DOMAIN smoothed[ch] : GBps[s] \in Nat \ {0}
    BY <2>2, <2>3 DEF BandwidthNamesAreRates
  <2> HIDE DEF smoothed
  <2> QED  BY <2>1, <2>3, <2>4, BandwidthSignals DEF smoothed
<1>6. CASE ch \in Chans /\ ch.cat \in {"Count", "Time"}
  <2>1. section = Rate(obs[ch].value)  BY <1>1, <1>6 DEF Sections
  <2>2. obs[ch].value \in Int  BY <1>6, SamplesAssumption
  <2> QED  BY <2>1, <2>2, RateSignals
<1> QED  BY <1>2, <1>3, <1>4, <1>5, <1>6

LEMMA DisappearStep ==
    ASSUME NamesDiffer, BandwidthNamesAreRates, IntervalIsShort, HistoryInv, HistoryInv',
           ReadingsInv', NEW obs \in Samples, PrintLive(obs)
    PROVE  IdleRowsDisappear'
<1> DEFINE section == Sections(obs, SmoothedNow(obs))
           here == Here(obs)
<1>1. Refreshed(obs, section)  BY PrintLiveSections
<1> SUFFICES ASSUME NEW r \in rows', r.ch \in Remembered PROVE Signal(past'[r.ch])
  BY DEF IdleRowsDisappear, Remembered, InCat, Chans
<1> DEFINE ch == r.ch
<1>2. \/ ch \in here /\ section[ch].now
      \/ Signal(history'[Key(ch)])
  <2> HIDE DEF section, here
  <2> QED  BY <1>1 DEF Refreshed, RowsOf, here
<1>3. CASE Signal(history'[Key(ch)])
  <2>1. history'[Key(ch)] = past'[ch]  BY DEF HistoryInv, HistoryIsPerChannel
  <2> QED  BY <1>3, <2>1
<1>4. CASE ch \in here /\ section[ch].now
  <2> DEFINE figure == section[ch].figure
             s == Append(past[ch], figure)
  <2>1. Above(figure)  BY <1>4, SectionSignals
  <2>2. PICK S : past[ch] \in Seq(S) /\ Len(past[ch]) <= HistoryLen
    <3>1. PICK S : history \in Histories(S)  BY DEF HistoryInv
    <3>2. history[Key(ch)] = past[ch] /\ Key(ch) \in Keys
      BY DEF HistoryInv, HistoryIsPerChannel, Keys
    <3> QED  BY <3>1, <3>2 DEF Histories
  <2>3. past'[ch] = IF Len(s) = HistoryLen + 1 THEN Tail(s) ELSE s
    <3> HIDE DEF section, here
    <3> QED  BY <1>1, <1>4 DEF Refreshed, here
  <2> HIDE DEF figure
  <2>4. /\ s \in Seq(S \union {figure}) /\ Len(s) = Len(past[ch]) + 1 /\ s[Len(s)] = figure
        /\ Len(past[ch]) \in Nat /\ HistoryLen \in Nat \ {0}
    BY <2>2, LengthsAssumption
  <2> HIDE DEF s
  <2>5. \E i \in 1..Len(past'[ch]) : past'[ch][i] = figure
    <3>1. CASE Len(s) = HistoryLen + 1
      <4>1. /\ Len(Tail(s)) = Len(s) - 1 /\ Len(s) - 1 \in 1..Len(Tail(s))
            /\ Tail(s)[Len(s) - 1] = s[Len(s)]
        BY <2>4, <3>1
      <4> QED  BY <2>3, <2>4, <3>1, <4>1
    <3>2. CASE Len(s) # HistoryLen + 1
      <4>1. Len(s) \in 1..Len(s)  BY <2>4
      <4> QED  BY <2>3, <2>4, <3>2, <4>1
    <3> QED  BY <3>1, <3>2
  <2> QED  BY <2>1, <2>5 DEF Signal, Above
<1> QED  BY <1>2, <1>3, <1>4

\* A channel with a row was active within its last HistoryLen refreshes (hasHistorySignal
\* and the conditions of the four sections), for any samples in which the bandwidth
\* states are named after rates and any interval under 1000 seconds.
THEOREM DisappearCorrect ==
    ASSUME NamesDiffer, BandwidthNamesAreRates, IntervalIsShort
    PROVE  Spec => []IdleRowsDisappear
<1> DEFINE Inv == WindowInv /\ ReadingsInv /\ HistoryInv /\ IdleRowsDisappear
<1>1. Init => Inv
  <2>1. Init => ReadingsInv
    <3> SUFFICES ASSUME Init, NEW ch \in Windowed PROVE samples[ch] \in Seq(Readings(ch))
      BY DEF ReadingsInv
    <3> QED  BY DEF Init
  <2>2. Init => IdleRowsDisappear  BY DEF Init, IdleRowsDisappear
  <2> QED  BY <2>1, <2>2, WindowInit, HistoryInit
<1>2. Inv /\ [Next]_vars => Inv'
  <2> SUFFICES ASSUME Inv, [Next]_vars PROVE Inv'  OBVIOUS
  <2>1. CASE Next
    <3>1. PICK obs \in Samples : PrintLive(obs)  BY <2>1 DEF Next
    <3>2. WindowInv' /\ ReadingsInv'  BY <3>1, WindowStep, ReadingsStep
    <3>3. HistoryInv'
      <4>1. PICK section : Refreshed(obs, section)  BY <3>1, PrintLiveRefreshes
      <4> QED  BY <4>1, HistoryStep
    <3> QED  BY <3>1, <3>2, <3>3, DisappearStep
  <2>2. CASE UNCHANGED vars
    <3>1. /\ samples' = samples /\ history' = history /\ rows' = rows
          /\ seen' = seen /\ past' = past
      BY <2>2 DEF vars
    <3>2. WindowInv'  BY <3>1 DEF WindowInv, Windowed, InCat, Chans
    <3>3. ReadingsInv'  BY <3>1 DEF ReadingsInv, Readings, Windowed, InCat, Chans
    <3>4. HistoryInv'  BY <3>1 DEF HistoryInv, HistoryIsPerChannel
    <3>5. IdleRowsDisappear'  BY <3>1 DEF IdleRowsDisappear
    <3> QED  BY <3>2, <3>3, <3>4, <3>5
  <2> QED  BY <2>1, <2>2
<1>3. Inv => IdleRowsDisappear  OBVIOUS
<1> QED  BY <1>1, <1>2, <1>3, PTL DEF Spec
===============================================================================
