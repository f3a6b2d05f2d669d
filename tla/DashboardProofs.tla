---------------------------- MODULE DashboardProofs ----------------------------
(***************************************************************************)
(* The page, for any number of connections and of deltas, any channels and *)
(* any length of the histories.                                            *)
(*                                                                         *)
(* What the page shows follows from what is still on its way to it.  Every *)
(* delta in the queue is newer than those that the page has handled        *)
(* (OrderInv); and every task of the queue belongs to one connection, in   *)
(* which it is the next one (StreamInv), so that a gap could only come     *)
(* from the server.                                                        *)
(***************************************************************************)
EXTENDS Dashboard, TLAPS

-----------------------------------------------------------------------------
(* The inductive invariant.                                                *)

Tasks == [type : {"open", "delta", "error"}, n : Nat]

ServerTypes ==
    /\ published \in Nat
    /\ since \in [Conns -> Nat]
    /\ received \in [Conns -> Seq(Nat)]
    /\ DOMAIN status = Conns

LinkTypes ==
    /\ link \in {"connecting", "requested", "open"}
    /\ conn \in 0..MaxConns /\ arrived \in Nat
    /\ tasks \in Seq(Tasks)

PageTypes ==
    /\ delta \in Nat /\ connected \in BOOLEAN
    /\ power \in Seq(Nat) /\ Len(power) <= HistoryLen
    /\ channels \in [Channels -> Seq(Nat)]
    /\ \A ch \in Channels : Len(channels[ch]) <= HistoryLen
    /\ current \in 0..conn /\ handled \in Nat

TypeInv == ServerTypes /\ LinkTypes /\ PageTypes

\* What a connection is handed, by the promise of Feed.
Handed(c) ==
    /\ since[c] <= published
    /\ \A i \in 1..Len(received[c]) :
          /\ since[c] < received[c][i] /\ received[c][i] <= published
          /\ i <= Window => received[c][i] = since[c] + i
    /\ Increasing(received[c])

FeedInv == \A c \in Conns : Handed(c) /\ (c > conn => received[c] = <<>>)

LinkInv ==
    /\ conn = 0 => link = "connecting" /\ arrived = 0
    /\ conn > 0 => arrived <= Len(received[conn])
    /\ link = "requested" => arrived = 0
    /\ link = "open" => arrived > 0

\* The newest delta that the browser can have.
Newest ==
    IF conn = 0 THEN 0
    ELSE IF arrived = 0 THEN since[conn] ELSE received[conn][arrived]

\* The deltas in a queue come in order, are newer than lo and not newer than hi.
Ordered(s, lo, hi) ==
    \A i \in 1..Len(s) : s[i].type = "delta" =>
        /\ lo < s[i].n /\ s[i].n <= hi
        /\ \A j \in 1..Len(s) : s[j].type = "delta" /\ i < j => s[i].n < s[j].n

OrderInv == delta <= Newest /\ Ordered(tasks, delta, Newest)

HistoryInv ==
    /\ IF delta = 0 THEN power = <<>> ELSE power # <<>> /\ power[Len(power)] = delta
    /\ \A ch \in Channels : \A i \in 1..Len(channels[ch]) : channels[ch][i] <= delta
    /\ HistoriesInOrder
    /\ ChartEndsAtDelta

\* The last task to be handled leaves the dot as it should be.
DotInv ==
    IF tasks = <<>> THEN connected <=> link = "open"
    ELSE tasks[Len(tasks)].type # "error" <=> link = "open"

\* A page that has handled k deltas of connection c is at k2 of c2 after task t.
Leads(t, c, k, c2, k2) ==
    /\ t.type = "open" => t.n \in 1..conn /\ c2 = t.n /\ k2 = 0
    /\ t.type = "delta" =>
          /\ c2 = c /\ c \in 1..conn /\ k2 = k + 1
          /\ k2 <= Len(received[c]) /\ t.n = received[c][k2]
    /\ t.type = "error" => c2 = c /\ k2 = k

\* owner[i] and count[i]: the connection, and how many of its deltas the page
\* will have handled, after the first i tasks of s.
Labels(s, owner, count) ==
    \A i \in 1..Len(s) : Leads(s[i], owner[i - 1], count[i - 1], owner[i], count[i])

StreamInv ==
    \E owner, count \in [0..Len(tasks) -> Nat] :
        /\ owner[0] = current /\ count[0] = handled
        /\ Labels(tasks, owner, count)
        /\ arrived > 0 => owner[Len(tasks)] = conn /\ count[Len(tasks)] = arrived

\* h ends with the first m of r, or with as many of them as a history holds.
EndsWith(h, r, m) ==
    \A k \in 1..m : m - k < HistoryLen =>
        m - k < Len(h) /\ h[Len(h) - (m - k)] = r[k]

\* The power history ends with the last deltas of the current connection.
RecentInv ==
    current > 0 =>
        /\ handled <= Len(received[current])
        /\ EndsWith(power, received[current], handled)

Inv == TypeInv /\ FeedInv /\ LinkInv /\ OrderInv /\ HistoryInv /\ DotInv /\ StreamInv /\ RecentInv

-----------------------------------------------------------------------------
(* Queues and histories.                                                   *)

LEMMA AppendFacts ==
    ASSUME NEW S, NEW s \in Seq(S), NEW e \in S
    PROVE  /\ Append(s, e) \in Seq(S) /\ Append(s, e) # <<>>
           /\ Len(Append(s, e)) = Len(s) + 1 /\ Len(s) \in Nat
           /\ Append(s, e)[Len(s) + 1] = e
           /\ \A i \in 1..Len(s) : Append(s, e)[i] = s[i]
OBVIOUS

LEMMA TailFacts ==
    ASSUME NEW S, NEW s \in Seq(S), s # <<>>
    PROVE  /\ Tail(s) \in Seq(S) /\ Len(Tail(s)) = Len(s) - 1
           /\ Len(s) \in Nat \ {0} /\ Head(s) = s[1] /\ Head(s) \in S
           /\ \A i \in 1..(Len(s) - 1) : Tail(s)[i] = s[i + 1]
OBVIOUS

\* What push and splice make of a history.
LEMMA PushFacts ==
    ASSUME NEW h \in Seq(Nat), Len(h) <= HistoryLen, NEW n \in Nat
    PROVE  /\ Push(h, n) \in Seq(Nat) /\ Push(h, n) # <<>>
           /\ Len(Push(h, n)) \in Nat \ {0} /\ Len(h) \in Nat
           /\ Len(Push(h, n)) <= HistoryLen
           /\ Len(Push(h, n)) = Len(h) + 1 \/ Len(Push(h, n)) = Len(h)
           /\ Len(Push(h, n)) = Len(h) => Len(h) = HistoryLen
           /\ Push(h, n)[Len(Push(h, n))] = n
           /\ \A i \in 1..(Len(Push(h, n)) - 1) :
                 Push(h, n)[i] = h[i + (Len(h) + 1 - Len(Push(h, n)))]
<1>1. HistoryLen \in Nat \ {0} /\ Len(h) \in Nat  BY LengthsAssumption
<1>2. CASE Len(h) < HistoryLen
  <2>1. Push(h, n) = Append(h, n)  BY <1>2 DEF Push
  <2> QED  BY <1>1, <1>2, <2>1, AppendFacts
<1>3. CASE Len(h) = HistoryLen
  <2> DEFINE u == SubSeq(h, 2, Len(h))
  <2>1. Push(h, n) = Append(u, n)
    <3>1. Len(h) - HistoryLen + 2 = 2  BY <1>1, <1>3
    <3> QED  BY <1>1, <1>3, <3>1 DEF Push
  <2>2. u \in Seq(Nat) /\ Len(u) = Len(h) - 1 /\ \A i \in 1..(Len(h) - 1) : u[i] = h[i + 1]
    BY <1>1, <1>3
  <2> HIDE DEF u
  <2>3. /\ Append(u, n) \in Seq(Nat) /\ Append(u, n) # <<>>
        /\ Len(Append(u, n)) = Len(u) + 1 /\ Append(u, n)[Len(u) + 1] = n
        /\ \A i \in 1..Len(u) : Append(u, n)[i] = u[i]
    <3>1. ASSUME NEW S, u \in Seq(S), n \in S
          PROVE  /\ Append(u, n) \in Seq(S) /\ Append(u, n) # <<>>
                 /\ Len(Append(u, n)) = Len(u) + 1 /\ Append(u, n)[Len(u) + 1] = n
                 /\ \A i \in 1..Len(u) : Append(u, n)[i] = u[i]
      BY <3>1, AppendFacts
    <3> QED  BY <2>2, <3>1, Zenon
  <2> QED  BY <1>1, <1>3, <2>1, <2>2, <2>3, SMTT(30)
<1> QED  BY <1>1, <1>2, <1>3

LEMMA OrderedAppend ==
    ASSUME NEW s \in Seq(Tasks), NEW t \in Tasks, NEW lo \in Nat, NEW hi \in Nat, NEW hi2 \in Nat,
           Ordered(s, lo, hi), lo <= hi, hi <= hi2,
           t.type = "delta" => hi < t.n /\ t.n <= hi2
    PROVE  Ordered(Append(s, t), lo, hi2)
<1>1. /\ Len(Append(s, t)) = Len(s) + 1 /\ Len(s) \in Nat
      /\ Append(s, t)[Len(s) + 1] = t
      /\ \A i \in 1..Len(s) : Append(s, t)[i] = s[i]
  BY AppendFacts
<1>2. t.n \in Nat /\ \A i \in 1..Len(s) : s[i].n \in Nat
  <2>1. \A x \in Tasks : x.n \in Nat  BY DEF Tasks
  <2>2. \A i \in 1..Len(s) : s[i] \in Tasks  OBVIOUS
  <2> QED  BY <2>1, <2>2
<1> QED  BY <1>1, <1>2 DEF Ordered

LEMMA OrderedTail ==
    ASSUME NEW s \in Seq(Tasks), s # <<>>, NEW lo \in Nat, NEW hi \in Nat, Ordered(s, lo, hi)
    PROVE  /\ Ordered(Tail(s), lo, hi)
           /\ Head(s).type = "delta" =>
                 lo < Head(s).n /\ Head(s).n <= hi /\ Ordered(Tail(s), Head(s).n, hi)
<1>1. /\ Len(Tail(s)) = Len(s) - 1 /\ Len(s) \in Nat \ {0} /\ Head(s) = s[1]
      /\ \A i \in 1..(Len(s) - 1) : Tail(s)[i] = s[i + 1]
  BY TailFacts
<1>2. \A i \in 1..Len(s) : s[i].n \in Nat
  <2>1. \A x \in Tasks : x.n \in Nat  BY DEF Tasks
  <2>2. \A i \in 1..Len(s) : s[i] \in Tasks  OBVIOUS
  <2> QED  BY <2>1, <2>2
<1> QED  BY <1>1, <1>2 DEF Ordered

LEMMA LabelsAppend ==
    ASSUME NEW s \in Seq(Tasks), NEW t \in Tasks,
           NEW owner \in [0..Len(s) -> Nat], NEW count \in [0..Len(s) -> Nat],
           Labels(s, owner, count), NEW c \in Nat, NEW k \in Nat,
           Leads(t, owner[Len(s)], count[Len(s)], c, k)
    PROVE  \E owner2, count2 \in [0..Len(Append(s, t)) -> Nat] :
              /\ Labels(Append(s, t), owner2, count2)
              /\ owner2[0] = owner[0] /\ count2[0] = count[0]
              /\ owner2[Len(Append(s, t))] = c /\ count2[Len(Append(s, t))] = k
<1> DEFINE owner2 == [i \in 0..(Len(s) + 1) |-> IF i = Len(s) + 1 THEN c ELSE owner[i]]
           count2 == [i \in 0..(Len(s) + 1) |-> IF i = Len(s) + 1 THEN k ELSE count[i]]
<1>1. /\ Len(Append(s, t)) = Len(s) + 1 /\ Len(s) \in Nat
      /\ Append(s, t)[Len(s) + 1] = t
      /\ \A i \in 1..Len(s) : Append(s, t)[i] = s[i]
  BY AppendFacts
<1>2. /\ owner2 \in [0..(Len(s) + 1) -> Nat] /\ count2 \in [0..(Len(s) + 1) -> Nat]
      /\ owner2[Len(s) + 1] = c /\ count2[Len(s) + 1] = k
      /\ \A i \in 0..Len(s) : owner2[i] = owner[i] /\ count2[i] = count[i]
  BY <1>1
<1> HIDE DEF owner2, count2
<1>3. Labels(Append(s, t), owner2, count2)
  <2>1. ASSUME NEW i \in 1..(Len(s) + 1)
        PROVE  Leads(Append(s, t)[i], owner2[i - 1], count2[i - 1], owner2[i], count2[i])
    <3>1. CASE i = Len(s) + 1
      <4>1. i - 1 = Len(s) /\ Len(s) \in 0..Len(s)  BY <1>1, <3>1
      <4> QED  BY <1>1, <1>2, <3>1, <4>1
    <3>2. CASE i # Len(s) + 1
      <4>1. i \in 1..Len(s) /\ i \in 0..Len(s) /\ i - 1 \in 0..Len(s)  BY <1>1, <3>2
      <4> QED  BY <1>1, <1>2, <4>1 DEF Labels
    <3> QED  BY <3>1, <3>2
  <2> QED  BY <1>1, <2>1 DEF Labels
<1>4. owner2[0] = owner[0] /\ count2[0] = count[0]  BY <1>1, <1>2
<1> QED  BY <1>1, <1>2, <1>3, <1>4

\* What the first task leads to is where the labels of the others begin.
LEMMA HeadLeads ==
    ASSUME LinkTypes, StreamInv, tasks # <<>>
    PROVE  \E owner, count \in [0..Len(Tail(tasks)) -> Nat] :
              /\ Leads(Head(tasks), current, handled, owner[0], count[0])
              /\ Labels(Tail(tasks), owner, count)
              /\ arrived > 0 =>
                    owner[Len(Tail(tasks))] = conn /\ count[Len(Tail(tasks))] = arrived
<1>1. /\ Len(Tail(tasks)) = Len(tasks) - 1 /\ Len(tasks) \in Nat \ {0}
      /\ Head(tasks) = tasks[1]
      /\ \A i \in 1..(Len(tasks) - 1) : Tail(tasks)[i] = tasks[i + 1]
  BY TailFacts DEF LinkTypes
<1>2. PICK owner \in [0..Len(tasks) -> Nat], count \in [0..Len(tasks) -> Nat] :
         /\ owner[0] = current /\ count[0] = handled
         /\ Labels(tasks, owner, count)
         /\ arrived > 0 => owner[Len(tasks)] = conn /\ count[Len(tasks)] = arrived
  BY DEF StreamInv
<1> DEFINE owner2 == [i \in 0..(Len(tasks) - 1) |-> owner[i + 1]]
           count2 == [i \in 0..(Len(tasks) - 1) |-> count[i + 1]]
<1>3. /\ owner2 \in [0..(Len(tasks) - 1) -> Nat] /\ count2 \in [0..(Len(tasks) - 1) -> Nat]
      /\ \A i \in 0..(Len(tasks) - 1) : owner2[i] = owner[i + 1] /\ count2[i] = count[i + 1]
  BY <1>1
<1> HIDE DEF owner2, count2
<1>4. Leads(Head(tasks), current, handled, owner2[0], count2[0])
  <2>1. Leads(tasks[1], owner[1 - 1], count[1 - 1], owner[1], count[1])
    BY <1>1, <1>2 DEF Labels
  <2>2. 1 - 1 = 0 /\ owner2[0] = owner[1] /\ count2[0] = count[1]  BY <1>1, <1>3
  <2> QED  BY <1>1, <1>2, <2>1, <2>2
<1>5. Labels(Tail(tasks), owner2, count2)
  <2>1. ASSUME NEW i \in 1..(Len(tasks) - 1)
        PROVE  Leads(Tail(tasks)[i], owner2[i - 1], count2[i - 1], owner2[i], count2[i])
    <3>1. /\ i + 1 \in 1..Len(tasks) /\ i \in 0..(Len(tasks) - 1)
          /\ i - 1 \in 0..(Len(tasks) - 1) /\ (i + 1) - 1 = i /\ (i - 1) + 1 = i
      BY <1>1
    <3>2. Leads(tasks[i + 1], owner[i], count[i], owner[i + 1], count[i + 1])
      BY <1>2, <3>1 DEF Labels
    <3>3. /\ owner2[i - 1] = owner[i] /\ count2[i - 1] = count[i]
          /\ owner2[i] = owner[i + 1] /\ count2[i] = count[i + 1]
      BY <1>3, <3>1
    <3> QED  BY <1>1, <3>2, <3>3
  <2> QED  BY <1>1, <2>1 DEF Labels
<1>6. owner2[Len(tasks) - 1] = owner[Len(tasks)] /\ count2[Len(tasks) - 1] = count[Len(tasks)]
  BY <1>1, <1>3
<1> QED  BY <1>1, <1>2, <1>3, <1>4, <1>5, <1>6

-----------------------------------------------------------------------------
(* The server: what it has handed over stays, and a new connection begins  *)
(* where it is made.                                                       *)

Grows ==
    \A c \in Conns :
        /\ Len(received[c]) <= Len(received'[c])
        /\ \A i \in 1..Len(received[c]) : received'[c][i] = received[c][i]

LEMMA ServerStep ==
    ASSUME ServerTypes, LinkTypes, FeedInv, LinkInv, Publish \/ Deliver \/ Leave
    PROVE  /\ ServerTypes' /\ FeedInv' /\ Grows
           /\ UNCHANGED <<since, linkVars, pageVars>>
<1>1. CASE Publish
  <2>1. published' = published + 1 /\ UNCHANGED <<status, since, received, linkVars, pageVars>>
    BY <1>1 DEF Publish, Server!Publish
  <2>2. published' \in Nat /\ published <= published'  BY <2>1 DEF ServerTypes
  <2>3. \A c \in Conns : Handed(c)'
    BY <2>1, <2>2 DEF ServerTypes, FeedInv, Handed, Increasing
  <2> QED  BY <2>1, <2>2, <2>3 DEF ServerTypes, FeedInv, Grows, linkVars
<1>2. CASE Leave
  <2>1. PICK c \in Conns : Server!Leave(c)  BY <1>2 DEF Leave
  <2>2. UNCHANGED <<published, since, received, linkVars, pageVars>>
        /\ DOMAIN status' = DOMAIN status
    BY <1>2, <2>1 DEF Leave, Server!Leave
  <2> QED  BY <2>2 DEF ServerTypes, FeedInv, Handed, Increasing, Grows, linkVars
<1>3. CASE Deliver
  <2>1. PICK n \in 1..published : Server!Deliver(conn, n)  BY <1>3 DEF Deliver
  <2>2. /\ UNCHANGED <<published, status, since, linkVars, pageVars>>
        /\ received' = [received EXCEPT ![conn] = Append(@, n)]
        /\ Server!Latest(conn) < n /\ n <= published
        /\ n = Server!Latest(conn) + 1 \/ Len(received[conn]) >= Window
    BY <1>3, <2>1 DEF Deliver, Server!Deliver
  <2>3. conn \in Conns /\ n \in Nat
    BY <1>3, <2>1 DEF Deliver, LinkInv, LinkTypes, Conns, ServerTypes
  <2> DEFINE r == received[conn]
  <2>4. /\ r \in Seq(Nat) /\ Len(r) \in Nat /\ since[conn] \in Nat /\ published \in Nat
        /\ Window \in Nat \ {0} /\ \A i \in 1..Len(r) : r[i] \in Nat
    BY <2>3, LengthsAssumption DEF ServerTypes
  <2>5. /\ Append(r, n) \in Seq(Nat) /\ Len(Append(r, n)) = Len(r) + 1
        /\ Append(r, n)[Len(r) + 1] = n
        /\ \A i \in 1..Len(r) : Append(r, n)[i] = r[i]
    <3>1. ASSUME NEW S, r \in Seq(S), n \in S
          PROVE  /\ Append(r, n) \in Seq(S) /\ Len(Append(r, n)) = Len(r) + 1
                 /\ Append(r, n)[Len(r) + 1] = n
                 /\ \A i \in 1..Len(r) : Append(r, n)[i] = r[i]
      <4> HIDE DEF r
      <4> QED  BY <3>1, AppendFacts
    <3> QED  BY <2>3, <2>4, <3>1, Zenon
  <2>6. /\ received'[conn] = Append(r, n) /\ received' \in [Conns -> Seq(Nat)]
        /\ \A c \in Conns : c # conn => received'[c] = received[c]
    BY <2>2, <2>3, <2>5 DEF ServerTypes
  <2>7. /\ since[conn] < n
        /\ \A i \in 1..Len(r) : r[i] < n
        /\ Len(r) < Window => n = since[conn] + Len(r) + 1
    <3>1. Handed(conn)  BY <2>3 DEF FeedInv
    <3>2. CASE r = <<>>
      <4>1. Server!Latest(conn) = since[conn] /\ Len(r) = 0  BY <3>2 DEF Server!Latest
      <4> QED  BY <2>2, <2>3, <2>4, <4>1
    <3>3. CASE r # <<>>
      <4>1. Server!Latest(conn) = r[Len(r)] /\ Len(r) \in 1..Len(r)
        BY <2>4, <3>3 DEF Server!Latest
      <4>2. \A i \in 1..Len(r) : i < Len(r) => r[i] < r[Len(r)]
        BY <3>1, <4>1 DEF Handed, Increasing
      <4>3. since[conn] < r[Len(r)] /\ (Len(r) <= Window => r[Len(r)] = since[conn] + Len(r))
        BY <3>1, <4>1 DEF Handed
      <4>4. r[Len(r)] < n /\ (n = r[Len(r)] + 1 \/ Len(r) >= Window)  BY <2>2, <4>1
      <4>5. r[Len(r)] \in Nat  BY <2>4, <4>1
      <4>6. since[conn] < n /\ (Len(r) < Window => n = since[conn] + Len(r) + 1)
        <5> DEFINE last == r[Len(r)]
                   len == Len(r)
        <5> HIDE DEF r, last, len
        <5>1. last \in Nat /\ len \in Nat  BY <2>4, <4>5 DEF last, len
        <5>2. /\ last < n /\ (n = last + 1 \/ len >= Window)
              /\ since[conn] < last /\ (len <= Window => last = since[conn] + len)
          BY <4>3, <4>4 DEF last, len
        <5>3. since[conn] < n /\ (len < Window => n = since[conn] + len + 1)
          BY <2>3, <2>4, <5>1, <5>2
        <5> QED  BY <5>3 DEF len
      <4>7. ASSUME NEW i \in 1..Len(r) PROVE r[i] < n
        <5>1. i < Len(r) \/ i = Len(r)  BY <2>4
        <5>2. r[i] < r[Len(r)] \/ r[i] = r[Len(r)]  BY <4>2, <5>1
        <5> HIDE DEF r
        <5> QED  BY <2>3, <2>4, <4>4, <4>5, <5>2
      <4> QED  BY <4>6, <4>7
    <3> QED  BY <3>2, <3>3
  <2>8. Handed(conn)'
    <3>1. Handed(conn)  BY <2>3 DEF FeedInv
    <3>2. /\ since[conn] <= published
          /\ \A i \in 1..Len(r) : /\ since[conn] < r[i] /\ r[i] <= published
                                  /\ i <= Window => r[i] = since[conn] + i
          /\ \A i, j \in 1..Len(r) : i < j => r[i] < r[j]
      BY <3>1 DEF Handed, Increasing
    <3> DEFINE u == Append(r, n)
    <3> HIDE DEF r, u
    <3>3. /\ \A i \in 1..Len(u) : /\ since[conn] < u[i] /\ u[i] <= published
                                  /\ i <= Window => u[i] = since[conn] + i
          /\ \A i, j \in 1..Len(u) : i < j => u[i] < u[j]
      <4>1. /\ Len(u) = Len(r) + 1 /\ u[Len(r) + 1] = n
            /\ \A i \in 1..Len(r) : u[i] = r[i]
        BY <2>5 DEF u
      <4>2. \A i \in 1..Len(u) : i \in 1..Len(r) \/ i = Len(r) + 1  BY <2>4, <4>1
      <4>3. ASSUME NEW i \in 1..Len(u)
            PROVE  /\ since[conn] < u[i] /\ u[i] <= published
                   /\ i <= Window => u[i] = since[conn] + i
        <5>1. CASE i \in 1..Len(r)
          BY <3>2, <4>1, <5>1
        <5>2. CASE i = Len(r) + 1
          <6>1. u[i] = n /\ n <= published /\ since[conn] < n  BY <2>2, <2>7, <4>1, <5>2
          <6>2. i <= Window => n = since[conn] + i
            <7> DEFINE len == Len(r)
            <7>0. len \in Nat /\ since[conn] \in Nat /\ Window \in Nat /\ i = len + 1
              BY <2>4, <5>2
            <7> HIDE DEF len
            <7>1. i <= Window => len < Window /\ since[conn] + len + 1 = since[conn] + i
              BY <7>0
            <7> QED  BY <2>7, <7>1 DEF len
          <6> QED  BY <6>1, <6>2
        <5> QED  BY <4>2, <5>1, <5>2
      <4>4. ASSUME NEW i \in 1..Len(u), NEW j \in 1..Len(u), i < j PROVE u[i] < u[j]
        <5>1. i \in 1..Len(r) /\ (j \in 1..Len(r) \/ j = Len(r) + 1)
          BY <2>4, <4>1, <4>2, <4>4
        <5> QED  BY <2>7, <3>2, <4>1, <4>4, <5>1
      <4> QED  BY <4>3, <4>4
    <3>4. conn' = conn /\ since' = since /\ published' = published /\ received'[conn] = u
      BY <2>2, <2>6 DEF linkVars, u
    <3> QED  BY <3>2, <3>3, <3>4 DEF Handed, Increasing, r
  <2>9. \A c \in Conns : Handed(c)' /\ (c > conn' => received'[c] = <<>>)
    <3> SUFFICES ASSUME NEW c \in Conns PROVE Handed(c)' /\ (c > conn' => received'[c] = <<>>)
      OBVIOUS
    <3>1. conn' = conn /\ ~(conn > conn)  BY <2>2, <2>3 DEF linkVars, Conns
    <3>2. CASE c = conn  BY <2>8, <3>1, <3>2
    <3>3. CASE c # conn
      BY <2>2, <2>6, <3>1, <3>3 DEF FeedInv, Handed, Increasing
    <3> QED  BY <3>2, <3>3
  <2>10. Grows
    <3> SUFFICES ASSUME NEW c \in Conns
                 PROVE  /\ Len(received[c]) <= Len(received'[c])
                        /\ \A i \in 1..Len(received[c]) : received'[c][i] = received[c][i]
      BY DEF Grows
    <3>1. Len(received[c]) \in Nat  BY DEF ServerTypes
    <3>2. CASE c = conn
      <4>1. received[c] = r /\ received'[c] = Append(r, n)  BY <2>6, <3>2
      <4> HIDE DEF r
      <4> QED  BY <2>4, <2>5, <4>1
    <3>3. CASE c # conn  BY <2>6, <3>1, <3>3
    <3> QED  BY <3>2, <3>3
  <2> QED  BY <2>2, <2>6, <2>9, <2>10 DEF ServerTypes, FeedInv
<1> QED  BY <1>1, <1>2, <1>3

LEMMA ConnectStep ==
    ASSUME TypeInv, FeedInv, LinkInv, OrderInv, Connect
    PROVE  /\ ServerTypes' /\ FeedInv' /\ LinkInv' /\ OrderInv'
           /\ conn \in 0..MaxConns /\ conn' = conn + 1 /\ conn + 1 \in Conns
           /\ UNCHANGED <<received, tasks, pageVars>> /\ arrived' = 0
           /\ link' = "requested" /\ link = "connecting"
<1> USE DEF TypeInv
<1>1. /\ link = "connecting" /\ conn < MaxConns /\ conn \in 0..MaxConns /\ MaxConns \in Nat
      /\ since' = [since EXCEPT ![conn + 1] = published]
      /\ status' = [status EXCEPT ![conn + 1] = "on"]
      /\ UNCHANGED <<published, received, tasks, pageVars>>
      /\ link' = "requested" /\ conn' = conn + 1 /\ arrived' = 0
  BY BoundsAssumption DEF Connect, Server!Subscribe, LinkTypes
<1>2. conn + 1 \in Conns /\ conn + 1 > conn /\ conn + 1 > 0  BY <1>1 DEF Conns
<1>3. /\ since' \in [Conns -> Nat] /\ since'[conn + 1] = published
      /\ \A c \in Conns : c # conn + 1 => since'[c] = since[c]
      /\ published \in Nat
  BY <1>1, <1>2 DEF ServerTypes
<1>4. ServerTypes'  BY <1>1, <1>2, <1>3 DEF ServerTypes
<1>5. FeedInv'
  <2> SUFFICES ASSUME NEW c \in Conns
               PROVE  Handed(c)' /\ (c > conn' => received'[c] = <<>>)
    BY DEF FeedInv
  <2>1. CASE c = conn + 1
    <3>1. received'[c] = <<>>  BY <1>1, <1>2, <2>1 DEF FeedInv
    <3>2. since'[c] <= published'  BY <1>1, <1>3, <2>1
    <3> QED  BY <3>1, <3>2 DEF Handed, Increasing
  <2>2. CASE c # conn + 1
    <3>1. Handed(c)  BY DEF FeedInv
    <3>2. Handed(c)'  BY <1>1, <1>3, <2>2, <3>1 DEF Handed, Increasing
    <3>3. c > conn' => c > conn  BY <1>1 DEF Conns
    <3> QED  BY <1>1, <3>2, <3>3 DEF FeedInv
  <2> QED  BY <2>1, <2>2
<1>6. LinkInv'
  <2>1. Len(received[conn + 1]) \in Nat  BY <1>2 DEF ServerTypes
  <2> QED  BY <1>1, <1>2, <2>1 DEF LinkInv
<1>7. Newest <= published /\ Newest \in Nat
  <2>1. CASE conn = 0  BY <1>3, <2>1 DEF Newest
  <2>2. CASE conn # 0
    <3>1. conn \in Conns /\ conn > 0  BY <1>1, <2>2 DEF Conns
    <3>2. Handed(conn) /\ arrived <= Len(received[conn]) /\ received[conn] \in Seq(Nat)
      BY <3>1 DEF FeedInv, LinkInv, ServerTypes
    <3>3. CASE arrived = 0  BY <2>2, <3>1, <3>2, <3>3 DEF Newest, Handed, ServerTypes
    <3>4. CASE arrived # 0
      <4>1. arrived \in 1..Len(received[conn])  BY <3>2, <3>4 DEF LinkTypes
      <4>2. received[conn][arrived] <= published /\ received[conn][arrived] \in Nat
        BY <3>2, <4>1 DEF Handed
      <4> QED  BY <2>2, <3>4, <4>2 DEF Newest
    <3> QED  BY <3>3, <3>4
  <2> QED  BY <2>1, <2>2
<1>8. Newest' = published  BY <1>1, <1>2, <1>3 DEF Newest
<1>9. OrderInv'
  <2>1. delta' = delta /\ tasks' = tasks  BY <1>1 DEF pageVars, hooks
  <2>2. \A i \in 1..Len(tasks) : tasks[i].n \in Nat
    <3>1. \A x \in Tasks : x.n \in Nat  BY DEF Tasks
    <3>2. \A i \in 1..Len(tasks) : tasks[i] \in Tasks  BY DEF LinkTypes
    <3> QED  BY <3>1, <3>2
  <2>3. \A x \in Nat : x <= Newest => x <= published  BY <1>3, <1>7
  <2>4. Ordered(tasks, delta, published)
    BY <2>2, <2>3 DEF OrderInv, Ordered
  <2>5. delta <= Newest => delta <= published  BY <2>3 DEF OrderInv, PageTypes
  <2> QED  BY <1>8, <2>1, <2>4, <2>5 DEF OrderInv
<1> QED  BY <1>1, <1>2, <1>4, <1>5, <1>6, <1>9

\* What the page gets of a connection is the next of what it was handed.
LEMMA ArriveFacts ==
    ASSUME ServerTypes, LinkTypes, FeedInv, LinkInv, Arrive
    PROVE  LET n == received[conn][arrived + 1] IN
           /\ conn \in Conns /\ n \in Nat /\ Newest \in Nat
           /\ arrived' = arrived + 1 /\ link' = "open"
           /\ arrived + 1 \in 1..Len(received[conn]) /\ arrived + 1 > 0
           /\ UNCHANGED <<feedVars, conn, pageVars>>
           /\ Event("open", conn) \in Tasks /\ Event("delta", n) \in Tasks
           /\ Newest < n /\ Newest' = n
           /\ \/ link = "requested" /\ arrived = 0
                 /\ tasks' = Append(Append(tasks, Event("open", conn)), Event("delta", n))
              \/ link = "open" /\ arrived > 0
                 /\ tasks' = Append(tasks, Event("delta", n))
<1> DEFINE n == received[conn][arrived + 1]
<1>1. /\ link # "connecting" /\ arrived < Len(received[conn]) /\ conn > 0
      /\ arrived' = arrived + 1 /\ link' = "open"
      /\ UNCHANGED <<feedVars, conn, pageVars>>
  BY DEF Arrive, LinkInv, LinkTypes
<1>2. conn \in Conns /\ conn \in Nat  BY <1>1 DEF LinkTypes, Conns
<1>3. /\ received[conn] \in Seq(Nat) /\ Len(received[conn]) \in Nat
      /\ arrived + 1 \in 1..Len(received[conn]) /\ arrived + 1 > 0
      /\ n \in Nat /\ arrived \in Nat
  BY <1>1, <1>2 DEF ServerTypes, LinkTypes
<1>4. Newest < n /\ Newest \in Nat
  <2>1. Handed(conn)  BY <1>2 DEF FeedInv
  <2>2. CASE arrived = 0
    BY <1>1, <1>2, <1>3, <2>1, <2>2 DEF Newest, Handed, ServerTypes
  <2>3. CASE arrived # 0
    <3>1. arrived \in 1..Len(received[conn]) /\ arrived < arrived + 1  BY <1>3, <2>3
    <3>2. received[conn][arrived] < n  BY <1>3, <2>1, <3>1 DEF Handed, Increasing
    <3>3. received[conn][arrived] \in Nat  BY <1>3, <3>1
    <3> QED  BY <1>1, <2>3, <3>2, <3>3 DEF Newest
  <2> QED  BY <2>2, <2>3
<1>5. Newest' = n  BY <1>1, <1>2, <1>3 DEF Newest, feedVars
<1>6. Event("open", conn) \in Tasks /\ Event("delta", n) \in Tasks
  BY <1>2, <1>3 DEF Event, Tasks
<1>7. \/ link = "requested" /\ arrived = 0
         /\ tasks' = Append(Append(tasks, Event("open", conn)), Event("delta", n))
      \/ link = "open" /\ arrived > 0
         /\ tasks' = Append(tasks, Event("delta", n))
  <2>1. \A x, y \in Tasks : /\ tasks \o <<x>> \o <<y>> = Append(Append(tasks, x), y)
                            /\ tasks \o <<>> \o <<y>> = Append(tasks, y)
    BY DEF LinkTypes
  <2>2. CASE link = "requested"
    <3>1. tasks' = tasks \o <<Event("open", conn)>> \o <<Event("delta", n)>>
      BY <2>2 DEF Arrive
    <3>2. tasks' = Append(Append(tasks, Event("open", conn)), Event("delta", n))
      BY <1>6, <2>1, <3>1, Zenon
    <3> QED  BY <2>2, <3>2 DEF LinkInv
  <2>3. CASE link = "open"
    <3>1. tasks' = tasks \o <<>> \o <<Event("delta", n)>>  BY <2>3 DEF Arrive
    <3>2. tasks' = Append(tasks, Event("delta", n))
      BY <1>6, <2>1, <3>1, Zenon
    <3> QED  BY <2>3, <3>2 DEF LinkInv
  <2> QED  BY <1>1, <2>2, <2>3 DEF LinkTypes
<1> QED  BY <1>1, <1>2, <1>3, <1>4, <1>5, <1>6, <1>7

LEMMA ArriveStep ==
    ASSUME TypeInv, FeedInv, LinkInv, OrderInv, StreamInv, Arrive
    PROVE  LinkTypes' /\ LinkInv' /\ OrderInv' /\ DotInv' /\ StreamInv'
<1> DEFINE n == received[conn][arrived + 1]
           opened == Event("open", conn)
           next == Event("delta", n)
<1>1. /\ conn \in Conns /\ n \in Nat /\ Newest \in Nat
      /\ arrived' = arrived + 1 /\ link' = "open"
      /\ arrived + 1 \in 1..Len(received[conn]) /\ arrived + 1 > 0
      /\ UNCHANGED <<feedVars, conn, pageVars>>
      /\ opened \in Tasks /\ next \in Tasks
      /\ Newest < n /\ Newest' = n
      /\ \/ link = "requested" /\ arrived = 0 /\ tasks' = Append(Append(tasks, opened), next)
         \/ link = "open" /\ arrived > 0 /\ tasks' = Append(tasks, next)
  BY ArriveFacts DEF TypeInv
<1>2. /\ conn' = conn /\ received' = received /\ delta' = delta
      /\ current' = current /\ handled' = handled /\ connected' = connected
      /\ tasks \in Seq(Tasks) /\ delta \in Nat /\ arrived \in Nat
  BY <1>1 DEF TypeInv, LinkTypes, PageTypes, feedVars, pageVars, hooks, ghosts
<1>3. /\ opened.type = "open" /\ opened.n = conn
      /\ next.type = "delta" /\ next.n = n
  BY DEF Event
<1> HIDE DEF n, opened, next
<1>4. LinkInv'  BY <1>1, <1>2 DEF LinkInv, Conns
<1> DEFINE before == IF link = "requested" THEN Append(tasks, opened) ELSE tasks
<1>5. tasks' = Append(before, next) /\ before \in Seq(Tasks)
  BY <1>1, <1>2, AppendFacts
<1>6. /\ tasks' \in Seq(Tasks) /\ tasks' # <<>> /\ Len(tasks') \in Nat
      /\ tasks'[Len(tasks')] = next
  <2> HIDE DEF before
  <2>1. /\ Append(before, next) \in Seq(Tasks) /\ Append(before, next) # <<>>
        /\ Len(Append(before, next)) = Len(before) + 1 /\ Len(before) \in Nat
        /\ Append(before, next)[Len(before) + 1] = next
    BY <1>1, <1>5, AppendFacts
  <2> QED  BY <1>5, <2>1
<1>7. OrderInv'
  <2>1. Ordered(before, delta, Newest) /\ delta <= Newest
    BY <1>1, <1>2, <1>3, OrderedAppend DEF OrderInv
  <2> HIDE DEF before
  <2>2. Ordered(tasks', delta, n)
    BY <1>1, <1>2, <1>3, <1>5, <2>1, OrderedAppend, SMTT(30)
  <2>3. delta <= n  BY <1>1, <1>2, <2>1
  <2> QED  BY <1>1, <1>2, <2>2, <2>3 DEF OrderInv
<1>8. DotInv'  BY <1>1, <1>3, <1>6 DEF DotInv
<1>9. StreamInv'
  <2>1. \E owner, count \in [0..Len(before) -> Nat] :
           /\ owner[0] = current /\ count[0] = handled /\ Labels(before, owner, count)
           /\ owner[Len(before)] = conn /\ count[Len(before)] = arrived
    <3>1. PICK owner \in [0..Len(tasks) -> Nat], count \in [0..Len(tasks) -> Nat] :
             /\ owner[0] = current /\ count[0] = handled
             /\ Labels(tasks, owner, count)
             /\ arrived > 0 => owner[Len(tasks)] = conn /\ count[Len(tasks)] = arrived
      BY DEF StreamInv
    <3>2. CASE link = "requested"
      <4>1. /\ before = Append(tasks, opened) /\ arrived = 0 /\ conn \in Nat /\ conn \in 1..conn
        BY <1>1, <3>2 DEF Conns
      <4>2. Leads(opened, owner[Len(tasks)], count[Len(tasks)], conn, 0)
        BY <1>3, <4>1 DEF Leads
      <4>3. \E owner2, count2 \in [0..Len(Append(tasks, opened)) -> Nat] :
              /\ Labels(Append(tasks, opened), owner2, count2)
              /\ owner2[0] = owner[0] /\ count2[0] = count[0]
              /\ owner2[Len(Append(tasks, opened))] = conn
              /\ count2[Len(Append(tasks, opened))] = 0
        <5>1. conn \in Nat /\ 0 \in Nat /\ tasks \in Seq(Tasks) /\ opened \in Tasks
          BY <1>1, <1>2, <4>1
        <5>2. Labels(tasks, owner, count)  BY <3>1
        <5> QED  BY <4>2, <5>1, <5>2, LabelsAppend
      <4> HIDE DEF before
      <4> QED  BY <3>1, <4>1, <4>3
    <3>3. CASE link # "requested"
      BY <1>1, <3>1, <3>3
    <3> QED  BY <3>2, <3>3
  <2> HIDE DEF before
  <2>2. PICK owner \in [0..Len(before) -> Nat], count \in [0..Len(before) -> Nat] :
           /\ owner[0] = current /\ count[0] = handled /\ Labels(before, owner, count)
           /\ owner[Len(before)] = conn /\ count[Len(before)] = arrived
    BY <2>1
  <2>3. Leads(next, owner[Len(before)], count[Len(before)], conn, arrived + 1)
    BY <1>1, <1>3, <2>2 DEF Leads, Conns, n
  <2>4. \E owner2, count2 \in [0..Len(tasks') -> Nat] :
           /\ Labels(tasks', owner2, count2)
           /\ owner2[0] = owner[0] /\ count2[0] = count[0]
           /\ owner2[Len(tasks')] = conn /\ count2[Len(tasks')] = arrived + 1
    <3>1. conn \in Nat /\ arrived + 1 \in Nat  BY <1>1, <1>2 DEF Conns
    <3> QED  BY <1>1, <1>5, <2>2, <2>3, <3>1, LabelsAppend
  <2>5. PICK owner2 \in [0..Len(tasks') -> Nat], count2 \in [0..Len(tasks') -> Nat] :
           /\ Labels(tasks', owner2, count2)
           /\ owner2[0] = owner[0] /\ count2[0] = count[0]
           /\ owner2[Len(tasks')] = conn /\ count2[Len(tasks')] = arrived + 1
    BY <2>4
  <2>6. Labels(tasks, owner2, count2)'
    BY <1>2, <2>5 DEF Labels, Leads
  <2> QED  BY <1>1, <1>2, <2>2, <2>5, <2>6 DEF StreamInv
<1>10. LinkTypes'  BY <1>1, <1>2, <1>6 DEF LinkTypes, TypeInv
<1> QED  BY <1>4, <1>7, <1>8, <1>9, <1>10

\* The error is the last of the tasks; what came before it is still handled.
LEMMA LoseStep ==
    ASSUME TypeInv, LinkInv, OrderInv, StreamInv, Lose
    PROVE  LinkTypes' /\ LinkInv' /\ OrderInv' /\ DotInv' /\ StreamInv'
<1> DEFINE error == Event("error", 0)
<1>1. /\ link' = "connecting" /\ tasks' = Append(tasks, error)
      /\ link # "connecting" /\ UNCHANGED <<feedVars, conn, arrived, pageVars>>
  BY DEF Lose
<1>2. /\ conn' = conn /\ received' = received /\ since' = since /\ delta' = delta
      /\ arrived' = arrived /\ current' = current /\ handled' = handled
      /\ tasks \in Seq(Tasks) /\ delta \in Nat /\ arrived \in Nat /\ conn \in Nat
  BY <1>1 DEF TypeInv, LinkTypes, PageTypes, feedVars, pageVars, hooks, ghosts
<1>3. error.type = "error" /\ error \in Tasks  BY DEF Event, Tasks
<1> HIDE DEF error
<1>4. /\ tasks' \in Seq(Tasks) /\ tasks' # <<>> /\ Len(tasks') = Len(tasks) + 1
      /\ Len(tasks) \in Nat /\ tasks'[Len(tasks) + 1] = error
      /\ \A i \in 1..Len(tasks) : tasks'[i] = tasks[i]
  BY <1>1, <1>2, <1>3, AppendFacts
<1>5. LinkInv'  BY <1>1, <1>2 DEF LinkInv
<1>6. OrderInv'
  <2>1. Newest' = Newest  BY <1>2 DEF Newest
  <2>2. Ordered(tasks', delta, Newest)
    <3>1. \A i \in 1..Len(tasks') : tasks'[i].type = "delta" => i \in 1..Len(tasks)
      BY <1>3, <1>4
    <3> QED  BY <1>4, <3>1 DEF OrderInv, Ordered
  <2> QED  BY <1>2, <2>1, <2>2 DEF OrderInv
<1>7. DotInv'
  <2>1. tasks'[Len(tasks')].type = "error"  BY <1>3, <1>4
  <2> QED  BY <1>1, <1>4, <2>1 DEF DotInv
<1>8. StreamInv'
  <2>1. PICK owner \in [0..Len(tasks) -> Nat], count \in [0..Len(tasks) -> Nat] :
           /\ owner[0] = current /\ count[0] = handled
           /\ Labels(tasks, owner, count)
           /\ arrived > 0 => owner[Len(tasks)] = conn /\ count[Len(tasks)] = arrived
    BY DEF StreamInv
  <2> DEFINE c == owner[Len(tasks)]
             k == count[Len(tasks)]
  <2>2. c \in Nat /\ k \in Nat  BY <1>4
  <2>3. Leads(error, c, k, c, k)  BY <1>3 DEF Leads
  <2>4. \E owner2, count2 \in [0..Len(tasks') -> Nat] :
           /\ Labels(tasks', owner2, count2)
           /\ owner2[0] = owner[0] /\ count2[0] = count[0]
           /\ owner2[Len(tasks')] = c /\ count2[Len(tasks')] = k
    <3> HIDE DEF c, k
    <3>1. Leads(error, owner[Len(tasks)], count[Len(tasks)], c, k)  BY <2>3 DEF c, k
    <3>2. tasks \in Seq(Tasks) /\ Labels(tasks, owner, count)  BY <1>2, <2>1
    <3>3. \E owner2, count2 \in [0..Len(Append(tasks, error)) -> Nat] :
             /\ Labels(Append(tasks, error), owner2, count2)
             /\ owner2[0] = owner[0] /\ count2[0] = count[0]
             /\ owner2[Len(Append(tasks, error))] = c /\ count2[Len(Append(tasks, error))] = k
      BY <1>3, <2>2, <3>1, <3>2, LabelsAppend
    <3> QED  BY <1>1, <3>3
  <2> HIDE DEF c, k
  <2>5. PICK owner2 \in [0..Len(tasks') -> Nat], count2 \in [0..Len(tasks') -> Nat] :
           /\ Labels(tasks', owner2, count2)
           /\ owner2[0] = owner[0] /\ count2[0] = count[0]
           /\ owner2[Len(tasks')] = c /\ count2[Len(tasks')] = k
    BY <2>4
  <2>6. Labels(tasks, owner2, count2)'
    BY <1>2, <2>5 DEF Labels, Leads
  <2>7. arrived' > 0 => owner2[Len(tasks')] = conn' /\ count2[Len(tasks')] = arrived'
    BY <1>2, <2>1, <2>5 DEF c, k
  <2>8. owner2[0] = current' /\ count2[0] = handled'  BY <1>2, <2>1, <2>5
  <2> QED  BY <2>5, <2>6, <2>7, <2>8 DEF StreamInv
<1>9. LinkTypes'  BY <1>1, <1>2, <1>4 DEF LinkTypes, TypeInv
<1> QED  BY <1>5, <1>6, <1>7, <1>8, <1>9

-----------------------------------------------------------------------------
(* The page: what a task takes from the queue, and what it keeps.          *)

\* A newer delta is pushed: the history stays in order, and what falls out of
\* it is older than all that is left.
LEMMA PushOrdered ==
    ASSUME NEW h \in Seq(Nat), Len(h) <= HistoryLen, NEW n \in Nat,
           Increasing(h), \A i \in 1..Len(h) : h[i] < n
    PROVE  LET p == Push(h, n) IN
           /\ Increasing(p) /\ \A i \in 1..Len(p) : p[i] <= n
           /\ \A j \in 1..Len(h) : h[j] < p[1] \/ \E i \in 1..Len(p) : p[i] = h[j]
           /\ \A i \in 1..Len(p) : p[i] = n \/ \E j \in 1..Len(h) : p[i] = h[j]
<1> DEFINE p == Push(h, n)
           d == Len(h) + 1 - Len(p)
<1>1. /\ Len(p) \in Nat \ {0} /\ Len(h) \in Nat
      /\ Len(p) = Len(h) + 1 \/ Len(p) = Len(h)
      /\ p[Len(p)] = n
      /\ \A i \in 1..(Len(p) - 1) : p[i] = h[i + d]
      /\ \A i \in 1..Len(h) : h[i] \in Nat
  BY PushFacts
<1>2. \A i, j \in 1..Len(h) : i < j => h[i] < h[j]  BY DEF Increasing
<1> HIDE DEF p
<1>3. \A i \in 1..(Len(p) - 1) : i + d \in 1..Len(h)  BY <1>1
<1>4. \A i \in 1..Len(p) : i = Len(p) \/ i \in 1..(Len(p) - 1)  BY <1>1
<1>5. \A i \in 1..(Len(p) - 1) : p[i] < n  BY <1>1, <1>3
<1>6. Increasing(p)
  <2> SUFFICES ASSUME NEW i \in 1..Len(p), NEW j \in 1..Len(p), i < j PROVE p[i] < p[j]
    BY DEF Increasing
  <2>1. i \in 1..(Len(p) - 1)  BY <1>1
  <2>2. CASE j = Len(p)  BY <1>1, <1>5, <2>1, <2>2
  <2>3. CASE j \in 1..(Len(p) - 1)
    <3>1. i + d < j + d  BY <1>1
    <3>2. h[i + d] < h[j + d]  BY <1>2, <1>3, <2>1, <2>3, <3>1
    <3> QED  BY <1>1, <2>1, <2>3, <3>2
  <2> QED  BY <1>4, <2>2, <2>3
<1>7. \A i \in 1..Len(p) : p[i] <= n
  <2> SUFFICES ASSUME NEW i \in 1..Len(p) PROVE p[i] <= n
    OBVIOUS
  <2>1. CASE i = Len(p)  BY <1>1, <2>1
  <2>2. CASE i \in 1..(Len(p) - 1)
    <3>1. p[i] = h[i + d] /\ h[i + d] \in Nat  BY <1>1, <1>3, <2>2
    <3> QED  BY <1>5, <2>2, <3>1
  <2> QED  BY <1>4, <2>1, <2>2
<1>8. ASSUME NEW j \in 1..Len(h) PROVE h[j] < p[1] \/ \E i \in 1..Len(p) : p[i] = h[j]
  <2>1. CASE j - d \in 1..(Len(p) - 1)
    <3>1. p[j - d] = h[(j - d) + d] /\ (j - d) + d = j  BY <1>1, <2>1
    <3>2. j - d \in 1..Len(p)  BY <1>1, <2>1
    <3> QED  BY <3>1, <3>2
  <2>2. CASE ~(j - d \in 1..(Len(p) - 1))
    <3>1. d = 1 /\ j = 1 /\ Len(p) = Len(h)  BY <1>1, <2>2
    <3>2. CASE Len(p) = 1  BY <1>1, <3>1, <3>2
    <3>3. CASE Len(p) # 1
      <4>1. 1 \in 1..(Len(p) - 1) /\ 1 + d = 2 /\ 2 \in 1..Len(h)  BY <1>1, <3>1, <3>3
      <4>2. p[1] = h[2]  BY <1>1, <4>1
      <4> QED  BY <1>2, <3>1, <4>1, <4>2
    <3> QED  BY <3>2, <3>3
  <2> QED  BY <2>1, <2>2
<1>9. \A i \in 1..Len(p) : p[i] = n \/ \E j \in 1..Len(h) : p[i] = h[j]
  BY <1>1, <1>3, <1>4
<1> QED  BY <1>6, <1>7, <1>8, <1>9 DEF p

\* What every task leaves alone, and what its handling leads to.
LEMMA TakeFacts ==
    ASSUME TypeInv, LinkInv, OrderInv, StreamInv, DotInv,
           tasks # <<>>, tasks' = Tail(tasks), UNCHANGED <<feedVars, link, conn, arrived>>
    PROVE  /\ ServerTypes' /\ LinkTypes' /\ LinkInv' /\ Newest' = Newest /\ Newest \in Nat
           /\ Head(tasks) \in Tasks
           /\ Ordered(tasks', delta, Newest)
           /\ Head(tasks).type = "delta" =>
                 /\ delta < Head(tasks).n /\ Head(tasks).n <= Newest
                 /\ Ordered(tasks', Head(tasks).n, Newest)
                 /\ current \in 1..conn /\ handled + 1 <= Len(received[current])
                 /\ Head(tasks).n = received[current][handled + 1]
                 /\ current' = current /\ handled' = handled + 1 => StreamInv'
           /\ Head(tasks).type = "open" =>
                 /\ Head(tasks).n \in 1..conn
                 /\ current' = Head(tasks).n /\ handled' = 0 => StreamInv'
           /\ Head(tasks).type = "error" =>
                 (current' = current /\ handled' = handled => StreamInv')
           /\ (connected' <=> Head(tasks).type # "error") => DotInv'
<1>1. /\ conn' = conn /\ received' = received /\ since' = since
      /\ arrived' = arrived /\ link' = link /\ published' = published /\ status' = status
      /\ tasks \in Seq(Tasks) /\ delta \in Nat /\ arrived \in Nat /\ conn \in 0..MaxConns
  BY DEF TypeInv, LinkTypes, PageTypes, feedVars
<1>2. /\ tasks' \in Seq(Tasks) /\ Len(tasks') = Len(tasks) - 1
      /\ Len(tasks) \in Nat \ {0} /\ Head(tasks) = tasks[1] /\ Head(tasks) \in Tasks
      /\ \A i \in 1..(Len(tasks) - 1) : tasks'[i] = tasks[i + 1]
  BY <1>1, TailFacts
<1>3. ServerTypes' /\ LinkTypes' /\ LinkInv' /\ Newest' = Newest
  BY <1>1, <1>2 DEF TypeInv, ServerTypes, LinkTypes, LinkInv, Newest
<1>4. Newest \in Nat
  <2>1. CASE conn = 0  BY <2>1 DEF Newest
  <2>2. CASE conn # 0
    <3>1. conn \in Conns /\ conn > 0  BY <1>1, <2>2, BoundsAssumption DEF Conns
    <3>2. since[conn] \in Nat /\ received[conn] \in Seq(Nat)
      BY <3>1 DEF TypeInv, ServerTypes
    <3>3. arrived # 0 => arrived \in 1..Len(received[conn])  BY <1>1, <3>1, <3>2 DEF LinkInv
    <3> QED  BY <2>2, <3>2, <3>3 DEF Newest
  <2> QED  BY <2>1, <2>2
<1>5. /\ Ordered(tasks', delta, Newest)
      /\ Head(tasks).type = "delta" =>
            /\ delta < Head(tasks).n /\ Head(tasks).n <= Newest
            /\ Ordered(tasks', Head(tasks).n, Newest)
  BY <1>1, <1>4, OrderedTail DEF OrderInv
<1>6. PICK owner \in [0..Len(tasks') -> Nat], count \in [0..Len(tasks') -> Nat] :
         /\ Leads(Head(tasks), current, handled, owner[0], count[0])
         /\ Labels(tasks', owner, count)
         /\ arrived > 0 => owner[Len(tasks')] = conn /\ count[Len(tasks')] = arrived
  BY HeadLeads DEF TypeInv
<1>7. owner[0] = current' /\ count[0] = handled' => StreamInv'
  <2>1. Labels(tasks, owner, count)'  BY <1>1, <1>6 DEF Labels, Leads
  <2> QED  BY <1>1, <1>6, <2>1 DEF StreamInv
<1>8. (connected' <=> Head(tasks).type # "error") => DotInv'
  <2>1. CASE Len(tasks) = 1
    <3>1. tasks' = <<>> /\ Head(tasks) = tasks[Len(tasks)]  BY <1>2, <2>1
    <3> QED  BY <1>1, <3>1 DEF DotInv
  <2>2. CASE Len(tasks) # 1
    <3>1. tasks' # <<>> /\ tasks'[Len(tasks')] = tasks[Len(tasks)]
      <4>1. Len(tasks) - 1 \in 1..(Len(tasks) - 1) /\ (Len(tasks) - 1) + 1 = Len(tasks)
        BY <1>2, <2>2
      <4> QED  BY <1>2, <4>1
    <3> QED  BY <1>1, <3>1 DEF DotInv
  <2> QED  BY <2>1, <2>2
<1>9. Head(tasks).type = "delta" =>
         /\ current \in 1..conn /\ handled + 1 <= Len(received[current])
         /\ Head(tasks).n = received[current][handled + 1]
         /\ owner[0] = current /\ count[0] = handled + 1
  BY <1>6 DEF Leads
<1>10. /\ Head(tasks).type = "open" =>
             Head(tasks).n \in 1..conn /\ owner[0] = Head(tasks).n /\ count[0] = 0
       /\ Head(tasks).type = "error" => owner[0] = current /\ count[0] = handled
  BY <1>6 DEF Leads
<1> QED  BY <1>2, <1>3, <1>4, <1>5, <1>7, <1>8, <1>9, <1>10

\* No history holds anything newer than the last delta.
LEMMA PowerIsOld ==
    ASSUME PageTypes, HistoryInv
    PROVE  \A i \in 1..Len(power) : power[i] <= delta
<1>1. power \in Seq(Nat) /\ Len(power) \in Nat /\ \A i \in 1..Len(power) : power[i] \in Nat
  BY DEF PageTypes
<1> SUFFICES ASSUME NEW i \in 1..Len(power) PROVE power[i] <= delta
  OBVIOUS
<1>2. Len(power) \in 1..Len(power) /\ power # <<>>  BY <1>1
<1>3. power[Len(power)] = delta  BY <1>2 DEF HistoryInv
<1>4. i < Len(power) => power[i] < power[Len(power)]
  BY <1>2 DEF HistoryInv, HistoriesInOrder, Increasing
<1>5. i = Len(power) \/ i < Len(power)  BY <1>1
<1> QED  BY <1>1, <1>2, <1>3, <1>4, <1>5

LEMMA OnDeltaHistories ==
    ASSUME PageTypes, HistoryInv, NEW n \in Nat, delta < n, NEW here \in SUBSET Channels,
           delta' = n, screen' = screen, power' = Push(power, n),
           channels' = [ch \in Channels |->
              IF ch \in here THEN Push(channels[ch], n) ELSE channels[ch]]
    PROVE  HistoryInv'
<1>1. /\ power \in Seq(Nat) /\ Len(power) <= HistoryLen /\ delta \in Nat
      /\ \A i \in 1..Len(power) : power[i] \in Nat
  BY DEF PageTypes
<1>2. Increasing(power) /\ \A i \in 1..Len(power) : power[i] < n
  <2>1. \A i \in 1..Len(power) : power[i] <= delta  BY PowerIsOld
  <2>2. \A x \in Nat : x <= delta => x < n  BY <1>1
  <2> QED  BY <1>1, <2>1, <2>2 DEF HistoryInv, HistoriesInOrder
<1>3. /\ power' # <<>> /\ power'[Len(power')] = n /\ n # 0
      /\ Len(power') \in Nat \ {0} /\ power' \in Seq(Nat)
  BY <1>1, PushFacts
<1>4. /\ Increasing(power')
      /\ \A j \in 1..Len(power) :
            power[j] < power'[1] \/ \E i \in 1..Len(power') : power'[i] = power[j]
      /\ \A i \in 1..Len(power') : power'[i] = n \/ \E j \in 1..Len(power) : power'[i] = power[j]
  <2> DEFINE h == power
  <2>1. h \in Seq(Nat) /\ Len(h) <= HistoryLen /\ Increasing(h) /\ \A i \in 1..Len(h) : h[i] < n
    BY <1>1, <1>2
  <2> HIDE DEF h
  <2>2. /\ Increasing(Push(h, n))
        /\ \A j \in 1..Len(h) :
              h[j] < Push(h, n)[1] \/ \E i \in 1..Len(Push(h, n)) : Push(h, n)[i] = h[j]
        /\ \A i \in 1..Len(Push(h, n)) :
              Push(h, n)[i] = n \/ \E j \in 1..Len(h) : Push(h, n)[i] = h[j]
    BY <2>1, PushOrdered
  <2>3. power' = Push(h, n) /\ power = h  BY DEF h
  <2> QED  BY <2>2, <2>3
<1>5. power'[1] \in Nat  BY <1>3
<1>6. ASSUME NEW m \in Nat, m <= delta,
             m < power[1] \/ \E j \in 1..Len(power) : power[j] = m
      PROVE  m < power'[1] \/ \E i \in 1..Len(power') : power'[i] = m
  <2>1. CASE \E j \in 1..Len(power) : power[j] = m  BY <1>4, <2>1
  <2>2. CASE power = <<>>
    <3>1. \A i \in 1..Len(power') : power'[i] = n
      <4>1. Len(power) = 0  BY <2>2
      <4> QED  BY <1>4, <4>1
    <3>2. power'[1] = n  BY <1>3, <3>1
    <3> QED  BY <1>1, <1>6, <3>2
  <2>3. CASE m < power[1] /\ power # <<>>
    <3>1. Len(power) \in Nat \ {0} /\ 1 \in 1..Len(power) /\ power[1] \in Nat
      BY <1>1, <2>3
    <3>2. power[1] <= power'[1]
      <4>1. CASE power'[1] = n  BY <1>2, <3>1, <4>1
      <4>2. CASE \E j \in 1..Len(power) : power'[1] = power[j]
        <5>1. PICK j \in 1..Len(power) : power'[1] = power[j]  BY <4>2
        <5>2. j = 1 \/ 1 < j  BY <3>1
        <5>3. power[1] = power[j] \/ power[1] < power[j]
          BY <1>2, <3>1, <5>2 DEF Increasing
        <5> QED  BY <1>1, <3>1, <5>1, <5>3
      <4> QED  BY <1>3, <1>4, <4>1, <4>2
    <3> QED  BY <1>5, <2>3, <3>1, <3>2
  <2> QED  BY <1>6, <2>1, <2>2, <2>3
<1>7. ASSUME NEW ch \in Channels
      PROVE  /\ Increasing(channels'[ch])
             /\ \A i \in 1..Len(channels'[ch]) :
                   /\ channels'[ch][i] <= n
                   /\ \/ channels'[ch][i] < power'[1]
                      \/ \E j \in 1..Len(power') : power'[j] = channels'[ch][i]
  <2> DEFINE h == channels[ch]
  <2>1. /\ h \in Seq(Nat) /\ Len(h) <= HistoryLen /\ Increasing(h)
        /\ \A i \in 1..Len(h) : /\ h[i] \in Nat /\ h[i] <= delta
                                /\ h[i] < power[1] \/ \E j \in 1..Len(power) : power[j] = h[i]
    BY SMTT(30) DEF PageTypes, HistoryInv, HistoriesInOrder
  <2>2. channels'[ch] = h \/ channels'[ch] = Push(h, n)  OBVIOUS
  <2> HIDE DEF h
  <2>3. \A i \in 1..Len(h) : /\ h[i] < n
                             /\ \/ h[i] < power'[1]
                                \/ \E j \in 1..Len(power') : power'[j] = h[i]
    <3>1. \A x \in Nat : x <= delta => x < n  BY <1>1
    <3> QED  BY <1>6, <2>1, <3>1
  <2>4. CASE channels'[ch] = h
    <3>1. \A i \in 1..Len(h) : h[i] <= n  BY <2>1, <2>3
    <3> QED  BY <2>1, <2>3, <2>4, <3>1, ZenonT(30)
  <2>5. CASE channels'[ch] = Push(h, n)
    <3>1. /\ Increasing(Push(h, n)) /\ \A i \in 1..Len(Push(h, n)) : Push(h, n)[i] <= n
          /\ \A i \in 1..Len(Push(h, n)) :
                Push(h, n)[i] = n \/ \E j \in 1..Len(h) : Push(h, n)[i] = h[j]
      BY <2>1, <2>3, PushOrdered
    <3>2. \E j \in 1..Len(power') : power'[j] = n
      <4>1. Len(power') \in 1..Len(power')  BY <1>3
      <4> QED  BY <1>3, <4>1
    <3>3. \A i \in 1..Len(Push(h, n)) :
             \/ Push(h, n)[i] < power'[1]
             \/ \E j \in 1..Len(power') : power'[j] = Push(h, n)[i]
      <4> SUFFICES ASSUME NEW i \in 1..Len(Push(h, n))
                   PROVE  \/ Push(h, n)[i] < power'[1]
                          \/ \E j \in 1..Len(power') : power'[j] = Push(h, n)[i]
        OBVIOUS
      <4>1. CASE Push(h, n)[i] = n  BY <3>2, <4>1
      <4>2. CASE \E j \in 1..Len(h) : Push(h, n)[i] = h[j]
        <5>1. PICK j \in 1..Len(h) : Push(h, n)[i] = h[j]  BY <4>2
        <5>2. h[j] < power'[1] \/ \E k \in 1..Len(power') : power'[k] = h[j]  BY <2>3
        <5> QED  BY <5>1, <5>2
      <4> QED  BY <3>1, <4>1, <4>2
    <3> QED  BY <2>5, <3>1, <3>3
  <2> QED  BY <2>2, <2>4, <2>5
<1>8. HistoriesInOrder'  BY <1>4, <1>7 DEF HistoriesInOrder, Increasing
<1>9. ChartEndsAtDelta'  BY DEF HistoryInv, ChartEndsAtDelta
<1> QED  BY <1>3, <1>7, <1>8, <1>9 DEF HistoryInv

\* A history that ends with the first m of r ends with the first m + 1 once the
\* next one is pushed.
LEMMA PushRecent ==
    ASSUME NEW h \in Seq(Nat), Len(h) <= HistoryLen, NEW n \in Nat,
           NEW r, NEW m \in Nat, EndsWith(h, r, m)
    PROVE  r[m + 1] = n => EndsWith(Push(h, n), r, m + 1)
<1> DEFINE p == Push(h, n)
<1>1. /\ Len(p) \in Nat \ {0} /\ Len(h) \in Nat /\ Len(p) <= HistoryLen
      /\ Len(p) = Len(h) + 1 \/ Len(p) = Len(h)
      /\ Len(p) = Len(h) => Len(h) = HistoryLen
      /\ p[Len(p)] = n
      /\ \A i \in 1..(Len(p) - 1) : p[i] = h[i + (Len(h) + 1 - Len(p))]
  BY PushFacts
<1>2. HistoryLen \in Nat \ {0} /\ 0 < Len(p)  BY <1>1, LengthsAssumption
<1> HIDE DEF p
<1> SUFFICES ASSUME r[m + 1] = n, NEW k \in 1..(m + 1), (m + 1) - k < HistoryLen
             PROVE  (m + 1) - k < Len(p) /\ p[Len(p) - ((m + 1) - k)] = r[k]
  BY DEF p, EndsWith
<1>3. CASE k = m + 1
  <2>1. (m + 1) - k = 0 /\ Len(p) - 0 = Len(p)  BY <1>1, <1>3
  <2>2. p[Len(p) - ((m + 1) - k)] = p[Len(p)] /\ r[k] = n  BY <1>3, <2>1
  <2>3. (m + 1) - k < Len(p)  BY <1>2, <2>1, Zenon
  <2> QED  BY <1>1, <2>2, <2>3, Zenon
<1>4. CASE k \in 1..m
  <2>1. m - k \in Nat /\ m - k < HistoryLen /\ (m + 1) - k = (m - k) + 1
    BY <1>2, <1>4
  <2>2. m - k < Len(h) /\ h[Len(h) - (m - k)] = r[k]  BY <1>4, <2>1 DEF EndsWith
  <2>3. (m + 1) - k < Len(p)  BY <1>1, <2>1, <2>2
  <2>4. /\ Len(p) - ((m + 1) - k) \in 1..(Len(p) - 1)
        /\ Len(p) - ((m + 1) - k) + (Len(h) + 1 - Len(p)) = Len(h) - (m - k)
    BY <1>1, <1>4, <2>3
  <2> QED  BY <1>1, <2>2, <2>3, <2>4
<1> QED  BY <1>3, <1>4

LEMMA OnDeltaStep == ASSUME Inv, OnDelta PROVE Inv'
<1> DEFINE n == Head(tasks).n
<1>1. PICK here \in SUBSET Channels :
         /\ tasks # <<>> /\ Head(tasks).type = "delta" /\ tasks' = Tail(tasks)
         /\ delta' = n /\ connected' = TRUE
         /\ power' = Push(power, n)
         /\ channels' = [ch \in Channels |->
               IF ch \in here THEN Push(channels[ch], n) ELSE channels[ch]]
         /\ handled' = handled + 1
         /\ UNCHANGED <<feedVars, link, conn, arrived, screen, current>>
  BY DEF OnDelta, Take, SetDelta
<1>2. /\ ServerTypes' /\ LinkTypes' /\ LinkInv' /\ Newest' = Newest /\ Newest \in Nat
      /\ Head(tasks) \in Tasks /\ delta < n /\ n <= Newest
      /\ Ordered(tasks', n, Newest)
      /\ current \in 1..conn /\ handled + 1 <= Len(received[current])
      /\ n = received[current][handled + 1]
      /\ StreamInv' /\ DotInv'
  BY <1>1, TakeFacts DEF Inv
<1>3. n \in Nat  BY <1>2 DEF Tasks
<1> HIDE DEF n
<1>4. received' = received /\ since' = since /\ published' = published /\ conn' = conn
  BY <1>1 DEF feedVars
<1>5. PageTypes'
  <2>1. /\ PageTypes /\ LinkTypes /\ \A ch \in Channels : channels[ch] \in Seq(Nat)
    BY DEF Inv, TypeInv, PageTypes
  <2>2. /\ power' \in Seq(Nat) /\ Len(power') <= HistoryLen
    BY <1>1, <1>3, <2>1, PushFacts DEF PageTypes
  <2>3. ASSUME NEW ch \in Channels
        PROVE  channels'[ch] \in Seq(Nat) /\ Len(channels'[ch]) <= HistoryLen
    <3>1. channels[ch] \in Seq(Nat) /\ Len(channels[ch]) <= HistoryLen  BY <2>1 DEF PageTypes
    <3>2. Push(channels[ch], n) \in Seq(Nat) /\ Len(Push(channels[ch], n)) <= HistoryLen
      BY <1>3, <3>1, PushFacts
    <3>3. channels'[ch] = channels[ch] \/ channels'[ch] = Push(channels[ch], n)  BY <1>1
    <3> QED  BY <3>1, <3>2, <3>3
  <2>4. channels' \in [Channels -> Seq(Nat)]  BY <1>1, <2>3
  <2>5. handled' \in Nat /\ current' \in 0..conn'  BY <1>1, <1>4, <2>1 DEF PageTypes
  <2> QED  BY <1>1, <1>3, <2>2, <2>3, <2>4, <2>5 DEF PageTypes
<1>6. FeedInv'  BY <1>4 DEF Inv, FeedInv, Handed, Increasing
<1>7. OrderInv'  BY <1>1, <1>2 DEF OrderInv
<1>8. HistoryInv'  BY <1>1, <1>2, <1>3, OnDeltaHistories DEF Inv, TypeInv
<1>9. RecentInv'
  <2>1. current \in Conns /\ current > 0
    BY <1>2, BoundsAssumption DEF Inv, TypeInv, LinkTypes, Conns
  <2>2. power \in Seq(Nat) /\ Len(power) <= HistoryLen /\ handled \in Nat
    BY DEF Inv, TypeInv, PageTypes
  <2>3. EndsWith(power, received[current], handled)  BY <2>1 DEF Inv, RecentInv
  <2>4. EndsWith(Push(power, n), received[current], handled + 1)
    BY <1>2, <1>3, <2>2, <2>3, PushRecent
  <2>5. EndsWith(power, received[current], handled)'
    BY <1>1, <1>4, <2>4 DEF EndsWith
  <2> QED  BY <1>1, <1>2, <1>4, <2>5 DEF RecentInv
<1> QED  BY <1>2, <1>5, <1>6, <1>7, <1>8, <1>9 DEF Inv, TypeInv

LEMMA OnOpenStep == ASSUME Inv, OnOpen PROVE Inv'
<1>1. /\ tasks # <<>> /\ Head(tasks).type = "open" /\ tasks' = Tail(tasks)
      /\ connected' = TRUE /\ current' = Head(tasks).n /\ handled' = 0
      /\ UNCHANGED <<feedVars, link, conn, arrived, delta, refs, screen>>
  BY DEF OnOpen, Take
<1>2. /\ ServerTypes' /\ LinkTypes' /\ LinkInv' /\ Newest' = Newest
      /\ Ordered(tasks', delta, Newest) /\ Head(tasks).n \in 1..conn
      /\ StreamInv' /\ DotInv'
  BY <1>1, TakeFacts DEF Inv
<1>3. /\ received' = received /\ since' = since /\ published' = published /\ conn' = conn
      /\ power' = power /\ channels' = channels /\ delta' = delta /\ screen' = screen
  BY <1>1 DEF feedVars, refs
<1>4. PageTypes'
  <2>1. current' \in 0..conn' /\ handled' \in Nat  BY <1>1, <1>2, <1>3 DEF Inv, TypeInv, LinkTypes
  <2> QED  BY <1>1, <1>3, <2>1 DEF Inv, TypeInv, PageTypes
<1>5. FeedInv'  BY <1>3 DEF Inv, FeedInv, Handed, Increasing
<1>6. OrderInv'  BY <1>2, <1>3 DEF Inv, OrderInv
<1>7. HistoryInv'
  BY <1>3 DEF Inv, HistoryInv, HistoriesInOrder, ChartEndsAtDelta, Increasing
<1>8. RecentInv'
  <2>1. current' \in Conns  BY <1>1, <1>2, BoundsAssumption DEF Inv, TypeInv, LinkTypes, Conns
  <2>2. Len(received[current']) \in Nat  BY <2>1 DEF Inv, TypeInv, ServerTypes
  <2> QED  BY <1>1, <1>3, <2>2 DEF RecentInv, EndsWith
<1> QED  BY <1>2, <1>4, <1>5, <1>6, <1>7, <1>8 DEF Inv, TypeInv

LEMMA OnErrorStep == ASSUME Inv, OnError PROVE Inv'
<1>1. /\ tasks # <<>> /\ Head(tasks).type = "error" /\ tasks' = Tail(tasks)
      /\ connected' = FALSE
      /\ UNCHANGED <<feedVars, link, conn, arrived, delta, refs, screen, ghosts>>
  BY DEF OnError, Take
<1>2. /\ received' = received /\ since' = since /\ published' = published /\ conn' = conn
      /\ power' = power /\ channels' = channels /\ delta' = delta /\ screen' = screen
      /\ current' = current /\ handled' = handled
  BY <1>1 DEF feedVars, refs, ghosts
<1>3. /\ ServerTypes' /\ LinkTypes' /\ LinkInv' /\ Newest' = Newest
      /\ Ordered(tasks', delta, Newest) /\ StreamInv' /\ DotInv'
  BY <1>1, <1>2, TakeFacts DEF Inv
<1>4. PageTypes'  BY <1>1, <1>2 DEF Inv, TypeInv, PageTypes
<1>5. FeedInv'  BY <1>2 DEF Inv, FeedInv, Handed, Increasing
<1>6. OrderInv'  BY <1>2, <1>3 DEF Inv, OrderInv
<1>7. HistoryInv'
  BY <1>2 DEF Inv, HistoryInv, HistoriesInOrder, ChartEndsAtDelta, Increasing
<1>8. RecentInv'  BY <1>2 DEF Inv, RecentInv, EndsWith
<1> QED  BY <1>3, <1>4, <1>5, <1>6, <1>7, <1>8 DEF Inv, TypeInv

-----------------------------------------------------------------------------
(* The other steps leave the page as it is, but for what is drawn.         *)

\* Connections that are handed more, or begin, leave the page's part alone.
LEMMA GrowStep ==
    ASSUME Inv, Grows, ServerTypes', UNCHANGED <<tasks, pageVars>>,
           conn' \in Conns \/ conn' = conn, conn <= conn',
           arrived' > 0 => conn' = conn /\ arrived' = arrived
    PROVE  StreamInv' /\ RecentInv' /\ HistoryInv'
<1>1. /\ tasks' = tasks /\ delta' = delta /\ power' = power /\ channels' = channels
      /\ current' = current /\ handled' = handled /\ screen' = screen
      /\ current \in 0..conn /\ handled \in Nat /\ conn \in 0..MaxConns /\ MaxConns \in Nat
  BY BoundsAssumption DEF pageVars, hooks, refs, ghosts, Inv, TypeInv, PageTypes, LinkTypes
<1>2. HistoryInv'
  BY <1>1 DEF Inv, HistoryInv, HistoriesInOrder, ChartEndsAtDelta, Increasing
<1>3. \A c \in Conns : Len(received[c]) \in Nat /\ Len(received'[c]) \in Nat
  BY DEF Inv, TypeInv, ServerTypes
<1>4. \A c \in 1..conn : c \in Conns  BY <1>1 DEF Conns
<1>5. RecentInv'
  <2> SUFFICES ASSUME current > 0
               PROVE  /\ handled <= Len(received'[current])
                      /\ \A k \in 1..handled : handled - k < HistoryLen =>
                            /\ handled - k < Len(power)
                            /\ power[Len(power) - (handled - k)] = received'[current][k]
    BY <1>1 DEF RecentInv, EndsWith
  <2>1. current \in Conns  BY <1>1, <1>4
  <2>2. handled <= Len(received[current])  BY DEF Inv, RecentInv
  <2>3. handled <= Len(received'[current])  BY <1>1, <1>3, <2>1, <2>2 DEF Grows
  <2>4. \A k \in 1..handled : received'[current][k] = received[current][k]
    BY <1>1, <1>3, <2>1, <2>2 DEF Grows
  <2> QED  BY <2>3, <2>4 DEF Inv, RecentInv, EndsWith
<1>6. StreamInv'
  <2>1. PICK owner \in [0..Len(tasks) -> Nat], count \in [0..Len(tasks) -> Nat] :
           /\ owner[0] = current /\ count[0] = handled
           /\ Labels(tasks, owner, count)
           /\ arrived > 0 => owner[Len(tasks)] = conn /\ count[Len(tasks)] = arrived
    BY DEF Inv, StreamInv
  <2>2. ASSUME NEW t \in Tasks, NEW c \in Nat, NEW k \in Nat, NEW c2 \in Nat, NEW k2 \in Nat,
               Leads(t, c, k, c2, k2)
        PROVE  Leads(t, c, k, c2, k2)'
    <3>1. CASE t.type = "open"
      <4>1. t.n \in 1..conn'  BY <1>1, <2>2, <3>1 DEF Leads, Conns
      <4> QED  BY <2>2, <3>1, <4>1 DEF Leads
    <3>2. CASE t.type = "delta"
      <4>1. /\ c \in 1..conn /\ k2 = k + 1 /\ k2 <= Len(received[c]) /\ t.n = received[c][k2]
            /\ c2 = c
        BY <2>2, <3>2 DEF Leads
      <4>2. c \in Conns /\ c \in 1..conn'  BY <1>1, <1>4, <4>1 DEF Conns
      <4>3. k2 \in 1..Len(received[c])  BY <1>3, <4>1, <4>2
      <4>4. k2 <= Len(received'[c]) /\ t.n = received'[c][k2]
        BY <1>3, <4>1, <4>2, <4>3 DEF Grows
      <4> QED  BY <3>2, <4>1, <4>2, <4>4 DEF Leads
    <3>3. CASE t.type = "error"  BY <2>2, <3>3 DEF Leads
    <3> QED  BY <3>1, <3>2, <3>3 DEF Tasks
  <2>3. Labels(tasks, owner, count)'
    <3>1. tasks \in Seq(Tasks) /\ Len(tasks) \in Nat  BY DEF Inv, TypeInv, LinkTypes
    <3>2. ASSUME NEW i \in 1..Len(tasks)
          PROVE  Leads(tasks[i], owner[i - 1], count[i - 1], owner[i], count[i])'
      <4>1. i \in 0..Len(tasks) /\ i - 1 \in 0..Len(tasks) /\ tasks[i] \in Tasks  BY <3>1
      <4>2. Leads(tasks[i], owner[i - 1], count[i - 1], owner[i], count[i])
        BY <2>1 DEF Labels
      <4>3. \A t \in Tasks : \A c, k, c2, k2 \in Nat :
               Leads(t, c, k, c2, k2) => (Leads(t, c, k, c2, k2))'
        BY <2>2
      <4> QED  BY <1>1, <4>1, <4>2, <4>3
    <3> QED  BY <1>1, <3>2 DEF Labels
  <2> QED  BY <1>1, <2>1, <2>3 DEF StreamInv
<1> QED  BY <1>2, <1>5, <1>6

LEMMA InvServer == ASSUME Inv, Publish \/ Deliver \/ Leave PROVE Inv'
<1>1. /\ ServerTypes' /\ FeedInv' /\ Grows /\ UNCHANGED <<since, linkVars, pageVars>>
  BY ServerStep DEF Inv, TypeInv
<1>2. /\ link' = link /\ conn' = conn /\ arrived' = arrived /\ tasks' = tasks /\ since' = since
      /\ delta' = delta /\ connected' = connected /\ power' = power /\ channels' = channels
      /\ current' = current /\ handled' = handled
      /\ conn \in 0..MaxConns /\ arrived \in Nat /\ delta \in Nat
  BY <1>1 DEF linkVars, pageVars, hooks, refs, ghosts, Inv, TypeInv, LinkTypes, PageTypes
<1>3. LinkTypes' /\ PageTypes' /\ DotInv'
  BY <1>2 DEF Inv, TypeInv, LinkTypes, PageTypes, DotInv
<1>4. /\ conn > 0 => conn \in Conns /\ arrived <= Len(received[conn])
      /\ \A c \in Conns : Len(received[c]) \in Nat /\ Len(received'[c]) \in Nat
  BY <1>1, <1>2, BoundsAssumption, SMTT(30) DEF Conns, Inv, LinkInv, TypeInv, ServerTypes
<1>5. LinkInv'  BY <1>1, <1>2, <1>4 DEF Inv, LinkInv, Grows
<1>6. Newest' = Newest
  <2>1. CASE conn > 0 /\ arrived # 0
    <3>1. received'[conn][arrived] = received[conn][arrived]
      BY <1>1, <1>2, <1>4, <2>1 DEF Grows
    <3> QED  BY <1>2, <3>1 DEF Newest
  <2>2. CASE ~(conn > 0 /\ arrived # 0)  BY <1>2, <2>2 DEF Newest
  <2> QED  BY <2>1, <2>2
<1>7. OrderInv'  BY <1>2, <1>6 DEF Inv, OrderInv
<1>8. StreamInv' /\ RecentInv' /\ HistoryInv'
  BY <1>1, <1>2, GrowStep DEF linkVars
<1> QED  BY <1>1, <1>3, <1>5, <1>7, <1>8 DEF Inv, TypeInv

LEMMA InvConnect == ASSUME Inv, Connect PROVE Inv'
<1>1. /\ ServerTypes' /\ FeedInv' /\ LinkInv' /\ OrderInv'
      /\ conn \in 0..MaxConns /\ conn' = conn + 1 /\ conn + 1 \in Conns
      /\ UNCHANGED <<received, tasks, pageVars>> /\ arrived' = 0
      /\ link' = "requested" /\ link = "connecting"
  BY ConnectStep DEF Inv
<1>2. /\ delta' = delta /\ connected' = connected /\ power' = power /\ channels' = channels
      /\ current' = current /\ handled' = handled /\ conn <= conn' /\ conn' \in 0..MaxConns
      /\ current \in 0..conn' /\ received' = received
  BY <1>1, BoundsAssumption
     DEF pageVars, hooks, refs, ghosts, Conns, Inv, TypeInv, PageTypes
<1>3. LinkTypes' /\ PageTypes' /\ DotInv'
  BY <1>1, <1>2 DEF Inv, TypeInv, LinkTypes, PageTypes, DotInv
<1>4. Grows
  <2>1. \A c \in Conns : Len(received[c]) \in Nat  BY DEF Inv, TypeInv, ServerTypes
  <2> QED  BY <1>2, <2>1 DEF Grows
<1>5. StreamInv' /\ RecentInv' /\ HistoryInv'
  BY <1>1, <1>2, <1>4, GrowStep
<1> QED  BY <1>1, <1>3, <1>5 DEF Inv, TypeInv

LEMMA InvLink == ASSUME Inv, Arrive \/ Lose PROVE Inv'
<1>1. /\ LinkTypes' /\ LinkInv' /\ OrderInv' /\ DotInv' /\ StreamInv'
      /\ UNCHANGED <<feedVars, conn, pageVars>>
  BY ArriveStep, LoseStep DEF Inv, Arrive, Lose
<1>2. /\ published' = published /\ since' = since /\ received' = received /\ status' = status
      /\ conn' = conn /\ delta' = delta /\ connected' = connected /\ power' = power
      /\ channels' = channels /\ current' = current /\ handled' = handled /\ screen' = screen
  BY <1>1 DEF feedVars, pageVars, hooks, refs, ghosts
<1>3. ServerTypes' /\ PageTypes'  BY <1>2 DEF Inv, TypeInv, ServerTypes, PageTypes
<1>4. FeedInv'  BY <1>2 DEF Inv, FeedInv, Handed, Increasing
<1>5. HistoryInv'
  BY <1>2 DEF Inv, HistoryInv, HistoriesInOrder, ChartEndsAtDelta, Increasing
<1>6. RecentInv'  BY <1>2 DEF Inv, RecentInv, EndsWith
<1> QED  BY <1>1, <1>3, <1>4, <1>5, <1>6 DEF Inv, TypeInv

\* A render, or no step at all.
LEMMA InvRender == ASSUME Inv, Render \/ UNCHANGED vars PROVE Inv'
<1>1. /\ published' = published /\ since' = since /\ received' = received /\ status' = status
      /\ link' = link /\ conn' = conn /\ arrived' = arrived /\ tasks' = tasks
      /\ delta' = delta /\ connected' = connected /\ power' = power /\ channels' = channels
      /\ current' = current /\ handled' = handled
      /\ \/ screen' = screen
         \/ screen' = [delta |-> delta, connected |-> connected, power |-> power]
  BY DEF Render, vars, feedVars, linkVars, pageVars, hooks, refs, ghosts
<1>2. TypeInv' /\ LinkInv' /\ DotInv'
  BY <1>1 DEF Inv, TypeInv, ServerTypes, LinkTypes, PageTypes, LinkInv, DotInv
<1>3. FeedInv'  BY <1>1 DEF Inv, FeedInv, Handed, Increasing
<1>4. OrderInv'
  <2>1. Newest' = Newest  BY <1>1 DEF Newest
  <2> QED  BY <1>1, <2>1 DEF Inv, OrderInv
<1>5. HistoryInv'
  BY <1>1 DEF Inv, HistoryInv, HistoriesInOrder, ChartEndsAtDelta, Increasing
<1>6. RecentInv'  BY <1>1 DEF Inv, RecentInv, EndsWith
<1>7. StreamInv'
  <2>1. \A o, c : Labels(tasks, o, c)' <=> Labels(tasks, o, c)  BY <1>1 DEF Labels, Leads
  <2> QED  BY <1>1, <2>1 DEF Inv, StreamInv
<1> QED  BY <1>2, <1>3, <1>4, <1>5, <1>6, <1>7 DEF Inv

LEMMA InvStep == ASSUME Inv, [Next]_vars PROVE Inv'
<1>1. CASE Publish \/ Deliver \/ Leave  BY <1>1, InvServer
<1>2. CASE Connect  BY <1>2, InvConnect
<1>3. CASE Arrive \/ Lose  BY <1>3, InvLink
<1>4. CASE OnDelta  BY <1>4, OnDeltaStep
<1>5. CASE OnOpen  BY <1>5, OnOpenStep
<1>6. CASE OnError  BY <1>6, OnErrorStep
<1>7. CASE Render \/ UNCHANGED vars  BY <1>7, InvRender
<1> QED  BY <1>1, <1>2, <1>3, <1>4, <1>5, <1>6, <1>7 DEF Next, Task, Quiet

LEMMA InvInit == ASSUME Init PROVE Inv
<1> USE DEF Init, Server!Init
<1>1. TypeInv
  <2>1. ServerTypes  BY DEF ServerTypes
  <2>2. LinkTypes  BY BoundsAssumption DEF LinkTypes
  <2>3. PageTypes
    <3>1. <<>> \in Seq(Nat) /\ Len(<<>>) = 0 /\ 0 <= HistoryLen  BY LengthsAssumption
    <3>2. \A ch \in Channels : channels[ch] = <<>>  OBVIOUS
    <3>3. channels \in [Channels -> Seq(Nat)]  BY <3>1
    <3>4. \A ch \in Channels : Len(channels[ch]) <= HistoryLen  BY <3>1, <3>2
    <3>5. Len(power) <= HistoryLen /\ current \in 0..conn  BY <3>1
    <3>6. delta \in Nat /\ power \in Seq(Nat) /\ handled \in Nat  OBVIOUS
    <3>7. connected \in BOOLEAN  OBVIOUS
    <3> QED  BY ONLY <3>3, <3>4, <3>5, <3>6, <3>7 DEF PageTypes
  <2> QED  BY <2>1, <2>2, <2>3 DEF TypeInv
<1>2. FeedInv /\ LinkInv  BY DEF FeedInv, Handed, Increasing, LinkInv
<1>3. OrderInv  BY DEF OrderInv, Ordered, Newest
<1>4. HistoryInv  BY DEF HistoryInv, HistoriesInOrder, Increasing, ChartEndsAtDelta
<1>5. DotInv /\ RecentInv  BY DEF DotInv, RecentInv
<1>6. StreamInv
  <2> DEFINE zero == [i \in 0..Len(tasks) |-> 0]
  <2>1. /\ Len(tasks) = 0 /\ zero \in [0..Len(tasks) -> Nat] /\ zero[0] = 0
        /\ \A i \in 1..Len(tasks) : FALSE
    OBVIOUS
  <2>2. Labels(tasks, zero, zero)  BY <2>1 DEF Labels
  <2> HIDE DEF zero
  <2> QED  BY <2>1, <2>2 DEF StreamInv
<1> QED  BY <1>1, <1>2, <1>3, <1>4, <1>5, <1>6 DEF Inv

LEMMA InvCorrect == Spec => []Inv
<1>1. Init => Inv  BY InvInit
<1>2. Inv /\ [Next]_vars => Inv'  BY InvStep
<1> QED  BY <1>1, <1>2, PTL DEF Spec

-----------------------------------------------------------------------------
(* The theorems.                                                           *)

\* However often the connection is lost, no history repeats a delta or holds
\* two in the wrong order, and a channel's history holds nothing that the power
\* history missed (index.html:388-442).
THEOREM HistoriesCorrect == Spec => []HistoriesInOrder
<1>1. Inv => HistoriesInOrder  BY DEF Inv, HistoryInv
<1> QED  BY <1>1, InvCorrect, PTL

\* What is kept of the present connection has no gap that the server promised
\* not to make: the page and the browser lose nothing (index.html:383-393).
THEOREM NoGapCorrect == Spec => []NoGapSinceConnected
<1>1. ASSUME Inv PROVE NoGapSinceConnected
  <2> SUFFICES ASSUME current > 0, NEW k \in 1..handled, k <= Window, handled - k < HistoryLen
               PROVE  /\ handled - k < Len(power)
                      /\ power[Len(power) - (handled - k)] = since[current] + k
    BY DEF NoGapSinceConnected
  <2>1. /\ current \in Conns /\ handled <= Len(received[current])
        /\ EndsWith(power, received[current], handled)
    BY <1>1, BoundsAssumption DEF Inv, RecentInv, TypeInv, LinkTypes, PageTypes, Conns
  <2>2. handled \in Nat /\ Len(received[current]) \in Nat
    BY <1>1, <2>1 DEF Inv, TypeInv, PageTypes, ServerTypes
  <2>3. k \in 1..Len(received[current])  BY <2>1, <2>2
  <2>4. received[current][k] = since[current] + k  BY <1>1, <2>1, <2>3 DEF Inv, FeedInv, Handed
  <2> QED  BY <2>1, <2>4 DEF EndsWith
<1> QED  BY <1>1, InvCorrect, PTL

\* The chart ends with the delta whose figures are shown beside it, whenever
\* React renders (index.html:386-389, 453-480).
THEOREM ChartCorrect == Spec => []ChartEndsAtDelta
<1>1. Inv => ChartEndsAtDelta  BY DEF Inv, HistoryInv
<1> QED  BY <1>1, InvCorrect, PTL

\* Once the queue is empty the dot tells the truth about the stream
\* (index.html:387, 444-445).
THEOREM DotCorrect == Spec => []DotIsRight
<1>1. Inv => DotIsRight  BY DEF Inv, DotInv, DotIsRight
<1> QED  BY <1>1, InvCorrect, PTL
=============================================================================
