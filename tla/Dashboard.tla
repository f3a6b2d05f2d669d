------------------------------ MODULE Dashboard ------------------------------
(***************************************************************************)
(* The page of the web server (cmd/aneperfweb/web/index.html, App): its    *)
(* EventSource, the histories that the delta handler keeps, and what is    *)
(* drawn.  The server is there only as module Feed, the promise that the   *)
(* server process (module Hub) implements; each connection of the page is  *)
(* one subscriber.                                                         *)
(*                                                                         *)
(* An EventSource connects again by itself when its connection is lost,    *)
(* with no memory of where it was.  Bytes on the way are lost with the     *)
(* connection; events that are queued for the page are not.  The response  *)
(* header of handleStream is flushed with its first delta, and so the page *)
(* does not hear that it is connected before that.                         *)
(***************************************************************************)
EXTENDS Naturals, Sequences, FiniteSets

CONSTANTS
    MaxConns,       \* bound on the number of connections
    MaxPublished,   \* bound on the number of deltas
    Window,         \* the first deltas of a subscriber that come without a gap
    Channels,       \* names of channels with a history of their own
    HistoryLen      \* HISTORY_LEN (60 in the code)

ASSUME BoundsAssumption == MaxConns \in Nat /\ MaxPublished \in Nat
ASSUME LengthsAssumption == Window \in Nat \ {0} /\ HistoryLen \in Nat \ {0}

Conns == 1..MaxConns

VARIABLES
    published, status, since, received,     \* the server, see Feed
    link,       \* the EventSource: "connecting", "requested" or "open"
    conn,       \* its connections so far, the last of them being the current
    arrived,    \* how much of received[conn] has reached the browser
    tasks,      \* events queued for the page
    delta, connected,       \* the state hooks: the last delta's number, the dot
    power, channels,        \* historyRef, and the per-channel histories
    dirty,      \* is a render scheduled?
    screen,     \* what the last render drew
    current, handled        \* ghost: whose events the page handles, how many deltas

feedVars == <<published, status, since, received>>
hooks    == <<delta, connected>>
refs     == <<power, channels>>
ghosts   == <<current, handled>>
pageVars == <<hooks, refs, dirty, screen, ghosts>>
linkVars == <<link, conn, arrived, tasks>>

vars == <<feedVars, linkVars, pageVars>>

Server == INSTANCE Feed WITH Subscribers <- Conns

Init ==
    /\ Server!Init
    /\ link = "connecting" /\ conn = 0 /\ arrived = 0
    /\ tasks = <<>>
    /\ delta = 0 /\ connected = FALSE
    /\ power = <<>> /\ channels = [ch \in Channels |-> <<>>]
    /\ dirty = FALSE
    /\ screen = [delta |-> 0, connected |-> FALSE, power |-> <<>>]
    /\ current = 0 /\ handled = 0

\* n: the number of a delta, or of the connection that opened.
Event(type, n) == [type |-> type, n |-> n]

-----------------------------------------------------------------------------
(* The server, and the connection.                                         *)

Publish ==
    /\ published < MaxPublished
    /\ Server!Publish
    /\ UNCHANGED <<linkVars, pageVars>>

\* What the server writes to a connection that the page gave up goes nowhere.
Deliver ==
    /\ link # "connecting"
    /\ \E n \in 1..published : Server!Deliver(conn, n)
    /\ UNCHANGED <<linkVars, pageVars>>

\* The handler returns: the page is gone for it, or the server stops.
Leave ==
    /\ \E c \in Conns : Server!Leave(c)
    /\ UNCHANGED <<linkVars, pageVars>>

\* new EventSource, or a later attempt that reaches a server.
Connect ==
    /\ link = "connecting" /\ conn < MaxConns
    /\ Server!Subscribe(conn + 1)
    /\ link' = "requested" /\ conn' = conn + 1 /\ arrived' = 0
    /\ UNCHANGED <<tasks, pageVars>>

\* The next delta reaches the browser; the first one opens the stream.
Arrive ==
    /\ link # "connecting" /\ arrived < Len(received[conn])
    /\ arrived' = arrived + 1
    /\ link' = "open"
    /\ tasks' = tasks
          \o (IF link = "requested" THEN <<Event("open", conn)>> ELSE <<>>)
          \o <<Event("delta", received[conn][arrived + 1])>>
    /\ UNCHANGED <<feedVars, conn, pageVars>>

\* The connection ends, at either side or between them.
Lose ==
    /\ link # "connecting"
    /\ link' = "connecting"
    /\ tasks' = Append(tasks, Event("error", 0))
    /\ UNCHANGED <<feedVars, conn, arrived, pageVars>>

-----------------------------------------------------------------------------
(* The page: one task at a time.                                           *)

\* push, then splice.
Push(h, n) ==
    IF Len(h) < HistoryLen THEN Append(h, n)
    ELSE Append(SubSeq(h, Len(h) - HistoryLen + 2, Len(h)), n)

Take(type) == tasks # <<>> /\ Head(tasks).type = type /\ tasks' = Tail(tasks)

SetDelta(n) == delta' = n /\ connected' = TRUE /\ dirty' = TRUE

\* Seeded bug: of the deltas that are queued only the newest is handled.
OnDelta_Coalesces ==
    /\ Take("delta")
    /\ IF Len(tasks) > 1 /\ tasks[2].type = "delta"
         THEN UNCHANGED <<hooks, dirty, power, channels>>
         ELSE SetDelta(Head(tasks).n) /\ power' = Push(power, Head(tasks).n)
              /\ UNCHANGED channels
    /\ handled' = handled + 1
    /\ UNCHANGED <<feedVars, link, conn, arrived, screen, current>>

\* Seeded bug: the delta is drawn before the histories are brought up to date.
OnDelta_DrawsFirst ==
    /\ Take("delta")
    /\ LET n == Head(tasks).n IN
       /\ delta' = n /\ connected' = TRUE /\ dirty' = FALSE
       /\ screen' = [delta |-> n, connected |-> TRUE, power |-> power]
       /\ power' = Push(power, n)
    /\ handled' = handled + 1
    /\ UNCHANGED <<feedVars, link, conn, arrived, channels, current>>

\* Seeded bug: the handler is registered twice.
OnDelta_Twice ==
    /\ Take("delta")
    /\ LET n == Head(tasks).n IN
       SetDelta(n) /\ power' = Push(Push(power, n), n)
    /\ handled' = handled + 1
    /\ UNCHANGED <<feedVars, link, conn, arrived, channels, screen, current>>

\* The delta listener.  A channel that is not in the delta, or is a voltage
\* channel without states, is not recorded.
OnDelta ==
    /\ Take("delta")
    /\ \E here \in SUBSET Channels : LET n == Head(tasks).n IN
          /\ SetDelta(n)
          /\ power' = Push(power, n)
          /\ channels' = [ch \in Channels |->
                IF ch \in here THEN Push(channels[ch], n) ELSE channels[ch]]
    /\ handled' = handled + 1
    /\ UNCHANGED <<feedVars, link, conn, arrived, screen, current>>

OnOpen ==
    /\ Take("open")
    /\ connected' = TRUE
    /\ dirty' = (dirty \/ ~connected)
    /\ current' = Head(tasks).n /\ handled' = 0
    /\ UNCHANGED <<feedVars, link, conn, arrived, delta, refs, screen>>

\* Seeded bug: the dot goes out only when the EventSource has given up.
OnError_WhenGivenUp ==
    /\ Take("error")
    /\ UNCHANGED <<feedVars, link, conn, arrived, hooks, refs, dirty, screen, ghosts>>

\* Seeded bug: the flag is kept in a ref, whose change schedules no render.
OnError_NoRender ==
    /\ Take("error")
    /\ connected' = FALSE
    /\ UNCHANGED <<feedVars, link, conn, arrived, delta, refs, dirty, screen, ghosts>>

OnError ==
    /\ Take("error")
    /\ connected' = FALSE
    /\ dirty' = (dirty \/ connected)
    /\ UNCHANGED <<feedVars, link, conn, arrived, delta, refs, screen, ghosts>>

\* App runs some time after the hooks were set, and reads the refs as they are.
Render ==
    /\ dirty
    /\ dirty' = FALSE
    /\ screen' = [delta |-> delta, connected |-> connected, power |-> power]
    /\ UNCHANGED <<feedVars, linkVars, hooks, refs, ghosts>>

Task == OnDelta \/ OnOpen \/ OnError

\* The bounds are reached and all is quiet.
Quiet == published = MaxPublished /\ conn = MaxConns /\ link = "connecting"
            /\ tasks = <<>> /\ ~dirty /\ UNCHANGED vars

Next ==
    \/ Publish \/ Deliver \/ Leave
    \/ Connect \/ Arrive \/ Lose
    \/ Task \/ Render \/ Quiet

Spec == Init /\ [][Next]_vars

\* The browser runs the tasks it has queued, and draws.
FairSpec == Spec /\ WF_vars(Task) /\ WF_vars(Render)

-----------------------------------------------------------------------------
(* Properties.                                                             *)

Increasing(s) == \A i, j \in 1..Len(s) : i < j => s[i] < s[j]

\* Every history holds deltas in the order in which they were published and none
\* twice, however often the connection was lost; and the power history holds
\* every delta that a channel's history still has, unless it is older than all
\* of those it has itself (index.html:388-442).
HistoriesInOrder ==
    /\ Increasing(power)
    /\ \A ch \in Channels :
          /\ Increasing(channels[ch])
          /\ \A i \in 1..Len(channels[ch]) :
                channels[ch][i] < power[1] \/ \E j \in 1..Len(power) : power[j] = channels[ch][i]

\* What the page keeps of the present connection is what was published since it
\* was made, without a gap, for as many deltas as the server promises and the
\* history holds (Feed, composed with index.html:383-393).
NoGapSinceConnected ==
    current > 0 =>
        \A k \in 1..handled :
            k <= Window /\ handled - k < HistoryLen =>
                /\ handled - k < Len(power)
                /\ power[Len(power) - (handled - k)] = since[current] + k

\* The chart and the figures are drawn from two sources at two times, the
\* histories from refs and the rest from a hook; the chart still ends with the
\* delta whose figures are shown (index.html:386-389, 453-480).
ChartEndsAtDelta ==
    screen.delta # 0 =>
        screen.power # <<>> /\ screen.power[Len(screen.power)] = screen.delta

\* Once the page has handled its events, the dot says whether there is a stream:
\* not while a connection is being made, and not before its first delta
\* (index.html:387, 444-445).
DotIsRight ==
    tasks = <<>> => (connected <=> link = "open")

\* A connection that was lost is shown as lost, or is there again.
LostIsShown ==
    (conn > 0 /\ link = "connecting") ~> (~screen.connected \/ link # "connecting")
=============================================================================
