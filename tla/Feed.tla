-------------------------------- MODULE Feed --------------------------------
(***************************************************************************)
(* What the web server promises the browsers (cmd/aneperfweb): the deltas  *)
(* of the one sampler are numbered in the order they are published, and a  *)
(* subscriber is handed an increasing selection of those published after   *)
(* it subscribed.  The first Window of them come without a gap: a delta is *)
(* skipped only for a subscriber that let a whole queue pile up.           *)
(*                                                                         *)
(* There is no hub, mutex, queue or process here; module Hub implements    *)
(* this specification.                                                     *)
(***************************************************************************)
EXTENDS Naturals, Sequences

CONSTANTS Subscribers, Window

VARIABLES
    published,  \* number of deltas published so far
    status,     \* status[c]: "new", "on" (subscribed) or "off" (gone)
    since,      \* since[c]: value of published when c subscribed
    received    \* received[c]: the deltas handed to c, oldest first

vars == <<published, status, since, received>>

Init ==
    /\ published = 0
    /\ status = [c \in Subscribers |-> "new"]
    /\ since = [c \in Subscribers |-> 0]
    /\ received = [c \in Subscribers |-> <<>>]

Latest(c) ==
    IF received[c] = <<>> THEN since[c] ELSE received[c][Len(received[c])]

Publish ==
    /\ published' = published + 1
    /\ UNCHANGED <<status, since, received>>

Subscribe(c) ==
    /\ status[c] = "new"
    /\ status' = [status EXCEPT ![c] = "on"]
    /\ since' = [since EXCEPT ![c] = published]
    /\ UNCHANGED <<published, received>>

Deliver(c, n) ==
    /\ status[c] = "on"
    /\ Latest(c) < n /\ n <= published
    /\ n = Latest(c) + 1 \/ Len(received[c]) >= Window
    /\ received' = [received EXCEPT ![c] = Append(@, n)]
    /\ UNCHANGED <<published, status, since>>

Leave(c) ==
    /\ status[c] = "on"
    /\ status' = [status EXCEPT ![c] = "off"]
    /\ UNCHANGED <<published, since, received>>

Next ==
    \/ Publish
    \/ \E c \in Subscribers :
          \/ Subscribe(c)
          \/ Leave(c)
          \/ \E n \in 1..published : Deliver(c, n)

Spec == Init /\ [][Next]_vars
=============================================================================
