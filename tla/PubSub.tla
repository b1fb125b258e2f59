------------------------------- MODULE PubSub -------------------------------
(***************************************************************************)
(* What a broker promises a subscriber, and no more: from the moment it is *)
(* opened until it is closed, a subscription accepts events of its topic,  *)
(* each at most once, those of one publisher in the order they were        *)
(* published, and never more than its buffer holds unread.  Events may be  *)
(* lost.  What was accepted can still be read after the close.             *)
(***************************************************************************)
EXTENDS Integers, Sequences

CONSTANTS Subscribers, Topic, All, Event, Capacities

VARIABLES
    status,     \* "nil", "open" or "closed"
    topic,
    cap,
    log,        \* what each subscription accepted
    read        \* how much of it was read

vars == <<status, topic, cap, log, read>>

Init ==
    /\ status = [s \in Subscribers |-> "nil"]
    /\ topic = [s \in Subscribers |-> All]
    /\ cap = [s \in Subscribers |-> 0]
    /\ log = [s \in Subscribers |-> <<>>]
    /\ read = [s \in Subscribers |-> 0]

OpenSub(s, t, n) ==
    /\ status[s] = "nil"
    /\ status' = [status EXCEPT ![s] = "open"]
    /\ topic' = [topic EXCEPT ![s] = t]
    /\ cap' = [cap EXCEPT ![s] = n]
    /\ UNCHANGED <<log, read>>

InTopic(e, t) == t = All \/ t = e.wid

\* e is newer than everything its publisher has put into l.
Newer(e, l) == \A i \in DOMAIN l : l[i].pub = e.pub => l[i].seq < e.seq

Accept(s, e) ==
    /\ status[s] = "open"
    /\ InTopic(e, topic[s])
    /\ Newer(e, log[s])
    /\ Len(log[s]) - read[s] < cap[s]
    /\ log' = [log EXCEPT ![s] = Append(@, e)]
    /\ UNCHANGED <<status, topic, cap, read>>

Read(s) ==
    /\ read[s] < Len(log[s])
    /\ read' = [read EXCEPT ![s] = @ + 1]
    /\ UNCHANGED <<status, topic, cap, log>>

CloseSub(s) ==
    /\ status[s] = "open"
    /\ status' = [status EXCEPT ![s] = "closed"]
    /\ UNCHANGED <<topic, cap, log, read>>

Next ==
    \E s \in Subscribers :
        \/ \E t \in Topic, n \in Capacities : OpenSub(s, t, n)
        \/ \E e \in Event : Accept(s, e)
        \/ Read(s)
        \/ CloseSub(s)

Spec == Init /\ [][Next]_vars
=============================================================================
