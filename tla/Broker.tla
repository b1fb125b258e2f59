------------------------------- MODULE Broker -------------------------------
(***************************************************************************)
(* The in-process event broker (src/agent/broker.go): MemoryBroker and the *)
(* Emitter in front of it.  Activities, workflows' local code and the API  *)
(* server publish from many goroutines; SSE handlers subscribe, read and   *)
(* cancel; the process closes the broker when it shuts down.               *)
(*                                                                         *)
(* One action is one atomic step of the code: an atomic load, add or       *)
(* compare-and-swap, a critical section of b.mu, one channel operation.    *)
(* A Go channel is the log of everything it ever accepted and the number   *)
(* of elements read from it, so that order and duplication can be stated.  *)
(* A panic ends the goroutine's call and is recorded: Temporal recovers    *)
(* panics of activities and net/http those of handlers, so the process and *)
(* the other goroutines go on.  The slices of subscriptions are sets: the  *)
(* order in which a Publish visits them is left open.                      *)
(***************************************************************************)
EXTENDS Integers, Sequences, FiniteSets, Functions

CONSTANTS
    Workflows,      \* the workflow IDs events are scoped to
    NoId,           \* the empty workflow ID
    All,            \* the topic of SubscribeAll
    Publishers,     \* goroutines that publish events
    Subscribers,    \* the subscriptions that may be made, one call each
    Closers,        \* goroutines that call Close
    BufferArgs,     \* the buffer arguments given to Subscribe
    DefaultBuffer,  \* the capacity a non-positive argument stands for
    MaxEvents       \* bound: events published

ASSUME BufferAssumption ==
    /\ BufferArgs \subseteq Int
    /\ DefaultBuffer \in Nat \ {0}

ASSUME SubscribersAssumption == IsFiniteSet(Subscribers)

ASSUME MaxEventsAssumption == MaxEvents \in Nat

ASSUME TopicAssumption ==
    /\ NoId \notin Workflows
    /\ All \notin Workflows \cup {NoId}

Topic == Workflows \cup {All}
EventId == Workflows \cup {NoId}
Event == [pub : Publishers, seq : 0..MaxEvents, wid : EventId]

VARIABLES
    closed,         \* b.closed
    workflowSubs,   \* b.workflowSubs, per workflow ID
    allSubs,        \* b.allSubs
    published,      \* b.published
    dropped,        \* b.dropped
    topic,          \* the topic of each subscription, set when it is made
    cap,            \* the capacity of its channel
    chan,           \* "nil", "open", "cancelled" (closed by cancel) or
                    \* "shut" (closed by Close)
    log,            \* everything the channel accepted, in order
    read,           \* how much of it the subscriber has received
    subPc,          \* where the subscriber is in its life
    pubPc,          \* where each publisher is in Publish
    event,          \* the event it is publishing
    targets,        \* the snapshot it still has to send to
    closePc,        \* where each closer is in Close
    closing,        \* the snapshot it still has to close
    emitted,        \* history: how many events there were, which numbers them
    offered         \* history: how many sends Publish took upon itself

brokerVars == <<closed, workflowSubs, allSubs, published, dropped>>
subVars == <<topic, cap, chan, log, read, subPc>>
pubVars == <<pubPc, event, targets, emitted, offered>>
closeVars == <<closePc, closing>>
vars == <<brokerVars, subVars, pubVars, closeVars>>

TypeOK ==
    /\ closed \in BOOLEAN
    /\ workflowSubs \in [Workflows -> SUBSET Subscribers]
    /\ allSubs \in SUBSET Subscribers
    /\ published \in Nat
    /\ dropped \in Nat
    /\ topic \in [Subscribers -> Topic]
    /\ cap \in [Subscribers -> Nat]
    /\ chan \in [Subscribers -> {"nil", "open", "cancelled", "shut"}]
    /\ log \in [Subscribers -> Seq(Event)]
    /\ read \in [Subscribers -> Nat]
    /\ subPc \in [Subscribers -> {"new", "active", "removed", "done", "panic"}]
    /\ pubPc \in [Publishers -> {"idle", "checked", "counted", "sending", "panic"}]
    /\ event \in [Publishers -> Event]
    /\ targets \in [Publishers -> SUBSET Subscribers]
    /\ closePc \in [Closers -> {"idle", "won", "closing", "done"}]
    /\ closing \in [Closers -> SUBSET Subscribers]
    /\ emitted \in 0..MaxEvents
    /\ offered \in Nat

\* NewMemoryBroker, with no call under way.
Init ==
    /\ closed = FALSE
    /\ workflowSubs = [w \in Workflows |-> {}]
    /\ allSubs = {}
    /\ published = 0
    /\ dropped = 0
    /\ topic = [s \in Subscribers |-> All]
    /\ cap = [s \in Subscribers |-> 0]
    /\ chan = [s \in Subscribers |-> "nil"]
    /\ log = [s \in Subscribers |-> <<>>]
    /\ read = [s \in Subscribers |-> 0]
    /\ subPc = [s \in Subscribers |-> "new"]
    /\ pubPc = [p \in Publishers |-> "idle"]
    /\ event = [p \in Publishers |-> [pub |-> p, seq |-> 0, wid |-> NoId]]
    /\ targets = [p \in Publishers |-> {}]
    /\ closePc = [c \in Closers |-> "idle"]
    /\ closing = [c \in Closers |-> {}]
    /\ emitted = 0
    /\ offered = 0

-----------------------------------------------------------------------------
(* Publishing *)

\* Emitter.Emit: an event that carries no workflow ID gets the emitter's.
Stamp(own, bound) == IF own = NoId THEN bound ELSE own

\* Emit up to the check of the closed flag.  On a closed broker Publish
\* returns at once, which changes nothing.
PublishCheck(p, own, bound) ==
    /\ pubPc[p] = "idle"
    /\ emitted < MaxEvents
    /\ ~closed
    /\ pubPc' = [pubPc EXCEPT ![p] = "checked"]
    /\ event' = [event EXCEPT ![p] =
                    [pub |-> p, seq |-> emitted + 1, wid |-> Stamp(own, bound)]]
    /\ emitted' = emitted + 1
    /\ UNCHANGED <<brokerVars, subVars, targets, offered, closeVars>>

PublishCount(p) ==
    /\ pubPc[p] = "checked"
    /\ published' = published + 1
    /\ pubPc' = [pubPc EXCEPT ![p] = "counted"]
    /\ UNCHANGED <<closed, workflowSubs, allSubs, dropped, subVars,
                   event, targets, emitted, offered, closeVars>>

\* Mutant: every subscription gets every event.
MatchingEverything(e) == (UNION {workflowSubs[w] : w \in Workflows}) \cup allSubs

\* The subscriptions an event is for.  No subscription is made for "".
Matching(e) == (IF e.wid \in Workflows THEN workflowSubs[e.wid] ELSE {}) \cup allSubs

\* The snapshot taken under the read lock.
PublishSnapshot(p) ==
    /\ pubPc[p] = "counted"
    /\ targets' = [targets EXCEPT ![p] = Matching(event[p])]
    /\ offered' = offered + Cardinality(Matching(event[p]))
    /\ pubPc' = [pubPc EXCEPT ![p] = "sending"]
    /\ UNCHANGED <<brokerVars, subVars, event, emitted, closeVars>>

HasRoom(s) == Len(log[s]) - read[s] < cap[s]

\* select { case sub.ch <- event: ... } takes the send: there is room.
PublishSend(p, s) ==
    /\ pubPc[p] = "sending" /\ s \in targets[p]
    /\ chan[s] = "open" /\ HasRoom(s)
    /\ log' = [log EXCEPT ![s] = Append(@, event[p])]
    /\ targets' = [targets EXCEPT ![p] = @ \ {s}]
    /\ UNCHANGED <<brokerVars, topic, cap, chan, read, subPc,
                   pubPc, event, emitted, offered, closeVars>>

\* Mutant: a drop that is not counted.
PublishDropSilently(p, s) ==
    /\ pubPc[p] = "sending" /\ s \in targets[p]
    /\ chan[s] = "open" /\ ~HasRoom(s)
    /\ targets' = [targets EXCEPT ![p] = @ \ {s}]
    /\ UNCHANGED <<brokerVars, subVars, pubPc, event, emitted, offered, closeVars>>

\* Mutant: no default case, the send waits for room.
PublishWait(p, s) ==
    /\ pubPc[p] = "sending" /\ s \in targets[p]
    /\ chan[s] = "open" /\ ~HasRoom(s)
    /\ UNCHANGED vars

\* The default case: the buffer is full, the event is dropped and counted.
PublishDrop(p, s) ==
    /\ pubPc[p] = "sending" /\ s \in targets[p]
    /\ chan[s] = "open" /\ ~HasRoom(s)
    /\ dropped' = dropped + 1
    /\ targets' = [targets EXCEPT ![p] = @ \ {s}]
    /\ UNCHANGED <<closed, workflowSubs, allSubs, published, subVars,
                   pubPc, event, emitted, offered, closeVars>>

\* A select whose send case is on a closed channel panics, full or not, and
\* the sends that were left are never made.
PublishPanic(p, s) ==
    /\ pubPc[p] = "sending" /\ s \in targets[p]
    /\ chan[s] \in {"cancelled", "shut"}
    /\ pubPc' = [pubPc EXCEPT ![p] = "panic"]
    /\ UNCHANGED <<brokerVars, subVars, event, targets, emitted, offered, closeVars>>

PublishReturn(p) ==
    /\ pubPc[p] = "sending" /\ targets[p] = {}
    /\ pubPc' = [pubPc EXCEPT ![p] = "idle"]
    /\ UNCHANGED <<brokerVars, subVars, event, targets, emitted, offered, closeVars>>

-----------------------------------------------------------------------------
(* Subscribing *)

\* Mutant: the argument is used as it is given.
CapacityAsGiven(buffer) == buffer

Capacity(buffer) == IF buffer <= 0 THEN DefaultBuffer ELSE buffer

\* Subscribe and SubscribeAll do not look at the closed flag.
Open(s, t, buffer) ==
    /\ subPc[s] = "new"
    /\ topic' = [topic EXCEPT ![s] = t]
    /\ cap' = [cap EXCEPT ![s] = Capacity(buffer)]
    /\ chan' = [chan EXCEPT ![s] = "open"]
    /\ subPc' = [subPc EXCEPT ![s] = "active"]
    /\ UNCHANGED <<closed, published, dropped, log, read, pubVars, closeVars>>

Subscribe(s, w, buffer) ==
    /\ Open(s, w, buffer)
    /\ workflowSubs' = [workflowSubs EXCEPT ![w] = @ \cup {s}]
    /\ UNCHANGED allSubs

SubscribeAll(s, buffer) ==
    /\ Open(s, All, buffer)
    /\ allSubs' = allSubs \cup {s}
    /\ UNCHANGED workflowSubs

\* The subscriber takes the oldest buffered event; a closed channel still
\* gives out what it holds.
Receive(s) ==
    /\ subPc[s] = "active"
    /\ read[s] < Len(log[s])
    /\ read' = [read EXCEPT ![s] = @ + 1]
    /\ UNCHANGED <<brokerVars, topic, cap, chan, log, subPc, pubVars, closeVars>>

\* cancel, first half: unregister under the lock.  A subscription Close has
\* already dropped from the registry is simply not found.
CancelRemove(s) ==
    /\ subPc[s] = "active"
    /\ workflowSubs' = [w \in Workflows |-> IF topic[s] = w THEN workflowSubs[w] \ {s}
                                                            ELSE workflowSubs[w]]
    /\ allSubs' = IF topic[s] = All THEN allSubs \ {s} ELSE allSubs
    /\ subPc' = [subPc EXCEPT ![s] = "removed"]
    /\ UNCHANGED <<closed, published, dropped, topic, cap, chan, log, read,
                   pubVars, closeVars>>

\* cancel, second half: close(ch), which panics when ch is closed already.
CancelClose(s) ==
    /\ subPc[s] = "removed"
    /\ \/ /\ chan[s] = "open"
          /\ chan' = [chan EXCEPT ![s] = "cancelled"]
          /\ subPc' = [subPc EXCEPT ![s] = "done"]
       \/ /\ chan[s] # "open"
          /\ subPc' = [subPc EXCEPT ![s] = "panic"]
          /\ UNCHANGED chan
    /\ UNCHANGED <<brokerVars, topic, cap, log, read, pubVars, closeVars>>

-----------------------------------------------------------------------------
(* Closing *)

\* closed.CompareAndSwap(false, true): only the first caller goes on.
CloseSwap(c) ==
    /\ closePc[c] = "idle"
    /\ closePc' = [closePc EXCEPT ![c] = IF closed THEN "done" ELSE "won"]
    /\ closed' = TRUE
    /\ UNCHANGED <<workflowSubs, allSubs, published, dropped, subVars, pubVars, closing>>

Registered == (UNION {workflowSubs[w] : w \in Workflows}) \cup allSubs

\* Mutant: the registry is not reset.
CloseSnapshotKeepsRegistry(c) ==
    /\ closePc[c] = "won"
    /\ closing' = [closing EXCEPT ![c] = Registered]
    /\ closePc' = [closePc EXCEPT ![c] = "closing"]
    /\ UNCHANGED <<brokerVars, subVars, pubVars>>

\* Mutant: the subscriptions to all events are reset without being closed.
CloseSnapshotForgetsAll(c) ==
    /\ closePc[c] = "won"
    /\ closing' = [closing EXCEPT ![c] = UNION {workflowSubs[w] : w \in Workflows}]
    /\ workflowSubs' = [w \in Workflows |-> {}]
    /\ allSubs' = {}
    /\ closePc' = [closePc EXCEPT ![c] = "closing"]
    /\ UNCHANGED <<closed, published, dropped, subVars, pubVars>>

CloseSnapshot(c) ==
    /\ closePc[c] = "won"
    /\ closing' = [closing EXCEPT ![c] = Registered]
    /\ workflowSubs' = [w \in Workflows |-> {}]
    /\ allSubs' = {}
    /\ closePc' = [closePc EXCEPT ![c] = "closing"]
    /\ UNCHANGED <<closed, published, dropped, subVars, pubVars>>

\* Mutant: Close waits until the subscriber has read what is buffered.
SafeCloseDrained(c, s) ==
    /\ closePc[c] = "closing" /\ s \in closing[c]
    /\ read[s] = Len(log[s])
    /\ chan' = [chan EXCEPT ![s] = IF @ = "open" THEN "shut" ELSE @]
    /\ closing' = [closing EXCEPT ![c] = @ \ {s}]
    /\ UNCHANGED <<brokerVars, topic, cap, log, read, subPc, pubVars, closePc>>

\* safeClose: closing a closed channel is recovered from and changes nothing.
SafeClose(c, s) ==
    /\ closePc[c] = "closing" /\ s \in closing[c]
    /\ chan' = [chan EXCEPT ![s] = IF @ = "open" THEN "shut" ELSE @]
    /\ closing' = [closing EXCEPT ![c] = @ \ {s}]
    /\ UNCHANGED <<brokerVars, topic, cap, log, read, subPc, pubVars, closePc>>

CloseReturn(c) ==
    /\ closePc[c] = "closing" /\ closing[c] = {}
    /\ closePc' = [closePc EXCEPT ![c] = "done"]
    /\ UNCHANGED <<brokerVars, subVars, pubVars, closing>>

-----------------------------------------------------------------------------

\* What a publisher does once it is inside Publish.
PublishStep(p) ==
    \/ PublishCount(p)
    \/ PublishSnapshot(p)
    \/ \E s \in Subscribers : PublishSend(p, s) \/ PublishDrop(p, s) \/ PublishPanic(p, s)
    \/ PublishReturn(p)

SubscriberStart(s) ==
    \/ \E w \in Workflows, b \in BufferArgs : Subscribe(s, w, b)
    \/ \E b \in BufferArgs : SubscribeAll(s, b)

\* What a closer does once it has won the compare-and-swap.
CloseStep(c) ==
    \/ CloseSnapshot(c)
    \/ \E s \in Subscribers : SafeClose(c, s)
    \/ CloseReturn(c)

Next ==
    \/ \E p \in Publishers, own, bound \in EventId : PublishCheck(p, own, bound)
    \/ \E p \in Publishers : PublishStep(p)
    \/ \E s \in Subscribers : SubscriberStart(s) \/ Receive(s) \/ CancelRemove(s) \/ CancelClose(s)
    \/ \E c \in Closers : CloseSwap(c) \/ CloseStep(c)

Spec == Init /\ [][Next]_vars

\* A goroutine inside Publish, cancel or Close keeps running; nobody has to
\* publish, subscribe, read, cancel or close.
Fairness ==
    /\ \A p \in Publishers : WF_vars(PublishStep(p))
    /\ \A s \in Subscribers : WF_vars(CancelClose(s))
    /\ \A c \in Closers : WF_vars(CloseStep(c))

FairSpec == Spec /\ Fairness

-----------------------------------------------------------------------------
(* Properties *)

\* The registry and the channels agree: a registered subscription has an open
\* channel, has not begun to cancel and is filed under its own topic.  Cancel
\* and Close each unregister under the lock before they close (broker.go:129-141,
\* 187-203), so a snapshot taken at any time holds only open channels.
RegistryOpen ==
    /\ \A s \in Registered : chan[s] = "open" /\ subPc[s] = "active"
    /\ \A w \in Workflows : \A s \in workflowSubs[w] : topic[s] = w
    /\ \A s \in allSubs : topic[s] = All

\* No open channel is forgotten: it is still registered, or its own cancel or
\* the Close under way is about to close it (broker.go:44, 112-114).
NoOrphanChannel ==
    \A s \in Subscribers : chan[s] = "open" =>
        s \in Registered \/ subPc[s] = "removed" \/ \E c \in Closers : s \in closing[c]

\* The sends that were accepted, by channel and place, and those still to be made.
Accepted == UNION {{s} \X (1..Len(log[s])) : s \in Subscribers}
Pending == UNION {{p} \X targets[p] : p \in Publishers}

\* No event disappears silently: every send Publish took upon itself was
\* accepted by the channel, was counted in dropped, or is still to be made; the
\* sends a panic cut off are the only ones never accounted for
\* (broker.go:94-107, Stats at 214-218).
SendsAccountedFor == offered = Cardinality(Accepted) + dropped + Cardinality(Pending)

\* Publish never blocks (broker.go:29-30, 77): whatever the subscribers do, and
\* even if nobody ever reads, a call that started ends.
PublishReturns ==
    \A p \in Publishers :
        pubPc[p] \in {"checked", "counted", "sending"} ~> pubPc[p] \in {"idle", "panic"}

\* Close closes the channel of every subscription registered when it got past
\* the flag, without waiting for publishers or readers (broker.go:44, 184-203).
CloseReachesSubscribers ==
    \A c \in Closers, s \in Subscribers :
        closePc[c] = "won" /\ s \in Registered ~> chan[s] # "open"

Status(s) == IF chan[s] \in {"cancelled", "shut"} THEN "closed" ELSE chan[s]

\* MemoryBroker keeps the promise of PubSub (broker.go:26-46): delivery in the
\* order of each publisher, at most once, only of the topic, within the buffer
\* and never into a closed channel.
Mailboxes == INSTANCE PubSub WITH
    Capacities <- {Capacity(b) : b \in BufferArgs},
    status <- [s \in Subscribers |-> Status(s)]
DeliversAsPromised == Mailboxes!Spec

\* "closing a channel from outside the producer is fine because our Publish path is
\* guarded by the closed flag" (broker.go:200-201), and "Callers MUST call cancel
\* when done" (broker.go:112-114), which is what safeClose is for: "multiple shutdown
\* paths may close the same channel" (broker.go:206-208).  Each says that there is
\* one of two panics that no run has: of a Publish, on a channel Close has closed,
\* and of a cancel.
CloseIsFine ==
    \/ \A p \in Publishers : pubPc[p] # "panic" \/ \E s \in targets[p] : chan[s] = "cancelled"
    \/ \A s \in Subscribers : subPc[s] # "panic"

=============================================================================
