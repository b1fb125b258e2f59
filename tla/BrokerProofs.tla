---------------------------- MODULE BrokerProofs ----------------------------
(***************************************************************************)
(* Proofs about Broker, for any number of publishers, subscriptions,       *)
(* closers and events and for every buffer size.                           *)
(***************************************************************************)
EXTENDS Broker, FiniteSetTheorems, TLAPS

\* The number of subscriptions a snapshot holds is a natural number.
LEMMA CardinalityIsNat ==
    ASSUME NEW S \in SUBSET Subscribers
    PROVE  Cardinality(S) \in Nat
<1>1. IsFiniteSet(S)
  BY SubscribersAssumption, FS_Subset
<1> QED
  BY <1>1, FS_CardinalityType

\* A channel is made with a positive capacity whatever the argument is
\* (broker.go:116-118, 150-152).
LEMMA CapacityPositive ==
    ASSUME NEW buffer \in BufferArgs
    PROVE  Capacity(buffer) \in Nat \ {0}
BY BufferAssumption DEF Capacity

\* An event stays scoped to a workflow ID or to none (broker.go:243-255).
LEMMA StampType ==
    ASSUME NEW own \in EventId, NEW bound \in EventId
    PROVE  Stamp(own, bound) \in EventId
BY DEF Stamp

\* A snapshot is a set of subscriptions (broker.go:85-92).
LEMMA MatchingType ==
    ASSUME TypeOK, NEW p \in Publishers
    PROVE  Matching(event[p]) \in SUBSET Subscribers
BY DEF TypeOK, Matching, Event

-----------------------------------------------------------------------------
(* Types *)

\* Every field of the broker, channel and goroutine position keeps its type
\* through every step of Publish, Subscribe, cancel and Close.
THEOREM TypeCorrect == Spec => []TypeOK
<1>1. Init => TypeOK
  <2> SUFFICES ASSUME Init PROVE TypeOK
    OBVIOUS
  <2>1. emitted \in 0..MaxEvents /\ event \in [Publishers -> Event]
    BY MaxEventsAssumption DEF Init, Event, EventId
  <2>2. log \in [Subscribers -> Seq(Event)]
    BY DEF Init
  <2> QED
    BY <2>1, <2>2 DEF Init, TypeOK, Topic
<1>2. TypeOK /\ [Next]_vars => TypeOK'
  <2> SUFFICES ASSUME TypeOK, [Next]_vars PROVE TypeOK'
    OBVIOUS
  <2> USE DEF TypeOK
  <2>1. ASSUME NEW p \in Publishers, NEW own \in EventId, NEW bound \in EventId,
               PublishCheck(p, own, bound)
        PROVE  TypeOK'
    <3>1. [pub |-> p, seq |-> emitted + 1, wid |-> Stamp(own, bound)] \in Event
      BY <2>1, StampType, MaxEventsAssumption DEF PublishCheck, Event
    <3> QED
      BY <2>1, <3>1, MaxEventsAssumption DEF PublishCheck, brokerVars, subVars, closeVars
  <2>2. ASSUME NEW p \in Publishers, PublishCount(p) PROVE TypeOK'
    BY <2>2 DEF PublishCount, subVars, closeVars
  <2>3. ASSUME NEW p \in Publishers, PublishSnapshot(p) PROVE TypeOK'
    <3>1. Matching(event[p]) \in SUBSET Subscribers
      BY MatchingType
    <3>2. Cardinality(Matching(event[p])) \in Nat
      BY <3>1, CardinalityIsNat
    <3> QED
      BY <2>3, <3>1, <3>2 DEF PublishSnapshot, brokerVars, subVars, closeVars
  <2>4. ASSUME NEW p \in Publishers, NEW s \in Subscribers, PublishSend(p, s) PROVE TypeOK'
    <3>1. Append(log[s], event[p]) \in Seq(Event)
      OBVIOUS
    <3> QED
      BY <2>4, <3>1 DEF PublishSend, brokerVars, closeVars
  <2>5. ASSUME NEW p \in Publishers, NEW s \in Subscribers, PublishDrop(p, s) PROVE TypeOK'
    BY <2>5 DEF PublishDrop, subVars, closeVars
  <2>6. ASSUME NEW p \in Publishers, NEW s \in Subscribers, PublishPanic(p, s) PROVE TypeOK'
    BY <2>6 DEF PublishPanic, brokerVars, subVars, closeVars
  <2>7. ASSUME NEW p \in Publishers, PublishReturn(p) PROVE TypeOK'
    BY <2>7 DEF PublishReturn, brokerVars, subVars, closeVars
  <2>8. ASSUME NEW s \in Subscribers, NEW w \in Workflows, NEW b \in BufferArgs,
               Subscribe(s, w, b)
        PROVE  TypeOK'
    BY <2>8, CapacityPositive DEF Subscribe, Open, Topic, pubVars, closeVars
  <2>9. ASSUME NEW s \in Subscribers, NEW b \in BufferArgs, SubscribeAll(s, b) PROVE TypeOK'
    BY <2>9, CapacityPositive DEF SubscribeAll, Open, Topic, pubVars, closeVars
  <2>10. ASSUME NEW s \in Subscribers, Receive(s) PROVE TypeOK'
    BY <2>10 DEF Receive, brokerVars, pubVars, closeVars
  <2>11. ASSUME NEW s \in Subscribers, CancelRemove(s) PROVE TypeOK'
    BY <2>11 DEF CancelRemove, pubVars, closeVars
  <2>12. ASSUME NEW s \in Subscribers, CancelClose(s) PROVE TypeOK'
    <3>1. chan' \in [Subscribers -> {"nil", "open", "cancelled", "shut"}]
      BY <2>12, ZenonT(60) DEF CancelClose
    <3>2. subPc' \in [Subscribers -> {"new", "active", "removed", "done", "panic"}]
      BY <2>12, ZenonT(60) DEF CancelClose
    <3> QED
      BY <2>12, <3>1, <3>2 DEF CancelClose, brokerVars, pubVars, closeVars
  <2>13. ASSUME NEW c \in Closers, CloseSwap(c) PROVE TypeOK'
    BY <2>13 DEF CloseSwap, subVars, pubVars
  <2>14. ASSUME NEW c \in Closers, CloseSnapshot(c) PROVE TypeOK'
    <3>1. Registered \in SUBSET Subscribers
      BY DEF Registered
    <3> QED
      BY <2>14, <3>1 DEF CloseSnapshot, subVars, pubVars
  <2>15. ASSUME NEW c \in Closers, NEW s \in Subscribers, SafeClose(c, s) PROVE TypeOK'
    BY <2>15 DEF SafeClose, brokerVars, pubVars
  <2>16. ASSUME NEW c \in Closers, CloseReturn(c) PROVE TypeOK'
    BY <2>16 DEF CloseReturn, brokerVars, subVars, pubVars
  <2>17. CASE UNCHANGED vars
    BY <2>17 DEF vars, brokerVars, subVars, pubVars, closeVars
  <2> QED
    BY <2>1, <2>2, <2>3, <2>4, <2>5, <2>6, <2>7, <2>8, <2>9, <2>10, <2>11, <2>12,
       <2>13, <2>14, <2>15, <2>16, <2>17
       DEF Next, PublishStep, SubscriberStart, CloseStep
<1> QED
  BY <1>1, <1>2, PTL DEF Spec

-----------------------------------------------------------------------------
(* The registry and the channels *)

\* A subscription has a channel exactly from when it is made.
MadeOnce == \A s \in Subscribers : subPc[s] = "new" <=> chan[s] = "nil"

\* What Close is closing it has taken out of the registry, and it takes its
\* snapshot once.
ClosingUnregistered ==
    /\ \A c \in Closers : \A s \in closing[c] : s \notin Registered /\ chan[s] # "nil"
    /\ \A c \in Closers : closePc[c] \in {"idle", "won"} => closing[c] = {}

RegistryInv == RegistryOpen /\ NoOrphanChannel /\ MadeOnce /\ ClosingUnregistered

\* The steps of Publish and of reading touch neither the registry nor a channel.
LEMMA RegistryUntouched ==
    ASSUME RegistryInv,
           UNCHANGED <<workflowSubs, allSubs, topic, chan, subPc, closing, closePc>>
    PROVE  RegistryInv'
BY DEF RegistryInv, RegistryOpen, NoOrphanChannel, MadeOnce, ClosingUnregistered, Registered

\* A new subscription is registered with its channel open, in one critical
\* section (broker.go:119-124, 153-158).
LEMMA RegistryOpened ==
    ASSUME TypeOK, RegistryInv, NEW s \in Subscribers, NEW t \in Topic, NEW b \in BufferArgs,
           Open(s, t, b),
           \/ t \in Workflows /\ workflowSubs' = [workflowSubs EXCEPT ![t] = @ \cup {s}]
                              /\ UNCHANGED allSubs
           \/ t = All /\ allSubs' = allSubs \cup {s} /\ UNCHANGED workflowSubs
    PROVE  RegistryInv'
<1> USE DEF TypeOK, RegistryInv, Open, Topic, closeVars
<1>1. chan[s] = "nil" /\ s \notin Registered
  BY DEF MadeOnce, RegistryOpen
<1>2. Registered' = Registered \cup {s}
  <2>1. CASE t \in Workflows /\ workflowSubs' = [workflowSubs EXCEPT ![t] = @ \cup {s}]
                            /\ UNCHANGED allSubs
    <3>1. \A w \in Workflows :
            workflowSubs'[w] = IF w = t THEN workflowSubs[w] \cup {s} ELSE workflowSubs[w]
      BY <2>1
    <3>2. \A x : x \in Registered' <=> x \in Registered \cup {s}
      BY <2>1, <3>1 DEF Registered
    <3> QED
      BY <3>2
  <2>2. CASE t = All /\ allSubs' = allSubs \cup {s} /\ UNCHANGED workflowSubs
    BY <2>2 DEF Registered
  <2> QED
    BY <2>1, <2>2
<1>3. RegistryOpen'
  <2>1. \A x \in Registered' : chan'[x] = "open" /\ subPc'[x] = "active"
    BY <1>1, <1>2 DEF RegistryOpen
  <2>2. /\ topic'[s] = t
        /\ \A x \in Registered : topic'[x] = topic[x]
    BY <1>1 DEF Registered
  <2>3. \A w \in Workflows : \A x \in workflowSubs'[w] : topic'[x] = w
    <3> SUFFICES ASSUME NEW w \in Workflows, NEW x \in workflowSubs'[w] PROVE topic'[x] = w
      OBVIOUS
    <3>1. x \in workflowSubs[w] \/ (x = s /\ t = w)
      OBVIOUS
    <3>2. x \in workflowSubs[w] => x \in Registered /\ topic[x] = w
      BY DEF RegistryOpen, Registered
    <3> QED
      BY <2>2, <3>1, <3>2
  <2>4. \A x \in allSubs' : topic'[x] = All
    <3>1. \A x \in allSubs : x \in Registered /\ topic[x] = All
      BY DEF RegistryOpen, Registered
    <3> QED
      BY <2>2, <3>1
  <2> QED
    BY <2>1, <2>3, <2>4 DEF RegistryOpen
<1>4. NoOrphanChannel'
  BY <1>1, <1>2 DEF NoOrphanChannel
<1>5. MadeOnce'
  BY DEF MadeOnce
<1>6. ClosingUnregistered'
  BY <1>1, <1>2 DEF ClosingUnregistered
<1> QED
  BY <1>3, <1>4, <1>5, <1>6

\* The registry invariant is inductive: cancel and Close unregister before they
\* close (broker.go:129-141, 187-203).
LEMMA RegistryStep ==
    ASSUME TypeOK, RegistryInv, [Next]_vars
    PROVE  RegistryInv'
<1> USE DEF TypeOK
<1>1. ASSUME NEW p \in Publishers, NEW own \in EventId, NEW bound \in EventId,
             PublishCheck(p, own, bound)
      PROVE  RegistryInv'
  BY <1>1, RegistryUntouched DEF PublishCheck, brokerVars, subVars, closeVars
<1>2. ASSUME NEW p \in Publishers, PublishStep(p) PROVE RegistryInv'
  BY <1>2, RegistryUntouched
     DEF PublishStep, PublishCount, PublishSnapshot, PublishSend, PublishDrop, PublishPanic,
         PublishReturn, brokerVars, subVars, closeVars
<1>3. ASSUME NEW s \in Subscribers, SubscriberStart(s) PROVE RegistryInv'
  BY <1>3, RegistryOpened DEF SubscriberStart, Subscribe, SubscribeAll, Topic
<1>4. ASSUME NEW s \in Subscribers, Receive(s) PROVE RegistryInv'
  BY <1>4, RegistryUntouched DEF Receive, brokerVars, closeVars
<1>5. ASSUME NEW s \in Subscribers, CancelRemove(s) PROVE RegistryInv'
  <2> USE <1>5 DEF RegistryInv, CancelRemove, closeVars
  <2>1. \A x : x \in Registered' <=> x \in Registered /\ x # s
    <3>1. ASSUME NEW w \in Workflows PROVE workflowSubs'[w] = workflowSubs[w] \ {s}
      <4>1. CASE topic[s] = w
        BY <4>1
      <4>2. CASE topic[s] # w
        BY <4>2 DEF RegistryOpen
      <4> QED
        BY <4>1, <4>2
    <3>2. allSubs' = allSubs \ {s}
      BY DEF RegistryOpen
    <3> QED
      BY <3>1, <3>2 DEF Registered
  <2>2. RegistryOpen'
    BY <2>1 DEF RegistryOpen
  <2>3. NoOrphanChannel'
    BY <2>1 DEF NoOrphanChannel
  <2>4. MadeOnce'
    BY DEF MadeOnce
  <2>5. ClosingUnregistered'
    BY <2>1 DEF ClosingUnregistered
  <2> QED
    BY <2>2, <2>3, <2>4, <2>5
<1>6. ASSUME NEW s \in Subscribers, CancelClose(s) PROVE RegistryInv'
  <2> USE <1>6 DEF RegistryInv, CancelClose, brokerVars, closeVars
  <2>1. Registered' = Registered /\ s \notin Registered
    <3>1. Registered' = Registered
      BY DEF Registered
    <3>2. s \notin Registered
      <4>1. subPc[s] # "active"
        OBVIOUS
      <4> QED
        BY ONLY RegistryInv, <4>1 DEF RegistryInv, RegistryOpen
    <3> QED
      BY ONLY <3>1, <3>2
  <2>2. RegistryOpen'
    <3>1. UNCHANGED <<workflowSubs, allSubs, topic>>
      OBVIOUS
    <3>2. \A x \in Registered : chan'[x] = chan[x] /\ subPc'[x] = subPc[x]
      <4>1. Registered \subseteq Subscribers
        BY DEF Registered
      <4> QED
        BY <2>1, <4>1
    <3> QED
      BY ONLY RegistryInv, <2>1, <3>1, <3>2 DEF RegistryInv, RegistryOpen
  <2>3. NoOrphanChannel'
    BY <2>1, ZenonT(60) DEF NoOrphanChannel
  <2>4. MadeOnce'
    BY ZenonT(60) DEF MadeOnce
  <2>5. ClosingUnregistered'
    BY <2>1 DEF ClosingUnregistered
  <2> QED
    BY <2>2, <2>3, <2>4, <2>5
<1>7. ASSUME NEW c \in Closers, CloseSwap(c) PROVE RegistryInv'
  <2>1. Registered' = Registered
    BY <1>7 DEF CloseSwap, Registered
  <2> QED
    BY <1>7, <2>1
       DEF RegistryInv, CloseSwap, subVars, RegistryOpen, NoOrphanChannel, MadeOnce,
           ClosingUnregistered
<1>8. ASSUME NEW c \in Closers, CloseSnapshot(c) PROVE RegistryInv'
  <2> USE <1>8 DEF RegistryInv, CloseSnapshot, subVars
  <2>1. Registered' = {} /\ closing[c] = {} /\ closing'[c] = Registered
    BY DEF Registered, ClosingUnregistered
  <2>2. RegistryOpen'
    BY <2>1 DEF RegistryOpen
  <2>3. NoOrphanChannel'
    BY <2>1 DEF NoOrphanChannel
  <2>4. MadeOnce'
    BY DEF MadeOnce
  <2>5. ClosingUnregistered'
    BY <2>1 DEF ClosingUnregistered, RegistryOpen
  <2> QED
    BY <2>2, <2>3, <2>4, <2>5
<1>9. ASSUME NEW c \in Closers, NEW s \in Subscribers, SafeClose(c, s) PROVE RegistryInv'
  <2> USE <1>9 DEF RegistryInv, SafeClose, brokerVars
  <2>1. Registered' = Registered /\ s \notin Registered /\ chan[s] # "nil"
    BY DEF Registered, ClosingUnregistered
  <2>2. RegistryOpen'
    BY <2>1 DEF RegistryOpen
  <2>3. NoOrphanChannel'
    BY <2>1 DEF NoOrphanChannel
  <2>4. MadeOnce'
    BY <2>1 DEF MadeOnce
  <2>5. ClosingUnregistered'
    BY <2>1 DEF ClosingUnregistered
  <2> QED
    BY <2>2, <2>3, <2>4, <2>5
<1>10. ASSUME NEW c \in Closers, CloseReturn(c) PROVE RegistryInv'
  <2>1. Registered' = Registered
    BY <1>10 DEF CloseReturn, brokerVars, Registered
  <2> QED
    BY <1>10, <2>1
       DEF RegistryInv, CloseReturn, brokerVars, subVars, RegistryOpen, NoOrphanChannel,
           MadeOnce, ClosingUnregistered
<1>11. CASE UNCHANGED vars
  BY <1>11, RegistryUntouched DEF vars, brokerVars, subVars, closeVars
<1> QED
  BY <1>1, <1>2, <1>3, <1>4, <1>5, <1>6, <1>7, <1>8, <1>9, <1>10, <1>11 DEF Next, CloseStep

\* Whatever the interleaving of Publish, Subscribe, cancel and Close: a
\* registered channel is open and filed under its topic, and an open channel is
\* registered or about to be closed.
THEOREM RegistryCorrect == Spec => []RegistryInv
<1>1. Init => RegistryInv
  BY DEF Init, RegistryInv, RegistryOpen, NoOrphanChannel, MadeOnce, ClosingUnregistered, Registered
<1> QED
  BY <1>1, TypeCorrect, RegistryStep, PTL DEF Spec

\* The registry never holds a closed channel (property of the broker run).
COROLLARY RegistryOpenHolds == Spec => []RegistryOpen
BY RegistryCorrect, PTL DEF RegistryInv

\* No open channel is forgotten (property of the broker run).
COROLLARY NoOrphanChannelHolds == Spec => []NoOrphanChannel
BY RegistryCorrect, PTL DEF RegistryInv

-----------------------------------------------------------------------------
(* Delivery: MemoryBroker implements PubSub *)

\* A publisher's event is its own, and numbers are given out once.
EventNumbers == \A p \in Publishers : event[p].pub = p /\ event[p].seq <= emitted

\* A snapshot is sent to only while the call that took it runs, and holds
\* subscriptions to the event's topic.
TargetsMatch ==
    \A p \in Publishers : \A s \in targets[p] :
        /\ pubPc[p] \in {"sending", "panic"}
        /\ chan[s] # "nil"
        /\ Mailboxes!InTopic(event[p], topic[s])

\* Nothing a channel holds is newer than what its publisher is sending, and
\* everything is older while that event still has to be sent to this channel.
LogsBehind ==
    \A s \in Subscribers : \A i \in DOMAIN log[s] : \A p \in Publishers :
        log[s][i].pub = p =>
            /\ log[s][i].seq <= event[p].seq
            /\ (s \in targets[p] \/ pubPc[p] \in {"checked", "counted"})
                   => log[s][i].seq < event[p].seq

DeliveryInv == EventNumbers /\ TargetsMatch /\ LogsBehind

\* Steps that leave what is being published and accepted alone; a topic only
\* changes where there is no channel yet.
LEMMA DeliveryUntouched ==
    ASSUME TypeOK, DeliveryInv, UNCHANGED <<pubPc, event, targets, emitted, log>>,
           \A s \in Subscribers :
               chan[s] # "nil" => chan'[s] # "nil" /\ topic'[s] = topic[s]
    PROVE  DeliveryInv'
<1>1. EventNumbers' /\ LogsBehind'
  BY DEF DeliveryInv, EventNumbers, LogsBehind
<1>2. TargetsMatch'
  <2> SUFFICES ASSUME NEW p \in Publishers, NEW s \in targets[p]
               PROVE  /\ pubPc[p] \in {"sending", "panic"}
                      /\ chan'[s] # "nil"
                      /\ Mailboxes!InTopic(event[p], topic'[s])
    BY DEF TargetsMatch, Mailboxes!InTopic
  <2>1. s \in Subscribers
    BY DEF TypeOK
  <2> QED
    BY <2>1 DEF DeliveryInv, TargetsMatch
<1> QED
  BY <1>1, <1>2 DEF DeliveryInv

\* What a channel holds are events, with a number.
LEMMA EventsInLog ==
    ASSUME TypeOK, NEW s \in Subscribers, NEW i \in DOMAIN log[s]
    PROVE  log[s][i] \in Event /\ log[s][i].seq \in Int
<1>1. log[s] \in Seq(Event)
  BY DEF TypeOK
<1>2. log[s][i] \in Event
  BY ONLY <1>1, i \in DOMAIN log[s]
<1>3. \A e \in Event : e.seq \in Int
  BY MaxEventsAssumption DEF Event
<1> QED
  BY <1>2, <1>3

\* A snapshot only holds subscriptions to the event's topic (broker.go:85-92).
LEMMA SnapshotMatches ==
    ASSUME TypeOK, RegistryInv, NEW p \in Publishers, NEW s \in Matching(event[p])
    PROVE  s \in Subscribers /\ chan[s] = "open" /\ Mailboxes!InTopic(event[p], topic[s])
<1>1. s \in Registered
  BY DEF Matching, Registered
<1>2. topic[s] = All \/ topic[s] = event[p].wid
  BY DEF Matching, RegistryInv, RegistryOpen
<1>3. s \in Subscribers
  BY MatchingType
<1>4. chan[s] = "open"
  BY <1>1 DEF RegistryInv, RegistryOpen
<1> QED
  BY <1>2, <1>3, <1>4 DEF Mailboxes!InTopic

\* The delivery invariant is inductive, given the registry's.
LEMMA DeliveryStep ==
    ASSUME TypeOK, TypeOK', RegistryInv, DeliveryInv, [Next]_vars
    PROVE  DeliveryInv'
<1> USE DEF TypeOK
<1>1. ASSUME NEW p \in Publishers, NEW own \in EventId, NEW bound \in EventId,
             PublishCheck(p, own, bound)
      PROVE  DeliveryInv'
  <2> USE <1>1 DEF PublishCheck, subVars
  <2>1. targets[p] = {}
    BY DEF DeliveryInv, TargetsMatch
  <2>2. /\ event'[p].pub = p /\ event'[p].seq = emitted + 1
        /\ \A q \in Publishers : q # p => event'[q] = event[q] /\ pubPc'[q] = pubPc[q]
    OBVIOUS
  <2>3. event[p].seq \in Int /\ emitted \in Int
    BY MaxEventsAssumption DEF Event
  <2>4. EventNumbers'
    <3> SUFFICES ASSUME NEW q \in Publishers
                 PROVE  event'[q].pub = q /\ event'[q].seq <= emitted + 1
      BY DEF EventNumbers
    <3>1. event[q].seq \in Int /\ event[q].pub = q /\ event[q].seq <= emitted
      BY MaxEventsAssumption DEF DeliveryInv, EventNumbers, Event
    <3> QED
      BY <2>2, <2>3, <3>1
  <2>5. TargetsMatch'
    BY <2>1, <2>2 DEF DeliveryInv, TargetsMatch, Mailboxes!InTopic
  <2>6. LogsBehind'
    <3> SUFFICES ASSUME NEW s \in Subscribers, NEW i \in DOMAIN log[s], NEW q \in Publishers,
                        log[s][i].pub = q
                 PROVE  /\ log[s][i].seq <= event'[q].seq
                        /\ (s \in targets[q] \/ pubPc'[q] \in {"checked", "counted"})
                               => log[s][i].seq < event'[q].seq
      BY DEF LogsBehind
    <3>1. log[s][i].seq \in Int
      BY EventsInLog
    <3>2. CASE q = p
      <4>1. log[s][i].seq <= event[p].seq /\ event[p].seq <= emitted
        BY <3>2 DEF DeliveryInv, LogsBehind, EventNumbers
      <4> QED
        BY ONLY <3>1, <3>2, <4>1, <2>2, <2>3
    <3>3. CASE q # p
      BY <3>3, <2>2 DEF DeliveryInv, LogsBehind
    <3> QED
      BY <3>2, <3>3
  <2> QED
    BY <2>4, <2>5, <2>6 DEF DeliveryInv
<1>2. ASSUME NEW p \in Publishers, PublishCount(p) PROVE DeliveryInv'
  <2> USE <1>2 DEF PublishCount, subVars
  <2>1. \A q \in Publishers : pubPc'[q] = pubPc[q] \/ (pubPc[q] = "checked" /\ pubPc'[q] = "counted")
    OBVIOUS
  <2> QED
    BY <2>1 DEF DeliveryInv, EventNumbers, TargetsMatch, LogsBehind, Mailboxes!InTopic
<1>3. ASSUME NEW p \in Publishers, PublishSnapshot(p) PROVE DeliveryInv'
  <2> USE <1>3 DEF PublishSnapshot, subVars
  <2>1. /\ targets'[p] = Matching(event[p]) /\ pubPc'[p] = "sending"
        /\ \A q \in Publishers : q # p => targets'[q] = targets[q] /\ pubPc'[q] = pubPc[q]
    OBVIOUS
  <2>2. EventNumbers'
    BY DEF DeliveryInv, EventNumbers
  <2>3. TargetsMatch'
    <3> SUFFICES ASSUME NEW q \in Publishers, NEW s \in targets'[q]
                 PROVE  /\ pubPc'[q] \in {"sending", "panic"}
                        /\ chan[s] # "nil"
                        /\ Mailboxes!InTopic(event[q], topic[s])
      BY DEF TargetsMatch, Mailboxes!InTopic
    <3>1. CASE q = p
      BY <3>1, <2>1, SnapshotMatches
    <3>2. CASE q # p
      BY <3>2, <2>1 DEF DeliveryInv, TargetsMatch
    <3> QED
      BY <3>1, <3>2
  <2>4. LogsBehind'
    <3> SUFFICES ASSUME NEW s \in Subscribers, NEW i \in DOMAIN log[s], NEW q \in Publishers,
                        log[s][i].pub = q
                 PROVE  /\ log[s][i].seq <= event[q].seq
                        /\ (s \in targets'[q] \/ pubPc'[q] \in {"checked", "counted"})
                               => log[s][i].seq < event[q].seq
      BY DEF LogsBehind
    <3>1. CASE q = p
      BY <3>1 DEF DeliveryInv, LogsBehind
    <3>2. CASE q # p
      BY <3>2, <2>1 DEF DeliveryInv, LogsBehind
    <3> QED
      BY <3>1, <3>2
  <2> QED
    BY <2>2, <2>3, <2>4 DEF DeliveryInv
<1>4. ASSUME NEW p \in Publishers, NEW s \in Subscribers, PublishSend(p, s) PROVE DeliveryInv'
  <2> USE <1>4 DEF PublishSend
  <2>1. /\ targets'[p] = targets[p] \ {s}
        /\ \A q \in Publishers : q # p => targets'[q] = targets[q]
    OBVIOUS
  <2>2. /\ log'[s] = Append(log[s], event[p])
        /\ \A x \in Subscribers : x # s => log'[x] = log[x]
    OBVIOUS
  <2>3. EventNumbers'
    BY DEF DeliveryInv, EventNumbers
  <2>4. TargetsMatch'
    BY <2>1 DEF DeliveryInv, TargetsMatch, Mailboxes!InTopic
  <2>5. LogsBehind'
    <3> SUFFICES ASSUME NEW x \in Subscribers, NEW i \in DOMAIN log'[x], NEW q \in Publishers,
                        log'[x][i].pub = q
                 PROVE  /\ log'[x][i].seq <= event[q].seq
                        /\ (x \in targets'[q] \/ pubPc[q] \in {"checked", "counted"})
                               => log'[x][i].seq < event[q].seq
      BY DEF LogsBehind
    <3>1. CASE x = s /\ i = Len(log[s]) + 1
      <4>1. log'[x][i] = event[p]
        <5>1. log[s] \in Seq(Event) /\ event[p] \in Event
          OBVIOUS
        <5> QED
          BY ONLY <3>1, <2>2, <5>1
      <4>2. q = p
        BY <4>1 DEF DeliveryInv, EventNumbers
      <4>3. event[p].seq \in Int /\ pubPc[p] = "sending"
        BY MaxEventsAssumption DEF Event
      <4> QED
        BY <3>1, <4>1, <4>2, <4>3, <2>1
    <3>2. CASE ~(x = s /\ i = Len(log[s]) + 1)
      <4>1. i \in DOMAIN log[x] /\ log'[x][i] = log[x][i]
        BY <3>2, <2>2
      <4> QED
        BY <4>1, <2>1 DEF DeliveryInv, LogsBehind
    <3> QED
      BY <3>1, <3>2
  <2> QED
    BY <2>3, <2>4, <2>5 DEF DeliveryInv
<1>5. ASSUME NEW p \in Publishers, NEW s \in Subscribers, PublishDrop(p, s) PROVE DeliveryInv'
  <2> USE <1>5 DEF PublishDrop, subVars
  <2>1. \A q \in Publishers : targets'[q] \subseteq targets[q]
    OBVIOUS
  <2> QED
    BY <2>1 DEF DeliveryInv, EventNumbers, TargetsMatch, LogsBehind, Mailboxes!InTopic
<1>6. ASSUME NEW p \in Publishers, NEW s \in Subscribers, PublishPanic(p, s) PROVE DeliveryInv'
  <2> USE <1>6 DEF PublishPanic, subVars
  <2>1. \A q \in Publishers : pubPc'[q] = pubPc[q] \/ pubPc'[q] = "panic"
    OBVIOUS
  <2> QED
    BY <2>1 DEF DeliveryInv, EventNumbers, TargetsMatch, LogsBehind, Mailboxes!InTopic
<1>7. ASSUME NEW p \in Publishers, PublishReturn(p) PROVE DeliveryInv'
  <2> USE <1>7 DEF PublishReturn, subVars
  <2>1. targets[p] = {} /\ pubPc'[p] = "idle" /\ \A q \in Publishers : q # p => pubPc'[q] = pubPc[q]
    OBVIOUS
  <2> QED
    BY <2>1 DEF DeliveryInv, EventNumbers, TargetsMatch, LogsBehind, Mailboxes!InTopic
<1>8. ASSUME NEW s \in Subscribers, SubscriberStart(s) PROVE DeliveryInv'
  <2>1. PICK t, b : Open(s, t, b)
    BY <1>8 DEF SubscriberStart, Subscribe, SubscribeAll
  <2>2. \A x \in Subscribers :
          chan[x] # "nil" => chan'[x] # "nil" /\ topic'[x] = topic[x]
    <3>1. chan[s] = "nil"
      BY <2>1 DEF Open, RegistryInv, MadeOnce
    <3> QED
      BY <2>1, <3>1 DEF Open
  <2>3. UNCHANGED <<pubPc, event, targets, emitted, log>>
    BY <2>1 DEF Open, pubVars
  <2> QED
    BY <2>2, <2>3, DeliveryUntouched
<1>9. ASSUME NEW s \in Subscribers, Receive(s) \/ CancelRemove(s) \/ CancelClose(s)
      PROVE  DeliveryInv'
  BY <1>9, DeliveryUntouched, SMTT(30) DEF Receive, CancelRemove, CancelClose, pubVars
<1>10. ASSUME NEW c \in Closers, CloseSwap(c) \/ CloseStep(c) PROVE DeliveryInv'
  BY <1>10, DeliveryUntouched
     DEF CloseSwap, CloseStep, CloseSnapshot, SafeClose, CloseReturn, pubVars, subVars
<1>11. CASE UNCHANGED vars
  BY <1>11, DeliveryUntouched DEF vars, pubVars, subVars
<1> QED
  BY <1>1, <1>2, <1>3, <1>4, <1>5, <1>6, <1>7, <1>8, <1>9, <1>10, <1>11 DEF Next, PublishStep

\* The delivery invariant holds in every reachable state.
THEOREM DeliveryCorrect == Spec => []DeliveryInv
<1>1. Init => DeliveryInv
  BY MaxEventsAssumption DEF Init, DeliveryInv, EventNumbers, TargetsMatch, LogsBehind
<1> QED
  BY <1>1, TypeCorrect, RegistryCorrect, DeliveryStep, PTL DEF Spec

-----------------------------------------------------------------------------
(* Every send is accounted for *)

\* What is accepted and pending is finite, however many publishers there may be.
SendsInv ==
    /\ IsFiniteSet(Accepted) /\ IsFiniteSet(Pending)
    /\ SendsAccountedFor

\* A snapshot is pending as it is.
LEMMA ColumnCounts ==
    ASSUME NEW p, NEW S, IsFiniteSet(S)
    PROVE  IsFiniteSet({p} \X S) /\ Cardinality({p} \X S) = Cardinality(S)
<1>1. IsFiniteSet({p}) /\ Cardinality({p}) = 1
  BY FS_Singleton
<1>2. /\ IsFiniteSet({p} \X S)
      /\ Cardinality({p} \X S) = Cardinality({p}) * Cardinality(S)
  BY <1>1, FS_Product
<1>3. Cardinality(S) \in Nat
  BY FS_CardinalityType
<1> QED
  BY <1>1, <1>2, <1>3

\* Of what changes, the counts are a natural number.
LEMMA SendsCounted ==
    ASSUME TypeOK, SendsInv
    PROVE  /\ Cardinality(Accepted) \in Nat /\ Cardinality(Pending) \in Nat
           /\ dropped \in Nat /\ offered \in Nat
BY FS_CardinalityType DEF SendsInv, TypeOK

\* A send that is made or dropped is no longer pending.
LEMMA LeavesPending ==
    ASSUME TypeOK, SendsInv, NEW p \in Publishers, NEW s \in targets[p],
           targets' = [targets EXCEPT ![p] = @ \ {s}]
    PROVE  IsFiniteSet(Pending') /\ Cardinality(Pending') = Cardinality(Pending) - 1
<1>1. Pending' = Pending \ {<<p, s>>}
  BY DEF Pending, TypeOK
<1>2. <<p, s>> \in Pending
  BY DEF Pending
<1> QED
  BY <1>1, <1>2, FS_RemoveElement DEF SendsInv

LEMMA SendsUntouched ==
    ASSUME SendsInv, UNCHANGED <<log, targets, dropped, offered>>
    PROVE  SendsInv'
BY DEF SendsInv, SendsAccountedFor, Accepted, Pending

LEMMA SendsStep ==
    ASSUME TypeOK, DeliveryInv, SendsInv, [Next]_vars
    PROVE  SendsInv'
<1>1. ASSUME NEW p \in Publishers, PublishSnapshot(p) PROVE SendsInv'
  <2> DEFINE M == Matching(event[p])
  <2>1. /\ targets' = [targets EXCEPT ![p] = M] /\ offered' = offered + Cardinality(M)
        /\ UNCHANGED <<log, dropped>>
    BY <1>1 DEF PublishSnapshot, brokerVars, subVars
  <2>2. M \in SUBSET Subscribers
    BY MatchingType
  <2>3. IsFiniteSet(M) /\ Cardinality(M) \in Nat
    BY <2>2, SubscribersAssumption, FS_Subset, CardinalityIsNat
  <2> HIDE DEF M
  <2>4. targets[p] = {}
    BY <1>1 DEF PublishSnapshot, DeliveryInv, TargetsMatch
  <2>5. Pending' = Pending \cup ({p} \X M) /\ Pending \cap ({p} \X M) = {}
    BY <2>1, <2>4 DEF Pending, TypeOK
  <2>6. IsFiniteSet({p} \X M) /\ Cardinality({p} \X M) = Cardinality(M)
    BY <2>3, ColumnCounts
  <2>7. /\ IsFiniteSet(Pending')
        /\ Cardinality(Pending') = Cardinality(Pending) + Cardinality(M) - Cardinality({})
    BY <2>5, <2>6, FS_Union DEF SendsInv
  <2>8. Accepted' = Accepted
    BY <2>1 DEF Accepted
  <2> QED
    BY <2>1, <2>3, <2>7, <2>8, SendsCounted, FS_EmptySet DEF SendsInv, SendsAccountedFor
<1>2. ASSUME NEW p \in Publishers, NEW s \in Subscribers, PublishSend(p, s) PROVE SendsInv'
  <2>1. /\ s \in targets[p] /\ targets' = [targets EXCEPT ![p] = @ \ {s}]
        /\ log' = [log EXCEPT ![s] = Append(@, event[p])]
        /\ UNCHANGED <<dropped, offered>>
    BY <1>2 DEF PublishSend, brokerVars
  <2>2. IsFiniteSet(Pending') /\ Cardinality(Pending') = Cardinality(Pending) - 1
    BY <2>1, LeavesPending
  <2> DEFINE n == Len(log[s])
  <2>3. n \in Nat /\ Len(log'[s]) = n + 1
    <3>1. log[s] \in Seq(Event) /\ event[p] \in Event /\ log'[s] = Append(log[s], event[p])
      BY <2>1 DEF TypeOK
    <3> QED
      BY ONLY <3>1
  <2>4. \A x \in Subscribers : x # s => log'[x] = log[x]
    BY <2>1 DEF TypeOK
  <2>5. 1..(n + 1) = (1..n) \cup {n + 1} /\ n + 1 \notin 1..n
    <3> HIDE DEF n
    <3> QED
      BY <2>3
  <2>6. Accepted' = Accepted \cup {<<s, n + 1>>} /\ <<s, n + 1>> \notin Accepted
    BY <2>3, <2>4, <2>5 DEF Accepted
  <2>7. IsFiniteSet(Accepted') /\ Cardinality(Accepted') = Cardinality(Accepted) + 1
    BY <2>6, FS_AddElement DEF SendsInv
  <2> QED
    BY <2>1, <2>2, <2>7, SendsCounted DEF SendsInv, SendsAccountedFor
<1>3. ASSUME NEW p \in Publishers, NEW s \in Subscribers, PublishDrop(p, s) PROVE SendsInv'
  <2>1. /\ s \in targets[p] /\ targets' = [targets EXCEPT ![p] = @ \ {s}]
        /\ dropped' = dropped + 1 /\ UNCHANGED <<log, offered>>
    BY <1>3 DEF PublishDrop, subVars
  <2>2. IsFiniteSet(Pending') /\ Cardinality(Pending') = Cardinality(Pending) - 1
    BY <2>1, LeavesPending
  <2>3. Accepted' = Accepted
    BY <2>1 DEF Accepted
  <2> QED
    BY <2>1, <2>2, <2>3, SendsCounted DEF SendsInv, SendsAccountedFor
<1>4. ASSUME NEW p \in Publishers,
             \/ \E own, bound \in EventId : PublishCheck(p, own, bound)
             \/ PublishCount(p)
             \/ \E s \in Subscribers : PublishPanic(p, s)
             \/ PublishReturn(p)
      PROVE  SendsInv'
  BY <1>4, SendsUntouched
     DEF PublishCheck, PublishCount, PublishPanic, PublishReturn, brokerVars, subVars
<1>5. ASSUME NEW s \in Subscribers,
             SubscriberStart(s) \/ Receive(s) \/ CancelRemove(s) \/ CancelClose(s)
      PROVE  SendsInv'
  BY <1>5, SendsUntouched
     DEF SubscriberStart, Subscribe, SubscribeAll, Open, Receive, CancelRemove, CancelClose,
         brokerVars, pubVars
<1>6. ASSUME NEW c \in Closers, CloseSwap(c) \/ CloseStep(c) PROVE SendsInv'
  BY <1>6, SendsUntouched
     DEF CloseSwap, CloseStep, CloseSnapshot, SafeClose, CloseReturn, brokerVars, subVars, pubVars
<1>7. CASE UNCHANGED vars
  BY <1>7, SendsUntouched DEF vars, brokerVars, subVars, pubVars
<1> QED
  BY <1>1, <1>2, <1>3, <1>4, <1>5, <1>6, <1>7 DEF Next, PublishStep

\* No send vanishes: at every moment, what Publish took upon itself was accepted,
\* counted as dropped or is still to be made (property of the broker run).
THEOREM SendsAccountedForHolds == Spec => []SendsAccountedFor
<1>1. Init => SendsInv
  <2> SUFFICES ASSUME Init PROVE SendsInv
    OBVIOUS
  <2>1. Accepted = {}
    <3>1. \A s \in Subscribers : 1..Len(log[s]) = {}
      BY DEF Init
    <3> QED
      BY <3>1 DEF Accepted
  <2>2. Pending = {}
    BY DEF Init, Pending
  <2> QED
    BY <2>1, <2>2, FS_EmptySet DEF Init, SendsInv, SendsAccountedFor
<1>2. SendsInv => SendsAccountedFor
  BY DEF SendsInv
<1> QED
  BY <1>1, <1>2, TypeCorrect, DeliveryCorrect, SendsStep, PTL DEF Spec

-----------------------------------------------------------------------------
(* The refinement *)

\* Steps that leave the mailboxes as they are map to stuttering.
LEMMA MailboxesUntouched ==
    ASSUME UNCHANGED subVars
    PROVE  UNCHANGED Mailboxes!vars
BY DEF subVars, Status, Mailboxes!vars

\* Making a subscription opens a mailbox (broker.go:115-124, 149-158).
LEMMA OpenOpens ==
    ASSUME TypeOK, RegistryInv, NEW s \in Subscribers, NEW t \in Topic,
           NEW b \in BufferArgs, Open(s, t, b)
    PROVE  Mailboxes!Next
<1> USE DEF TypeOK, Open
<1>1. chan[s] = "nil"
  BY DEF RegistryInv, MadeOnce
<1>2. Mailboxes!OpenSub(s, t, Capacity(b))
  BY <1>1 DEF Mailboxes!OpenSub, Status
<1> QED
  BY <1>2 DEF Mailboxes!Next

\* A send is the acceptance of a new event of the topic, into an open channel
\* with room (broker.go:94-107).
LEMMA SendAccepts ==
    ASSUME TypeOK, DeliveryInv, NEW p \in Publishers, NEW s \in Subscribers, PublishSend(p, s)
    PROVE  Mailboxes!Next
<1> USE DEF TypeOK, PublishSend
<1>1. Mailboxes!InTopic(event[p], topic[s])
  BY DEF DeliveryInv, TargetsMatch
<1>2. Mailboxes!Newer(event[p], log[s])
  BY DEF DeliveryInv, EventNumbers, LogsBehind, Mailboxes!Newer
<1>3. Mailboxes!Accept(s, event[p])
  BY <1>1, <1>2 DEF Mailboxes!Accept, Status, HasRoom
<1>4. event[p] \in Event
  OBVIOUS
<1> QED
  BY <1>3, <1>4 DEF Mailboxes!Next

\* Closing a channel that is open, by cancel or by Close, closes the mailbox;
\* closing it again changes nothing (broker.go:141, 171, 197-212).
LEMMA CloseCloses ==
    ASSUME TypeOK, NEW s \in Subscribers, NEW how \in {"cancelled", "shut"}, chan[s] = "open",
           chan' = [chan EXCEPT ![s] = how], UNCHANGED <<topic, cap, log, read>>
    PROVE  Mailboxes!Next
<1>1. Mailboxes!CloseSub(s)
  BY DEF TypeOK, Mailboxes!CloseSub, Status
<1> QED
  BY <1>1 DEF Mailboxes!Next

\* Every step of the broker is a step of its mailboxes, or none.
LEMMA MailboxStep ==
    ASSUME TypeOK, RegistryInv, DeliveryInv, [Next]_vars
    PROVE  [Mailboxes!Next]_(Mailboxes!vars)
<1>1. ASSUME NEW p \in Publishers, NEW own \in EventId, NEW bound \in EventId,
             PublishCheck(p, own, bound)
      PROVE  UNCHANGED Mailboxes!vars
  BY <1>1, MailboxesUntouched DEF PublishCheck
<1>2. ASSUME NEW p \in Publishers, PublishStep(p)
      PROVE  [Mailboxes!Next]_(Mailboxes!vars)
  <2>1. CASE \E s \in Subscribers : PublishSend(p, s)
    BY <2>1, SendAccepts
  <2>2. CASE ~\E s \in Subscribers : PublishSend(p, s)
    BY <1>2, <2>2, MailboxesUntouched
       DEF PublishStep, PublishCount, PublishSnapshot, PublishDrop, PublishPanic, PublishReturn
  <2> QED
    BY <2>1, <2>2
<1>3. ASSUME NEW s \in Subscribers, SubscriberStart(s) PROVE Mailboxes!Next
  BY <1>3, OpenOpens DEF SubscriberStart, Subscribe, SubscribeAll, Topic
<1>4. ASSUME NEW s \in Subscribers, Receive(s) PROVE Mailboxes!Next
  <2>1. Mailboxes!Read(s)
    BY <1>4 DEF Receive, Status, Mailboxes!Read
  <2> QED
    BY <2>1 DEF Mailboxes!Next
<1>5. ASSUME NEW s \in Subscribers, CancelRemove(s) PROVE UNCHANGED Mailboxes!vars
  BY <1>5 DEF CancelRemove, Status, Mailboxes!vars
<1>6. ASSUME NEW s \in Subscribers, CancelClose(s) PROVE [Mailboxes!Next]_(Mailboxes!vars)
  <2>1. CASE chan[s] = "open"
    BY <1>6, <2>1, CloseCloses DEF CancelClose
  <2>2. CASE chan[s] # "open"
    BY <1>6, <2>2 DEF CancelClose, Status, Mailboxes!vars
  <2> QED
    BY <2>1, <2>2
<1>7. ASSUME NEW c \in Closers, CloseSwap(c) PROVE UNCHANGED Mailboxes!vars
  BY <1>7, MailboxesUntouched DEF CloseSwap
<1>8. ASSUME NEW c \in Closers, CloseStep(c) PROVE [Mailboxes!Next]_(Mailboxes!vars)
  <2>1. ASSUME NEW s \in Subscribers, SafeClose(c, s)
        PROVE  [Mailboxes!Next]_(Mailboxes!vars)
    <3>1. CASE chan[s] = "open"
      BY <2>1, <3>1, CloseCloses DEF SafeClose
    <3>2. CASE chan[s] # "open"
      <4>1. chan' = chan
        BY <2>1, <3>2 DEF SafeClose, TypeOK
      <4> QED
        BY <2>1, <4>1 DEF SafeClose, Status, Mailboxes!vars
    <3> QED
      BY <3>1, <3>2
  <2> QED
    BY <1>8, <2>1, MailboxesUntouched DEF CloseStep, CloseSnapshot, CloseReturn
<1>9. CASE UNCHANGED vars
  BY <1>9, MailboxesUntouched DEF vars
<1> QED
  BY <1>1, <1>2, <1>3, <1>4, <1>5, <1>6, <1>7, <1>8, <1>9 DEF Next

\* MemoryBroker keeps the promise of PubSub whatever publishes, subscribes,
\* cancels and closes: delivery at most once, of the right topic, in each
\* publisher's order, within the buffer, never into a closed channel.
THEOREM BrokerImplementsPubSub == Spec => DeliversAsPromised
<1>1. Init => Mailboxes!Init
  BY DEF Init, Mailboxes!Init, Status
<1> QED
  BY <1>1, TypeCorrect, RegistryCorrect, DeliveryCorrect, MailboxStep, PTL
     DEF Spec, DeliversAsPromised, Mailboxes!Spec

=============================================================================
