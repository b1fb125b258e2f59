--------------------------- MODULE OAuthFlowProofs ---------------------------
(***************************************************************************)
(* For every number of flows, callbacks, stray signals, restarts of the    *)
(* API server and losses of workers: the invariants of OAuthFlow.          *)
(*                                                                         *)
(* What a flow's server record, its code's variables and its history are   *)
(* to each other, and to what was redeemed and stored, is FlowInv, a       *)
(* predicate of these values; the lemmas about one flow mention no         *)
(* variable.                                                               *)
(***************************************************************************)
EXTENDS OAuthFlow, SequenceTheorems, TLAPS

-----------------------------------------------------------------------------
(* The values *)

Signals == [code : Requests, state : Flows] \cup [code : {NoCode}, state : {Stray}]

Callbacks ==
    [pc : {"none", "error"}, state : {Stray}, code : {NoCode}]
        \cup [pc : {"parsed", "found", "signalled", "success", "error", "gone"},
              state : Flows, code : Requests]

Records ==
    [state : {"none", "open", "completed", "failed"}, verifier : BOOLEAN,
     signals : Seq(Signals), timer : {"unset", "running", "fired"},
     tokens : Requests \cup {NoCode}]

Locals ==
    [pc : {"begin", "select", "exchange", "exchanging", "whoami", "asking", "store", "storing",
           "end"},
     code : Requests \cup {NoCode}, issued : 0..3]

Command ==
    [kind : {"Exchange"}, code : Requests]
        \cup [kind : {"Whoami", "StoreTokens"}, tokens : Requests]

Activity ==
    [input : Command, state : {"scheduled", "running", "completed", "failed"}, attempts : Nat,
     result : {NoResult, "identity", "stored"} \cup Requests, error : ErrorTypes \cup {NoError}]

-----------------------------------------------------------------------------
(* The inductive invariant *)

\* Only the latest activity may be unfinished, and a scheduled one has an attempt.
Progress(h) ==
    \A k \in 1..Len(h) :
        /\ k < Len(h) => h[k].state = "completed"
        /\ h[k].attempts <= MaxAttempts[h[k].input.kind]
        /\ h[k].state = "scheduled" => h[k].attempts < MaxAttempts[h[k].input.kind]

\* The command that the k-th activity is.
Wanted(code, k) ==
    IF k = 1 THEN [kind |-> "Exchange", code |-> code]
             ELSE [kind |-> IF k = 2 THEN "Whoami" ELSE "StoreTokens", tokens |-> code]

\* What it has done when it completes.
Done(code, k, a, red, sto) ==
    a.state = "completed" =>
        /\ k = 1 => a.result = code /\ code \in red
        /\ k = 3 => code \in sto

\* The code of one callback is redeemed, its tokens identified and stored.
Trades(code, h, red, sto) ==
    /\ h # <<>> => code \in Requests
    /\ \A k \in 1..Len(h) : h[k].input = Wanted(code, k) /\ Done(code, k, h[k], red, sto)

HistoryInv(code, h, red, sto) ==
    h \in Seq(Activity) /\ Len(h) <= 3 /\ Progress(h) /\ Trades(code, h, red, sto)

\* Where the code stands in the history that it replays or writes.
Place(code, l, h) ==
    /\ l.issued <= Len(h)
    /\ l.pc \in {"begin", "select", "exchange"} => l.issued = 0
    /\ l.pc \in {"exchanging", "whoami"} => l.issued = 1
    /\ l.pc \in {"asking", "store"} => l.issued = 2
    /\ l.pc = "storing" => l.issued = 3
    /\ l.pc = "exchange" => l.code = code
    /\ l.pc \in {"whoami", "store"} => h[l.issued].state = "completed"

\* The flow has been called back: what it does from then on is of that callback.
CalledBack(f, fl) == fl.signals # <<>> /\ Head(fl.signals).state = f

FlowInv(f, fl, l, h, red, sto) ==
    /\ fl \in Records /\ l \in Locals
    /\ HistoryInv(Head(fl.signals).code, h, red, sto)
    /\ Place(Head(fl.signals).code, l, h)
    /\ h # <<>> \/ l.pc \notin {"begin", "select", "end"} => CalledBack(f, fl)
    /\ fl.state = "completed" =>
          Len(h) = 3 /\ h[3].state = "completed" /\ fl.tokens = Head(fl.signals).code

\* A callback that is being handled is one of a flow that was started; what the
\* mapper has lost was signalled.
HandlersInv ==
    /\ starter \in [Flows -> {"idle", "mapped", "unmapping", "started", "failed", "gone"}]
    /\ mapper \subseteq Flows /\ restarts \in Nat
    /\ request \in [Requests -> Callbacks]
    /\ \A r \in Requests : request[r].state # Stray =>
          /\ starter[request[r].state] = "started"
          /\ request[r].pc = "signalled" => flow[request[r].state].signals # <<>>
    /\ \A f \in Flows : restarts = 0 =>
          /\ starter[f] = "mapped" => f \in mapper
          /\ starter[f] = "started" /\ flow[f].signals = <<>> => f \in mapper

FlowsInv ==
    /\ DOMAIN flow = Flows /\ DOMAIN local = Flows /\ DOMAIN log = Flows
    /\ redeemed \subseteq Requests /\ stored \subseteq Requests
    /\ \A f \in Flows : FlowInv(f, flow[f], local[f], log[f], redeemed, stored)

IInv == HandlersInv /\ FlowsInv

-----------------------------------------------------------------------------
(* One flow *)

LEMMA KnownOf ==
    ASSUME NEW f, NEW fl, NEW l, NEW h, NEW red, NEW sto, FlowInv(f, fl, l, h, red, sto)
    PROVE  /\ fl \in Records /\ l \in Locals /\ fl.signals \in Seq(Signals)
           /\ h \in Seq(Activity) /\ Len(h) \in 0..3 /\ (h # <<>> <=> Len(h) # 0)
           /\ l.issued \in 0..3 /\ l.issued <= Len(h)
<1>1. fl \in Records /\ l \in Locals /\ h \in Seq(Activity) /\ Len(h) <= 3 /\ l.issued <= Len(h)
  BY DEF FlowInv, HistoryInv, Place
<1>2. Len(h) \in Nat /\ (h # <<>> <=> Len(h) # 0)
  BY <1>1, LenProperties, EmptySeq
<1>3. Len(h) \in 0..3
  <2> DEFINE n == Len(h)
  <2>1. n \in Nat /\ n <= 3
    BY <1>1, <1>2
  <2> HIDE DEF n
  <2>2. n \in 0..3
    BY <2>1
  <2> QED
    BY <2>2 DEF n
<1> QED
  BY <1>1, <1>2, <1>3 DEF Records, Locals

LEMMA MoreIsDone ==
    ASSUME NEW f, NEW fl, NEW l, NEW h, NEW red, NEW sto, FlowInv(f, fl, l, h, red, sto),
           NEW moreRed, red \subseteq moreRed, NEW moreSto, sto \subseteq moreSto
    PROVE  FlowInv(f, fl, l, h, moreRed, moreSto)
<1> DEFINE code == Head(fl.signals).code
<1>1. HistoryInv(code, h, red, sto)
  BY DEF FlowInv
<1> HIDE DEF code
<1>2. HistoryInv(code, h, moreRed, moreSto)
  BY <1>1 DEF HistoryInv, Trades, Done
<1> QED
  BY <1>2 DEF FlowInv, code

\* A later callback does not change which was the first; before the first nothing
\* has been done that would depend on it.
LEMMA SignalArrives ==
    ASSUME NEW f, NEW fl, NEW l, NEW h, NEW red, NEW sto, FlowInv(f, fl, l, h, red, sto),
           NEW s \in Signals
    PROVE  /\ FlowInv(f, [fl EXCEPT !.signals = Append(@, s)], l, h, red, sto)
           /\ Append(fl.signals, s) # <<>>
<1> DEFINE t == Append(fl.signals, s)
           g == [fl EXCEPT !.signals = t]
<1>1. /\ fl \in Records /\ l \in Locals /\ fl.signals \in Seq(Signals)
      /\ h \in Seq(Activity) /\ Len(h) \in 0..3 /\ (h # <<>> <=> Len(h) # 0)
  BY KnownOf
<1>2. /\ t \in Seq(Signals) /\ Len(t) = Len(fl.signals) + 1
      /\ \A k \in 1..Len(fl.signals) : t[k] = fl.signals[k]
  BY <1>1, AppendProperties
<1>3. t # <<>>
  <2>1. Len(fl.signals) \in Nat
    BY <1>1, LenProperties
  <2>2. Len(t) # 0
    BY <1>2, <2>1
  <2> QED
    BY <2>2, EmptySeq
<1> HIDE DEF t
<1>4. /\ g \in Records /\ g.signals = t /\ g.state = fl.state /\ g.tokens = fl.tokens
  BY <1>1, <1>2 DEF Records
<1> HIDE DEF g
<1>5. CASE fl.signals = <<>>
  <2>1. h = <<>> /\ Len(h) = 0 /\ l.pc \in {"begin", "select", "end"}
    BY <1>1, <1>5 DEF FlowInv, CalledBack
  <2>2. HistoryInv(Head(t).code, h, red, sto)
    BY <1>1, <2>1 DEF HistoryInv, Progress, Trades
  <2>3. Place(Head(t).code, l, h)
    BY <2>1 DEF FlowInv, Place
  <2>4. fl.state # "completed"
    BY <2>1 DEF FlowInv
  <2> QED
    BY <1>1, <1>3, <1>4, <2>1, <2>2, <2>3, <2>4 DEF FlowInv, g, t
<1>6. CASE fl.signals # <<>>
  <2>1. Len(fl.signals) \in Nat \ {0}
    BY <1>1, <1>6, EmptySeq
  <2>2. Head(t) = t[1] /\ Head(fl.signals) = fl.signals[1] /\ 1 \in 1..Len(fl.signals)
    BY <2>1
  <2>3. Head(t) = Head(fl.signals)
    BY <1>2, <2>2
  <2> QED
    BY <1>3, <1>4, <2>3 DEF FlowInv, CalledBack, g, t
<1> QED
  BY <1>3, <1>5, <1>6 DEF t

LEMMA RecordMoves ==
    ASSUME NEW f, NEW fl, NEW l, NEW h, NEW red, NEW sto, FlowInv(f, fl, l, h, red, sto),
           NEW g \in Records, g.signals = fl.signals,
           g.state = "completed" =>
               Len(h) = 3 /\ h[3].state = "completed" /\ g.tokens = Head(fl.signals).code
    PROVE  FlowInv(f, g, l, h, red, sto)
BY DEF FlowInv, CalledBack

LEMMA CodeMoves ==
    ASSUME NEW f, NEW fl, NEW l, NEW h, NEW red, NEW sto, FlowInv(f, fl, l, h, red, sto),
           NEW m \in Locals, Place(Head(fl.signals).code, m, h),
           m.pc \notin {"begin", "select", "end"} => CalledBack(f, fl)
    PROVE  FlowInv(f, fl, m, h, red, sto)
BY DEF FlowInv

LEMMA StoppedAnywhere ==
    ASSUME NEW f, NEW fl, NEW l, NEW h, NEW red, NEW sto, FlowInv(f, fl, l, h, red, sto)
    PROVE  /\ FlowInv(f, fl, FromTheTop, h, red, sto)
           /\ FlowInv(f, fl, [l EXCEPT !.pc = "end"], h, red, sto)
<1>1. l \in Locals /\ l.issued \in 0..3 /\ l.issued <= Len(h) /\ Len(h) \in 0..3
  BY KnownOf
<1>2. /\ FromTheTop \in Locals /\ FromTheTop.pc = "begin"
      /\ Place(Head(fl.signals).code, FromTheTop, h)
  BY <1>1 DEF FromTheTop, Locals, Place
<1> DEFINE m == [l EXCEPT !.pc = "end"]
<1>3. m \in Locals /\ m.pc = "end" /\ m.issued = l.issued
  BY <1>1 DEF Locals
<1> HIDE DEF m
<1>4. Place(Head(fl.signals).code, m, h)
  BY <1>1, <1>3 DEF Place
<1> QED
  BY <1>2, <1>3, <1>4, CodeMoves DEF m

\* The command that the code issues, from where it stands, is the next one of the
\* history or, if there is no next, becomes it.
LEMMA CommandIssued ==
    ASSUME NEW f, NEW fl, NEW l, NEW h, NEW red, NEW sto, FlowInv(f, fl, l, h, red, sto),
           CalledBack(f, fl), fl.state # "completed",
           NEW code \in Requests, code = Head(fl.signals).code,
           NEW n \in 0..2, l.issued = n, n > 0 => h[n].state = "completed",
           NEW m \in Locals, m.issued = n + 1,
           m.pc = IF n = 0 THEN "exchanging" ELSE IF n = 1 THEN "asking" ELSE "storing"
    PROVE  /\ n = Len(h) =>
                FlowInv(f, fl, m, Append(h, Scheduled(Wanted(code, n + 1))), red, sto)
           /\ n # Len(h) =>
                h[n + 1].input = Wanted(code, n + 1) /\ FlowInv(f, fl, m, h, red, sto)
<1> DEFINE a == Scheduled(Wanted(code, n + 1))
           g == Append(h, a)
<1>1. /\ fl \in Records /\ h \in Seq(Activity) /\ Len(h) \in 0..3 /\ n <= Len(h)
  BY KnownOf
<1>2. HistoryInv(code, h, red, sto) /\ Progress(h) /\ Trades(code, h, red, sto)
  BY DEF FlowInv, HistoryInv
<1>3. ASSUME NEW k, n + 1 <= Len(k)
      PROVE  Place(code, m, k)
  BY <1>3 DEF Place
<1>4. ASSUME n # Len(h)
      PROVE  h[n + 1].input = Wanted(code, n + 1) /\ FlowInv(f, fl, m, h, red, sto)
  <2>1. n + 1 \in 1..Len(h) /\ n + 1 <= Len(h)
    BY <1>1, <1>4
  <2>2. h[n + 1].input = Wanted(code, n + 1)
    BY <1>2, <2>1 DEF Trades
  <2>3. Place(Head(fl.signals).code, m, h)
    BY <1>3, <2>1
  <2> QED
    BY <2>2, <2>3, CodeMoves
<1>5. ASSUME n = Len(h)
      PROVE  FlowInv(f, fl, m, g, red, sto)
  <2>1. Wanted(code, n + 1) \in Command /\ Wanted(code, n + 1).kind \in Kinds
    BY OAuthKindsAssumption DEF Wanted, Command
  <2>2. /\ a \in Activity /\ a.input = Wanted(code, n + 1) /\ a.state = "scheduled"
        /\ a.attempts = 0 /\ MaxAttempts[a.input.kind] \in Nat \ {0}
    BY <2>1, PolicyAssumption DEF Scheduled, Activity
  <2>3. /\ g \in Seq(Activity) /\ Len(g) = n + 1 /\ g[n + 1] = a
        /\ \A k \in 1..n : g[k] = h[k]
    BY <1>1, <1>5, <2>2, AppendProperties
  <2> HIDE DEF g, a
  <2>4. \A k \in 1..n : h[k].state = "completed"
    <3>1. \A k \in 1..n : k < n => h[k].state = "completed"
      BY <1>2, <1>5 DEF Progress
    <3> QED
      BY <3>1
  <2>5. \A k \in 1..(n + 1) : k = n + 1 \/ k \in 1..n
    OBVIOUS
  <2>6. Progress(g)
    <3> SUFFICES ASSUME NEW k \in 1..(n + 1)
                 PROVE  /\ k < n + 1 => g[k].state = "completed"
                        /\ g[k].attempts <= MaxAttempts[g[k].input.kind]
                        /\ g[k].state = "scheduled" =>
                              g[k].attempts < MaxAttempts[g[k].input.kind]
      BY <2>3 DEF Progress
    <3>1. CASE k = n + 1
      BY <2>2, <2>3, <3>1
    <3>2. CASE k \in 1..n
      BY <1>2, <1>5, <2>3, <2>4, <3>2 DEF Progress
    <3> QED
      BY <2>5, <3>1, <3>2
  <2>7. Trades(code, g, red, sto)
    <3> SUFFICES ASSUME NEW k \in 1..(n + 1)
                 PROVE  g[k].input = Wanted(code, k) /\ Done(code, k, g[k], red, sto)
      BY <2>3 DEF Trades
    <3>1. CASE k = n + 1
      BY <2>2, <2>3, <3>1 DEF Done
    <3>2. CASE k \in 1..n
      BY <1>2, <1>5, <2>3, <3>2 DEF Trades
    <3> QED
      BY <2>5, <3>1, <3>2
  <2>8. Place(code, m, g) /\ Len(g) <= 3
    BY <1>3, <2>3
  <2> QED
    BY <1>1, <2>3, <2>6, <2>7, <2>8 DEF FlowInv, HistoryInv
<1> QED
  BY <1>4, <1>5

\* What may become of the k-th activity when it is the latest and has not completed.
Continues(code, k, a, b, red, sto) ==
    /\ b \in Activity /\ b.input = a.input
    /\ b.attempts <= MaxAttempts[b.input.kind]
    /\ b.state = "scheduled" => b.attempts < MaxAttempts[b.input.kind]
    /\ Done(code, k, b, red, sto)

LEMMA LatestContinues ==
    ASSUME NEW f, NEW fl, NEW l, NEW h, NEW red, NEW sto, FlowInv(f, fl, l, h, red, sto),
           fl.state # "completed", h # <<>>, h[Len(h)].state # "completed",
           NEW a, Continues(Head(fl.signals).code, Len(h), h[Len(h)], a, red, sto)
    PROVE  FlowInv(f, fl, l, [h EXCEPT ![Len(h)] = a], red, sto)
<1> DEFINE n == Len(h)
           g == [h EXCEPT ![n] = a]
           code == Head(fl.signals).code
<1>1. /\ fl \in Records /\ l \in Locals /\ h \in Seq(Activity) /\ n \in 0..3 /\ n # 0
      /\ l.issued \in 0..3 /\ l.issued <= n
  BY KnownOf
<1>2. n \in 1..n /\ n <= 3
  BY <1>1
<1>3. /\ g \in Seq(Activity) /\ Len(g) = n
      /\ \A k \in 1..n : g[k] = IF k = n THEN a ELSE h[k]
  BY <1>1, <1>2, ExceptSeq DEF Continues
<1>4. g # <<>>
  BY <1>1, <1>3, EmptySeq
<1>5. HistoryInv(code, h, red, sto) /\ Progress(h) /\ Trades(code, h, red, sto)
      /\ Place(code, l, h)
  BY DEF FlowInv, HistoryInv
<1>6. Continues(code, n, h[n], a, red, sto) /\ h[n].state # "completed"
  OBVIOUS
<1> HIDE DEF g, n, code
<1>7. Progress(g)
  BY <1>2, <1>3, <1>5, <1>6 DEF Progress, Continues, n
<1>8. Trades(code, g, red, sto)
  BY <1>2, <1>3, <1>5, <1>6 DEF Trades, Continues, n
<1>9. Place(code, l, g)
  <2>1. ASSUME l.pc \in {"whoami", "store"}
        PROVE  g[l.issued].state = "completed"
    <3>1. h[l.issued].state = "completed" /\ l.issued \in 1..n
      BY <1>1, <1>5, <2>1 DEF Place
    <3> QED
      BY <1>3, <1>6, <3>1
  <2> QED
    BY <1>1, <1>3, <1>5, <2>1 DEF Place
<1> QED
  BY <1>1, <1>2, <1>3, <1>4, <1>7, <1>8, <1>9 DEF FlowInv, HistoryInv, g, n, code

\* A callback with the flow's own State brings a code.
LEMMA CodeIsRequest ==
    ASSUME NEW f \in Flows, NEW fl \in Records, CalledBack(f, fl)
    PROVE  Head(fl.signals).code \in Requests
<1>1. fl.signals \in Seq(Signals) /\ fl.signals # <<>>
  BY DEF Records, CalledBack
<1>2. Head(fl.signals) \in Signals
  BY <1>1, HeadTailProperties
<1> QED
  BY <1>2, StrayAssumption DEF CalledBack, Signals, Flows

-----------------------------------------------------------------------------
(* The steps of the flows *)

LEMMA FlowChanges ==
    ASSUME FlowsInv, NEW f \in Flows,
           DOMAIN flow' = Flows, DOMAIN local' = Flows, DOMAIN log' = Flows,
           redeemed \subseteq redeemed', redeemed' \subseteq Requests,
           stored \subseteq stored', stored' \subseteq Requests,
           \A g \in Flows \ {f} : /\ flow'[g] = flow[g] /\ local'[g] = local[g]
                                  /\ log'[g] = log[g],
           FlowInv(f, flow'[f], local'[f], log'[f], redeemed', stored')
    PROVE  FlowsInv'
<1> SUFFICES ASSUME NEW g \in Flows
             PROVE  FlowInv(g, flow'[g], local'[g], log'[g], redeemed', stored')
  BY DEF FlowsInv
<1>1. CASE g = f
  BY <1>1
<1>2. CASE g # f
  <2>1. FlowInv(g, flow[g], local[g], log[g], redeemed, stored)
    BY DEF FlowsInv
  <2>2. FlowInv(g, flow[g], local[g], log[g], redeemed', stored')
    BY <2>1, MoreIsDone
  <2> QED
    BY <1>2, <2>2
<1> QED
  BY <1>1, <1>2

\* The start, the callbacks and the timer write in the server's record.
LEMMA RecordStep ==
    ASSUME FlowsInv, NEW f \in Flows, NEW g, flow' = [flow EXCEPT ![f] = g],
           FlowInv(f, g, local[f], log[f], redeemed, stored),
           UNCHANGED <<local, log, redeemed, stored>>
    PROVE  FlowsInv'
<1>1. /\ DOMAIN flow' = Flows /\ DOMAIN local' = Flows /\ DOMAIN log' = Flows
      /\ redeemed' \subseteq Requests /\ stored' \subseteq Requests
      /\ redeemed \subseteq redeemed' /\ stored \subseteq stored'
  BY DEF FlowsInv
<1>2. \A h \in Flows \ {f} : /\ flow'[h] = flow[h] /\ local'[h] = local[h]
                             /\ log'[h] = log[h]
  BY DEF FlowsInv
<1>3. flow'[f] = g /\ local'[f] = local[f] /\ log'[f] = log[f]
  BY DEF FlowsInv
<1>4. FlowInv(f, flow'[f], local'[f], log'[f], redeemed', stored')
  BY <1>3
<1> QED
  BY <1>1, <1>2, <1>4, FlowChanges

LEMMA LocalStep ==
    ASSUME FlowsInv, NEW f \in Flows, NEW m, local' = [local EXCEPT ![f] = m],
           FlowInv(f, flow'[f], m, log[f], redeemed, stored),
           DOMAIN flow' = Flows, \A g \in Flows \ {f} : flow'[g] = flow[g],
           UNCHANGED <<log, redeemed, stored>>
    PROVE  FlowsInv'
<1>1. /\ DOMAIN local' = Flows /\ DOMAIN log' = Flows
      /\ redeemed' \subseteq Requests /\ stored' \subseteq Requests
      /\ redeemed \subseteq redeemed' /\ stored \subseteq stored'
  BY DEF FlowsInv
<1>2. \A h \in Flows \ {f} : /\ flow'[h] = flow[h] /\ local'[h] = local[h]
                             /\ log'[h] = log[h]
  BY DEF FlowsInv
<1>3. local'[f] = m /\ log'[f] = log[f]
  BY DEF FlowsInv
<1>4. FlowInv(f, flow'[f], local'[f], log'[f], redeemed', stored')
  BY <1>3
<1> QED
  BY <1>1, <1>2, <1>4, FlowChanges

LEMMA StateSet ==
    ASSUME FlowsInv, NEW f \in Flows, NEW g \in Records,
           g.signals = flow[f].signals, g.state # "completed"
    PROVE  FlowInv(f, g, local[f], log[f], redeemed, stored)
<1>1. FlowInv(f, flow[f], local[f], log[f], redeemed, stored)
  BY DEF FlowsInv
<1> QED
  BY <1>1, RecordMoves

LEMMA FlowRecord ==
    ASSUME FlowsInv, NEW f \in Flows
    PROVE  /\ FlowInv(f, flow[f], local[f], log[f], redeemed, stored)
           /\ flow[f] \in Records /\ local[f] \in Locals /\ log[f] \in Seq(Activity)
           /\ Len(log[f]) \in 0..3
<1>1. FlowInv(f, flow[f], local[f], log[f], redeemed, stored)
  BY DEF FlowsInv
<1> QED
  BY <1>1, KnownOf

\* StartFlow
LEMMA StartFlowStep ==
    ASSUME FlowsInv, NEW f \in Flows, StartFlow(f)
    PROVE  FlowsInv' /\ \A g \in Flows : flow'[g].signals = flow[g].signals
<1>1. CASE Refuse(f) \/ DeleteOnFailure(f)
  BY <1>1 DEF Refuse, DeleteOnFailure, FlowsInv
<1>2. ASSUME NEW verifier \in BOOLEAN, PutState(f, verifier)
      PROVE  FlowsInv' /\ \A g \in Flows : flow'[g].signals = flow[g].signals
  <2> DEFINE r == [flow[f] EXCEPT !.verifier = verifier]
  <2>1. r \in Records /\ r.signals = flow[f].signals /\ r.state = flow[f].state
        /\ r.tokens = flow[f].tokens
    BY FlowRecord DEF Records
  <2>2. flow' = [flow EXCEPT ![f] = r] /\ UNCHANGED <<local, log, redeemed, stored>>
    BY <1>2 DEF PutState
  <2> HIDE DEF r
  <2>3. FlowInv(f, r, local[f], log[f], redeemed, stored)
    <3>1. FlowInv(f, flow[f], local[f], log[f], redeemed, stored)
      BY FlowRecord
    <3>2. r.state = "completed" =>
              /\ Len(log[f]) = 3 /\ log[f][3].state = "completed"
              /\ r.tokens = Head(flow[f].signals).code
      BY <2>1, <3>1 DEF FlowInv
    <3> QED
      BY <2>1, <3>1, <3>2, RecordMoves
  <2>4. \A g \in Flows : flow'[g].signals = flow[g].signals
    BY <2>1, <2>2 DEF FlowsInv
  <2> QED
    BY <2>2, <2>3, <2>4, RecordStep
<1>3. ASSUME NEW state \in {"open", "none"}, flow' = [flow EXCEPT ![f].state = state],
             UNCHANGED <<local, log, redeemed, stored>>
      PROVE  FlowsInv' /\ \A g \in Flows : flow'[g].signals = flow[g].signals
  <2> DEFINE r == [flow[f] EXCEPT !.state = state]
  <2>1. r \in Records /\ r.signals = flow[f].signals /\ r.state # "completed"
    BY FlowRecord DEF Records
  <2>2. flow' = [flow EXCEPT ![f] = r]
    BY <1>3
  <2> HIDE DEF r
  <2>3. FlowInv(f, r, local[f], log[f], redeemed, stored)
    BY <2>1, StateSet
  <2>4. \A g \in Flows : flow'[g].signals = flow[g].signals
    BY <2>1, <2>2 DEF FlowsInv
  <2> QED
    BY <1>3, <2>2, <2>3, <2>4, RecordStep
<1>4. CASE Started(f)
  BY <1>3, <1>4 DEF Started
<1>5. ASSUME NEW opened \in BOOLEAN, StartFails(f, opened)
      PROVE  FlowsInv' /\ \A g \in Flows : flow'[g].signals = flow[g].signals
  BY <1>3, <1>5 DEF StartFails
<1> QED
  BY <1>1, <1>2, <1>4, <1>5 DEF StartFlow

\* A callback, or a signal from elsewhere, is put behind those there are.
LEMMA SignalStep ==
    ASSUME FlowsInv, NEW f \in Flows, NEW code, NEW state,
           [code |-> code, state |-> state] \in Signals, Signalled(f, code, state),
           UNCHANGED <<local, log, redeemed, stored>>
    PROVE  /\ FlowsInv' /\ flow'[f].signals # <<>>
           /\ \A g \in Flows : flow[g].signals # <<>> => flow'[g].signals # <<>>
<1> DEFINE s == [code |-> code, state |-> state]
           r == [flow[f] EXCEPT !.signals = Append(@, s)]
<1>1. flow' = [flow EXCEPT ![f] = r] /\ s \in Signals
  BY DEF Signalled
<1>2. flow[f] \in Records /\ r.signals = Append(flow[f].signals, s)
  BY FlowRecord DEF Records
<1> HIDE DEF s
<1>3. FlowInv(f, r, local[f], log[f], redeemed, stored) /\ Append(flow[f].signals, s) # <<>>
  BY <1>1, FlowRecord, SignalArrives
<1> HIDE DEF r
<1>4. flow'[f] = r /\ \A g \in Flows \ {f} : flow'[g] = flow[g]
  BY <1>1 DEF FlowsInv
<1>5. FlowsInv'
  BY <1>1, <1>3, RecordStep
<1> QED
  BY <1>2, <1>3, <1>4, <1>5

LEMMA TimerStep ==
    ASSUME FlowsInv, NEW f \in Flows, TimerFires(f)
    PROVE  FlowsInv' /\ \A g \in Flows : flow'[g].signals = flow[g].signals
<1> DEFINE r == [flow[f] EXCEPT !.timer = "fired"]
<1>1. r \in Records /\ r.signals = flow[f].signals /\ r.state # "completed"
  BY FlowRecord DEF Records, TimerFires, IsOpen
<1>2. flow' = [flow EXCEPT ![f] = r] /\ UNCHANGED <<local, log, redeemed, stored>>
  BY DEF TimerFires
<1> HIDE DEF r
<1>3. FlowInv(f, r, local[f], log[f], redeemed, stored)
  BY <1>1, StateSet
<1>4. \A g \in Flows : flow'[g].signals = flow[g].signals
  BY <1>1, <1>2 DEF FlowsInv
<1> QED
  BY <1>2, <1>3, <1>4, RecordStep

LEMMA BeginStep ==
    ASSUME FlowsInv, NEW f \in Flows, Begin(f)
    PROVE  FlowsInv' /\ \A g \in Flows : flow'[g].signals = flow[g].signals
<1> DEFINE r == [flow[f] EXCEPT !.timer = IF @ = "unset" THEN "running" ELSE @]
           m == [local[f] EXCEPT !.pc = "select"]
<1>1. r \in Records /\ r.signals = flow[f].signals /\ r.state # "completed"
  BY FlowRecord DEF Records, Begin, At, IsOpen
<1>2. /\ m \in Locals /\ m.pc = "select" /\ m.issued = 0
  <2>1. /\ FlowInv(f, flow[f], local[f], log[f], redeemed, stored)
        /\ local[f].pc = "begin" /\ local[f] \in Locals
    BY FlowRecord DEF Begin, At
  <2>2. local[f].issued = 0
    BY <2>1 DEF FlowInv, Place
  <2> QED
    BY <2>1, <2>2 DEF Locals
<1>3. /\ flow' = [flow EXCEPT ![f] = r] /\ local' = [local EXCEPT ![f] = m]
      /\ UNCHANGED <<log, redeemed, stored>>
  BY DEF Begin, LocalBecomes
<1> HIDE DEF r, m
<1>4. FlowInv(f, r, local[f], log[f], redeemed, stored)
  BY <1>1, StateSet
<1>5. Place(Head(r.signals).code, m, log[f])
  BY <1>2, FlowRecord DEF Place
<1>6. FlowInv(f, r, m, log[f], redeemed, stored)
  BY <1>2, <1>4, <1>5, CodeMoves
<1>7. DOMAIN flow' = Flows /\ flow'[f] = r /\ \A g \in Flows \ {f} : flow'[g] = flow[g]
  BY <1>3 DEF FlowsInv
<1>8. FlowInv(f, flow'[f], m, log[f], redeemed, stored)
  BY <1>6, <1>7
<1>9. FlowsInv'
  BY <1>3, <1>7, <1>8, LocalStep
<1> QED
  BY <1>1, <1>7, <1>9

LEMMA ClosesStep ==
    ASSUME FlowsInv, NEW f \in Flows, NEW state \in {"failed", "completed"},
           NEW tokens \in Requests \cup {NoCode}, Closes(f, state, tokens),
           state = "completed" =>
               /\ Len(log[f]) = 3 /\ log[f][3].state = "completed"
               /\ tokens = Head(flow[f].signals).code
    PROVE  FlowsInv' /\ \A g \in Flows : flow'[g].signals = flow[g].signals
<1> DEFINE r == [flow[f] EXCEPT !.state = state, !.tokens = tokens]
           m == [local[f] EXCEPT !.pc = "end"]
<1>1. /\ r \in Records /\ r.signals = flow[f].signals /\ r.state = state
      /\ r.tokens = tokens
  BY FlowRecord DEF Records
<1>2. /\ flow' = [flow EXCEPT ![f] = r] /\ local' = [local EXCEPT ![f] = m]
      /\ UNCHANGED <<log, redeemed, stored>>
  BY DEF Closes, LocalBecomes
<1> HIDE DEF r
<1>3. FlowInv(f, r, local[f], log[f], redeemed, stored)
  BY <1>1, FlowRecord, RecordMoves
<1>4. FlowInv(f, r, m, log[f], redeemed, stored)
  BY <1>3, StoppedAnywhere
<1> HIDE DEF m
<1>5. DOMAIN flow' = Flows /\ flow'[f] = r /\ \A g \in Flows \ {f} : flow'[g] = flow[g]
  BY <1>2 DEF FlowsInv
<1>6. FlowInv(f, flow'[f], m, log[f], redeemed, stored)
  BY <1>4, <1>5
<1>7. FlowsInv'
  BY <1>2, <1>5, <1>6, LocalStep
<1> QED
  BY <1>1, <1>5, <1>7

LEMMA FailsStep ==
    ASSUME FlowsInv, NEW f \in Flows, Fails(f)
    PROVE  FlowsInv' /\ \A g \in Flows : flow'[g].signals = flow[g].signals
BY ClosesStep DEF Fails

\* A step of the code that issues no command and does not close the flow.
LEMMA GoesStep ==
    ASSUME FlowsInv, NEW f \in Flows, NEW m \in Locals, local' = [local EXCEPT ![f] = m],
           Place(Head(flow[f].signals).code, m, log[f]),
           m.pc \notin {"begin", "select", "end"} => CalledBack(f, flow[f]),
           UNCHANGED <<flow, log, redeemed, stored>>
    PROVE  FlowsInv' /\ \A g \in Flows : flow'[g].signals = flow[g].signals
<1>1. FlowInv(f, flow[f], m, log[f], redeemed, stored)
  BY FlowRecord, CodeMoves
<1>2. FlowInv(f, flow'[f], m, log[f], redeemed, stored)
  BY <1>1
<1>3. DOMAIN flow' = Flows
  BY DEF FlowsInv
<1> QED
  BY <1>2, <1>3, LocalStep

LEMMA AcceptStep ==
    ASSUME FlowsInv, NEW f \in Flows, AcceptCallback(f)
    PROVE  FlowsInv' /\ \A g \in Flows : flow'[g].signals = flow[g].signals
<1> DEFINE code == Head(flow[f].signals).code
           m == [local[f] EXCEPT !.pc = "exchange", !.code = code]
<1>1. /\ CalledBack(f, flow[f]) /\ local[f].pc = "select"
      /\ UNCHANGED <<flow, log, redeemed, stored>>
      /\ local' = [local EXCEPT ![f] = m]
  BY DEF AcceptCallback, At, Callback, CalledBack
<1>2. code \in Requests
  BY <1>1, FlowRecord, CodeIsRequest
<1>3. /\ FlowInv(f, flow[f], local[f], log[f], redeemed, stored)
      /\ local[f] \in Locals /\ Len(log[f]) \in 0..3
  BY FlowRecord
<1>4. local[f].issued = 0
  BY <1>1, <1>3 DEF FlowInv, Place
<1> HIDE DEF code
<1>5. m \in Locals /\ m.pc = "exchange" /\ m.issued = 0 /\ m.code = code
  BY <1>2, <1>3, <1>4 DEF Locals
<1> HIDE DEF m
<1>6. Place(code, m, log[f])
  BY <1>3, <1>5 DEF Place
<1> QED
  BY <1>1, <1>5, <1>6, GoesStep DEF code

LEMMA AwaitedStep ==
    ASSUME FlowsInv, NEW f \in Flows, Exchanged(f) \/ Identified(f)
    PROVE  FlowsInv' /\ \A g \in Flows : flow'[g].signals = flow[g].signals
<1> DEFINE l == local[f]
           pc == IF l.pc = "exchanging" THEN "whoami" ELSE "store"
           m == [l EXCEPT !.pc = pc]
<1>1. /\ l.pc \in {"exchanging", "asking"} /\ log[f][l.issued].state = "completed"
      /\ UNCHANGED <<flow, log, redeemed, stored>>
      /\ local' = [local EXCEPT ![f] = m]
  BY DEF Exchanged, Identified, Goes, At, Ended, LocalBecomes
<1>2. /\ FlowInv(f, flow[f], l, log[f], redeemed, stored)
      /\ l \in Locals /\ Len(log[f]) \in 0..3
  BY FlowRecord
<1>3. m \in Locals /\ m.pc = pc /\ m.issued = l.issued
  BY <1>2 DEF Locals
<1> HIDE DEF m
<1>4. CalledBack(f, flow[f])
  BY <1>1, <1>2 DEF FlowInv
<1>5. Place(Head(flow[f].signals).code, m, log[f])
  BY <1>1, <1>2, <1>3 DEF FlowInv, Place
<1> QED
  BY <1>1, <1>3, <1>4, <1>5, GoesStep

\* Exchange, Whoami and StoreTokens are of the first callback's code.
LEMMA ExecuteStep ==
    ASSUME FlowsInv, NEW f \in Flows, Exchange(f) \/ Whoami(f) \/ StoreTokens(f)
    PROVE  FlowsInv' /\ \A g \in Flows : flow'[g].signals = flow[g].signals
<1> DEFINE l == local[f]
           h == log[f]
           code == Head(flow[f].signals).code
           n == l.issued
           waiting == IF n = 0 THEN "exchanging" ELSE IF n = 1 THEN "asking" ELSE "storing"
           input == Wanted(code, n + 1)
           m == [l EXCEPT !.pc = waiting, !.issued = @ + 1]
<1>1. /\ FlowInv(f, flow[f], l, h, redeemed, stored) /\ flow[f] \in Records
      /\ l \in Locals /\ h \in Seq(Activity) /\ Len(h) \in 0..3
  BY FlowRecord
<1>2. /\ IsOpen(f) /\ l.pc \in {"exchange", "whoami", "store"}
      /\ UNCHANGED <<flow, redeemed, stored>>
  BY DEF Exchange, Whoami, StoreTokens, Execute, At
<1>3. CalledBack(f, flow[f]) /\ code \in Requests /\ flow[f].state # "completed"
  BY <1>1, <1>2, CodeIsRequest DEF FlowInv, IsOpen
<1>4. /\ n \in 0..2 /\ n <= Len(h) /\ (n > 0 => h[n].state = "completed")
      /\ n = IF l.pc = "exchange" THEN 0 ELSE IF l.pc = "whoami" THEN 1 ELSE 2
      /\ l.pc = "exchange" => l.code = code
  BY <1>1, <1>2 DEF FlowInv, Place
<1>5. n > 0 => Tokens(f) = code
  <2> SUFFICES ASSUME n > 0 PROVE Tokens(f) = code
    OBVIOUS
  <2>1. 1 \in 1..Len(h) /\ (n = 1 \/ n = 2)
    BY <1>1, <1>4
  <2>2. h[1].state = "completed"
    BY <1>1, <1>4, <2>1 DEF FlowInv, HistoryInv, Progress
  <2> QED
    BY <1>1, <2>1, <2>2 DEF FlowInv, HistoryInv, Trades, Done, Tokens
<1>6. /\ Issue(f, n, input)
      /\ local' = [local EXCEPT ![f].pc = IF Replayable(f, n, input) THEN waiting ELSE "stuck",
                                ![f].issued = @ + 1]
  <2>1. CASE Exchange(f)
    <3> DEFINE c == [kind |-> "Exchange", code |-> l.code]
    <3>1. Execute(f, "exchange", c, "exchanging") /\ l.pc = "exchange"
      BY <2>1 DEF Exchange, Execute, At
    <3>2. n = 0 /\ waiting = "exchanging" /\ c = input
      BY <1>4, <3>1 DEF Wanted
    <3> HIDE DEF c, input, waiting
    <3> QED
      BY <3>1, <3>2 DEF Execute
  <2>2. CASE Whoami(f)
    <3> DEFINE c == [kind |-> "Whoami", tokens |-> Tokens(f)]
    <3>1. Execute(f, "whoami", c, "asking") /\ l.pc = "whoami"
      BY <2>2 DEF Whoami, Execute, At
    <3>2. n = 1 /\ waiting = "asking" /\ c = input
      BY <1>4, <1>5, <3>1 DEF Wanted
    <3> HIDE DEF c, input, waiting
    <3> QED
      BY <3>1, <3>2 DEF Execute
  <2>3. CASE StoreTokens(f)
    <3> DEFINE c == [kind |-> "StoreTokens", tokens |-> Tokens(f)]
    <3>1. Execute(f, "store", c, "storing") /\ l.pc = "store"
      BY <2>3 DEF StoreTokens, Execute, At
    <3>2. n = 2 /\ waiting = "storing" /\ c = input
      BY <1>4, <1>5, <3>1 DEF Wanted
    <3> HIDE DEF c, input, waiting
    <3> QED
      BY <3>1, <3>2 DEF Execute
  <2> QED
    BY <2>1, <2>2, <2>3
<1>7. m \in Locals /\ m.issued = n + 1 /\ m.pc = waiting
  <2>1. l.issued + 1 \in 0..3 /\ waiting \in {"exchanging", "asking", "storing"}
    BY <1>4
  <2> HIDE DEF waiting
  <2> QED
    BY <1>1, <2>1 DEF Locals
<1>8. /\ n = Len(h) => FlowInv(f, flow[f], m, Append(h, Scheduled(input)), redeemed, stored)
      /\ n # Len(h) => h[n + 1].input = input /\ FlowInv(f, flow[f], m, h, redeemed, stored)
  <2> HIDE DEF m
  <2> QED
    BY <1>1, <1>3, <1>4, <1>7, CommandIssued
<1>9. Replayable(f, n, input)
  BY <1>8 DEF Replayable
<1>10. local' = [local EXCEPT ![f] = m]
  BY <1>6, <1>9
<1> HIDE DEF m, input, n, code
<1>11. /\ DOMAIN local' = Flows /\ local'[f] = m
       /\ \A g \in Flows \ {f} : local'[g] = local[g]
  BY <1>10 DEF FlowsInv
<1>12. /\ DOMAIN log' = Flows /\ \A g \in Flows \ {f} : log'[g] = log[g]
       /\ n = Len(h) => log'[f] = Append(h, Scheduled(input))
       /\ n # Len(h) => log'[f] = h
  BY <1>6 DEF FlowsInv, Issue
<1>13. FlowInv(f, flow'[f], local'[f], log'[f], redeemed', stored')
  BY <1>2, <1>8, <1>11, <1>12
<1>14. FlowsInv'
  BY <1>2, <1>11, <1>12, <1>13, FlowChanges DEF FlowsInv
<1> QED
  BY <1>2, <1>14

\* What the workflow reports was stored: the last of its three activities is over.
LEMMA CompletesStep ==
    ASSUME FlowsInv, NEW f \in Flows, Completes(f)
    PROVE  FlowsInv' /\ \A g \in Flows : flow'[g].signals = flow[g].signals
<1> DEFINE code == Head(flow[f].signals).code
           h == log[f]
<1>1. /\ FlowInv(f, flow[f], local[f], h, redeemed, stored) /\ Len(h) \in 0..3
      /\ flow[f] \in Records
  BY FlowRecord
<1>2. /\ local[f].pc = "storing" /\ h[local[f].issued].state = "completed"
      /\ Closes(f, "completed", Tokens(f))
  BY DEF Completes, At, Ended
<1>3. local[f].issued = 3 /\ local[f].issued <= Len(h)
  BY <1>1, <1>2 DEF FlowInv, Place
<1>4. Len(h) = 3 /\ h[3].state = "completed" /\ 1 \in 1..Len(h) /\ 1 < Len(h)
  BY <1>1, <1>2, <1>3
<1>5. CalledBack(f, flow[f]) /\ code \in Requests
  BY <1>1, <1>2, CodeIsRequest DEF FlowInv
<1>6. h[1].state = "completed"
  BY <1>1, <1>4 DEF FlowInv, HistoryInv, Progress
<1>7. Tokens(f) = code
  BY <1>1, <1>4, <1>6 DEF FlowInv, HistoryInv, Trades, Done, Tokens
<1> HIDE DEF code
<1>8. Closes(f, "completed", code)
  BY <1>2, <1>7
<1> QED
  BY <1>4, <1>5, <1>8, ClosesStep DEF code

LEMMA CodeSteps ==
    ASSUME FlowsInv, NEW f \in Flows, CodeStep(f)
    PROVE  FlowsInv' /\ \A g \in Flows : flow'[g].signals = flow[g].signals
<1>1. CASE Begin(f)
  BY <1>1, BeginStep
<1>2. CASE BeginFails(f) \/ StateMismatch(f) \/ CallbackTimeout(f) \/ ActivityFailed(f)
  BY <1>2, FailsStep DEF BeginFails, StateMismatch, CallbackTimeout, ActivityFailed
<1>3. CASE AcceptCallback(f)
  BY <1>3, AcceptStep
<1>4. CASE Exchange(f) \/ Whoami(f) \/ StoreTokens(f)
  BY <1>4, ExecuteStep
<1>5. CASE Exchanged(f) \/ Identified(f)
  BY <1>5, AwaitedStep
<1>6. CASE Completes(f)
  BY <1>6, CompletesStep
<1> QED
  BY <1>1, <1>2, <1>3, <1>4, <1>5, <1>6 DEF CodeStep

LEMMA WorkerLostStep ==
    ASSUME FlowsInv, NEW f \in Flows, WorkerLost(f)
    PROVE  FlowsInv' /\ \A g \in Flows : flow'[g].signals = flow[g].signals
<1>1. /\ local' = [local EXCEPT ![f] = FromTheTop]
      /\ UNCHANGED <<flow, log, redeemed, stored>>
  BY DEF WorkerLost
<1>2. FlowInv(f, flow'[f], FromTheTop, log[f], redeemed, stored)
  BY <1>1, FlowRecord, StoppedAnywhere
<1>3. DOMAIN flow' = Flows
  BY <1>1 DEF FlowsInv
<1> QED
  BY <1>1, <1>2, <1>3, LocalStep

\* What an attempt does: the latest activity goes on, and what it redeems or
\* stores stays so.
LEMMA LatestStep ==
    ASSUME FlowsInv, NEW f \in Flows, flow[f].state # "completed",
           log[f] # <<>>, Latest(f).state # "completed",
           NEW a, Becomes(f, a), UNCHANGED <<flow, local>>,
           redeemed \subseteq redeemed', redeemed' \subseteq Requests,
           stored \subseteq stored', stored' \subseteq Requests,
           Continues(Head(flow[f].signals).code, Len(log[f]), Latest(f), a, redeemed', stored')
    PROVE  FlowsInv' /\ \A g \in Flows : flow'[g].signals = flow[g].signals
<1>1. FlowInv(f, flow[f], local[f], log[f], redeemed', stored')
  BY FlowRecord, MoreIsDone
<1>2. FlowInv(f, flow[f], local[f], [log[f] EXCEPT ![Len(log[f])] = a], redeemed', stored')
  BY <1>1, LatestContinues DEF Latest
<1>3. /\ DOMAIN log' = Flows /\ log'[f] = [log[f] EXCEPT ![Len(log[f])] = a]
      /\ \A g \in Flows \ {f} : log'[g] = log[g]
  BY DEF FlowsInv, Becomes
<1>4. DOMAIN flow' = Flows /\ DOMAIN local' = Flows
  BY DEF FlowsInv
<1>5. FlowInv(f, flow'[f], local'[f], log'[f], redeemed', stored')
  BY <1>2, <1>3
<1> QED
  BY <1>3, <1>4, <1>5, FlowChanges

\* What is known of an activity that is not over: it is of the callback's code.
LEMMA LatestIs ==
    ASSUME FlowsInv, NEW f \in Flows, NEW s \in {"scheduled", "running"}, Pending(f, s)
    PROVE  LET a == Latest(f)
               k == Len(log[f])
               code == Head(flow[f].signals).code
           IN /\ log[f] # <<>> /\ a.state = s /\ a.state # "completed"
              /\ a \in Activity /\ k \in 1..3 /\ a.input = Wanted(code, k)
              /\ a.attempts <= MaxAttempts[a.input.kind]
              /\ s = "scheduled" => a.attempts < MaxAttempts[a.input.kind]
              /\ MaxAttempts[a.input.kind] \in Nat \ {0}
              /\ code \in Requests
<1> DEFINE a == Latest(f)
           h == log[f]
           k == Len(h)
           code == Head(flow[f].signals).code
<1>1. h # <<>> /\ a.state = s
  BY DEF Pending
<1>2. /\ FlowInv(f, flow[f], local[f], h, redeemed, stored)
      /\ h \in Seq(Activity) /\ k \in 0..3
  BY FlowRecord
<1>3. k \in 1..3 /\ k \in 1..k
  <2>1. k # 0
    BY <1>1, <1>2, KnownOf
  <2> HIDE DEF k
  <2> QED
    BY <1>2, <2>1
<1>4. a \in Activity /\ a = h[k]
  BY <1>2, <1>3, ElementOfSeq DEF Latest
<1>5. Progress(h) /\ Trades(code, h, redeemed, stored)
  BY <1>2 DEF FlowInv, HistoryInv
<1> HIDE DEF a, k, h, code
<1>6. /\ a.attempts <= MaxAttempts[a.input.kind]
      /\ s = "scheduled" => a.attempts < MaxAttempts[a.input.kind]
  BY <1>1, <1>3, <1>4, <1>5 DEF Progress, k
<1>7. a.input = Wanted(code, k) /\ code \in Requests
  BY <1>1, <1>3, <1>4, <1>5 DEF Trades, k
<1>8. MaxAttempts[a.input.kind] \in Nat \ {0}
  <2>1. a.input.kind \in Kinds
    BY <1>4, OAuthKindsAssumption DEF Activity, Command
  <2> QED
    BY <2>1, PolicyAssumption
<1> QED
  BY <1>1, <1>3, <1>4, <1>6, <1>7, <1>8 DEF a, h, k, code

LEMMA StartActivityStep ==
    ASSUME FlowsInv, NEW f \in Flows, StartActivity(f)
    PROVE  FlowsInv' /\ \A g \in Flows : flow'[g].signals = flow[g].signals
<1> DEFINE a == Latest(f)
           k == Len(log[f])
           code == Head(flow[f].signals).code
           b == [a EXCEPT !.state = "running", !.attempts = @ + 1]
<1>1. /\ flow[f].state # "completed" /\ Pending(f, "scheduled") /\ Becomes(f, b)
      /\ UNCHANGED <<flow, local, redeemed, stored>>
  BY DEF StartActivity, StartAttempt, IsOpen
<1>2. /\ log[f] # <<>> /\ a.state # "completed" /\ a \in Activity
      /\ a.attempts < MaxAttempts[a.input.kind] /\ MaxAttempts[a.input.kind] \in Nat \ {0}
  BY <1>1, LatestIs
<1> HIDE DEF a
<1>3. Continues(code, k, a, b, redeemed', stored')
  <2>1. a.attempts + 1 \in Nat
    BY <1>2 DEF Activity
  <2>2. /\ b.state = "running" /\ b.input = a.input /\ b.attempts = a.attempts + 1
        /\ b \in Activity
    BY <1>2, <2>1 DEF Activity
  <2>3. b.attempts <= MaxAttempts[a.input.kind]
    BY <1>2, <2>2 DEF Activity
  <2> QED
    BY <2>2, <2>3 DEF Continues, Done
<1> HIDE DEF b
<1>4. /\ redeemed \subseteq redeemed' /\ redeemed' \subseteq Requests
      /\ stored \subseteq stored' /\ stored' \subseteq Requests
  BY <1>1 DEF FlowsInv
<1> QED
  BY <1>1, <1>2, <1>3, <1>4, LatestStep DEF a

LEMMA SucceedsStep ==
    ASSUME FlowsInv, NEW f \in Flows, IsOpen(f), NEW result, AttemptSucceeds(f, result),
           UNCHANGED <<flow, local>>,
           redeemed \subseteq redeemed', redeemed' \subseteq Requests,
           stored \subseteq stored', stored' \subseteq Requests,
           result \in {"identity", "stored"} \cup Requests,
           Latest(f).input.kind = "Exchange" =>
               result = Latest(f).input.code /\ result \in redeemed',
           Latest(f).input.kind = "StoreTokens" => Latest(f).input.tokens \in stored'
    PROVE  FlowsInv' /\ \A g \in Flows : flow'[g].signals = flow[g].signals
<1> DEFINE a == Latest(f)
           k == Len(log[f])
           code == Head(flow[f].signals).code
           b == [a EXCEPT !.state = "completed", !.result = result]
<1>1. Pending(f, "running") /\ Becomes(f, b) /\ flow[f].state # "completed"
  BY DEF AttemptSucceeds, IsOpen
<1>2. /\ log[f] # <<>> /\ a.state # "completed" /\ a \in Activity
      /\ a.attempts <= MaxAttempts[a.input.kind]
      /\ k \in 1..3 /\ a.input = Wanted(code, k)
  BY <1>1, LatestIs
<1>3. /\ k = 1 => result = code /\ code \in redeemed'
      /\ k = 3 => code \in stored'
  <2>1. k = 1 => a.input = [kind |-> "Exchange", code |-> code]
    BY <1>2 DEF Wanted
  <2>2. k = 3 => a.input = [kind |-> "StoreTokens", tokens |-> code]
    BY <1>2 DEF Wanted
  <2> QED
    BY <2>1, <2>2
<1> HIDE DEF a, k, code
<1>4. Continues(code, k, a, b, redeemed', stored')
  <2>1. result \in {NoResult, "identity", "stored"} \cup Requests
    OBVIOUS
  <2>2. /\ b.state = "completed" /\ b.input = a.input /\ b.attempts = a.attempts
        /\ b.result = result /\ b \in Activity
    BY <1>2, <2>1 DEF Activity
  <2> HIDE DEF b
  <2> QED
    BY <1>2, <1>3, <2>2 DEF Continues, Done
<1> HIDE DEF b
<1> QED
  BY <1>1, <1>2, <1>4, LatestStep DEF a, k, code

LEMMA FailedAttemptStep ==
    ASSUME FlowsInv, NEW f \in Flows, IsOpen(f), NEW type \in ErrorTypes, AttemptFails(f, type),
           UNCHANGED <<flow, local>>,
           redeemed \subseteq redeemed', redeemed' \subseteq Requests,
           stored \subseteq stored', stored' \subseteq Requests
    PROVE  FlowsInv' /\ \A g \in Flows : flow'[g].signals = flow[g].signals
<1> DEFINE a == Latest(f)
           k == Len(log[f])
           code == Head(flow[f].signals).code
           b == [a EXCEPT !.state = IF Retried(a, type) THEN "scheduled" ELSE "failed",
                          !.error = type]
<1>1. Pending(f, "running") /\ Becomes(f, b) /\ flow[f].state # "completed"
  BY DEF AttemptFails, IsOpen
<1>2. /\ log[f] # <<>> /\ a.state # "completed" /\ a \in Activity
      /\ a.attempts <= MaxAttempts[a.input.kind]
  BY <1>1, LatestIs
<1> HIDE DEF a
<1>3. Retried(a, type) => a.attempts < MaxAttempts[a.input.kind]
  BY DEF Retried
<1>4. Continues(code, k, a, b, redeemed', stored')
  <2>1. /\ b.state = IF Retried(a, type) THEN "scheduled" ELSE "failed"
        /\ b.input = a.input /\ b.attempts = a.attempts /\ b \in Activity
    BY <1>2 DEF Activity
  <2> HIDE DEF b
  <2> QED
    BY <1>2, <1>3, <2>1 DEF Continues, Done
<1> HIDE DEF b
<1> QED
  BY <1>1, <1>2, <1>4, LatestStep DEF a

LEMMA ActivityEndsStep ==
    ASSUME FlowsInv, NEW f \in Flows, ActivityEnds(f)
    PROVE  FlowsInv' /\ \A g \in Flows : flow'[g].signals = flow[g].signals
<1>0. redeemed \subseteq Requests /\ stored \subseteq Requests
      /\ {"ConfigurationError", "Rejected", "Timeout"} \subseteq ErrorTypes
  BY OAuthKindsAssumption DEF FlowsInv
<1>1. ASSUME NEW kind, Attempting(f, kind)
      PROVE  /\ IsOpen(f) /\ Latest(f).input.kind = kind /\ Latest(f).input \in Command
             /\ kind = "Exchange" => Latest(f).input.code \in Requests
             /\ kind = "StoreTokens" => Latest(f).input.tokens \in Requests
  <2>1. IsOpen(f) /\ Pending(f, "running") /\ Latest(f).input.kind = kind
    BY <1>1 DEF Attempting
  <2>2. Latest(f).input \in Command
    BY <2>1, LatestIs DEF Activity
  <2> QED
    BY <2>1, <2>2 DEF Command
<1>2. CASE Redeems(f)
  <2>1. /\ Attempting(f, "Exchange") /\ UNCHANGED <<flow, local, stored>>
        /\ redeemed' = redeemed \cup {Latest(f).input.code}
    BY <1>2 DEF Redeems
  <2>2. /\ redeemed \subseteq redeemed' /\ redeemed' \subseteq Requests
        /\ Latest(f).input.code \in redeemed' /\ Latest(f).input.code \in Requests
        /\ stored \subseteq stored' /\ stored' \subseteq Requests
    BY <1>0, <1>1, <2>1
  <2>3. CASE AttemptSucceeds(f, Latest(f).input.code)
    BY <1>1, <2>1, <2>2, <2>3, SucceedsStep
  <2>4. CASE AttemptFails(f, "Timeout")
    BY <1>0, <1>1, <2>1, <2>2, <2>4, FailedAttemptStep
  <2> QED
    BY <1>2, <2>3, <2>4 DEF Redeems
<1>3. CASE RedeemRejected(f)
  <2>1. /\ Attempting(f, "Exchange") /\ UNCHANGED <<flow, local, redeemed, stored>>
        /\ AttemptFails(f, "Rejected")
    BY <1>3 DEF RedeemRejected
  <2> QED
    BY <1>0, <1>1, <2>1, FailedAttemptStep
<1>4. CASE Identifies(f)
  <2>1. /\ Attempting(f, "Whoami") /\ UNCHANGED <<flow, local, redeemed, stored>>
        /\ AttemptSucceeds(f, "identity")
    BY <1>4 DEF Identifies
  <2> QED
    BY <1>0, <1>1, <2>1, SucceedsStep
<1>5. CASE Puts(f)
  <2>1. /\ Attempting(f, "StoreTokens") /\ UNCHANGED <<flow, local, redeemed>>
        /\ stored' = stored \cup {Latest(f).input.tokens}
    BY <1>5 DEF Puts
  <2>2. /\ stored \subseteq stored' /\ stored' \subseteq Requests
        /\ Latest(f).input.tokens \in stored'
        /\ redeemed \subseteq redeemed' /\ redeemed' \subseteq Requests
    BY <1>0, <1>1, <2>1
  <2>3. CASE AttemptSucceeds(f, "stored")
    BY <1>1, <2>1, <2>2, <2>3, SucceedsStep
  <2>4. CASE AttemptFails(f, "Timeout")
    BY <1>0, <1>1, <2>1, <2>2, <2>4, FailedAttemptStep
  <2> QED
    BY <1>5, <2>3, <2>4 DEF Puts
<1>6. ASSUME NEW type \in ErrorTypes, ActivityErrs(f, type)
      PROVE  FlowsInv' /\ \A g \in Flows : flow'[g].signals = flow[g].signals
  <2>1. /\ IsOpen(f) /\ AttemptFails(f, type) /\ UNCHANGED <<flow, local, redeemed, stored>>
    BY <1>6 DEF ActivityErrs
  <2> QED
    BY <1>0, <2>1, FailedAttemptStep
<1> QED
  BY <1>2, <1>3, <1>4, <1>5, <1>6 DEF ActivityEnds

-----------------------------------------------------------------------------
(* The handlers and the mapper *)

\* Where only the flows themselves go on.
LEMMA HandlersKept ==
    ASSUME HandlersInv, UNCHANGED <<starter, mapper, request, restarts>>,
           \A g \in Flows : flow[g].signals # <<>> => flow'[g].signals # <<>>
    PROVE  HandlersInv'
<1>1. ASSUME NEW r \in Requests, request[r].state # Stray, request[r].pc = "signalled"
      PROVE  flow'[request[r].state].signals # <<>>
  <2>1. request[r].state \in Flows
    BY <1>1 DEF HandlersInv, Callbacks
  <2> QED
    BY <1>1, <2>1 DEF HandlersInv
<1> QED
  BY <1>1 DEF HandlersInv

\* The mapper has the State from before the flow exists until StartFlow has failed.
LEMMA StartFlowHandlers ==
    ASSUME HandlersInv, NEW f \in Flows, StartFlow(f),
           \A g \in Flows : flow'[g].signals = flow[g].signals
    PROVE  HandlersInv'
<1>1. /\ starter \in [Flows -> {"idle", "mapped", "unmapping", "started", "failed", "gone"}]
      /\ mapper \subseteq Flows /\ restarts \in Nat /\ request \in [Requests -> Callbacks]
      /\ \A r \in Requests : request[r].state # Stray =>
            /\ starter[request[r].state] = "started"
            /\ request[r].pc = "signalled" => flow[request[r].state].signals # <<>>
      /\ \A g \in Flows : restarts = 0 =>
            /\ starter[g] = "mapped" => g \in mapper
            /\ starter[g] = "started" /\ flow[g].signals = <<>> => g \in mapper
  BY DEF HandlersInv
<1>2. PICK pc \in {"mapped", "unmapping", "started", "failed"} :
          /\ starter' = [starter EXCEPT ![f] = pc] /\ starter[f] # "started"
          /\ mapper' \subseteq Flows
          /\ \A g \in Flows \ {f} : g \in mapper => g \in mapper'
          /\ pc = "mapped" => f \in mapper'
          /\ pc = "started" => starter[f] = "mapped" /\ mapper' = mapper
          /\ UNCHANGED <<request, restarts>>
  <2>1. CASE Refuse(f)
    BY <1>1, <2>1 DEF Refuse, StarterBecomes
  <2>2. ASSUME NEW verifier \in BOOLEAN, PutState(f, verifier)
        PROVE  /\ starter' = [starter EXCEPT ![f] = "mapped"] /\ starter[f] # "started"
               /\ mapper' \subseteq Flows
               /\ \A g \in Flows \ {f} : g \in mapper => g \in mapper'
               /\ f \in mapper' /\ UNCHANGED <<request, restarts>>
    BY <1>1, <2>2 DEF PutState, StarterBecomes
  <2>3. CASE Started(f)
    BY <1>1, <2>3 DEF Started, StarterBecomes
  <2>4. ASSUME NEW opened \in BOOLEAN, StartFails(f, opened)
        PROVE  /\ starter' = [starter EXCEPT ![f] = "unmapping"] /\ starter[f] # "started"
               /\ UNCHANGED <<mapper, request, restarts>>
    BY <1>1, <2>4 DEF StartFails, StarterBecomes
  <2>5. CASE DeleteOnFailure(f)
    BY <1>1, <2>5 DEF DeleteOnFailure, StarterBecomes
  <2> QED
    BY <1>1, <2>1, <2>2, <2>3, <2>4, <2>5 DEF StartFlow
<1>3. /\ starter' \in [Flows -> {"idle", "mapped", "unmapping", "started", "failed", "gone"}]
      /\ starter'[f] = pc /\ \A g \in Flows \ {f} : starter'[g] = starter[g]
  BY <1>1, <1>2
<1>4. ASSUME NEW r \in Requests, request'[r].state # Stray
      PROVE  /\ starter'[request'[r].state] = "started"
             /\ request'[r].pc = "signalled" => flow'[request'[r].state].signals # <<>>
  <2>1. request[r].state \in Flows /\ request' = request /\ request[r].state # Stray
    BY <1>1, <1>2, <1>4 DEF Callbacks
  <2>2. starter[request[r].state] = "started" /\ request[r].state # f
    BY <1>1, <1>2, <2>1
  <2> QED
    BY <1>1, <1>3, <2>1, <2>2
<1>5. ASSUME NEW g \in Flows, restarts' = 0
      PROVE  /\ starter'[g] = "mapped" => g \in mapper'
             /\ starter'[g] = "started" /\ flow'[g].signals = <<>> => g \in mapper'
  <2>1. CASE g = f
    BY <1>1, <1>2, <1>3, <1>5, <2>1
  <2>2. CASE g # f
    BY <1>1, <1>2, <1>3, <1>5, <2>2
  <2> QED
    BY <2>1, <2>2
<1> QED
  BY <1>1, <1>2, <1>3, <1>4, <1>5 DEF HandlersInv

\* A handler takes a State from the mapper only after its flow was signalled.
LEMMA HandlerStep ==
    ASSUME IInv, NEW r \in Requests, Handler(r)
    PROVE  IInv'
<1>1. /\ starter \in [Flows -> {"idle", "mapped", "unmapping", "started", "failed", "gone"}]
      /\ mapper \subseteq Flows /\ restarts \in Nat /\ request \in [Requests -> Callbacks]
      /\ \A q \in Requests : request[q].state # Stray =>
            /\ starter[request[q].state] = "started"
            /\ request[q].pc = "signalled" => flow[request[q].state].signals # <<>>
      /\ \A g \in Flows : restarts = 0 =>
            /\ starter[g] = "mapped" => g \in mapper
            /\ starter[g] = "started" /\ flow[g].signals = <<>> => g \in mapper
      /\ FlowsInv
  BY DEF IInv, HandlersInv
<1>2. ASSUME NEW c \in Callbacks, request' = [request EXCEPT ![r] = c],
             UNCHANGED <<starter, restarts>>, FlowsInv',
             \A g \in Flows : flow[g].signals # <<>> => flow'[g].signals # <<>>,
             c.state # Stray => /\ starter[c.state] = "started"
                                /\ c.pc = "signalled" => flow'[c.state].signals # <<>>,
             mapper' \subseteq mapper,
             \A g \in mapper \ mapper' : starter[g] = "started" /\ flow[g].signals # <<>>
      PROVE  IInv'
  <2>1. /\ request' \in [Requests -> Callbacks] /\ request'[r] = c
        /\ \A q \in Requests \ {r} : request'[q] = request[q]
    BY <1>1, <1>2
  <2>2. ASSUME NEW q \in Requests, request'[q].state # Stray
        PROVE  /\ starter'[request'[q].state] = "started"
               /\ request'[q].pc = "signalled" => flow'[request'[q].state].signals # <<>>
    <3>1. CASE q = r
      BY <1>2, <2>1, <2>2, <3>1
    <3>2. CASE q # r
      <4>1. request'[q] = request[q] /\ request[q].state \in Flows
        BY <1>1, <2>1, <2>2, <3>2 DEF Callbacks
      <4> QED
        BY <1>1, <1>2, <2>2, <4>1
    <3> QED
      BY <3>1, <3>2
  <2>3. ASSUME NEW g \in Flows, restarts' = 0
        PROVE  /\ starter'[g] = "mapped" => g \in mapper'
               /\ starter'[g] = "started" /\ flow'[g].signals = <<>> => g \in mapper'
    <3>1. CASE g \in mapper'
      BY <3>1
    <3>2. CASE g \notin mapper'
      BY <1>1, <1>2, <2>3, <3>2
    <3> QED
      BY <3>1, <3>2
  <2>4. mapper' \subseteq Flows /\ restarts' \in Nat
        /\ starter' \in [Flows -> {"idle", "mapped", "unmapping", "started", "failed", "gone"}]
    BY <1>1, <1>2
  <2> QED
    BY <1>2, <2>1, <2>2, <2>3, <2>4 DEF IInv, HandlersInv
<1>3. request[r] \in Callbacks /\ DOMAIN request = Requests
  BY <1>1
<1>4. ASSUME UNCHANGED <<flow, local, log, redeemed, stored>>
      PROVE  FlowsInv'
  BY <1>1, <1>4 DEF FlowsInv
<1>5. ASSUME NEW pc \in {"found", "signalled", "success", "error", "gone"}
      PROVE  request[r].state # Stray => [request[r] EXCEPT !.pc = pc] \in Callbacks
  BY <1>3, <1>5 DEF Callbacks
<1>6. ASSUME NEW f \in Flows, NEW code \in CodesFor(r, f), Arrives(r, f, code)
      PROVE  IInv'
  <2> DEFINE c == [pc |-> "parsed", state |-> f, code |-> code]
  <2>1. code \in Requests
    <3> SUFFICES ASSUME NEW q \in Requests, request[q].state = f
                 PROVE  request[q].code \in Requests
      BY <1>6 DEF CodesFor
    <3>1. request[q] \in Callbacks /\ f # Stray
      BY <1>1, StrayAssumption DEF Flows
    <3> QED
      BY <3>1 DEF Callbacks
  <2>2. c \in Callbacks /\ c.state = f /\ c.pc = "parsed"
    BY <2>1 DEF Callbacks
  <2>3. /\ request' = [request EXCEPT ![r] = c] /\ starter[f] = "started"
        /\ UNCHANGED <<starter, mapper, flow, local, redeemed, stored, restarts, log>>
    BY <1>6 DEF Arrives
  <2> HIDE DEF c
  <2> QED
    BY <1>2, <1>4, <2>2, <2>3
<1>7. CASE ArrivesWithError(r)
  <2> DEFINE c == [request[r] EXCEPT !.pc = "error"]
  <2>1. /\ request' = [request EXCEPT ![r] = c] /\ request[r].pc = "none"
        /\ UNCHANGED <<starter, mapper, flow, local, redeemed, stored, restarts, log>>
    BY <1>7 DEF ArrivesWithError, RequestBecomes
  <2>2. c \in Callbacks /\ c.state = Stray
    BY <1>3, <2>1 DEF Callbacks
  <2> HIDE DEF c
  <2> QED
    BY <1>2, <1>4, <2>1, <2>2
<1>8. ASSUME NEW pc \in {"parsed", "found", "signalled"}, request[r].pc = pc
      PROVE  /\ request[r].state \in Flows /\ request[r].code \in Requests
             /\ request[r].state # Stray /\ starter[request[r].state] = "started"
             /\ pc = "signalled" => flow[request[r].state].signals # <<>>
  <2>1. request[r].state \in Flows /\ request[r].code \in Requests
    BY <1>3, <1>8 DEF Callbacks
  <2>2. request[r].state # Stray
    BY <2>1, StrayAssumption DEF Flows
  <2> QED
    BY <1>1, <1>8, <2>1, <2>2
<1>9. CASE Lookup(r)
  <2> DEFINE c == [request[r] EXCEPT !.pc = IF request[r].state \in mapper THEN "found"
                                                                           ELSE "error"]
  <2>1. /\ request' = [request EXCEPT ![r] = c] /\ request[r].pc = "parsed"
        /\ UNCHANGED <<starter, mapper, flow, local, redeemed, stored, restarts, log>>
    BY <1>9 DEF Lookup, RequestBecomes
  <2>2. c \in Callbacks /\ c.state = request[r].state /\ c.pc # "signalled"
    BY <1>3, <1>5, <1>8, <2>1 DEF Callbacks
  <2> HIDE DEF c
  <2> QED
    BY <1>2, <1>4, <1>8, <2>1, <2>2
<1>10. ASSUME request[r].pc = "found",
              Signalled(request[r].state, request[r].code, request[r].state),
              UNCHANGED <<local, log, redeemed, stored>>
       PROVE  /\ FlowsInv' /\ flow'[request[r].state].signals # <<>>
              /\ \A g \in Flows : flow[g].signals # <<>> => flow'[g].signals # <<>>
  <2>1. request[r].state \in Flows /\ request[r].code \in Requests
    BY <1>8, <1>10
  <2>2. [code |-> request[r].code, state |-> request[r].state] \in Signals
    BY <2>1 DEF Signals
  <2> QED
    BY <1>1, <1>10, <2>1, <2>2, SignalStep
<1>11. CASE Signal(r)
  <2> DEFINE c == [request[r] EXCEPT !.pc = "signalled"]
  <2>1. /\ request' = [request EXCEPT ![r] = c] /\ request[r].pc = "found"
        /\ Signalled(request[r].state, request[r].code, request[r].state)
        /\ UNCHANGED <<starter, mapper, local, redeemed, stored, restarts, log>>
    BY <1>11 DEF Signal, RequestBecomes
  <2>2. c \in Callbacks /\ c.state = request[r].state
    BY <1>3, <1>5, <1>8, <2>1 DEF Callbacks
  <2> HIDE DEF c
  <2> QED
    BY <1>2, <1>8, <1>10, <2>1, <2>2
<1>12. CASE SignalFails(r)
  <2> DEFINE c == [request[r] EXCEPT !.pc = "error"]
  <2>1. /\ request' = [request EXCEPT ![r] = c] /\ request[r].pc = "found"
        /\ UNCHANGED <<starter, mapper, local, redeemed, stored, restarts, log>>
        /\ UNCHANGED flow \/ Signalled(request[r].state, request[r].code, request[r].state)
    BY <1>12 DEF SignalFails, RequestBecomes
  <2>2. c \in Callbacks /\ c.state = request[r].state /\ c.pc = "error"
    BY <1>3, <1>5, <1>8, <2>1 DEF Callbacks
  <2> HIDE DEF c
  <2>3. FlowsInv' /\ \A g \in Flows : flow[g].signals # <<>> => flow'[g].signals # <<>>
    BY <1>4, <1>10, <2>1
  <2> QED
    BY <1>2, <1>8, <2>1, <2>2, <2>3
<1>13. CASE DeleteState(r)
  <2> DEFINE c == [request[r] EXCEPT !.pc = "success"]
  <2>1. /\ request' = [request EXCEPT ![r] = c] /\ request[r].pc = "signalled"
        /\ mapper' = mapper \ {request[r].state}
        /\ UNCHANGED <<starter, flow, local, redeemed, stored, restarts, log>>
    BY <1>13 DEF DeleteState, RequestBecomes
  <2>2. c \in Callbacks /\ c.state = request[r].state /\ c.pc = "success"
    BY <1>3, <1>5, <1>8, <2>1 DEF Callbacks
  <2> HIDE DEF c
  <2> QED
    BY <1>2, <1>4, <1>8, <2>1, <2>2
<1> QED
  BY <1>6, <1>7, <1>9, <1>11, <1>12, <1>13 DEF Handler

\* With the API server go the mapper and the requests it was handling.
LEMMA RestartStep ==
    ASSUME IInv, Restart
    PROVE  IInv'
<1>1. /\ starter \in [Flows -> {"idle", "mapped", "unmapping", "started", "failed", "gone"}]
      /\ restarts \in Nat /\ request \in [Requests -> Callbacks]
      /\ \A q \in Requests : request[q].state # Stray => starter[request[q].state] = "started"
  BY DEF IInv, HandlersInv
<1>2. /\ mapper' = {} /\ restarts' = restarts + 1
      /\ starter' = [f \in Flows |-> IF starter[f] \in {"mapped", "unmapping"}
                                     THEN "gone" ELSE starter[f]]
      /\ request' = [r \in Requests |->
                        IF request[r].pc \in {"parsed", "found", "signalled"}
                        THEN [request[r] EXCEPT !.pc = "gone"] ELSE request[r]]
      /\ UNCHANGED <<flow, local, redeemed, stored, log>>
  BY DEF Restart
<1>3. FlowsInv'
  BY <1>2 DEF IInv, FlowsInv
<1>4. restarts' \in Nat /\ restarts' # 0
  BY <1>1, <1>2
<1>5. starter' \in [Flows -> {"idle", "mapped", "unmapping", "started", "failed", "gone"}]
  BY <1>1, <1>2
<1>6. ASSUME NEW r \in Requests
      PROVE  /\ request'[r] \in Callbacks /\ request'[r].state = request[r].state
             /\ request'[r].pc # "signalled"
  <2>1. request[r] \in Callbacks
    BY <1>1
  <2>2. CASE request[r].pc \in {"parsed", "found", "signalled"}
    <3>1. request'[r] = [request[r] EXCEPT !.pc = "gone"]
      BY <1>2, <2>2
    <3> QED
      BY <2>1, <2>2, <3>1 DEF Callbacks
  <2>3. CASE request[r].pc \notin {"parsed", "found", "signalled"}
    BY <1>2, <2>1, <2>3
  <2> QED
    BY <2>2, <2>3
<1>7. request' \in [Requests -> Callbacks]
  BY <1>2, <1>6
<1>8. ASSUME NEW r \in Requests, request'[r].state # Stray
      PROVE  starter'[request'[r].state] = "started"
  <2>1. request[r].state \in Flows /\ starter[request[r].state] = "started"
    BY <1>1, <1>6, <1>8 DEF Callbacks
  <2> QED
    BY <1>2, <1>6, <2>1
<1> QED
  BY <1>2, <1>3, <1>4, <1>5, <1>6, <1>7, <1>8 DEF IInv, HandlersInv

LEMMA StraySignalStep ==
    ASSUME IInv, NEW f \in Flows, StraySignal(f)
    PROVE  IInv'
<1>1. /\ Signalled(f, NoCode, Stray)
      /\ UNCHANGED <<starter, mapper, request, local, redeemed, stored, restarts, log>>
  BY DEF StraySignal
<1>2. [code |-> NoCode, state |-> Stray] \in Signals
  BY DEF Signals
<1> QED
  BY <1>1, <1>2, SignalStep, HandlersKept DEF IInv

-----------------------------------------------------------------------------
(* The specification *)

LEMMA InitInv == Init => IInv
<1> SUFFICES ASSUME Init PROVE IInv
  OBVIOUS
<1>1. <<>> \in Seq(Activity) /\ <<>> \in Seq(Signals) /\ Len(<<>>) = 0
  BY EmptySeq
<1>2. NotStarted \in Records /\ FromTheTop \in Locals /\ NotStarted.state = "none"
  BY <1>1 DEF NotStarted, Records, FromTheTop, Locals
<1>3. ASSUME NEW f \in Flows, NEW code
      PROVE  HistoryInv(code, <<>>, {}, {}) /\ Place(code, FromTheTop, <<>>)
  <2>1. Progress(<<>>) /\ Trades(code, <<>>, {}, {})
    BY <1>1 DEF Progress, Trades
  <2>2. Place(code, FromTheTop, <<>>)
    BY <1>1 DEF Place, FromTheTop
  <2> QED
    BY <1>1, <2>1, <2>2 DEF HistoryInv
<1>4. \A f \in Flows : FlowInv(f, NotStarted, FromTheTop, <<>>, {}, {})
  BY <1>2, <1>3 DEF FlowInv, FromTheTop
<1>5. FlowsInv
  BY <1>4 DEF Init, FlowsInv, NoActivities, Flows
<1>6. NoRequest \in Callbacks /\ NoRequest.state = Stray
  BY DEF NoRequest, Callbacks
<1> QED
  BY <1>5, <1>6 DEF Init, IInv, HandlersInv

LEMMA Invariance == IInv /\ [Next]_vars => IInv'
<1> SUFFICES ASSUME IInv, [Next]_vars PROVE IInv'
  OBVIOUS
<1>1. CASE UNCHANGED vars
  BY <1>1 DEF IInv, HandlersInv, FlowsInv, vars
<1>2. CASE Restart
  BY <1>2, RestartStep
<1>3. ASSUME NEW r \in Requests, Handler(r)
      PROVE  IInv'
  BY <1>3, HandlerStep
<1>4. ASSUME NEW f \in Flows, FlowStep(f)
      PROVE  IInv'
  <2>1. CASE StartFlow(f)
    BY <2>1, StartFlowStep, StartFlowHandlers DEF IInv
  <2>2. CASE StraySignal(f)
    BY <2>2, StraySignalStep
  <2>3. CASE CodeStep(f)
    <3>1. UNCHANGED <<starter, mapper, request, restarts>>
      BY <2>3 DEF CodeStep, Begin, BeginFails, AcceptCallback, StateMismatch, CallbackTimeout,
         Exchange, Exchanged, Whoami, Identified, StoreTokens, Completes, ActivityFailed,
         Fails, Closes, Execute, Goes
    <3> QED
      BY <2>3, <3>1, CodeSteps, HandlersKept DEF IInv
  <2>4. CASE TimerFires(f)
    BY <2>4, TimerStep, HandlersKept DEF IInv, TimerFires
  <2>5. CASE WorkerLost(f)
    BY <2>5, WorkerLostStep, HandlersKept DEF IInv, WorkerLost
  <2>6. CASE StartActivity(f)
    BY <2>6, StartActivityStep, HandlersKept DEF IInv, StartActivity
  <2>7. CASE ActivityEnds(f)
    <3>1. UNCHANGED <<starter, mapper, request, restarts>>
      BY <2>7 DEF ActivityEnds, Redeems, RedeemRejected, Identifies, Puts, ActivityErrs
    <3> QED
      BY <2>7, <3>1, ActivityEndsStep, HandlersKept DEF IInv
  <2> QED
    BY <1>4, <2>1, <2>2, <2>3, <2>4, <2>5, <2>6, <2>7 DEF FlowStep
<1> QED
  BY <1>1, <1>2, <1>3, <1>4 DEF Next

\* The inductive invariant: what the mapper, the callbacks being handled and the
\* workflow know of a flow fit together (start.go:95-178, callback.go:58-127,
\* workflow.go:103-222).
THEOREM Inductive == Spec => []IInv
BY InitInv, Invariance, PTL DEF Spec

LEMMA Typed == IInv => TypeOK
<1> SUFFICES ASSUME IInv PROVE TypeOK
  OBVIOUS
<1>1. ASSUME NEW f \in Flows
      PROVE  /\ flow[f].state \in {"none", "open", "completed", "failed"}
             /\ flow[f].timer \in {"unset", "running", "fired"}
             /\ flow[f].tokens \in Requests \cup {NoCode}
             /\ local[f].pc \in {"begin", "select", "exchange", "exchanging", "whoami",
                                 "asking", "store", "storing", "stuck", "end"}
             /\ local[f].issued \in 0..3
  <2>1. flow[f] \in Records /\ local[f] \in Locals
    BY FlowRecord DEF IInv
  <2> QED
    BY <2>1 DEF Records, Locals
<1>2. ASSUME NEW r \in Requests
      PROVE  /\ request[r].pc \in {"none", "parsed", "found", "signalled", "success", "error",
                                   "gone"}
             /\ request[r].state \in Flows \cup {Stray}
             /\ request[r].code \in Requests \cup {NoCode}
  <2>1. request[r] \in Callbacks
    BY DEF IInv, HandlersInv
  <2> QED
    BY <2>1 DEF Callbacks
<1>3. LogTypeOK
  <2> SUFFICES ASSUME NEW f \in Flows, NEW k \in 1..Len(log[f])
               PROVE  LET a == log[f][k] IN
                      /\ a.input.kind \in Kinds
                      /\ a.state \in {"scheduled", "running", "completed", "failed"}
                      /\ a.attempts \in 0..MaxAttempts[a.input.kind]
                      /\ a.error \in ErrorTypes \cup {NoError}
    BY DEF LogTypeOK, Flows
  <2> DEFINE a == log[f][k]
  <2>1. a \in Activity /\ a.attempts <= MaxAttempts[a.input.kind]
    BY FlowRecord, ElementOfSeq DEF IInv, FlowInv, HistoryInv, Progress
  <2> HIDE DEF a
  <2>2. a.input.kind \in Kinds
    BY <2>1, OAuthKindsAssumption DEF Activity, Command
  <2>3. MaxAttempts[a.input.kind] \in Nat \ {0} /\ a.attempts \in Nat
    BY <2>1, <2>2, PolicyAssumption DEF Activity
  <2>4. a.attempts \in 0..MaxAttempts[a.input.kind]
    BY <2>1, <2>3
  <2> QED
    BY <2>1, <2>2, <2>4 DEF Activity, a
<1> QED
  BY <1>1, <1>2, <1>3 DEF TypeOK, IInv, HandlersInv, FlowsInv

LEMMA FirstCounted == IInv => FirstCallbackCounts
<1> SUFFICES ASSUME IInv, NEW f \in Flows
             PROVE  /\ local[f].pc # "stuck"
                    /\ log[f] # <<>> =>
                          /\ log[f][1].input = [kind |-> "Exchange", code |-> Callback(f).code]
                          /\ Callback(f).state = f
  BY Typed DEF FirstCallbackCounts
<1>1. /\ FlowInv(f, flow[f], local[f], log[f], redeemed, stored)
      /\ local[f] \in Locals /\ Len(log[f]) \in 0..3
  BY FlowRecord DEF IInv
<1>2. ASSUME log[f] # <<>>
      PROVE  /\ log[f][1].input = [kind |-> "Exchange", code |-> Callback(f).code]
             /\ Callback(f).state = f
  <2>1. 1 \in 1..Len(log[f])
    <3>1. Len(log[f]) # 0
      BY <1>1, <1>2, KnownOf
    <3> QED
      BY <1>1, <3>1
  <2> QED
    BY <1>1, <1>2, <2>1 DEF FlowInv, HistoryInv, Trades, Wanted, CalledBack, Callback
<1> QED
  BY <1>1, <1>2 DEF Locals

LEMMA Stored == IInv => SessionIsStored
<1> SUFFICES ASSUME IInv, NEW f \in Flows, flow[f].state = "completed"
             PROVE  flow[f].tokens = Callback(f).code /\ flow[f].tokens \in redeemed \cap stored
  BY DEF SessionIsStored
<1>1. FlowInv(f, flow[f], local[f], log[f], redeemed, stored)
  BY FlowRecord DEF IInv
<1>2. Len(log[f]) = 3 /\ log[f][3].state = "completed" /\ flow[f].tokens = Callback(f).code
  BY <1>1 DEF FlowInv, Callback
<1>3. log[f][1].state = "completed" /\ 1 \in 1..Len(log[f]) /\ 3 \in 1..Len(log[f])
  BY <1>1, <1>2 DEF FlowInv, HistoryInv, Progress
<1> QED
  BY <1>1, <1>2, <1>3 DEF FlowInv, HistoryInv, Trades, Done, Callback

-----------------------------------------------------------------------------
(* The theorems *)

\* However many callbacks arrive, and whichever worker replays the workflow, a
\* flow redeems the code of the first callback alone, one with its own State, and
\* no replay meets another history than its own (workflow.go:137-164).
THEOREM FirstCallbackCountsHolds == Spec => []FirstCallbackCounts
BY Inductive, FirstCounted, PTL

\* Until the API server is restarted, the browser that was sent to the provider
\* finds its flow until a callback has reached it (start.go:131-134,
\* callback.go:90-100).
THEOREM StateIsKeptForTheCallbackHolds == Spec => []StateIsKeptForTheCallback
<1>1. IInv => StateIsKeptForTheCallback
  BY DEF IInv, HandlersInv, StateIsKeptForTheCallback
<1> QED
  BY <1>1, Inductive, PTL

\* A session is reported only for tokens that were bought with the code of the
\* flow's callback and are in the store (workflow.go:203-222).
THEOREM SessionIsStoredHolds == Spec => []SessionIsStored
BY Inductive, Stored, PTL

=============================================================================
