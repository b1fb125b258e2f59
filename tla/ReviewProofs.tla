----------------------------- MODULE ReviewProofs -----------------------------
(***************************************************************************)
(* For any number of analyzers, attempts, outages and pieces of an answer: *)
(* the invariants of Review.                                               *)
(*                                                                         *)
(* What a workflow's code has read, and what a closed run says, is related *)
(* to the record a of its activities by predicates of these values, so     *)
(* that the lemmas about them mention no variable.                         *)
(***************************************************************************)
EXTENDS Review, SequenceTheorems, TLAPS

-----------------------------------------------------------------------------
(* The values *)

\* The nodes in the order in which the code reads their results.
Order == <<Parse>> \o Analyzers \o <<Synthesize>>

Activity ==
    [state : {"none", "scheduled", "running", "completed", "failed", "dropped"},
     attempts : 0..MaxAttempts, input : Seq(Text), result : Text]

Call == [on : BOOLEAN, sent : 0..TextLength, got : 0..TextLength, end : Ends]

Executions ==
    [state : {"none", "open", "completed", "failed"}, diff : {"none", "given", "empty"},
     cause : Nodes \cup {"none", "InvalidInput"}, output : Seq(Text)]

Code ==
    [pc : {"start", "parsing", "analyzing", "synthesizing", "end"}, outs : Seq(Text)]

-----------------------------------------------------------------------------
(* The inductive invariant *)

\* An analyzer is given the parsed text on record, the synthesis the analyzers'.
Inputs(a) ==
    /\ \A n \in Range(Analyzers) : a[n].state # "none" =>
          a[Parse].state = "completed" /\ a[n].input = <<a[Parse].result>>
    /\ a[Synthesize].state # "none" =>
          /\ \A n \in Range(Analyzers) : a[n].state = "completed"
          /\ a[Synthesize].input = [i \in 1..Len(Analyzers) |-> a[Analyzers[i]].result]

\* An attempt is left for what is scheduled; a result is whole or was cut.
Tried(x) ==
    /\ x.state = "scheduled" => x.attempts < MaxAttempts
    /\ x.state = "completed" => x.result.len = TextLength \/ x.result.end = "eof"

RecordInv(a) ==
    a \in [Nodes -> Activity] /\ Inputs(a) /\ \A n \in Nodes : Tried(a[n])

\* The first results were completed and read in order.
ReadInOrder(outs, a) ==
    /\ Len(outs) <= Len(Order)
    /\ \A i \in 1..Len(outs) : /\ a[Order[i]].state = "completed"
                               /\ outs[i] = a[Order[i]].result

CodeInv(w, a) ==
    /\ w \in Code
    /\ w.pc \in {"start", "parsing"} => w.outs = <<>>
    /\ w.pc = "analyzing" => Len(w.outs) \in 1..(1 + Len(Analyzers))
    /\ w.pc = "synthesizing" => Len(w.outs) = 1 + Len(Analyzers)
    /\ ReadInOrder(w.outs, a)

RunInv(r, a) ==
    /\ r \in Executions
    /\ r.state = "completed" => Len(r.output) = Len(Order) /\ ReadInOrder(r.output, a)
    /\ r.state = "failed" /\ r.cause # "InvalidInput" =>
          \E i \in 1..Len(Order) :
              /\ r.cause = Order[i] /\ a[Order[i]].state = "failed"
              /\ \A j \in 1..(i - 1) : a[Order[j]].state = "completed"

\* What a stream has given in is at most the answer, all of it once it says so.
CallInv(c, s, x) ==
    /\ c \in Call
    /\ c.on => s # "down" /\ x.state = "running"
    /\ ~c.on => c = NoCall
    /\ c.got <= c.sent /\ c.sent - c.got <= ChanCap
    /\ c.end = "stop" => c.sent = TextLength

ServerInv ==
    /\ server \in {"up", "draining", "down"}
    /\ client \in {"idle", "posting", "knows", "watching", "gone"}
    /\ seen \subseteq EventKinds
    /\ streaming \in BOOLEAN
    /\ outages \in 0..MaxOutages

IInv ==
    /\ ServerInv
    /\ RecordInv(act) /\ CodeInv(wf, act) /\ RunInv(run, act)
    /\ call \in [Nodes -> Call] /\ \A n \in Nodes : CallInv(call[n], server, act[n])

-----------------------------------------------------------------------------
(* Nodes and results *)

LEMMA Given ==
    /\ MaxAttempts \in Nat \ {0} /\ TextLength \in Nat /\ ChanCap \in Nat \ {0}
    /\ Parse # Synthesize /\ Parse \notin Range(Analyzers) /\ Synthesize \notin Range(Analyzers)
    /\ Analyzers \in Seq(Range(Analyzers)) /\ "none" \notin Nodes
    /\ Parse \in Nodes /\ Synthesize \in Nodes /\ Range(Analyzers) \subseteq Nodes
    /\ NoText \in Text
BY ReviewAssumption DEF Nodes, NoText, Text, Ends

LEMMA OrderShape ==
    /\ Len(Analyzers) \in Nat /\ DOMAIN Analyzers = 1..Len(Analyzers)
    /\ Len(Order) = Len(Analyzers) + 2
    /\ Order[1] = Parse /\ Order[Len(Analyzers) + 2] = Synthesize
    /\ \A i \in 1..Len(Analyzers) : Order[i + 1] = Analyzers[i] /\ Analyzers[i] \in Range(Analyzers)
    /\ \A i \in 1..Len(Order) : Order[i] \in Nodes
<1> DEFINE n == Len(Analyzers)  S == Nodes
<1>1. Analyzers \in Seq(S) /\ <<Parse>> \in Seq(S) /\ <<Synthesize>> \in Seq(S)
  BY Given
<1>2. n \in Nat /\ DOMAIN Analyzers = 1..n /\ \A i \in 1..n : Analyzers[i] \in Range(Analyzers)
  BY <1>1 DEF Range
<1>3. /\ <<Parse>> \o Analyzers \in Seq(S) /\ Len(<<Parse>> \o Analyzers) = n + 1
      /\ (<<Parse>> \o Analyzers)[1] = Parse
      /\ \A i \in 1..n : (<<Parse>> \o Analyzers)[i + 1] = Analyzers[i]
  <2>1. /\ <<Parse>> \o Analyzers \in Seq(S) /\ Len(<<Parse>> \o Analyzers) = Len(<<Parse>>) + n
        /\ \A i \in 1..(Len(<<Parse>>) + n) :
              (<<Parse>> \o Analyzers)[i] =
                  IF i <= Len(<<Parse>>) THEN <<Parse>>[i] ELSE Analyzers[i - Len(<<Parse>>)]
    BY <1>1, ConcatProperties
  <2>2. Len(<<Parse>>) = 1 /\ <<Parse>>[1] = Parse
    OBVIOUS
  <2> HIDE DEF n
  <2>3. 1 \in 1..(1 + n) /\ 1 <= 1
    BY <1>2
  <2>4. ASSUME NEW i \in 1..n PROVE (<<Parse>> \o Analyzers)[i + 1] = Analyzers[i]
    <3>1. i + 1 \in 1..(1 + n) /\ ~(i + 1 <= 1) /\ (i + 1) - 1 = i
      BY <1>2
    <3> QED
      BY <2>1, <2>2, <3>1
  <2>5. 1 + n = n + 1
    BY <1>2
  <2> QED
    BY <2>1, <2>2, <2>3, <2>4, <2>5
<1> DEFINE q == <<Parse>> \o Analyzers
<1> HIDE DEF q, n, S
<1>4. /\ Order \in Seq(S) /\ Len(Order) = (n + 1) + 1
      /\ \A i \in 1..(n + 1) : Order[i] = q[i]
      /\ Order[n + 2] = Synthesize
  <2> DEFINE z == <<Synthesize>>
  <2>1. q \in Seq(S) /\ Len(q) = n + 1 /\ z \in Seq(S)
    BY <1>1, <1>3 DEF q
  <2>2. Order = q \o z
    BY DEF Order, q
  <2>3. Len(z) = 1 /\ z[1] = Synthesize
    OBVIOUS
  <2> HIDE DEF z
  <2>4. /\ q \o z \in Seq(S) /\ Len(q \o z) = Len(q) + Len(z)
        /\ \A i \in 1..(Len(q) + Len(z)) :
              (q \o z)[i] = IF i <= Len(q) THEN q[i] ELSE z[i - Len(q)]
    BY <2>1, ConcatProperties
  <2>5. /\ Order \in Seq(S) /\ Len(Order) = (n + 1) + 1
        /\ \A i \in 1..((n + 1) + 1) :
              Order[i] = IF i <= n + 1 THEN q[i] ELSE z[i - (n + 1)]
    BY <2>1, <2>2, <2>3, <2>4
  <2>6. ASSUME NEW i \in 1..(n + 1) PROVE Order[i] = q[i]
    <3>1. i \in 1..((n + 1) + 1) /\ i <= n + 1
      BY <1>2
    <3> QED
      BY <2>5, <3>1
  <2>7. n + 2 \in 1..((n + 1) + 1) /\ ~(n + 2 <= n + 1) /\ (n + 2) - (n + 1) = 1
    BY <1>2
  <2> QED
    BY <2>3, <2>5, <2>6, <2>7
<1>5. Order[1] = Parse /\ \A i \in 1..n : Order[i + 1] = Analyzers[i]
  <2>1. 1 \in 1..(n + 1) /\ \A i \in 1..n : i + 1 \in 1..(n + 1)
    BY <1>2
  <2> QED
    BY <1>3, <1>4, <2>1 DEF q
<1>6. \A i \in 1..Len(Order) : Order[i] \in Nodes
  BY <1>4 DEF S
<1>7. (n + 1) + 1 = n + 2
  BY <1>2
<1> QED
  BY <1>2, <1>4, <1>5, <1>6, <1>7 DEF n

\* What has completed or failed for good stays so.
Keeps(a, b) == \A n \in Nodes : a[n].state \in {"completed", "failed"} => b[n] = a[n]

LEMMA ReadKept ==
    ASSUME NEW a, NEW b, Keeps(a, b), NEW outs \in Seq(Text), ReadInOrder(outs, a)
    PROVE  ReadInOrder(outs, b)
<1>1. \A i \in 1..Len(outs) : i \in 1..Len(Order)
  BY OrderShape DEF ReadInOrder
<1> QED
  BY <1>1, OrderShape DEF ReadInOrder, Keeps

LEMMA CodeKept ==
    ASSUME NEW a, NEW b, Keeps(a, b), NEW w, CodeInv(w, a)
    PROVE  CodeInv(w, b)
<1>1. w.outs \in Seq(Text)
  BY DEF CodeInv, Code
<1> QED
  BY <1>1, ReadKept DEF CodeInv

LEMMA RunKept ==
    ASSUME NEW a, NEW b, Keeps(a, b), NEW r, RunInv(r, a)
    PROVE  RunInv(r, b)
<1>1. r \in Executions /\ r.output \in Seq(Text)
  BY DEF RunInv, Executions
<1>2. r.state = "completed" => Len(r.output) = Len(Order) /\ ReadInOrder(r.output, b)
  BY <1>1, ReadKept DEF RunInv
<1>3. ASSUME r.state = "failed", r.cause # "InvalidInput"
      PROVE  \E i \in 1..Len(Order) :
                 /\ r.cause = Order[i] /\ b[Order[i]].state = "failed"
                 /\ \A j \in 1..(i - 1) : b[Order[j]].state = "completed"
  <2>1. PICK i \in 1..Len(Order) :
            /\ r.cause = Order[i] /\ a[Order[i]].state = "failed"
            /\ \A j \in 1..(i - 1) : a[Order[j]].state = "completed"
    BY <1>3 DEF RunInv
  <2>2. \A j \in 1..(i - 1) : j \in 1..Len(Order)
    BY OrderShape
  <2> QED
    BY <2>1, <2>2, OrderShape DEF Keeps
<1> QED
  BY <1>1, <1>2, <1>3 DEF RunInv

LEMMA ReadNext ==
    ASSUME NEW a, NEW outs \in Seq(Text), ReadInOrder(outs, a), Len(outs) + 1 \in 1..Len(Order),
           NEW n, n = Order[Len(outs) + 1], a[n].state = "completed", a[n].result \in Text
    PROVE  /\ Append(outs, a[n].result) \in Seq(Text)
           /\ Len(Append(outs, a[n].result)) = Len(outs) + 1
           /\ ReadInOrder(Append(outs, a[n].result), a)
<1> DEFINE m == Len(outs)  t == a[n].result  q == Append(outs, t)
<1>1. /\ q \in Seq(Text) /\ Len(q) = m + 1 /\ q[m + 1] = t /\ m \in Nat
      /\ \A i \in 1..m : q[i] = outs[i]
  BY AppendProperties, LenProperties
<1>2. \A i \in 1..m : a[Order[i]].state = "completed" /\ outs[i] = a[Order[i]].result
  BY DEF ReadInOrder
<1>3. Order[m + 1] = n /\ m + 1 \in 1..Len(Order) /\ Len(Order) \in Nat
  BY OrderShape
<1> HIDE DEF m, q
<1>4. ASSUME NEW i \in 1..(m + 1)
      PROVE  a[Order[i]].state = "completed" /\ q[i] = a[Order[i]].result
  <2>1. i \in 1..m \/ i = m + 1
    BY <1>1
  <2> QED
    BY <1>1, <1>2, <1>3, <2>1
<1>5. m + 1 <= Len(Order)
  BY <1>1, <1>3
<1> QED
  BY <1>1, <1>4, <1>5 DEF ReadInOrder, m, q, t

-----------------------------------------------------------------------------
(* The steps of the activities *)

LEMMA Idle ==
    /\ NotScheduled \in Activity /\ NoCall \in Call /\ NewCall \in Call
    /\ NotScheduled.state = "none" /\ ~NoCall.on /\ NewCall.on
    /\ NoCall.got = 0 /\ NoCall.sent = 0 /\ NoCall.end = "open"
    /\ NewCall.got = 0 /\ NewCall.sent = 0 /\ NewCall.end = "open"
<1>1. 0 \in 0..MaxAttempts /\ 0 \in 0..TextLength /\ <<>> \in Seq(Text) /\ NoText \in Text
  BY Given
<1>2. NotScheduled \in Activity /\ NotScheduled.state = "none"
  BY <1>1 DEF NotScheduled, Activity
<1>3. NoCall \in Call /\ ~NoCall.on /\ NoCall.got = 0 /\ NoCall.sent = 0 /\ NoCall.end = "open"
  BY <1>1 DEF NoCall, Call, Ends
<1>4. NewCall \in Call /\ NewCall.on /\ NewCall.got = 0 /\ NewCall.sent = 0 /\ NewCall.end = "open"
  <2> HIDE DEF NoCall
  <2> QED
    BY <1>3 DEF NewCall, Call
<1> QED
  BY <1>2, <1>3, <1>4

\* An activity that is due or under way becomes x.
LEMMA OneChanges ==
    ASSUME NEW a, RecordInv(a), NEW n \in Nodes, a[n].state \in {"scheduled", "running"},
           NEW x \in Activity, x.input = a[n].input, x.state # "none", Tried(x),
           NEW b, b = [a EXCEPT ![n] = x]
    PROVE  RecordInv(b) /\ Keeps(a, b)
<1>1. a \in [Nodes -> Activity] /\ Inputs(a) /\ \A m \in Nodes : Tried(a[m])
  BY DEF RecordInv
<1>2. b \in [Nodes -> Activity] /\ b[n] = x /\ \A m \in Nodes \ {n} : b[m] = a[m]
  BY <1>1
<1>3. Keeps(a, b)
  BY <1>2 DEF Keeps
<1>4. \A m \in Nodes : Tried(b[m])
  BY <1>1, <1>2
<1>5. \A m \in Nodes : b[m].input = a[m].input /\ (b[m].state # "none" => a[m].state # "none")
  BY <1>2
<1>6. ASSUME NEW m \in Range(Analyzers), b[m].state # "none"
      PROVE  b[Parse].state = "completed" /\ b[m].input = <<b[Parse].result>>
  <2>1. a[Parse].state = "completed" /\ a[m].input = <<a[Parse].result>>
    BY <1>1, <1>5, <1>6, Given DEF Inputs
  <2>2. b[Parse] = a[Parse]
    BY <1>3, <2>1, Given DEF Keeps
  <2> QED
    BY <1>5, <2>1, <2>2, Given
<1>7. ASSUME b[Synthesize].state # "none"
      PROVE  /\ \A m \in Range(Analyzers) : b[m].state = "completed"
             /\ b[Synthesize].input = [i \in 1..Len(Analyzers) |-> b[Analyzers[i]].result]
  <2>1. /\ \A m \in Range(Analyzers) : a[m].state = "completed"
        /\ a[Synthesize].input = [i \in 1..Len(Analyzers) |-> a[Analyzers[i]].result]
    BY <1>1, <1>5, <1>7, Given DEF Inputs
  <2>2. \A m \in Range(Analyzers) : b[m] = a[m]
    BY <1>3, <2>1, Given DEF Keeps
  <2>3. \A i \in 1..Len(Analyzers) : b[Analyzers[i]] = a[Analyzers[i]]
    BY <2>2, OrderShape
  <2> QED
    BY <1>5, <2>1, <2>2, <2>3, Given
<1> QED
  BY <1>2, <1>3, <1>4, <1>6, <1>7 DEF RecordInv, Inputs

\* A step of an attempt changes its own node's activity and call.
LEMMA NodeStep ==
    ASSUME IInv, NEW n \in Nodes, act[n].state \in {"scheduled", "running"},
           NEW x \in Activity, x.input = act[n].input, x.state # "none", Tried(x),
           NEW c \in Call, CallInv(c, server, x), Sets(n, x, c),
           seen' \subseteq EventKinds, UNCHANGED <<server, client, run, wf, streaming, outages>>
    PROVE  IInv'
<1>1. /\ act \in [Nodes -> Activity] /\ call \in [Nodes -> Call]
      /\ act' = [act EXCEPT ![n] = x] /\ call' = [call EXCEPT ![n] = c]
  BY DEF IInv, RecordInv, Sets
<1>2. RecordInv(act') /\ Keeps(act, act')
  BY <1>1, OneChanges DEF IInv
<1>3. CodeInv(wf, act') /\ RunInv(run, act')
  BY <1>2, CodeKept, RunKept DEF IInv
<1>4. /\ call' \in [Nodes -> Call] /\ call'[n] = c /\ act'[n] = x
      /\ \A m \in Nodes \ {n} : call'[m] = call[m] /\ act'[m] = act[m]
  BY <1>1
<1>5. \A m \in Nodes : CallInv(call'[m], server, act'[m])
  BY <1>4 DEF IInv
<1>6. ServerInv'
  BY DEF IInv, ServerInv
<1> QED
  BY <1>2, <1>3, <1>4, <1>5, <1>6 DEF IInv

LEMMA CallGoesOn ==
    ASSUME IInv, NEW n \in Nodes, NEW c, InCall(n, c), CallInv(c, server, act[n]),
           seen' \subseteq EventKinds
    PROVE  IInv'
<1>1. /\ call[n].on /\ call' = [call EXCEPT ![n] = c]
      /\ UNCHANGED <<server, client, run, wf, act, streaming, outages>>
  BY DEF InCall
<1>2. call \in [Nodes -> Call] /\ c \in Call
  BY DEF IInv, CallInv
<1>3. call' \in [Nodes -> Call] /\ call'[n] = c /\ \A m \in Nodes \ {n} : call'[m] = call[m]
  BY <1>1, <1>2
<1>4. \A m \in Nodes : CallInv(call'[m], server, act[m])
  BY <1>3 DEF IInv
<1>5. ServerInv'
  BY <1>1 DEF IInv, ServerInv
<1> QED
  BY <1>1, <1>3, <1>4, <1>5 DEF IInv

LEMMA Published ==
    ASSUME seen \subseteq EventKinds, NEW id, NEW kind \in EventKinds, Publish(id, kind)
    PROVE  seen' \subseteq EventKinds
BY DEF Publish

\* What the invariant says of one node.
LEMMA OneNode ==
    ASSUME IInv, NEW n \in Nodes
    PROVE  /\ act[n] \in Activity /\ Tried(act[n])
           /\ call[n] \in Call /\ CallInv(call[n], server, act[n])
           /\ seen \subseteq EventKinds
BY DEF IInv, RecordInv, ServerInv

LEMMA CallBounds ==
    ASSUME NEW c, NEW s, NEW x, CallInv(c, s, x)
    PROVE  /\ c \in Call /\ c.sent \in Nat /\ c.got \in Nat /\ c.got <= c.sent
           /\ c.sent <= TextLength /\ c.got <= TextLength /\ c.sent - c.got <= ChanCap
           /\ c.end \in Ends /\ c.on \in BOOLEAN
BY Given DEF CallInv, Call

LEMMA BeginInv ==
    ASSUME IInv, NEW n \in Nodes, Begin(n)
    PROVE  IInv'
<1> DEFINE x == [act[n] EXCEPT !.state = "running", !.attempts = @ + 1]
<1>1. /\ act[n].state = "scheduled" /\ server # "down" /\ Sets(n, x, NewCall)
      /\ Publish(RunID, "activity.started")
      /\ UNCHANGED <<server, client, run, wf, streaming, outages>>
  BY DEF Begin, Ready
<1>2. act[n] \in Activity /\ act[n].attempts < MaxAttempts /\ seen \subseteq EventKinds
  BY <1>1, OneNode DEF Tried
<1>3. act[n].attempts \in 0..MaxAttempts
  BY <1>2 DEF Activity
<1>4. act[n].attempts + 1 \in 0..MaxAttempts
  BY <1>2, <1>3, Given
<1>5. x \in Activity /\ x.input = act[n].input /\ x.state = "running"
  BY <1>2, <1>4 DEF Activity
<1> HIDE DEF x
<1>6. Tried(x)
  BY <1>5 DEF Tried
<1>7. CallInv(NewCall, server, x)
  BY <1>1, <1>5, Idle, Given DEF CallInv
<1>8. seen' \subseteq EventKinds
  BY <1>1, <1>2, Published DEF EventKinds
<1> QED
  BY <1>1, <1>5, <1>6, <1>7, <1>8, Idle, NodeStep

LEMMA AllAtOnce ==
    ASSUME NEW n \in Nodes, CallInv(call[n], server, act[n]), call[n].on
    PROVE  CallInv(Whole(n), server, act[n])
<1>1. call[n] \in Call /\ TextLength \in 0..TextLength
  BY Given DEF CallInv
<1>2. /\ Whole(n) \in Call /\ Whole(n).on /\ Whole(n).sent = TextLength
      /\ Whole(n).got = TextLength /\ Whole(n).end = "stop"
  BY <1>1 DEF Whole, Call, Ends
<1>3. TextLength <= TextLength /\ TextLength - TextLength <= ChanCap
  BY Given
<1> QED
  BY <1>2, <1>3 DEF CallInv

LEMMA GoesOn ==
    ASSUME NEW c, NEW s, NEW x, CallInv(c, s, x), c.on, NEW d \in Call, d.on,
           d.got <= d.sent, d.sent - d.got <= ChanCap, d.end = "stop" => d.sent = TextLength
    PROVE  CallInv(d, s, x)
BY DEF CallInv

LEMMA StreamInv ==
    ASSUME IInv, NEW n \in Nodes,
           (n = Parse /\ ParseDiff) \/ (\E ok \in BOOLEAN : Answers(n, ok))
              \/ Delta(n) \/ Stop(n) \/ StreamErrs(n) \/ StreamEnds(n) \/ Collect(n)
    PROVE  IInv'
<1>1. CallInv(call[n], server, act[n]) /\ seen \subseteq EventKinds
  BY OneNode
<1> DEFINE c == call[n]
<1>2. /\ c \in Call /\ c.sent \in Nat /\ c.got \in Nat /\ c.got <= c.sent
      /\ c.sent <= TextLength /\ c.got <= TextLength /\ c.sent - c.got <= ChanCap
  BY <1>1, CallBounds
<1>3. PICK d : /\ InCall(n, d)
               /\ \/ d = Whole(n)
                  \/ d = [c EXCEPT !.end = "error"] \/ d = [c EXCEPT !.end = "eof"]
                  \/ d = [c EXCEPT !.end = "stop"] /\ c.sent = TextLength
                  \/ /\ d = [c EXCEPT !.sent = @ + 1] /\ c.end = "open"
                     /\ c.sent - c.got < ChanCap /\ c.sent < TextLength
                  \/ d = [c EXCEPT !.got = @ + 1] /\ c.got < c.sent
  <2>1. CASE n = Parse /\ ParseDiff
    BY <2>1 DEF ParseDiff
  <2>2. CASE \E ok \in BOOLEAN : Answers(n, ok)
    BY <2>2 DEF Answers
  <2>3. CASE Delta(n)
    BY <2>3 DEF Delta, Producing, HasRoom
  <2>4. CASE Stop(n) \/ StreamErrs(n) \/ StreamEnds(n)
    BY <2>4 DEF Stop, StreamErrs, StreamEnds
  <2>5. CASE Collect(n)
    BY <2>5 DEF Collect
  <2> QED
    BY <2>1, <2>2, <2>3, <2>4, <2>5
<1>4. seen' \subseteq EventKinds
  <2>1. seen' = seen \/ Publish(ContextID, "llm.token")
    BY DEF ParseDiff, Answers, Delta, Stop, StreamErrs, StreamEnds, Collect
  <2> QED
    BY <1>1, <2>1, Published DEF EventKinds
<1>5. c.on
  BY <1>3 DEF InCall
<1>6. CallInv(d, server, act[n])
  <2>1. CASE d = Whole(n)
    BY <1>1, <1>5, <2>1, AllAtOnce
  <2>2. CASE d = [c EXCEPT !.end = "error"] \/ d = [c EXCEPT !.end = "eof"]
    <3>1. d \in Call /\ d.on /\ d.sent = c.sent /\ d.got = c.got /\ d.end # "stop"
      BY <1>2, <1>5, <2>2 DEF Call, Ends
    <3> QED
      BY <1>1, <1>2, <1>5, <3>1, GoesOn
  <2>3. CASE d = [c EXCEPT !.end = "stop"] /\ c.sent = TextLength
    <3>1. d \in Call /\ d.on /\ d.sent = c.sent /\ d.got = c.got
      BY <1>2, <1>5, <2>3 DEF Call, Ends
    <3> QED
      BY <1>1, <1>2, <1>5, <2>3, <3>1, GoesOn
  <2>4. CASE /\ d = [c EXCEPT !.sent = @ + 1] /\ c.end = "open"
             /\ c.sent - c.got < ChanCap /\ c.sent < TextLength
    <3>1. /\ c.sent + 1 \in 0..TextLength /\ c.got <= c.sent + 1
          /\ (c.sent + 1) - c.got <= ChanCap
      BY <1>2, <2>4, Given
    <3>2. d \in Call /\ d.on /\ d.sent = c.sent + 1 /\ d.got = c.got /\ d.end = "open"
      BY <1>2, <1>5, <2>4, <3>1 DEF Call, Ends
    <3> QED
      BY <1>1, <1>5, <3>1, <3>2, GoesOn
  <2>5. CASE d = [c EXCEPT !.got = @ + 1] /\ c.got < c.sent
    <3>1. /\ c.got + 1 \in 0..TextLength /\ c.got + 1 <= c.sent
          /\ c.sent - (c.got + 1) <= ChanCap
      BY <1>2, <2>5, Given, SMTT(20)
    <3>2. d \in Call /\ d.on /\ d.sent = c.sent /\ d.got = c.got + 1 /\ d.end = c.end
      BY <1>2, <1>5, <2>5, <3>1 DEF Call
    <3>3. d.end = "stop" => d.sent = TextLength
      BY <1>1, <3>2 DEF CallInv
    <3> QED
      BY <1>1, <1>5, <3>1, <3>2, <3>3, GoesOn
  <2> QED
    BY <1>3, <2>1, <2>2, <2>3, <2>4, <2>5
<1> QED
  BY <1>3, <1>4, <1>6, CallGoesOn

LEMMA AfterFailureIs ==
    ASSUME IInv, NEW n \in Nodes, act[n].state = "running"
    PROVE  /\ AfterFailure(n) \in Activity /\ AfterFailure(n).input = act[n].input
           /\ AfterFailure(n).state # "none" /\ Tried(AfterFailure(n))
<1>1. act[n] \in Activity
  BY OneNode
<1>2. CASE act[n].attempts < MaxAttempts
  <2>1. AfterFailure(n) = [act[n] EXCEPT !.state = "scheduled"]
    BY <1>2 DEF AfterFailure
  <2> QED
    BY <1>1, <1>2, <2>1 DEF Activity, Tried
<1>3. CASE ~(act[n].attempts < MaxAttempts)
  <2>1. AfterFailure(n) = [act[n] EXCEPT !.state = "failed"]
    BY <1>3 DEF AfterFailure
  <2> QED
    BY <1>1, <2>1 DEF Activity, Tried
<1> QED
  BY <1>2, <1>3

LEMMA IdleInv ==
    ASSUME NEW s, NEW x PROVE CallInv(NoCall, s, x) /\ NoCall \in Call
BY Idle, Given DEF CallInv

LEMMA ReturnInv ==
    ASSUME IInv, NEW n \in Nodes, Return(n)
    PROVE  IInv'
<1> DEFINE c == call[n]
           x == [act[n] EXCEPT !.state = "completed",
                               !.result = [attempt |-> act[n].attempts, len |-> c.got, end |-> c.end]]
           y == [act[n] EXCEPT !.state = "dropped"]
<1>1. /\ c.on /\ c.end # "open" /\ c.got = c.sent /\ Publish(RunID, "activity.completed")
      /\ UNCHANGED <<server, client, run, wf, streaming, outages>>
      /\ \/ Sets(n, y, NoCall)
         \/ Erred(n) /\ Sets(n, AfterFailure(n), NoCall)
         \/ ~Erred(n) /\ Sets(n, x, NoCall)
  BY DEF Return
<1>2. /\ act[n] \in Activity /\ CallInv(c, server, act[n]) /\ seen \subseteq EventKinds
      /\ act[n].state = "running"
  BY <1>1, OneNode DEF CallInv
<1>3. /\ c.sent \in Nat /\ c.got \in 0..TextLength /\ c.end \in Ends
      /\ c.end = "stop" => c.sent = TextLength
  BY <1>2 DEF CallInv, Call
<1>4. seen' \subseteq EventKinds
  BY <1>1, <1>2, Published DEF EventKinds
<1>5. y \in Activity /\ y.input = act[n].input /\ y.state = "dropped" /\ Tried(y)
  BY <1>2 DEF Activity, Tried
<1>6. ASSUME ~Erred(n)
      PROVE  x \in Activity /\ x.input = act[n].input /\ x.state = "completed" /\ Tried(x)
  <2> DEFINE t == [attempt |-> act[n].attempts, len |-> c.got, end |-> c.end]
  <2>1. c.end = "stop" \/ c.end = "eof"
    BY <1>1, <1>3, <1>6 DEF Erred, Ends
  <2>2. t \in Text /\ (t.len = TextLength \/ t.end = "eof")
    BY <1>1, <1>2, <1>3, <2>1 DEF Text, Activity
  <2> HIDE DEF t
  <2>3. x = [act[n] EXCEPT !.state = "completed", !.result = t]
    BY DEF t
  <2>4. x \in Activity /\ x.input = act[n].input /\ x.state = "completed" /\ x.result = t
    BY <1>2, <2>2, <2>3 DEF Activity
  <2> QED
    BY <2>2, <2>4 DEF Tried
<1> HIDE DEF x, y, c
<1>7. CASE Sets(n, y, NoCall)
  BY <1>1, <1>2, <1>4, <1>5, <1>7, IdleInv, NodeStep
<1>8. CASE Sets(n, AfterFailure(n), NoCall)
  BY <1>1, <1>2, <1>4, <1>8, AfterFailureIs, IdleInv, NodeStep
<1>9. CASE ~Erred(n) /\ Sets(n, x, NoCall)
  BY <1>1, <1>2, <1>4, <1>6, <1>9, IdleInv, NodeStep
<1> QED
  BY <1>1, <1>7, <1>8, <1>9

LEMMA TimeOutInv ==
    ASSUME IInv, NEW n \in Nodes, TimeOut(n)
    PROVE  IInv'
<1>1. /\ act[n].state = "running" /\ Sets(n, AfterFailure(n), NoCall)
      /\ Publish(RunID, "activity.completed") \/ seen' = seen
      /\ UNCHANGED <<server, client, run, wf, streaming, outages>>
  BY DEF TimeOut
<1>2. seen' \subseteq EventKinds
  BY <1>1, OneNode, Published DEF EventKinds
<1> QED
  BY <1>1, <1>2, AfterFailureIs, IdleInv, NodeStep

-----------------------------------------------------------------------------
(* The steps of the workflow's code *)

Due(input) == [NotScheduled EXCEPT !.state = "scheduled", !.input = input]

LEMMA DueIs ==
    ASSUME NEW input \in Seq(Text)
    PROVE  /\ Due(input) \in Activity /\ Due(input).state = "scheduled"
           /\ Due(input).input = input /\ Tried(Due(input))
<1>1. NotScheduled \in Activity /\ NotScheduled.attempts = 0
  BY Idle DEF NotScheduled
<1> HIDE DEF NotScheduled
<1>2. /\ Due(input) \in Activity /\ Due(input).state = "scheduled" /\ Due(input).input = input
      /\ Due(input).attempts = 0
  BY <1>1 DEF Due, Activity
<1> QED
  BY <1>2, Given DEF Tried

\* Each node is scheduled on what it is to work on.
LEMMA Schedules ==
    ASSUME NEW a, RecordInv(a), NEW S \in SUBSET Nodes, NEW input \in Seq(Text),
           \A n \in S \cap Range(Analyzers) :
               a[Parse].state = "completed" /\ input = <<a[Parse].result>>,
           Synthesize \in S =>
               /\ \A n \in Range(Analyzers) : a[n].state = "completed"
               /\ input = [i \in 1..Len(Analyzers) |-> a[Analyzers[i]].result],
           NEW b, b = [n \in Nodes |-> IF n \in S /\ a[n].state = "none"
                                       THEN Due(input) ELSE a[n]]
    PROVE  RecordInv(b) /\ Keeps(a, b) /\ \A n \in Nodes : a[n].state # "none" => b[n] = a[n]
<1>1. a \in [Nodes -> Activity] /\ Inputs(a) /\ \A n \in Nodes : Tried(a[n])
  BY DEF RecordInv
<1>2. \A n \in Nodes : b[n] = a[n] \/ (n \in S /\ a[n].state = "none" /\ b[n] = Due(input))
  OBVIOUS
<1>3. b \in [Nodes -> Activity] /\ \A n \in Nodes : Tried(b[n])
  <2>1. \A n \in Nodes : b[n] \in Activity /\ Tried(b[n])
    BY <1>1, <1>2, DueIs
  <2>2. b = [n \in Nodes |-> b[n]]
    OBVIOUS
  <2> QED
    BY <2>1, <2>2
<1>4. \A n \in Nodes : a[n].state # "none" => b[n] = a[n]
  BY <1>2
<1>5. Keeps(a, b)
  BY <1>4 DEF Keeps
<1>6. ASSUME NEW n \in Range(Analyzers), b[n].state # "none"
      PROVE  b[Parse].state = "completed" /\ b[n].input = <<b[Parse].result>>
  <2>1. /\ a[Parse].state = "completed"
        /\ b[n].input = <<a[Parse].result>>
    <3>1. n \in Nodes
      BY Given
    <3>2. CASE b[n] = a[n]
      BY <1>1, <1>6, <3>1, <3>2 DEF Inputs
    <3>3. CASE n \in S /\ b[n] = Due(input)
      BY <3>3, DueIs
    <3> QED
      BY <1>2, <3>1, <3>2, <3>3
  <2>2. b[Parse] = a[Parse]
    BY <1>4, <2>1, Given
  <2> QED
    BY <2>1, <2>2
<1>7. ASSUME b[Synthesize].state # "none"
      PROVE  /\ \A m \in Range(Analyzers) : b[m].state = "completed"
             /\ b[Synthesize].input = [i \in 1..Len(Analyzers) |-> b[Analyzers[i]].result]
  <2>1. /\ \A m \in Range(Analyzers) : a[m].state = "completed"
        /\ b[Synthesize].input = [i \in 1..Len(Analyzers) |-> a[Analyzers[i]].result]
    <3>1. CASE b[Synthesize] = a[Synthesize]
      BY <1>1, <1>7, <3>1 DEF Inputs
    <3>2. CASE Synthesize \in S /\ b[Synthesize] = Due(input)
      BY <3>2, DueIs
    <3> QED
      BY <1>2, <3>1, <3>2, Given
  <2>2. \A m \in Range(Analyzers) : b[m] = a[m]
    BY <1>4, <2>1, Given
  <2>3. \A i \in 1..Len(Analyzers) : b[Analyzers[i]] = a[Analyzers[i]]
    BY <2>2, OrderShape
  <2> QED
    BY <2>1, <2>2, <2>3
<1> QED
  BY <1>3, <1>4, <1>5, <1>6, <1>7 DEF RecordInv, Inputs

\* A step of the code: what it schedules and what it then knows.
LEMMA CodeMoves ==
    ASSUME IInv, NEW S \in SUBSET Nodes, NEW input \in Seq(Text), Schedule(S, input),
           \A n \in S \cap Range(Analyzers) :
               act[Parse].state = "completed" /\ input = <<act[Parse].result>>,
           Synthesize \in S =>
               /\ \A n \in Range(Analyzers) : act[n].state = "completed"
               /\ input = [i \in 1..Len(Analyzers) |-> act[Analyzers[i]].result],
           CodeInv(wf', act), UNCHANGED <<server, clientVars, run, call, streaming, outages>>
    PROVE  IInv'
<1>1. act' = [n \in Nodes |-> IF n \in S /\ act[n].state = "none" THEN Due(input) ELSE act[n]]
  BY DEF Schedule, Due
<1>2. RecordInv(act') /\ Keeps(act, act') /\ \A n \in Nodes : act[n].state # "none" => act'[n] = act[n]
  BY <1>1, Schedules DEF IInv
<1>3. CodeInv(wf', act') /\ RunInv(run, act')
  BY <1>2, CodeKept, RunKept DEF IInv
<1>4. ASSUME NEW n \in Nodes PROVE CallInv(call[n], server, act'[n])
  BY <1>2, OneNode DEF CallInv
<1>5. ServerInv' /\ call' \in [Nodes -> Call]
  BY DEF IInv, ServerInv, clientVars
<1> QED
  BY <1>2, <1>3, <1>4, <1>5 DEF IInv, clientVars

\* The code waits for the node after those it has read.
LEMMA AwaitsNext ==
    ASSUME IInv, NEW n \in Nodes, NEW s, Got(n, s)
    PROVE  /\ Len(wf.outs) \in Nat /\ Len(wf.outs) + 1 \in 1..Len(Order)
           /\ n = Order[Len(wf.outs) + 1]
           /\ n = Parse => wf.pc = "parsing" /\ wf.outs = <<>>
           /\ n = Synthesize => Len(wf.outs) + 1 = Len(Order)
           /\ n \in Range(Analyzers) =>
                 wf.pc = "analyzing" /\ Len(wf.outs) \in 1..Len(Analyzers)
<1>1. Awaited = n /\ n # "none"
  BY Given DEF Got
<1> DEFINE m == Len(Analyzers)  k == Len(wf.outs)
<1>2. CodeInv(wf, act) /\ wf.outs \in Seq(Text)
  BY DEF IInv, CodeInv, Code
<1>3. m \in Nat /\ k \in Nat /\ Len(Order) = m + 2
  BY <1>2, OrderShape
<1>4. CASE wf.pc = "parsing"
  <2>1. n = Parse
    BY <1>1, <1>4 DEF Awaited
  <2>2. wf.outs = <<>> /\ k = 0
    BY <1>2, <1>4 DEF CodeInv
  <2> QED
    BY <1>3, <1>4, <2>1, <2>2, OrderShape, Given
<1>5. CASE wf.pc = "analyzing" /\ k <= m
  <2>1. n = Analyzers[k]
    BY <1>1, <1>5 DEF Awaited
  <2>2. k \in 1..(1 + m)
    BY <1>2, <1>5 DEF CodeInv
  <2> HIDE DEF k, m
  <2>3. k \in 1..m /\ k + 1 \in 1..(m + 2)
    BY <1>3, <1>5, <2>2
  <2>4. Order[k + 1] = n /\ n \in Range(Analyzers)
    BY <2>1, <2>3, OrderShape DEF m
  <2>5. n # Parse /\ n # Synthesize
    BY <2>4, Given
  <2> QED
    BY <1>3, <1>5, <2>3, <2>4, <2>5 DEF k, m
<1>6. CASE wf.pc = "synthesizing"
  <2>1. n = Synthesize
    BY <1>1, <1>6 DEF Awaited
  <2>2. k = 1 + m
    BY <1>2, <1>6 DEF CodeInv
  <2> HIDE DEF k, m
  <2>3. k + 1 = m + 2 /\ k + 1 \in 1..(m + 2) /\ Order[m + 2] = Synthesize
    BY <1>3, <2>2, OrderShape DEF m
  <2>4. n # Parse /\ n \notin Range(Analyzers)
    BY <2>1, Given
  <2> QED
    BY <1>3, <2>1, <2>3, <2>4 DEF k, m
<1>7. CASE ~(wf.pc = "parsing" \/ (wf.pc = "analyzing" /\ k <= m) \/ wf.pc = "synthesizing")
  BY <1>1, <1>7 DEF Awaited
<1> QED
  BY <1>4, <1>5, <1>6, <1>7

LEMMA ParseFirstInv ==
    ASSUME IInv, ParseFirst
    PROVE  IInv'
<1>1. /\ Schedule({Parse}, <<>>) /\ wf' = [wf EXCEPT !.pc = "parsing"] /\ wf.pc = "start"
      /\ UNCHANGED <<server, clientVars, run, call, streaming, outages>>
  BY DEF ParseFirst
<1>2. CodeInv(wf, act) /\ wf \in Code /\ wf.outs = <<>>
  BY <1>1 DEF IInv, CodeInv
<1>3. wf' \in Code /\ wf'.pc = "parsing" /\ wf'.outs = wf.outs
  BY <1>1, <1>2 DEF Code
<1>4. CodeInv(wf', act)
  BY <1>2, <1>3 DEF CodeInv
<1>5. {Parse} \in SUBSET Nodes /\ <<>> \in Seq(Text) /\ {Parse} \cap Range(Analyzers) = {}
      /\ Synthesize \notin {Parse}
  BY Given
<1> QED
  BY <1>1, <1>4, <1>5, CodeMoves

\* What is appended to nothing is all there is.
LEMMA FirstIs ==
    ASSUME NEW t \in Text PROVE Append(<<>>, t) = <<t>> /\ <<t>> \in Seq(Text) /\ Len(<<t>>) = 1
OBVIOUS

LEMMA FanOutInv ==
    ASSUME IInv, FanOut
    PROVE  IInv'
<1> DEFINE t == act[Parse].result
<1>1. /\ Got(Parse, "completed") /\ act[Parse].state = "completed"
      /\ Schedule(Range(Analyzers), <<t>>) /\ wf' = [pc |-> "analyzing", outs |-> <<t>>]
      /\ UNCHANGED <<server, clientVars, run, call, streaming, outages>>
  BY DEF FanOut, Got
<1>2. CodeInv(wf, act) /\ wf.outs \in Seq(Text) /\ ReadInOrder(wf.outs, act)
  BY DEF IInv, CodeInv, Code
<1>3. t \in Text
  BY Given, OneNode DEF Activity
<1>4. /\ wf.outs = <<>> /\ Len(wf.outs) + 1 \in 1..Len(Order) /\ Parse = Order[Len(wf.outs) + 1]
  BY <1>1, AwaitsNext, Given
<1>5. /\ <<t>> = Append(wf.outs, t) /\ <<t>> \in Seq(Text) /\ Len(<<t>>) = 1
  BY <1>3, <1>4, FirstIs
<1>6. ReadInOrder(<<t>>, act)
  BY <1>1, <1>2, <1>3, <1>4, <1>5, ReadNext
<1>7. wf' \in Code /\ wf'.pc = "analyzing" /\ wf'.outs = <<t>>
  BY <1>1, <1>5 DEF Code
<1>8. 1 \in 1..(1 + Len(Analyzers))
  BY OrderShape
<1>9. CodeInv(wf', act)
  BY <1>5, <1>6, <1>7, <1>8 DEF CodeInv
<1>10. Range(Analyzers) \in SUBSET Nodes /\ Synthesize \notin Range(Analyzers)
  BY Given
<1> QED
  BY <1>1, <1>5, <1>9, <1>10, CodeMoves

LEMMA GetAnalyzerInv ==
    ASSUME IInv, NEW n \in Range(Analyzers), GetAnalyzer(n)
    PROVE  IInv'
<1> DEFINE t == act[n].result
<1>1. /\ Got(n, "completed") /\ act[n].state = "completed"
      /\ wf' = [wf EXCEPT !.outs = Append(@, t)]
      /\ UNCHANGED <<server, clientVars, run, act, call, streaming, outages>>
  BY DEF GetAnalyzer, Got
<1>2. CodeInv(wf, act) /\ wf \in Code /\ wf.outs \in Seq(Text) /\ ReadInOrder(wf.outs, act)
  BY DEF IInv, CodeInv, Code
<1>3. n \in Nodes /\ t \in Text
  BY Given, OneNode DEF Activity
<1>4. /\ Len(wf.outs) + 1 \in 1..Len(Order) /\ n = Order[Len(wf.outs) + 1]
      /\ wf.pc = "analyzing" /\ Len(wf.outs) \in 1..Len(Analyzers)
  BY <1>1, <1>3, AwaitsNext
<1>5. /\ Append(wf.outs, t) \in Seq(Text) /\ Len(Append(wf.outs, t)) = Len(wf.outs) + 1
      /\ ReadInOrder(Append(wf.outs, t), act)
  BY <1>1, <1>2, <1>3, <1>4, ReadNext
<1>6. wf' \in Code /\ wf'.pc = "analyzing" /\ wf'.outs = Append(wf.outs, t)
  BY <1>1, <1>2, <1>4, <1>5 DEF Code
<1>7. Len(wf.outs) + 1 \in 1..(1 + Len(Analyzers))
  BY <1>4, OrderShape
<1>8. CodeInv(wf', act)
  BY <1>5, <1>6, <1>7 DEF CodeInv
<1>9. ServerInv'
  BY <1>1 DEF IInv, ServerInv, clientVars
<1> QED
  BY <1>1, <1>8, <1>9 DEF IInv

\* What was read after the parsed text are the analyzers' results.
LEMMA AnalysesRead ==
    ASSUME NEW a, NEW outs \in Seq(Text), ReadInOrder(outs, a), Len(outs) = 1 + Len(Analyzers)
    PROVE  /\ \A n \in Range(Analyzers) : a[n].state = "completed"
           /\ Tail(outs) \in Seq(Text)
           /\ Tail(outs) = [i \in 1..Len(Analyzers) |-> a[Analyzers[i]].result]
<1> DEFINE m == Len(Analyzers)
<1>1. m \in Nat /\ \A i \in 1..m : i + 1 \in 1..Len(outs)
  BY OrderShape
<1>2. ASSUME NEW i \in 1..m
      PROVE  a[Analyzers[i]].state = "completed" /\ outs[i + 1] = a[Analyzers[i]].result
  BY <1>1, OrderShape DEF ReadInOrder
<1>3. \A n \in Range(Analyzers) : \E i \in 1..m : n = Analyzers[i]
  BY OrderShape DEF Range
<1>4. outs # <<>>
  <2>1. Len(outs) # 0
    BY <1>1
  <2> QED
    BY <2>1
<1>5. /\ Tail(outs) \in Seq(Text) /\ Len(Tail(outs)) = Len(outs) - 1
      /\ \A i \in 1..Len(Tail(outs)) : Tail(outs)[i] = outs[i + 1]
  BY <1>4, HeadTailProperties
<1>6. Len(Tail(outs)) = m
  BY <1>1, <1>5
<1> DEFINE q == Tail(outs)
<1>7. q = [i \in 1..m |-> q[i]]
  <2>1. q \in Seq(Text) /\ Len(q) = m
    BY <1>5, <1>6
  <2> HIDE DEF q, m
  <2>2. q \in [1..m -> Text]
    BY <2>1, LenProperties
  <2> QED
    BY <2>2
<1> QED
  BY <1>2, <1>3, <1>5, <1>6, <1>7

LEMMA SynthesizeLastInv ==
    ASSUME IInv, SynthesizeLast
    PROVE  IInv'
<1>1. /\ Schedule({Synthesize}, Tail(wf.outs)) /\ wf' = [wf EXCEPT !.pc = "synthesizing"]
      /\ Len(wf.outs) = 1 + Len(Analyzers)
      /\ UNCHANGED <<server, clientVars, run, call, streaming, outages>>
  BY DEF SynthesizeLast
<1>2. CodeInv(wf, act) /\ wf \in Code /\ wf.outs \in Seq(Text) /\ ReadInOrder(wf.outs, act)
  BY DEF IInv, CodeInv, Code
<1>3. wf' \in Code /\ wf'.pc = "synthesizing" /\ wf'.outs = wf.outs
  BY <1>1, <1>2 DEF Code
<1>4. CodeInv(wf', act)
  BY <1>1, <1>2, <1>3 DEF CodeInv
<1>5. /\ \A n \in Range(Analyzers) : act[n].state = "completed"
      /\ Tail(wf.outs) \in Seq(Text)
      /\ Tail(wf.outs) = [i \in 1..Len(Analyzers) |-> act[Analyzers[i]].result]
  BY <1>1, <1>2, AnalysesRead
<1>6. {Synthesize} \in SUBSET Nodes /\ {Synthesize} \cap Range(Analyzers) = {}
  BY Given
<1> QED
  BY <1>1, <1>4, <1>5, <1>6, CodeMoves

\* The execution closes on what it has on record.
LEMMA ClosesInv ==
    ASSUME IInv, NEW how, how.state \in {"completed", "failed"},
           how.cause \in Nodes \cup {"none", "InvalidInput"}, how.output \in Seq(Text),
           Closes(how),
           how.state = "completed" => Len(how.output) = Len(Order) /\ ReadInOrder(how.output, act),
           how.state = "failed" /\ how.cause # "InvalidInput" =>
              \E i \in 1..Len(Order) :
                  /\ how.cause = Order[i] /\ act[Order[i]].state = "failed"
                  /\ \A j \in 1..(i - 1) : act[Order[j]].state = "completed"
    PROVE  IInv'
<1>1. /\ run' = [run EXCEPT !.state = how.state, !.cause = how.cause, !.output = how.output]
      /\ wf' = [wf EXCEPT !.pc = "end"]
      /\ UNCHANGED <<server, clientVars, act, call, streaming, outages>>
  BY DEF Closes
<1>2. run \in Executions /\ wf \in Code /\ CodeInv(wf, act)
  BY DEF IInv, RunInv, CodeInv
<1>3. /\ run' \in Executions /\ run'.state = how.state /\ run'.cause = how.cause
      /\ run'.output = how.output
  BY <1>1, <1>2 DEF Executions
<1>4. RunInv(run', act)
  BY <1>3 DEF RunInv
<1>5. wf' \in Code /\ wf'.pc = "end" /\ wf'.outs = wf.outs
  BY <1>1, <1>2 DEF Code
<1>6. CodeInv(wf', act)
  BY <1>2, <1>5 DEF CodeInv
<1>7. ServerInv'
  BY <1>1 DEF IInv, ServerInv, clientVars
<1> QED
  BY <1>1, <1>4, <1>6, <1>7 DEF IInv

LEMMA InvalidInputInv ==
    ASSUME IInv, InvalidInput
    PROVE  IInv'
<1> DEFINE how == [state |-> "failed", cause |-> "InvalidInput", output |-> <<>>]
<1>1. Closes(how)
  BY DEF InvalidInput, FailsFor
<1>2. how.state = "failed" /\ how.cause = "InvalidInput" /\ how.output \in Seq(Text)
  OBVIOUS
<1> HIDE DEF how
<1> QED
  BY <1>1, <1>2, ClosesInv

LEMMA ActivityFailedInv ==
    ASSUME IInv, ActivityFailed
    PROVE  IInv'
<1>1. PICK n \in Nodes : Got(n, "failed") /\ FailsFor(n)
  BY DEF ActivityFailed
<1> DEFINE how == [state |-> "failed", cause |-> n, output |-> <<>>]
           k == Len(wf.outs)
<1>2. Closes(how)
  BY <1>1 DEF FailsFor
<1>3. /\ how.state = "failed" /\ how.cause = n /\ how.output \in Seq(Text)
      /\ n \in Nodes \cup {"none", "InvalidInput"}
  OBVIOUS
<1>4. ReadInOrder(wf.outs, act) /\ act[n].state = "failed"
  BY <1>1 DEF IInv, CodeInv, Got
<1>5. k \in Nat /\ k + 1 \in 1..Len(Order) /\ n = Order[k + 1]
  BY <1>1, AwaitsNext
<1>6. \A j \in 1..k : act[Order[j]].state = "completed"
  BY <1>4 DEF ReadInOrder
<1> HIDE DEF how, k
<1>7. (k + 1) - 1 = k
  BY <1>5
<1>8. \E i \in 1..Len(Order) :
          /\ how.cause = Order[i] /\ act[Order[i]].state = "failed"
          /\ \A j \in 1..(i - 1) : act[Order[j]].state = "completed"
  BY <1>3, <1>4, <1>5, <1>6, <1>7
<1> QED
  BY <1>2, <1>3, <1>8, ClosesInv

LEMMA SynthesizedInv ==
    ASSUME IInv, Synthesized
    PROVE  IInv'
<1> DEFINE t == act[Synthesize].result
           how == [state |-> "completed", cause |-> "none", output |-> Append(wf.outs, t)]
<1>1. Got(Synthesize, "completed") /\ act[Synthesize].state = "completed" /\ Closes(how)
  BY DEF Synthesized, Got
<1>2. wf.outs \in Seq(Text) /\ ReadInOrder(wf.outs, act)
  BY DEF IInv, CodeInv, Code
<1>3. t \in Text /\ Synthesize \in Nodes
  BY Given, OneNode DEF Activity
<1>4. /\ Len(wf.outs) + 1 \in 1..Len(Order) /\ Synthesize = Order[Len(wf.outs) + 1]
      /\ Len(wf.outs) + 1 = Len(Order)
  BY <1>1, <1>3, AwaitsNext
<1>5. /\ Append(wf.outs, t) \in Seq(Text) /\ Len(Append(wf.outs, t)) = Len(wf.outs) + 1
      /\ ReadInOrder(Append(wf.outs, t), act)
  BY <1>1, <1>2, <1>3, <1>4, ReadNext
<1>6. how.state = "completed" /\ how.cause = "none" /\ how.output = Append(wf.outs, t)
  OBVIOUS
<1> HIDE DEF how, t
<1>7. /\ how.output \in Seq(Text) /\ Len(how.output) = Len(Order) /\ ReadInOrder(how.output, act)
      /\ how.state \in {"completed", "failed"} /\ how.state # "failed"
      /\ how.cause \in Nodes \cup {"none", "InvalidInput"}
  BY <1>4, <1>5, <1>6
<1> QED
  BY <1>1, <1>7, ClosesInv

LEMMA CodeStepInv ==
    ASSUME IInv, CodeStep
    PROVE  IInv'
BY InvalidInputInv, ParseFirstInv, FanOutInv, GetAnalyzerInv, SynthesizeLastInv,
   ActivityFailedInv, SynthesizedInv DEF CodeStep

-----------------------------------------------------------------------------
(* The start, the handlers and the process *)

LEMMA StartInv ==
    ASSUME NEW a PROVE CodeInv(FromTheTop, a)
<1>1. FromTheTop \in Code /\ FromTheTop.pc = "start" /\ FromTheTop.outs = <<>>
  BY DEF FromTheTop, Code
<1>2. ReadInOrder(<<>>, a)
  BY OrderShape DEF ReadInOrder
<1> QED
  BY <1>1, <1>2 DEF CodeInv

LEMMA InitInv == Init => IInv
<1> SUFFICES ASSUME Init PROVE IInv
  OBVIOUS
<1>1. /\ server = "up" /\ client = "idle" /\ seen = {} /\ streaming \in BOOLEAN /\ outages = 0
      /\ run = [state |-> "none", diff |-> "none", cause |-> "none", output |-> <<>>]
      /\ wf = FromTheTop /\ act = [n \in Nodes |-> NotScheduled] /\ call = [n \in Nodes |-> NoCall]
  BY DEF Init
<1>2. ServerInv
  BY <1>1, ReviewAssumption DEF ServerInv
<1>3. act \in [Nodes -> Activity] /\ \A n \in Nodes : act[n].state = "none"
  BY <1>1, Idle
<1>4. RecordInv(act)
  BY <1>3, Given DEF RecordInv, Inputs, Tried
<1>5. CodeInv(wf, act)
  BY <1>1, StartInv
<1>6. RunInv(run, act)
  BY <1>1 DEF RunInv, Executions
<1>7. call \in [Nodes -> Call] /\ \A n \in Nodes : CallInv(call[n], server, act[n])
  BY <1>1, IdleInv
<1> QED
  BY <1>2, <1>4, <1>5, <1>6, <1>7 DEF IInv

\* The execution is started, and nothing has been done for it yet.
LEMMA StartsInv ==
    ASSUME IInv, NEW diff \in {"given", "empty"}, Starts(diff)
    PROVE  RunInv(run', act)
<1>1. run' = [run EXCEPT !.state = "open", !.diff = diff] /\ run \in Executions
  BY DEF Starts, IInv, RunInv
<1>2. run' \in Executions /\ run'.state = "open"
  BY <1>1 DEF Executions
<1> QED
  BY <1>2 DEF RunInv

LEMMA HandlersInv ==
    ASSUME IInv, HandleRun \/ StartedElsewhere \/ Respond \/ HandleEvents \/ Disconnect
    PROVE  IInv'
<1>1. UNCHANGED <<server, wf, act, call, streaming, outages>>
  BY DEF HandleRun, StartedElsewhere, Respond, HandleEvents, Disconnect, clientVars
<1>2. run' = run \/ Starts("given") \/ Starts("empty")
  BY DEF HandleRun, StartedElsewhere, Respond, HandleEvents, Disconnect
<1>3. RunInv(run', act)
  BY <1>2, StartsInv DEF IInv
<1>4. client' \in {"idle", "posting", "knows", "watching", "gone"}
  BY DEF HandleRun, StartedElsewhere, Respond, HandleEvents, Disconnect, clientVars,
         IInv, ServerInv
<1>5. seen' \subseteq EventKinds
  <2>1. seen \subseteq EventKinds
    BY DEF IInv, ServerInv
  <2>2. seen' = seen \/ Publish(RunID, "workflow.started")
    BY DEF HandleRun, StartedElsewhere, Respond, HandleEvents, Disconnect, clientVars
  <2> QED
    BY <2>1, <2>2, Published DEF EventKinds
<1> QED
  BY <1>1, <1>3, <1>4, <1>5 DEF IInv, ServerInv

LEMMA GoesDownInv ==
    ASSUME IInv, GoesDown, outages' \in 0..MaxOutages
    PROVE  IInv'
<1>1. /\ server' = "down" /\ wf' \in {FromTheTop, wf} /\ call' = [n \in Nodes |-> NoCall]
      /\ seen' = {} /\ client' \in {"knows", "gone", client}
      /\ UNCHANGED <<run, act, streaming>>
  BY DEF GoesDown
<1>2. CodeInv(FromTheTop, act)
  BY StartInv
<1>3. CodeInv(wf', act)
  BY <1>1, <1>2 DEF IInv
<1>4. call' \in [Nodes -> Call] /\ \A n \in Nodes : CallInv(call'[n], server', act[n])
  BY <1>1, IdleInv
<1>5. ServerInv'
  BY <1>1 DEF IInv, ServerInv
<1> QED
  BY <1>1, <1>3, <1>4, <1>5 DEF IInv

LEMMA ProcessInv ==
    ASSUME IInv, Signal \/ Drained \/ ShutdownExpires \/ Crash \/ Restart
    PROVE  IInv'
<1>1. outages \in 0..MaxOutages /\ MaxOutages \in Nat
  BY ReviewAssumption DEF IInv, ServerInv
<1>2. ASSUME Outage PROVE outages' \in 0..MaxOutages
  BY <1>1, <1>2 DEF Outage
<1>3. CASE Drained \/ ShutdownExpires \/ Crash
  BY <1>1, <1>2, <1>3, GoesDownInv DEF Drained, ShutdownExpires, Crash
<1>4. CASE Signal \/ Restart
  <2>1. /\ server' \in {"up", "draining"} /\ outages' \in 0..MaxOutages
        /\ UNCHANGED <<client, seen, run, wf, act, call, streaming>>
    BY <1>1, <1>2, <1>4 DEF Signal, Restart, clientVars
  <2>2. ServerInv'
    BY <2>1 DEF IInv, ServerInv
  <2>3. \A n \in Nodes : CallInv(call'[n], server', act'[n])
    BY <2>1 DEF IInv, CallInv
  <2> QED
    BY <2>1, <2>2, <2>3 DEF IInv
<1> QED
  BY <1>3, <1>4

LEMMA NextInv == IInv /\ [Next]_vars => IInv'
<1> SUFFICES ASSUME IInv, [Next]_vars PROVE IInv'
  OBVIOUS
<1>1. ASSUME NEW n \in Nodes, Begin(n) \/ CallStep(n) \/ TimeOut(n) PROVE IInv'
  BY <1>1, BeginInv, StreamInv, ReturnInv, TimeOutInv DEF CallStep
<1>2. CASE UNCHANGED vars
  BY <1>2 DEF IInv, ServerInv, vars, clientVars
<1> QED
  BY <1>1, <1>2, HandlersInv, CodeStepInv, ProcessInv DEF Next

-----------------------------------------------------------------------------
(* The theorems *)

\* The record of the activities, what the code knows of it, and the calls under
\* way fit together in every reachable state, whatever was retried, timed out or
\* lost with the process (review_workflow.go:109-178).
THEOREM Inductive == Spec => []IInv
BY InitInv, NextInv, PTL DEF Spec

LEMMA TypeCorrect == IInv => TypeOK
<1> SUFFICES ASSUME IInv PROVE TypeOK
  OBVIOUS
<1>1. /\ server \in {"up", "draining", "down"}
      /\ client \in {"idle", "posting", "knows", "watching", "gone"}
      /\ seen \subseteq EventKinds /\ streaming \in BOOLEAN /\ outages \in 0..MaxOutages
  BY DEF IInv, ServerInv
<1>2. /\ run.state \in {"none", "open", "completed", "failed"}
      /\ run.cause \in Nodes \cup {"none", "InvalidInput"}
  BY DEF IInv, RunInv, Executions
<1>3. /\ wf.pc \in {"start", "parsing", "analyzing", "synthesizing", "end"}
      /\ wf.outs \in Seq(Text)
  BY DEF IInv, CodeInv, Code
<1>4. ASSUME NEW n \in Nodes
      PROVE  /\ act[n].state \in {"none", "scheduled", "running", "completed", "failed", "dropped"}
             /\ act[n].attempts \in 0..MaxAttempts
             /\ act[n].input \in Seq(Text) /\ act[n].result \in Text
             /\ call[n].on => server # "down" /\ act[n].state = "running"
             /\ call[n].sent \in 0..TextLength /\ call[n].got \in 0..call[n].sent
             /\ call[n].sent - call[n].got <= ChanCap
             /\ call[n].end \in Ends
  <2>1. act[n] \in Activity /\ CallInv(call[n], server, act[n])
    BY OneNode
  <2>2. /\ call[n].sent \in 0..TextLength /\ call[n].got \in 0..call[n].sent
        /\ call[n].sent - call[n].got <= ChanCap /\ call[n].end \in Ends
    BY <2>1, Given DEF CallInv, Call
  <2>3. call[n].on => server # "down" /\ act[n].state = "running"
    BY <2>1 DEF CallInv
  <2> QED
    BY <2>1, <2>2, <2>3 DEF Activity
<1> QED
  BY <1>1, <1>2, <1>3, <1>4 DEF TypeOK

\* The results of the record in the order of the code are what was read.
LEMMA ReadIsResults ==
    ASSUME NEW outs \in Seq(Text), Len(outs) = Len(Order), ReadInOrder(outs, act)
    PROVE  outs = Results(Order)
<1>1. outs \in [1..Len(Order) -> Text] /\ \A i \in 1..Len(Order) : outs[i] = act[Order[i]].result
  BY LenProperties DEF ReadInOrder
<1> QED
  BY <1>1 DEF Results

LEMMA OneResult == Results(<<Parse>>) = <<act[Parse].result>>
<1>1. Len(<<Parse>>) = 1 /\ <<Parse>>[1] = Parse /\ 1..1 = {1}
  OBVIOUS
<1>2. Results(<<Parse>>) = [i \in {1} |-> act[Parse].result]
  BY <1>1 DEF Results
<1> DEFINE t == act[Parse].result
<1> HIDE DEF t
<1>3. <<t>> = [i \in {1} |-> t]
  OBVIOUS
<1> QED
  BY <1>2, <1>3 DEF t

\* A closed review is that of the record: each analyzer worked on the parsed text,
\* the synthesis on the analyzers' texts in the order of the code, the output is
\* these texts; and a failure is that of the first node in the code's order that
\* failed, however the attempts were interleaved (review_workflow.go:118-175).
THEOREM ReviewIsOfTheRecordHolds == Spec => []ReviewIsOfTheRecord
<1>1. IInv => ReviewIsOfTheRecord
  <2> SUFFICES ASSUME IInv PROVE ReviewIsOfTheRecord
    OBVIOUS
  <2>1. TypeOK
    BY TypeCorrect
  <2>2. Inputs(act)
    BY DEF IInv, RecordInv
  <2>3. \A n \in Range(Analyzers) : act[n].state # "none" => act[n].input = Results(<<Parse>>)
    BY <2>2, OneResult DEF Inputs
  <2>4. act[Synthesize].state # "none" => act[Synthesize].input = Results(Analyzers)
    BY <2>2 DEF Inputs, Results
  <2>5. run.state = "completed" => run.output = Results(Order)
    BY ReadIsResults DEF IInv, RunInv, Executions
  <2>6. run.state = "failed" /\ run.cause # "InvalidInput" =>
            \E i \in 1..Len(Order) :
                /\ run.cause = Order[i] /\ act[Order[i]].state = "failed"
                /\ \A j \in 1..(i - 1) : act[Order[j]].state = "completed"
    BY DEF IInv, RunInv
  <2> QED
    BY <2>1, <2>3, <2>4, <2>5, <2>6, Zenon DEF ReviewIsOfTheRecord, Order
<1> QED
  BY <1>1, Inductive, PTL

\* An activity completes with the whole text unless the backend ended its stream
\* before message_stop (anthropic_stream.go:81-154, stream.go:101-123).
THEOREM WholeUnlessCutHolds == Spec => []WholeUnlessCut
<1>1. IInv => WholeUnlessCut
  BY DEF IInv, RecordInv, Tried, WholeUnlessCut
<1> QED
  BY <1>1, Inductive, PTL
=============================================================================
