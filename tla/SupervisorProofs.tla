--------------------------- MODULE SupervisorProofs ---------------------------
(***************************************************************************)
(* For every request, number of workflows, rounds, attempts and crashes:   *)
(* the invariants of Converge, that a fatal error is the last entry of a   *)
(* history, and, in the second part, the invariants of Supervisor, whose   *)
(* children are runs of Converge.                                          *)
(*                                                                         *)
(* In the first part what is asked of a run, its code's variables, how it  *)
(* closed and its history are related by RunInv, a predicate of these four *)
(* values, so that the lemmas about it speak of one run and mention no     *)
(* variable.                                                               *)
(*                                                                         *)
(* In the second the children keep the invariant of the first.  What the   *)
(* supervisor is to its own history and to what its children were asked    *)
(* and have come to is SupInv, a predicate of these values: rq is the      *)
(* request, ask what the children were asked, out how they closed, s the   *)
(* supervisor's variables, c how it closed and h its history.              *)
(***************************************************************************)
EXTENDS Supervisor, SequenceTheorems, FiniteSetTheorems, TLAPS

-----------------------------------------------------------------------------
(* The values *)

Reply == [approved : BOOLEAN, feedback : Text]

Command == [kind : {"Research"}, previous : Text, feedback : Text]
              \cup [kind : {"Critique"}, answer : Text, round : Nat]

Activity ==
    [input : Command, state : {"scheduled", "running", "completed", "failed"}, attempts : Nat,
     result : {NoResult} \cup Text \cup Reply, error : ErrorTypes \cup {NoError}]

Locals ==
    [pc : {"check", "research", "researching", "critique", "critiquing", "end"},
     round : Nat \ {0}, previous : Text, feedback : Text, candidate : Text,
     rounds : Seq([research : Text]), issued : Nat]

Closings ==
    [state : {"open", "completed", "failed", "terminated"}, text : Text, rounds : Nat,
     converged : BOOLEAN]

FatalErrors == {"InvalidLLMResponse", "ConfigurationError"}

-----------------------------------------------------------------------------
(* The inductive invariant *)

\* Only the latest activity may be unfinished; there is an attempt left for one
\* that is scheduled, and an error that forbids another comes with no other.
Progress(h) ==
    \A k \in 1..Len(h) :
        /\ k < Len(h) => h[k].state = "completed"
        /\ h[k].state = "completed" =>
              h[k].result \in IF h[k].input.kind = "Research" THEN Text ELSE Reply
        /\ h[k].attempts <= MaxAttempts[h[k].input.kind]
        /\ h[k].state = "scheduled" => h[k].attempts < MaxAttempts[h[k].input.kind]
        /\ h[k].error \in FatalErrors => h[k].state = "failed"

\* The research of round r revises what the round before made and had rejected.
Revises(h, r) ==
    /\ h[2 * r - 1].input =
          [kind |-> "Research",
           previous |-> IF r = 1 THEN NoText ELSE h[2 * r - 3].result,
           feedback |-> IF r = 1 THEN NoText ELSE h[2 * r - 2].result.feedback]
    /\ r > 1 => ~h[2 * r - 2].result.approved

\* The critique of round r is of its research.
Judges(h, r) ==
    h[2 * r].input = [kind |-> "Critique", answer |-> h[2 * r - 1].result, round |-> r]

Alternates(h) ==
    \A r \in Nat \ {0} : /\ 2 * r - 1 <= Len(h) => Revises(h, r)
                         /\ 2 * r <= Len(h) => Judges(h, r)

\* Before its current round the code has seen a research and a rejection for each.
Past(l, h) ==
    /\ 2 * l.round - 2 <= l.issued /\ l.issued <= Len(h)
    /\ Len(l.rounds) = l.round - 1
    /\ \A r \in 1..(l.round - 1) :
          /\ h[2 * r].state = "completed" /\ ~h[2 * r].result.approved
          /\ l.rounds[r].research = h[2 * r - 1].result
    /\ l.previous = IF l.round = 1 THEN NoText ELSE h[2 * l.round - 3].result
    /\ l.feedback = IF l.round = 1 THEN NoText ELSE h[2 * l.round - 2].result.feedback

\* Where the code stands in the history that it replays or writes.
Place(l, h) ==
    /\ l.pc = "check" => l.round = 1 /\ l.issued = 0
    /\ l.pc = "research" => l.issued = 2 * l.round - 2
    /\ l.pc = "researching" => l.issued = 2 * l.round - 1
    /\ l.pc = "critique" => l.issued = 2 * l.round - 1
    /\ l.pc = "critiquing" => l.issued = 2 * l.round
    /\ l.pc \in {"critique", "critiquing"} =>
          /\ h[2 * l.round - 1].state = "completed"
          /\ l.candidate = h[2 * l.round - 1].result

\* What is asked bounds the rounds that are begun and the activities on record.
Bounded(q, l, h) ==
    /\ h # <<>> => q # NotAsked /\ Len(h) <= 2 * q.maxRounds
    /\ l.pc \in {"research", "researching", "critique", "critiquing"} =>
          /\ q # NotAsked /\ q.maxRounds > 0
          /\ l.round <= q.maxRounds + (IF l.pc = "research" THEN 1 ELSE 0)

\* How a completed run closed.
Closed(q, o, h) ==
    o.state = "completed" =>
        /\ o.rounds > 0 /\ Len(h) = 2 * o.rounds
        /\ o.text = h[2 * o.rounds - 1].result
        /\ o.converged = h[2 * o.rounds].result.approved
        /\ o.rounds <= q.maxRounds
        /\ ~o.converged => o.rounds = q.maxRounds

HistoryInv(h) == h \in Seq(Activity) /\ Progress(h) /\ Alternates(h)

RunInv(q, l, o, h) ==
    /\ HistoryInv(h)
    /\ l \in Locals /\ Past(l, h) /\ Place(l, h)
    /\ Bounded(q, l, h)
    /\ o \in Closings /\ Closed(q, o, h)

RunsInv ==
    /\ asked \in [Runs -> Questions \cup {NotAsked}]
    /\ DOMAIN local = Runs /\ DOMAIN outcome = Runs /\ DOMAIN log = Workflows
    /\ \A w \in Runs : RunInv(asked[w], local[w], outcome[w], log[w])
    /\ crashes \in 0..MaxCrashes

\* ConvergeWorkflows are the only workflows here.
IInv == RunsInv /\ \A w \in Workflows \ Runs : log[w] = <<>>

-----------------------------------------------------------------------------
(* One history *)

\* The activities of round r, where there are any.
LEMMA RoundOf ==
    ASSUME NEW k \in Nat \ {0}
    PROVE  \E r \in Nat \ {0} : k = 2 * r - 1 \/ k = 2 * r
<1>1. CASE k % 2 = 0
  <2>1. k \div 2 \in Nat \ {0} /\ k = 2 * (k \div 2)
    BY <1>1
  <2> QED
    BY <2>1
<1>2. CASE k % 2 # 0
  <2>1. (k + 1) \div 2 \in Nat \ {0} /\ k = 2 * ((k + 1) \div 2) - 1
    BY <1>2
  <2> QED
    BY <2>1
<1> QED
  BY <1>1, <1>2

\* A history whose completed activities are all kept, and whose others keep their
\* input, still alternates as far as it went.
LEMMA KeepsAlternating ==
    ASSUME NEW h, NEW g, Len(h) \in Nat, Progress(h), Alternates(h),
           \A k \in 1..Len(h) : /\ g[k].input = h[k].input
                                /\ h[k].state = "completed" => g[k] = h[k],
           NEW r \in Nat \ {0}
    PROVE  /\ 2 * r - 1 <= Len(h) => Revises(g, r)
           /\ 2 * r <= Len(h) => Judges(g, r)
<1>1. ASSUME NEW k \in 1..Len(h), k < Len(h)
      PROVE  g[k] = h[k]
  BY <1>1 DEF Progress
<1>2. ASSUME 2 * r - 1 <= Len(h)
      PROVE  Revises(g, r)
  <2>1. 2 * r - 1 \in 1..Len(h) /\ Revises(h, r)
    BY <1>2 DEF Alternates
  <2>2. ASSUME r > 1
        PROVE  g[2 * r - 2] = h[2 * r - 2] /\ g[2 * r - 3] = h[2 * r - 3]
    <3>1. 2 * r - 2 \in 1..Len(h) /\ 2 * r - 3 \in 1..Len(h)
          /\ 2 * r - 2 < Len(h) /\ 2 * r - 3 < Len(h)
      BY <1>2, <2>2
    <3> QED
      BY <1>1, <3>1
  <2>3. r = 1 \/ r > 1
    OBVIOUS
  <2> QED
    BY <2>1, <2>2, <2>3 DEF Revises
<1>3. ASSUME 2 * r <= Len(h)
      PROVE  Judges(g, r)
  <2>1. 2 * r \in 1..Len(h) /\ 2 * r - 1 \in 1..Len(h) /\ 2 * r - 1 < Len(h)
    BY <1>3
  <2>2. Judges(h, r)
    BY <1>3 DEF Alternates
  <2> QED
    BY <1>1, <2>1, <2>2 DEF Judges
<1> QED
  BY <1>2, <1>3

\* In such a history, or a longer one, the code stands where it stood.
LEMMA KeepsPlace ==
    ASSUME NEW l \in Locals, NEW h, NEW g, Len(h) \in Nat, Progress(h), Past(l, h), Place(l, h),
           Len(g) \in Nat, Len(h) <= Len(g),
           \A k \in 1..Len(h) : h[k].state = "completed" => g[k] = h[k]
    PROVE  Past(l, g) /\ Place(l, g)
<1>1. /\ l.round \in Nat \ {0} /\ l.issued \in Nat
      /\ 2 * l.round - 2 <= l.issued /\ l.issued <= Len(h)
  BY DEF Locals, Past
<1>2. ASSUME NEW r \in 1..(l.round - 1)
      PROVE  g[2 * r] = h[2 * r] /\ g[2 * r - 1] = h[2 * r - 1]
  <2>1. 2 * r \in 1..Len(h) /\ 2 * r - 1 \in 1..Len(h) /\ 2 * r - 1 < Len(h)
    BY <1>1
  <2>2. h[2 * r].state = "completed" /\ h[2 * r - 1].state = "completed"
    BY <2>1 DEF Past, Progress
  <2> QED
    BY <2>1, <2>2
<1>3. l.round > 1 => /\ g[2 * l.round - 2] = h[2 * l.round - 2]
                     /\ g[2 * l.round - 3] = h[2 * l.round - 3]
  <2> DEFINE s == l.round - 1
  <2>1. l.round > 1 => s \in 1..(l.round - 1)
    BY <1>1
  <2>2. 2 * s = 2 * l.round - 2 /\ 2 * s - 1 = 2 * l.round - 3
    BY <1>1
  <2> HIDE DEF s
  <2> QED
    BY <1>2, <2>1, <2>2
<1>4. Past(l, g)
  <2>1. \A r \in 1..(l.round - 1) : /\ g[2 * r].state = "completed"
                                    /\ ~g[2 * r].result.approved
                                    /\ l.rounds[r].research = g[2 * r - 1].result
    BY <1>2 DEF Past
  <2>2. 2 * l.round - 2 <= l.issued /\ l.issued <= Len(g) /\ Len(l.rounds) = l.round - 1
    BY <1>1 DEF Past
  <2>3. l.previous = IF l.round = 1 THEN NoText ELSE g[2 * l.round - 3].result
    BY <1>1, <1>3 DEF Past
  <2>4. l.feedback = IF l.round = 1 THEN NoText ELSE g[2 * l.round - 2].result.feedback
    BY <1>1, <1>3 DEF Past
  <2> QED
    BY <2>1, <2>2, <2>3, <2>4 DEF Past
<1>5. ASSUME l.pc \in {"critique", "critiquing"}
      PROVE  g[2 * l.round - 1] = h[2 * l.round - 1]
  <2>1. 2 * l.round - 1 \in 1..Len(h) /\ h[2 * l.round - 1].state = "completed"
    BY <1>1, <1>5 DEF Place
  <2> QED
    BY <2>1
<1>6. Place(l, g)
  BY <1>5 DEF Place
<1> QED
  BY <1>4, <1>6

\* What may become of the latest activity of a history that has not completed.
Continues(a, b) ==
    /\ b \in Activity /\ b.input = a.input
    /\ b.attempts <= MaxAttempts[b.input.kind]
    /\ b.state = "scheduled" => b.attempts < MaxAttempts[b.input.kind]
    /\ b.error \in FatalErrors => b.state = "failed"
    /\ b.state = "completed" => b.result \in IF b.input.kind = "Research" THEN Text ELSE Reply

\* An attempt that starts or ends leaves a history a history, and the code where
\* it stands in it.
LEMMA LatestContinues ==
    ASSUME NEW q, NEW l, NEW o, NEW h, RunInv(q, l, o, h), o.state # "completed",
           h # <<>>, h[Len(h)].state # "completed",
           NEW a, Continues(h[Len(h)], a)
    PROVE  RunInv(q, l, o, [h EXCEPT ![Len(h)] = a])
<1> DEFINE n == Len(h)
           g == [h EXCEPT ![n] = a]
<1>1. /\ h \in Seq(Activity) /\ n \in Nat \ {0} /\ a \in Activity
      /\ l \in Locals /\ Past(l, h) /\ Place(l, h) /\ Progress(h) /\ Alternates(h)
  BY EmptySeq DEF RunInv, HistoryInv, Continues
<1>2. /\ g \in Seq(Activity) /\ Len(g) = n
      /\ \A k \in 1..n : g[k] = IF k = n THEN a ELSE h[k]
  BY <1>1, ExceptSeq
<1>3. /\ g # <<>>
      /\ \A k \in 1..n : /\ g[k].input = h[k].input
                         /\ h[k].state = "completed" => g[k] = h[k]
  BY <1>1, <1>2, EmptySeq DEF Continues
<1> HIDE DEF g
<1>4. Progress(g)
  BY <1>1, <1>2 DEF Progress, Continues
<1>5. Alternates(g)
  BY <1>1, <1>2, <1>3, KeepsAlternating DEF Alternates
<1>6. Past(l, g) /\ Place(l, g)
  BY <1>1, <1>2, <1>3, KeepsPlace
<1>7. Bounded(q, l, g)
  BY <1>1, <1>2, <1>3 DEF RunInv, Bounded
<1> QED
  BY <1>1, <1>2, <1>4, <1>5, <1>6, <1>7 DEF RunInv, HistoryInv, Closed, g

\* A command of round r is put after activities that have all completed.
LEMMA CommandAppended ==
    ASSUME NEW h, HistoryInv(h),
           h # <<>> => h[Len(h)].state = "completed",
           NEW input \in Command, NEW r \in Nat \ {0},
           \/ Len(h) + 1 = 2 * r - 1 /\ Revises(Append(h, Scheduled(input)), r)
           \/ Len(h) + 1 = 2 * r /\ Judges(Append(h, Scheduled(input)), r)
    PROVE  /\ HistoryInv(Append(h, Scheduled(input)))
           /\ Len(Append(h, Scheduled(input))) = Len(h) + 1
           /\ \A k \in 1..Len(h) : Append(h, Scheduled(input))[k] = h[k]
<1> DEFINE n == Len(h)
           a == Scheduled(input)
           g == Append(h, a)
<1>1. /\ h \in Seq(Activity) /\ n \in Nat /\ Progress(h) /\ Alternates(h)
      /\ h # <<>> => n \in 1..n
  BY EmptySeq, LenProperties DEF HistoryInv
<1>2. /\ a \in Activity /\ a.input = input /\ a.state = "scheduled"
      /\ a.attempts = 0 /\ a.error = NoError
      /\ input.kind \in {"Research", "Critique"}
  BY DEF Scheduled, Activity, Command
<1>3. /\ g \in Seq(Activity) /\ Len(g) = n + 1
      /\ \A k \in 1..n : g[k] = h[k]
      /\ g[n + 1] = a
  BY <1>1, <1>2, AppendProperties
<1>4. MaxAttempts[input.kind] \in Nat \ {0} /\ NoError \notin FatalErrors
  BY <1>2, PolicyAssumption, KindsAssumption, FatalAssumption DEF FatalErrors
<1> HIDE DEF g, a
<1>5. \A k \in 1..n : h[k].state = "completed"
  BY <1>1, EmptySeq DEF Progress
<1>6. Progress(g)
  <2> SUFFICES ASSUME NEW k \in 1..(n + 1)
               PROVE  /\ k < n + 1 => g[k].state = "completed"
                      /\ g[k].state = "completed" =>
                            g[k].result \in IF g[k].input.kind = "Research" THEN Text ELSE Reply
                      /\ g[k].attempts <= MaxAttempts[g[k].input.kind]
                      /\ g[k].state = "scheduled" =>
                            g[k].attempts < MaxAttempts[g[k].input.kind]
                      /\ g[k].error \in FatalErrors => g[k].state = "failed"
    BY <1>3 DEF Progress
  <2>1. CASE k = n + 1
    BY <1>2, <1>3, <1>4, <2>1
  <2>2. CASE k \in 1..n
    BY <1>1, <1>3, <1>5, <2>2 DEF Progress
  <2> QED
    BY <1>1, <2>1, <2>2
<1>7. Alternates(g)
  <2> SUFFICES ASSUME NEW s \in Nat \ {0}
               PROVE  /\ 2 * s - 1 <= n + 1 => Revises(g, s)
                      /\ 2 * s <= n + 1 => Judges(g, s)
    BY <1>3 DEF Alternates
  <2>1. /\ 2 * s - 1 <= n => Revises(g, s)
        /\ 2 * s <= n => Judges(g, s)
    BY <1>1, <1>3, KeepsAlternating
  <2>2. (2 * s - 1 = n + 1 => Revises(g, s)) /\ (2 * s = n + 1 => Judges(g, s))
    <3>1. CASE n + 1 = 2 * r - 1 /\ Revises(g, r)
      <4>1. 2 * s # n + 1 /\ (2 * s - 1 = n + 1 => s = r)
        BY <3>1
      <4> QED
        BY <3>1, <4>1
    <3>2. CASE n + 1 = 2 * r /\ Judges(g, r)
      <4>1. 2 * s - 1 # n + 1 /\ (2 * s = n + 1 => s = r)
        BY <3>2
      <4> QED
        BY <3>2, <4>1
    <3> QED
      BY <3>1, <3>2 DEF g, a
  <2>3. /\ 2 * s - 1 <= n + 1 => 2 * s - 1 <= n \/ 2 * s - 1 = n + 1
        /\ 2 * s <= n + 1 => 2 * s <= n \/ 2 * s = n + 1
    BY <1>1
  <2> QED
    BY <2>1, <2>2, <2>3
<1> QED
  BY <1>3, <1>6, <1>7 DEF HistoryInv, g, a

-----------------------------------------------------------------------------
(* One run *)

\* At the top of a round.
LEMMA RoundBegins ==
    ASSUME NEW l \in Locals, NEW h, HistoryInv(h), Past(l, h), Place(l, h)
    PROVE  LET r == l.round IN
           /\ r \in Nat \ {0} /\ l.issued \in Nat /\ Len(h) \in Nat /\ l.issued <= Len(h)
           /\ r = 1 => l.previous = NoText /\ l.feedback = NoText
           /\ r > 1 => /\ l.previous = h[2 * r - 3].result
                       /\ l.feedback = h[2 * r - 2].result.feedback
                       /\ h[2 * r - 2].state = "completed" /\ ~h[2 * r - 2].result.approved
<1> DEFINE r == l.round
           s == r - 1
<1>1. /\ r \in Nat \ {0} /\ l.issued \in Nat /\ Len(h) \in Nat /\ l.issued <= Len(h)
      /\ l.previous = IF r = 1 THEN NoText ELSE h[2 * r - 3].result
      /\ l.feedback = IF r = 1 THEN NoText ELSE h[2 * r - 2].result.feedback
  BY LenProperties DEF HistoryInv, Locals, Past
<1>2. (r > 1 => s \in 1..(l.round - 1)) /\ 2 * s = 2 * r - 2
  <2>1. r > 1 => s \in 1..(l.round - 1)
    BY <1>1
  <2>2. 2 * s = 2 * r - 2
    BY <1>1
  <2> QED
    BY <2>1, <2>2
<1> HIDE DEF s
<1>3. r > 1 => h[2 * s].state = "completed" /\ ~h[2 * s].result.approved
  BY <1>2 DEF Past
<1> QED
  BY <1>1, <1>2, <1>3

\* The code goes on to wait for the command it has issued.
Waits(l, m, pc) ==
    /\ m \in Locals /\ m.pc = pc /\ m.issued = l.issued + 1
    /\ m.round = l.round /\ m.previous = l.previous /\ m.feedback = l.feedback
    /\ m.rounds = l.rounds /\ m.candidate = l.candidate

LEMMA IssuedWaits ==
    ASSUME NEW l \in Locals, NEW pc \in {"researching", "critiquing"}
    PROVE  Waits(l, [l EXCEPT !.pc = pc, !.issued = @ + 1], pc)
<1>1. l.issued + 1 \in Nat
  BY DEF Locals
<1> QED
  BY <1>1 DEF Locals, Waits

\* The command that the code issues, from where it stands, is the next one of the
\* history or, if there is no next, becomes it.
LEMMA ResearchIssued ==
    ASSUME NEW q, NEW l, NEW o, NEW h, RunInv(q, l, o, h), o.state # "completed",
           l.pc = "research", l.round <= q.maxRounds, q.maxRounds \in Int,
           NEW input,
           input = [kind |-> "Research", previous |-> l.previous, feedback |-> l.feedback],
           NEW m, Waits(l, m, "researching")
    PROVE  /\ l.issued = Len(h) => RunInv(q, m, o, Append(h, Scheduled(input)))
           /\ l.issued # Len(h) => h[l.issued + 1].input = input /\ RunInv(q, m, o, h)
<1> DEFINE n == Len(h)
           r == l.round
           g == Append(h, Scheduled(input))
<1>1. /\ HistoryInv(h) /\ l \in Locals /\ o \in Closings
      /\ Past(l, h) /\ Place(l, h) /\ Bounded(q, l, h)
  BY DEF RunInv
<1>2. /\ r \in Nat \ {0} /\ n \in Nat /\ l.issued = 2 * r - 2 /\ l.issued <= n
      /\ input = [kind |-> "Research",
                  previous |-> IF r = 1 THEN NoText ELSE h[2 * r - 3].result,
                  feedback |-> IF r = 1 THEN NoText ELSE h[2 * r - 2].result.feedback]
      /\ r > 1 => h[2 * r - 2].state = "completed" /\ ~h[2 * r - 2].result.approved
  BY <1>1, RoundBegins DEF Place
<1>3. /\ m \in Locals /\ m.issued = 2 * r - 1 /\ m.pc = "researching"
      /\ m.round = r /\ m.previous = l.previous /\ m.feedback = l.feedback
      /\ m.rounds = l.rounds
  BY <1>2 DEF Waits
<1>4. ASSUME NEW k, Len(k) \in Nat, Past(l, k), 2 * r - 1 <= Len(k)
      PROVE  Past(m, k) /\ Place(m, k)
  BY <1>2, <1>3, <1>4 DEF Past, Place
<1>5. ASSUME l.issued # n
      PROVE  h[l.issued + 1].input = input /\ RunInv(q, m, o, h)
  <2>1. 2 * r - 1 <= n /\ l.issued + 1 = 2 * r - 1
    BY <1>2, <1>5
  <2>2. h[2 * r - 1].input = input
    BY <1>1, <1>2, <2>1 DEF HistoryInv, Alternates, Revises
  <2>3. Bounded(q, m, h)
    BY <1>1, <1>3 DEF Bounded
  <2> QED
    BY <1>1, <1>2, <1>3, <1>4, <2>1, <2>2, <2>3 DEF RunInv, Closed
<1>6. ASSUME l.issued = n
      PROVE  RunInv(q, m, o, g)
  <2>1. n + 1 = 2 * r - 1 /\ (r > 1 => 2 * r - 2 \in 1..n /\ 2 * r - 3 \in 1..n)
    <3>1. r \in Nat \ {0} /\ n \in Nat /\ n = 2 * r - 2
      BY <1>2, <1>6
    <3> HIDE DEF r, n
    <3>2. n + 1 = 2 * r - 1
      BY <3>1
    <3>3. r > 1 => 2 * r - 2 \in 1..n /\ 2 * r - 3 \in 1..n
      BY <3>1
    <3> QED
      BY <3>2, <3>3
  <2>2. input \in Command /\ Scheduled(input) \in Activity /\ Scheduled(input).input = input
    BY <1>1 DEF Scheduled, Activity, Command, Locals
  <2>3. /\ \A k \in 1..n : g[k] = h[k]
        /\ g[n + 1] = Scheduled(input)
    BY <1>1, <2>2, AppendProperties DEF HistoryInv
  <2> HIDE DEF g
  <2>4. g[2 * r - 1].input = input
    BY <2>1, <2>2, <2>3
  <2>5. r > 1 => g[2 * r - 2] = h[2 * r - 2] /\ g[2 * r - 3] = h[2 * r - 3]
    BY <2>1, <2>3
  <2>6. Revises(g, r)
    <3>1. r = 1 \/ r > 1
      BY <1>2
    <3> QED
      BY <1>2, <2>4, <2>5, <3>1 DEF Revises
  <2>7. h # <<>> => h[n].state = "completed"
    BY <1>1, <1>2, <1>6, EmptySeq DEF HistoryInv
  <2>8. HistoryInv(g) /\ Len(g) = n + 1
    <3>1. r \in Nat \ {0} /\ HistoryInv(h) /\ input \in Command
      BY <1>1, <1>2, <2>2
    <3>2. n + 1 = 2 * r - 1 /\ Revises(Append(h, Scheduled(input)), r)
      BY <2>1, <2>6 DEF g
    <3> HIDE DEF r
    <3> QED
      BY <2>7, <3>1, <3>2, CommandAppended DEF g
  <2>9. Past(m, g) /\ Place(m, g)
    <3>1. l \in Locals /\ Progress(h) /\ Past(l, h) /\ Place(l, h)
      BY <1>1 DEF HistoryInv
    <3>2. n \in Nat /\ Len(g) = n + 1 /\ Len(g) \in Nat /\ n <= Len(g)
      BY <1>2, <2>8
    <3>3. Past(l, g)
      BY <2>3, <3>1, <3>2, KeepsPlace
    <3> QED
      BY <1>2, <1>4, <2>1, <2>8, <3>3
  <2>10. Bounded(q, m, g)
    BY <1>1, <1>2, <1>3, <2>1, <2>8 DEF Bounded
  <2> QED
    BY <1>1, <1>3, <2>8, <2>9, <2>10 DEF RunInv, Closed
<1> QED
  BY <1>5, <1>6

LEMMA CritiqueIssued ==
    ASSUME NEW q, NEW l, NEW o, NEW h, RunInv(q, l, o, h), o.state # "completed",
           l.pc = "critique", q.maxRounds \in Int,
           NEW input,
           input = [kind |-> "Critique", answer |-> l.candidate, round |-> l.round],
           NEW m, Waits(l, m, "critiquing")
    PROVE  /\ l.issued = Len(h) => RunInv(q, m, o, Append(h, Scheduled(input)))
           /\ l.issued # Len(h) => h[l.issued + 1].input = input /\ RunInv(q, m, o, h)
<1> DEFINE n == Len(h)
           r == l.round
           g == Append(h, Scheduled(input))
<1>1. /\ HistoryInv(h) /\ l \in Locals /\ o \in Closings
      /\ Past(l, h) /\ Place(l, h) /\ Bounded(q, l, h)
  BY DEF RunInv
<1>2. /\ r \in Nat \ {0} /\ n \in Nat /\ l.issued = 2 * r - 1 /\ l.issued <= n
      /\ input = [kind |-> "Critique", answer |-> h[2 * r - 1].result, round |-> r]
      /\ h[2 * r - 1].state = "completed" /\ l.candidate = h[2 * r - 1].result
  BY <1>1, RoundBegins DEF Place
<1>3. /\ m \in Locals /\ m.issued = 2 * r /\ m.pc = "critiquing"
      /\ m.round = r /\ m.previous = l.previous /\ m.feedback = l.feedback
      /\ m.rounds = l.rounds /\ m.candidate = l.candidate
  BY <1>2 DEF Waits
<1>4. ASSUME NEW k, Len(k) \in Nat, Past(l, k), Place(l, k), 2 * r <= Len(k)
      PROVE  Past(m, k) /\ Place(m, k)
  BY <1>2, <1>3, <1>4 DEF Past, Place
<1>5. ASSUME l.issued # n
      PROVE  h[l.issued + 1].input = input /\ RunInv(q, m, o, h)
  <2>1. 2 * r <= n /\ l.issued + 1 = 2 * r
    BY <1>2, <1>5
  <2>2. h[2 * r].input = input
    BY <1>1, <1>2, <2>1 DEF HistoryInv, Alternates, Judges
  <2>3. Bounded(q, m, h)
    BY <1>1, <1>2, <1>3 DEF Bounded
  <2> QED
    BY <1>1, <1>2, <1>3, <1>4, <2>1, <2>2, <2>3 DEF RunInv, Closed
<1>6. ASSUME l.issued = n
      PROVE  RunInv(q, m, o, g)
  <2>1. n + 1 = 2 * r /\ 2 * r - 1 \in 1..n
    BY <1>2, <1>6
  <2>2. input \in Command /\ Scheduled(input) \in Activity /\ Scheduled(input).input = input
    BY <1>1, <1>2 DEF Scheduled, Activity, Command, Locals
  <2>3. /\ \A k \in 1..n : g[k] = h[k]
        /\ g[n + 1] = Scheduled(input)
    BY <1>1, <2>2, AppendProperties DEF HistoryInv
  <2> HIDE DEF g
  <2>4. Judges(g, r)
    BY <1>2, <2>1, <2>2, <2>3 DEF Judges
  <2>5. h[n].state = "completed"
    BY <1>2, <1>6
  <2>6. HistoryInv(g) /\ Len(g) = n + 1
    BY <1>1, <1>2, <2>1, <2>2, <2>4, <2>5, CommandAppended DEF g
  <2>7. Past(m, g) /\ Place(m, g)
    <3>1. Past(l, g) /\ Place(l, g)
      BY <1>1, <1>2, <2>3, <2>6, KeepsPlace DEF HistoryInv
    <3> QED
      BY <1>2, <1>4, <2>1, <2>6, <3>1
  <2>8. Bounded(q, m, g)
    BY <1>1, <1>2, <1>3, <2>1, <2>6 DEF Bounded
  <2> QED
    BY <1>1, <1>3, <2>6, <2>7, <2>8 DEF RunInv, Closed
<1> QED
  BY <1>5, <1>6

\* The other moves of the code read the history and leave it alone.
LEMMA CheckedMoves ==
    ASSUME NEW q, NEW l, NEW o, NEW h, RunInv(q, l, o, h), o.state # "completed",
           l.pc = "check", q # NotAsked, q.maxRounds \in Int, q.maxRounds > 0
    PROVE  RunInv(q, [l EXCEPT !.pc = "research"], o, h)
<1> DEFINE m == [l EXCEPT !.pc = "research"]
<1>1. l \in Locals /\ Past(l, h) /\ Place(l, h) /\ Bounded(q, l, h)
  BY DEF RunInv
<1>2. /\ m \in Locals /\ m.pc = "research" /\ m.round = 1 /\ m.issued = 0
      /\ l.round = 1 /\ l.issued = 0
      /\ m.rounds = l.rounds /\ m.previous = l.previous /\ m.feedback = l.feedback
  BY <1>1 DEF Locals, Place
<1> HIDE DEF m
<1>3. Past(m, h) /\ Place(m, h)
  BY <1>1, <1>2 DEF Past, Place
<1>4. Bounded(q, m, h)
  BY <1>1, <1>2 DEF Bounded
<1> QED
  BY <1>2, <1>3, <1>4 DEF RunInv, m

LEMMA ResearchedMoves ==
    ASSUME NEW q, NEW l, NEW o, NEW h, RunInv(q, l, o, h),
           l.pc = "researching", l.issued <= Len(h), h[l.issued].state = "completed"
    PROVE  RunInv(q, [l EXCEPT !.pc = "critique", !.candidate = h[l.issued].result], o, h)
<1> DEFINE m == [l EXCEPT !.pc = "critique", !.candidate = h[l.issued].result]
           r == l.round
<1>1. l \in Locals /\ Past(l, h) /\ Place(l, h) /\ Bounded(q, l, h) /\ HistoryInv(h)
  BY DEF RunInv
<1>2. /\ r \in Nat \ {0} /\ Len(h) \in Nat /\ l.issued = 2 * r - 1
      /\ l.issued \in 1..Len(h)
  <2>1. r \in Nat \ {0} /\ Len(h) \in Nat /\ l.issued = 2 * r - 1
    BY <1>1, RoundBegins DEF Place
  <2> QED
    BY <2>1
<1>3. h[l.issued].result \in Text
  <2>1. Revises(h, r)
    BY <1>1, <1>2 DEF HistoryInv, Alternates
  <2>2. h[l.issued].input.kind = "Research"
    BY <1>2, <2>1 DEF Revises
  <2> QED
    BY <1>1, <1>2, <2>2 DEF HistoryInv, Progress
<1>4. /\ m \in Locals /\ m.pc = "critique" /\ m.round = r /\ m.issued = l.issued
      /\ m.candidate = h[l.issued].result
      /\ m.rounds = l.rounds /\ m.previous = l.previous /\ m.feedback = l.feedback
  BY <1>1, <1>3 DEF Locals
<1> HIDE DEF m
<1>5. Past(m, h)
  BY <1>1, <1>4 DEF Past
<1>6. Place(m, h)
  BY <1>2, <1>4 DEF Place
<1>7. Bounded(q, m, h)
  BY <1>1, <1>4 DEF Bounded
<1> QED
  BY <1>1, <1>4, <1>5, <1>6, <1>7 DEF RunInv, m

\* What the critic has said of this round.
LEMMA VerdictTyped ==
    ASSUME NEW l \in Locals, NEW h, HistoryInv(h), Past(l, h), Place(l, h),
           l.pc = "critiquing", h[l.issued].state = "completed"
    PROVE  LET r == l.round IN
           /\ r \in Nat \ {0} /\ l.issued = 2 * r
           /\ Len(h) \in Nat /\ 2 * r \in 1..Len(h) /\ 2 * r - 1 \in 1..Len(h)
           /\ h[2 * r].result \in Reply
           /\ h[2 * r - 1].result = l.candidate
<1> DEFINE r == l.round
<1>1. /\ r \in Nat \ {0} /\ l.issued = 2 * r /\ Len(h) \in Nat /\ l.issued <= Len(h)
      /\ h[2 * r - 1].result = l.candidate
  BY RoundBegins DEF Place
<1>2. 2 * r \in 1..Len(h) /\ 2 * r - 1 \in 1..Len(h)
  BY <1>1
<1>3. Judges(h, r)
  BY <1>1, <1>2 DEF HistoryInv, Alternates
<1>4. h[2 * r].input.kind = "Critique"
  BY <1>3 DEF Judges
<1>5. h[2 * r].result \in Reply
  BY <1>1, <1>2, <1>4 DEF HistoryInv, Progress
<1> QED
  BY <1>1, <1>2, <1>5

LEMMA CarriedMoves ==
    ASSUME NEW q, NEW l, NEW o, NEW h, RunInv(q, l, o, h), q.maxRounds \in Int,
           l.pc = "critiquing", h[l.issued].state = "completed",
           ~h[l.issued].result.approved
    PROVE  RunInv(q, [l EXCEPT !.pc = "research",
                               !.rounds = Append(@, [research |-> l.candidate]),
                               !.previous = l.candidate,
                               !.feedback = h[l.issued].result.feedback,
                               !.round = @ + 1], o, h)
<1> DEFINE m == [l EXCEPT !.pc = "research",
                          !.rounds = Append(@, [research |-> l.candidate]),
                          !.previous = l.candidate,
                          !.feedback = h[l.issued].result.feedback,
                          !.round = @ + 1]
           r == l.round
<1>1. l \in Locals /\ Past(l, h) /\ Place(l, h) /\ Bounded(q, l, h) /\ HistoryInv(h)
  BY DEF RunInv
<1>2. /\ r \in Nat \ {0} /\ l.issued = 2 * r
      /\ Len(h) \in Nat /\ 2 * r \in 1..Len(h) /\ 2 * r - 1 \in 1..Len(h)
      /\ h[2 * r].result \in Reply
      /\ h[2 * r - 1].result = l.candidate
  BY <1>1, VerdictTyped
<1>3. /\ l.rounds \in Seq([research : Text]) /\ l.candidate \in Text
      /\ [research |-> l.candidate] \in [research : Text]
      /\ h[l.issued].result.feedback \in Text
      /\ r + 1 \in Nat \ {0}
  BY <1>1, <1>2 DEF Locals, Reply
<1>4. /\ Append(l.rounds, [research |-> l.candidate]) \in Seq([research : Text])
      /\ Len(Append(l.rounds, [research |-> l.candidate])) = Len(l.rounds) + 1
      /\ \A k \in 1..Len(l.rounds) : Append(l.rounds, [research |-> l.candidate])[k] = l.rounds[k]
      /\ Append(l.rounds, [research |-> l.candidate])[Len(l.rounds) + 1] =
             [research |-> l.candidate]
  BY <1>3, AppendProperties
<1>5. /\ m \in Locals /\ m.pc = "research" /\ m.round = r + 1 /\ m.issued = 2 * r
      /\ m.previous = h[2 * r - 1].result /\ m.feedback = h[2 * r].result.feedback
      /\ m.rounds = Append(l.rounds, [research |-> l.candidate])
  BY <1>1, <1>2, <1>3, <1>4 DEF Locals
<1> HIDE DEF m
<1>6. Len(l.rounds) = r - 1
  BY <1>1 DEF Past
<1>7. Past(m, h)
  <2>1. /\ 2 * m.round - 2 = 2 * r /\ 2 * m.round - 3 = 2 * r - 1 /\ m.round # 1
        /\ 2 * r <= Len(h)
    BY <1>2, <1>5, SMTT(20)
  <2>2. Len(m.rounds) = m.round - 1
    BY <1>2, <1>4, <1>5, <1>6
  <2>3. ASSUME NEW k \in 1..(m.round - 1)
        PROVE  /\ h[2 * k].state = "completed" /\ ~h[2 * k].result.approved
               /\ m.rounds[k].research = h[2 * k - 1].result
    <3>1. CASE k = r
      <4>1. m.rounds[k] = [research |-> l.candidate]
        BY <1>2, <1>4, <1>5, <1>6, <3>1
      <4> QED
        BY <1>2, <3>1, <4>1
    <3>2. CASE k \in 1..(r - 1)
      <4>1. m.rounds[k] = l.rounds[k]
        BY <1>4, <1>5, <1>6, <3>2
      <4> QED
        BY <1>1, <3>2, <4>1 DEF Past
    <3>3. k = r \/ k \in 1..(r - 1)
      <4>1. r \in Nat \ {0} /\ k \in 1..(r + 1 - 1)
        BY <1>2, <1>5
      <4> HIDE DEF r
      <4> QED
        BY <4>1
    <3> QED
      BY <3>1, <3>2, <3>3
  <2>4. /\ 2 * m.round - 2 <= m.issued /\ m.issued <= Len(h)
        /\ m.previous = IF m.round = 1 THEN NoText ELSE h[2 * m.round - 3].result
        /\ m.feedback = IF m.round = 1 THEN NoText ELSE h[2 * m.round - 2].result.feedback
    <3>1. 2 * r \in Nat
      BY <1>2
    <3> HIDE DEF r
    <3> QED
      BY <1>5, <2>1, <3>1
  <2> QED
    BY <2>2, <2>3, <2>4 DEF Past
<1>8. Place(m, h)
  BY <1>2, <1>5 DEF Place
<1>9. Bounded(q, m, h)
  BY <1>1, <1>2, <1>5 DEF Bounded
<1> QED
  BY <1>1, <1>5, <1>7, <1>8, <1>9 DEF RunInv, m

LEMMA Ends ==
    ASSUME NEW q, NEW l, NEW o, NEW h, RunInv(q, l, o, h),
           NEW p \in Closings, Closed(q, p, h)
    PROVE  RunInv(q, [l EXCEPT !.pc = "end"], p, h)
<1> DEFINE m == [l EXCEPT !.pc = "end"]
<1>1. l \in Locals /\ Past(l, h) /\ Bounded(q, l, h) /\ HistoryInv(h)
  BY DEF RunInv
<1>2. /\ m \in Locals /\ m.pc = "end" /\ m.round = l.round /\ m.issued = l.issued
      /\ m.rounds = l.rounds /\ m.previous = l.previous /\ m.feedback = l.feedback
  BY <1>1 DEF Locals
<1> HIDE DEF m
<1>3. Past(m, h) /\ Place(m, h) /\ Bounded(q, m, h)
  BY <1>1, <1>2 DEF Past, Place, Bounded
<1> QED
  BY <1>1, <1>2, <1>3 DEF RunInv, m

\* A candidate that is approved was the last: no research follows an approval.
LEMMA ApprovedCloses ==
    ASSUME NEW q, NEW l, NEW o, NEW h, RunInv(q, l, o, h), q.maxRounds \in Int,
           l.pc = "critiquing", h[l.issued].state = "completed", h[l.issued].result.approved,
           NEW p, p = [state |-> "completed", text |-> l.candidate, rounds |-> l.round,
                       converged |-> TRUE]
    PROVE  p \in Closings /\ Closed(q, p, h)
<1> DEFINE r == l.round
<1>1. l \in Locals /\ Past(l, h) /\ Place(l, h) /\ Bounded(q, l, h) /\ HistoryInv(h)
  BY DEF RunInv
<1>2. /\ r \in Nat \ {0} /\ l.issued = 2 * r
      /\ Len(h) \in Nat /\ 2 * r \in 1..Len(h) /\ 2 * r - 1 \in 1..Len(h)
      /\ h[2 * r].result \in Reply
      /\ h[2 * r - 1].result = l.candidate
  BY <1>1, VerdictTyped
<1>3. Len(h) = 2 * r
  <2>1. SUFFICES ASSUME Len(h) # 2 * r PROVE FALSE
    OBVIOUS
  <2>2. r + 1 \in Nat \ {0} /\ 2 * (r + 1) - 1 <= Len(h) /\ r + 1 > 1
        /\ 2 * (r + 1) - 2 = 2 * r
    <3>1. r \in Nat \ {0} /\ Len(h) \in Nat /\ 2 * r <= Len(h)
      BY <1>2
    <3> HIDE DEF r
    <3> QED
      BY <2>1, <3>1
  <2>3. Revises(h, r + 1)
    BY <1>1, <2>2 DEF HistoryInv, Alternates
  <2>4. ~h[2 * r].result.approved
    BY <2>2, <2>3 DEF Revises
  <2> QED
    BY <1>2, <2>4
<1>4. p \in Closings
  BY <1>1, <1>2 DEF Locals, Closings
<1>5. h[2 * r].result.approved = TRUE
  BY <1>2 DEF Reply
<1>6. r <= q.maxRounds
  BY <1>1, <1>2 DEF Bounded
<1>7. /\ p.state = "completed" /\ p.rounds = r /\ p.text = l.candidate
      /\ p.converged = TRUE
  OBVIOUS
<1>8. r > 0
  BY <1>2
<1> HIDE DEF r
<1> QED
  BY <1>2, <1>3, <1>4, <1>5, <1>6, <1>7, <1>8 DEF Closed

\* Without an approval the last round that was allowed is the last on record.
LEMMA GivenUpCloses ==
    ASSUME NEW q, NEW l, NEW o, NEW h, RunInv(q, l, o, h), q.maxRounds \in Int,
           l.pc = "research", l.round > q.maxRounds,
           NEW p, p = [state |-> "completed", text |-> l.rounds[Len(l.rounds)].research,
                       rounds |-> q.maxRounds, converged |-> FALSE]
    PROVE  p \in Closings /\ Closed(q, p, h)
<1> DEFINE r == l.round
           n == q.maxRounds
<1>1. l \in Locals /\ Past(l, h) /\ Place(l, h) /\ Bounded(q, l, h) /\ HistoryInv(h)
  BY DEF RunInv
<1>2. /\ r \in Nat \ {0} /\ l.issued = 2 * r - 2 /\ Len(h) \in Nat /\ l.issued <= Len(h)
      /\ h[2 * r - 2].state = "completed" \/ r = 1
  BY <1>1, RoundBegins DEF Place
<1>3. n > 0 /\ r <= n + 1
  BY <1>1 DEF Bounded
<1>4. r = n + 1 /\ n \in Nat \ {0} /\ 2 * r - 2 = 2 * n /\ n \in 1..(r - 1)
  <2>1. r \in Nat /\ n \in Int /\ r > n
    BY <1>2
  <2> HIDE DEF r, n
  <2> QED
    BY <1>3, <2>1
<1>5. Len(h) = 2 * n
  <2>1. h # <<>>
    <3>1. 2 * n <= Len(h) /\ 2 * n > 0
      BY <1>2, <1>4
    <3> QED
      BY <3>1, EmptySeq
  <2>2. Len(h) <= 2 * n
    BY <1>1, <2>1 DEF Bounded
  <2> QED
    BY <1>2, <1>4, <2>2
<1>6. Len(l.rounds) = n
  BY <1>1, <1>4 DEF Past
<1>7. /\ ~h[2 * n].result.approved /\ h[2 * n].state = "completed"
      /\ l.rounds[n].research = h[2 * n - 1].result
  BY <1>1, <1>4 DEF Past
<1>8. h[2 * n].result \in Reply
  <2>1. 2 * n \in 1..Len(h) /\ 2 * n <= Len(h)
    BY <1>4, <1>5
  <2>2. Judges(h, n)
    BY <1>1, <1>4, <2>1 DEF HistoryInv, Alternates
  <2>3. h[2 * n].input.kind = "Critique"
    BY <2>2 DEF Judges
  <2> QED
    BY <1>1, <1>7, <2>1, <2>3 DEF HistoryInv, Progress
<1>9. h[2 * n].result.approved = FALSE
  BY <1>7, <1>8 DEF Reply
<1>10. l.rounds[n].research \in Text
  <2>1. l.rounds \in Seq([research : Text]) /\ n \in 1..Len(l.rounds)
    BY <1>1, <1>4, <1>6 DEF Locals
  <2>2. l.rounds[n] \in [research : Text]
    BY <2>1, ElementOfSeq
  <2> QED
    BY <2>2
<1>11. p \in Closings
  BY <1>4, <1>6, <1>10 DEF Closings
<1>12. /\ p.state = "completed" /\ p.rounds = n /\ p.converged = FALSE
       /\ p.text = l.rounds[n].research
  BY <1>6
<1>13. n > 0 /\ n <= q.maxRounds /\ n = q.maxRounds
  BY <1>4
<1> HIDE DEF n
<1> QED
  BY <1>5, <1>7, <1>9, <1>11, <1>12, <1>13 DEF Closed

\* The code of a worker that has just taken a run over.
LEMMA LostMoves ==
    ASSUME NEW q, NEW l, NEW o, NEW h, RunInv(q, l, o, h)
    PROVE  RunInv(q, FromTheTop, o, h)
<1>1. HistoryInv(h) /\ Len(h) \in Nat
  BY LenProperties DEF RunInv, HistoryInv
<1>2. FromTheTop \in Locals
  BY EmptySeq DEF FromTheTop, Locals, Text
<1>3. Past(FromTheTop, h) /\ Place(FromTheTop, h)
  BY <1>1, EmptySeq DEF FromTheTop, Past, Place
<1>4. Bounded(q, FromTheTop, h)
  BY DEF RunInv, Bounded, FromTheTop
<1> QED
  BY <1>1, <1>2, <1>3, <1>4 DEF RunInv

-----------------------------------------------------------------------------
(* The steps *)

LEMMA RunChanges ==
    ASSUME RunsInv, NEW w \in Runs, asked' = asked, crashes' \in 0..MaxCrashes,
           DOMAIN local' = Runs, DOMAIN outcome' = Runs, DOMAIN log' = Workflows,
           \A v \in Runs \ {w} : /\ local'[v] = local[v] /\ outcome'[v] = outcome[v]
                                 /\ log'[v] = log[v],
           RunInv(asked[w], local'[w], outcome'[w], log'[w])
    PROVE  RunsInv'
<1> SUFFICES ASSUME NEW v \in Runs
             PROVE  RunInv(asked[v], local'[v], outcome'[v], log'[v])
  BY DEF RunsInv
<1>1. CASE v = w
  BY <1>1
<1>2. CASE v # w
  BY <1>2 DEF RunsInv
<1> QED
  BY <1>1, <1>2

LEMMA RunIsOpen ==
    ASSUME RunsInv, NEW w \in Runs, IsOpen(w)
    PROVE  /\ RunInv(asked[w], local[w], outcome[w], log[w])
           /\ asked[w] # NotAsked /\ asked[w].maxRounds \in Int
           /\ outcome[w].state = "open" /\ outcome[w].state # "completed"
           /\ local[w] \in Locals /\ log[w] \in Seq(Activity) /\ Len(log[w]) \in Nat
           /\ w \in Workflows
<1>1. RunInv(asked[w], local[w], outcome[w], log[w])
  BY DEF RunsInv
<1>2. asked[w] # NotAsked /\ asked[w] \in Questions \cup {NotAsked}
  BY DEF RunsInv, IsOpen
<1>3. asked[w].maxRounds \in Int /\ outcome[w].state = "open" /\ w \in Workflows
  BY <1>2, QuestionsAssumption, RunsAssumption DEF IsOpen
<1> QED
  BY <1>1, <1>2, <1>3, LenProperties DEF RunInv, HistoryInv

\* A step that changes the variables of w's code only.
LEMMA LocalChanges ==
    ASSUME RunsInv, NEW w \in Runs, IsOpen(w), NEW m,
           local' = [local EXCEPT ![w] = m],
           UNCHANGED <<asked, outcome, log>>, crashes' \in 0..MaxCrashes,
           RunInv(asked[w], m, outcome[w], log[w])
    PROVE  RunsInv'
<1>1. /\ DOMAIN local' = Runs /\ local'[w] = m
      /\ \A v \in Runs \ {w} : local'[v] = local[v]
  BY DEF RunsInv
<1>2. DOMAIN outcome' = Runs /\ DOMAIN log' = Workflows
  BY DEF RunsInv
<1> QED
  BY <1>1, <1>2, RunChanges

LEMMA CheckStep ==
    ASSUME RunsInv, NEW w \in Runs, Check(w)
    PROVE  RunsInv'
<1> DEFINE m == [local[w] EXCEPT !.pc = "research"]
<1>1. IsOpen(w) /\ local[w].pc = "check" /\ asked[w].maxRounds > 0
  BY DEF Check
<1>2. RunInv(asked[w], m, outcome[w], log[w])
  BY <1>1, RunIsOpen, CheckedMoves
<1>3. local' = [local EXCEPT ![w] = m] /\ UNCHANGED <<asked, outcome, crashes, log>>
  BY DEF Check
<1>4. crashes' \in 0..MaxCrashes
  BY <1>3 DEF RunsInv
<1> HIDE DEF m
<1> QED
  BY <1>1, <1>2, <1>3, <1>4, LocalChanges

LEMMA ClosesStep ==
    ASSUME RunsInv, NEW w \in Runs, IsOpen(w), NEW p \in Closings, Closes(w, p),
           Closed(asked[w], p, log[w])
    PROVE  RunsInv'
<1>1. RunInv(asked[w], [local[w] EXCEPT !.pc = "end"], p, log[w])
  BY RunIsOpen, Ends
<1>2. /\ DOMAIN local' = Runs /\ local'[w] = [local[w] EXCEPT !.pc = "end"]
      /\ DOMAIN outcome' = Runs /\ outcome'[w] = p
      /\ \A v \in Runs \ {w} : local'[v] = local[v] /\ outcome'[v] = outcome[v]
  BY DEF RunsInv, Closes
<1>3. /\ asked' = asked /\ log' = log /\ crashes' \in 0..MaxCrashes
      /\ DOMAIN log' = Workflows
  BY DEF RunsInv, Closes
<1> QED
  BY <1>1, <1>2, <1>3, RunChanges

LEMMA FailsStep ==
    ASSUME RunsInv, NEW w \in Runs, IsOpen(w), Fails(w)
    PROVE  RunsInv'
<1> DEFINE p == [Open EXCEPT !.state = "failed"]
<1>1. p \in Closings /\ p.state = "failed"
  BY DEF Open, Closings, Text
<1>2. Closes(w, p)
  BY DEF Fails
<1> HIDE DEF p
<1>3. Closed(asked[w], p, log[w])
  BY <1>1 DEF Closed
<1> QED
  BY <1>1, <1>2, <1>3, ClosesStep

LEMMA ExecuteStep ==
    ASSUME RunsInv, NEW w \in Runs, IsOpen(w), NEW input,
           NEW pc \in {"researching", "critiquing"}, Execute(w, input, pc),
           \A m : Waits(local[w], m, pc) =>
               /\ local[w].issued = Len(log[w]) =>
                     RunInv(asked[w], m, outcome[w], Append(log[w], Scheduled(input)))
               /\ local[w].issued # Len(log[w]) =>
                     /\ log[w][local[w].issued + 1].input = input
                     /\ RunInv(asked[w], m, outcome[w], log[w])
    PROVE  RunsInv'
<1> DEFINE l == local[w]
           h == log[w]
           m == [l EXCEPT !.pc = pc, !.issued = @ + 1]
<1>1. w \in Workflows /\ l \in Locals /\ Waits(l, m, pc)
  BY RunIsOpen, IssuedWaits
<1>2. Replayable(w, l.issued, input)
  BY <1>1 DEF Replayable
<1>3. local' = [local EXCEPT ![w].pc = pc, ![w].issued = @ + 1]
  BY <1>2 DEF Execute
<1>4. /\ DOMAIN local' = Runs /\ local'[w] = m
      /\ \A v \in Runs \ {w} : local'[v] = local[v]
  BY <1>3 DEF RunsInv
<1>5. /\ DOMAIN log' = Workflows
      /\ \A v \in Runs \ {w} : log'[v] = log[v]
      /\ l.issued = Len(h) => log'[w] = Append(h, Scheduled(input))
      /\ l.issued # Len(h) => log'[w] = h
  BY <1>1 DEF RunsInv, Execute, Issue
<1>6. /\ asked' = asked /\ outcome' = outcome /\ crashes' \in 0..MaxCrashes
      /\ DOMAIN outcome' = Runs
  BY DEF RunsInv, Execute
<1> HIDE DEF m
<1>7. RunInv(asked[w], m, outcome[w], log'[w])
  BY <1>1, <1>5
<1> QED
  BY <1>4, <1>5, <1>6, <1>7, RunChanges

LEMMA ResearchStep ==
    ASSUME RunsInv, NEW w \in Runs, Research(w)
    PROVE  RunsInv'
<1> DEFINE input == [kind |-> "Research", previous |-> local[w].previous,
                     feedback |-> local[w].feedback]
<1>1. /\ IsOpen(w) /\ local[w].pc = "research" /\ local[w].round <= asked[w].maxRounds
      /\ Execute(w, input, "researching")
  BY DEF Research
<1> HIDE DEF input
<1>2. ASSUME NEW m, Waits(local[w], m, "researching")
      PROVE  /\ local[w].issued = Len(log[w]) =>
                    RunInv(asked[w], m, outcome[w], Append(log[w], Scheduled(input)))
             /\ local[w].issued # Len(log[w]) =>
                    /\ log[w][local[w].issued + 1].input = input
                    /\ RunInv(asked[w], m, outcome[w], log[w])
  BY <1>1, <1>2, RunIsOpen, ResearchIssued DEF input
<1> QED
  BY <1>1, <1>2, ExecuteStep

LEMMA CritiqueStep ==
    ASSUME RunsInv, NEW w \in Runs, Critique(w)
    PROVE  RunsInv'
<1> DEFINE input == [kind |-> "Critique", answer |-> local[w].candidate,
                     round |-> local[w].round]
<1>1. IsOpen(w) /\ local[w].pc = "critique" /\ Execute(w, input, "critiquing")
  BY DEF Critique
<1> HIDE DEF input
<1>2. ASSUME NEW m, Waits(local[w], m, "critiquing")
      PROVE  /\ local[w].issued = Len(log[w]) =>
                    RunInv(asked[w], m, outcome[w], Append(log[w], Scheduled(input)))
             /\ local[w].issued # Len(log[w]) =>
                    /\ log[w][local[w].issued + 1].input = input
                    /\ RunInv(asked[w], m, outcome[w], log[w])
  BY <1>1, <1>2, RunIsOpen, CritiqueIssued DEF input
<1> QED
  BY <1>1, <1>2, ExecuteStep

LEMMA ResearchedStep ==
    ASSUME RunsInv, NEW w \in Runs, Researched(w)
    PROVE  RunsInv'
<1> DEFINE m == [local[w] EXCEPT !.pc = "critique", !.candidate = log[w][local[w].issued].result]
<1>1. /\ IsOpen(w) /\ local[w].pc = "researching"
      /\ local[w].issued <= Len(log[w]) /\ log[w][local[w].issued].state = "completed"
  BY DEF Researched, Ended
<1>2. RunInv(asked[w], m, outcome[w], log[w])
  BY <1>1, RunIsOpen, ResearchedMoves
<1>3. local' = [local EXCEPT ![w] = m] /\ UNCHANGED <<asked, outcome, crashes, log>>
  BY DEF Researched
<1>4. crashes' \in 0..MaxCrashes
  BY <1>3 DEF RunsInv
<1> HIDE DEF m
<1> QED
  BY <1>1, <1>2, <1>3, <1>4, LocalChanges

LEMMA CarryForwardStep ==
    ASSUME RunsInv, NEW w \in Runs, CarryForward(w)
    PROVE  RunsInv'
<1> DEFINE m == [local[w] EXCEPT !.pc = "research",
                                 !.rounds = Append(@, [research |-> local[w].candidate]),
                                 !.previous = local[w].candidate,
                                 !.feedback = log[w][local[w].issued].result.feedback,
                                 !.round = @ + 1]
<1>1. /\ IsOpen(w) /\ local[w].pc = "critiquing"
      /\ log[w][local[w].issued].state = "completed"
      /\ ~log[w][local[w].issued].result.approved
  BY DEF CarryForward, Judged, VerdictOf, Ended
<1>2. RunInv(asked[w], m, outcome[w], log[w])
  BY <1>1, RunIsOpen, CarriedMoves
<1>3. local' = [local EXCEPT ![w] = m] /\ UNCHANGED <<asked, outcome, crashes, log>>
  BY DEF CarryForward, VerdictOf
<1>4. crashes' \in 0..MaxCrashes
  BY <1>3 DEF RunsInv
<1> HIDE DEF m
<1> QED
  BY <1>1, <1>2, <1>3, <1>4, LocalChanges

LEMMA ApprovedStep ==
    ASSUME RunsInv, NEW w \in Runs, Approved(w)
    PROVE  RunsInv'
<1> DEFINE p == [state |-> "completed", text |-> local[w].candidate,
                 rounds |-> local[w].round, converged |-> TRUE]
<1>1. /\ IsOpen(w) /\ local[w].pc = "critiquing"
      /\ log[w][local[w].issued].state = "completed"
      /\ log[w][local[w].issued].result.approved
      /\ Closes(w, p)
  BY DEF Approved, Judged, VerdictOf, Ended
<1>2. p \in Closings /\ Closed(asked[w], p, log[w])
  BY <1>1, RunIsOpen, ApprovedCloses
<1> HIDE DEF p
<1> QED
  BY <1>1, <1>2, ClosesStep

LEMMA GiveUpStep ==
    ASSUME RunsInv, NEW w \in Runs, GiveUp(w)
    PROVE  RunsInv'
<1> DEFINE p == [state |-> "completed",
                 text |-> local[w].rounds[Len(local[w].rounds)].research,
                 rounds |-> asked[w].maxRounds, converged |-> FALSE]
<1>1. /\ IsOpen(w) /\ local[w].pc = "research" /\ local[w].round > asked[w].maxRounds
      /\ Closes(w, p)
  BY DEF GiveUp
<1>2. p \in Closings /\ Closed(asked[w], p, log[w])
  BY <1>1, RunIsOpen, GivenUpCloses
<1> HIDE DEF p
<1> QED
  BY <1>1, <1>2, ClosesStep

LEMMA CodeSteps ==
    ASSUME RunsInv, NEW w \in Runs, CodeStep(w)
    PROVE  RunsInv'
<1>1. CASE Check(w)
  BY <1>1, CheckStep
<1>2. CASE CheckFails(w)
  BY <1>2, FailsStep DEF CheckFails
<1>3. CASE Research(w)
  BY <1>3, ResearchStep
<1>4. CASE Researched(w)
  BY <1>4, ResearchedStep
<1>5. CASE Critique(w)
  BY <1>5, CritiqueStep
<1>6. CASE ActivityFailed(w)
  BY <1>6, FailsStep DEF ActivityFailed
<1>7. CASE Approved(w)
  BY <1>7, ApprovedStep
<1>8. CASE CarryForward(w)
  BY <1>8, CarryForwardStep
<1>9. CASE GiveUp(w)
  BY <1>9, GiveUpStep
<1> QED
  BY <1>1, <1>2, <1>3, <1>4, <1>5, <1>6, <1>7, <1>8, <1>9 DEF CodeStep

LEMMA WorkerLostStep ==
    ASSUME RunsInv, NEW w \in Runs, WorkerLost(w)
    PROVE  RunsInv'
<1>1. /\ IsOpen(w) /\ local' = [local EXCEPT ![w] = FromTheTop]
      /\ UNCHANGED <<asked, outcome, log>>
  BY DEF WorkerLost
<1>2. crashes' \in 0..MaxCrashes
  BY QuestionsAssumption DEF WorkerLost, RunsInv
<1>3. RunInv(asked[w], FromTheTop, outcome[w], log[w])
  BY <1>1, RunIsOpen, LostMoves
<1> QED
  BY <1>1, <1>2, <1>3, LocalChanges

\* What an attempt does: the latest activity of w's history goes on.
LEMMA LatestStep ==
    ASSUME RunsInv, NEW w \in Runs, IsOpen(w),
           log[w] # <<>>, Latest(w).state # "completed",
           NEW a, Continues(Latest(w), a), Becomes(w, a),
           UNCHANGED <<asked, local, outcome, crashes>>
    PROVE  RunsInv'
<1>1. RunInv(asked[w], local[w], outcome[w], [log[w] EXCEPT ![Len(log[w])] = a])
  BY RunIsOpen, LatestContinues DEF Latest
<1>2. /\ DOMAIN log' = Workflows /\ log'[w] = [log[w] EXCEPT ![Len(log[w])] = a]
      /\ \A v \in Runs \ {w} : log'[v] = log[v]
  BY RunIsOpen DEF RunsInv, Becomes
<1>3. DOMAIN local' = Runs /\ DOMAIN outcome' = Runs /\ crashes' \in 0..MaxCrashes
  BY DEF RunsInv
<1> QED
  BY <1>1, <1>2, <1>3, RunChanges

\* What is known of an activity that is not over.
LEMMA LatestIs ==
    ASSUME RunsInv, NEW w \in Runs, IsOpen(w), NEW s \in {"scheduled", "running"}, Pending(w, s)
    PROVE  LET a == Latest(w) IN
           /\ log[w] # <<>> /\ a.state = s /\ a.state # "completed"
           /\ a \in Activity /\ a.error \notin FatalErrors
           /\ a.attempts <= MaxAttempts[a.input.kind]
           /\ s = "scheduled" => a.attempts < MaxAttempts[a.input.kind]
           /\ MaxAttempts[a.input.kind] \in Nat \ {0}
           /\ a.input.kind \in {"Research", "Critique"}
           /\ Len(log[w]) \in 1..Len(log[w])
<1> DEFINE a == Latest(w)
<1>1. log[w] # <<>> /\ a.state = s
  BY DEF Pending
<1>2. log[w] \in Seq(Activity) /\ HistoryInv(log[w])
  BY RunIsOpen DEF RunInv
<1>3. Len(log[w]) \in 1..Len(log[w])
  BY <1>1, <1>2, EmptySeq
<1>4. a \in Activity
  BY <1>2, <1>3, ElementOfSeq DEF Latest
<1>5. /\ a.attempts <= MaxAttempts[a.input.kind]
      /\ a.state = "scheduled" => a.attempts < MaxAttempts[a.input.kind]
      /\ a.error \in FatalErrors => a.state = "failed"
  BY <1>2, <1>3 DEF HistoryInv, Progress, Latest
<1>6. a.input.kind \in {"Research", "Critique"}
  BY <1>4 DEF Activity, Command
<1>7. MaxAttempts[a.input.kind] \in Nat \ {0}
  BY <1>6, PolicyAssumption, KindsAssumption
<1> HIDE DEF a
<1> QED
  BY <1>1, <1>3, <1>4, <1>5, <1>6, <1>7 DEF a

LEMMA StartStep ==
    ASSUME RunsInv, NEW w \in Runs, StartActivity(w)
    PROVE  RunsInv'
<1> DEFINE a == Latest(w)
           b == [a EXCEPT !.state = "running", !.attempts = @ + 1]
<1>1. /\ IsOpen(w) /\ Pending(w, "scheduled") /\ Becomes(w, b)
      /\ UNCHANGED <<asked, local, outcome, crashes>>
  BY DEF StartActivity, StartAttempt
<1>2. /\ log[w] # <<>> /\ a.state # "completed"
      /\ a \in Activity /\ a.error \notin FatalErrors
      /\ a.attempts < MaxAttempts[a.input.kind]
      /\ MaxAttempts[a.input.kind] \in Nat \ {0}
  BY <1>1, LatestIs
<1> HIDE DEF a
<1>3. Continues(a, b)
  <2>1. /\ b.state = "running" /\ b.input = a.input /\ b.error = a.error
        /\ b.attempts = a.attempts + 1 /\ b \in Activity
    <3>1. a.attempts + 1 \in Nat
      BY <1>2 DEF Activity
    <3> QED
      BY <1>2, <3>1 DEF Activity
  <2>2. b.attempts <= MaxAttempts[a.input.kind]
    BY <1>2, <2>1 DEF Activity
  <2> QED
    BY <1>2, <2>1, <2>2 DEF Continues
<1> HIDE DEF b
<1> QED
  BY <1>1, <1>2, <1>3, LatestStep DEF a

LEMMA SucceedsStep ==
    ASSUME RunsInv, NEW w \in Runs, IsOpen(w), NEW result, AttemptSucceeds(w, result),
           result \in IF Latest(w).input.kind = "Research" THEN Text ELSE Reply,
           UNCHANGED <<asked, local, outcome, crashes>>
    PROVE  RunsInv'
<1> DEFINE a == Latest(w)
           b == [a EXCEPT !.state = "completed", !.result = result]
<1>1. Pending(w, "running") /\ Becomes(w, b)
  BY DEF AttemptSucceeds
<1>2. /\ log[w] # <<>> /\ a.state # "completed"
      /\ a \in Activity /\ a.error \notin FatalErrors
      /\ a.attempts <= MaxAttempts[a.input.kind]
      /\ result \in IF a.input.kind = "Research" THEN Text ELSE Reply
  BY <1>1, LatestIs
<1> HIDE DEF a
<1>3. Continues(a, b)
  <2>1. result \in {NoResult} \cup Text \cup Reply
    BY <1>2
  <2>2. /\ b.state = "completed" /\ b.input = a.input /\ b.error = a.error
        /\ b.attempts = a.attempts /\ b.result = result /\ b \in Activity
    BY <1>2, <2>1 DEF Activity
  <2> QED
    BY <1>2, <2>2 DEF Continues
<1> HIDE DEF b
<1> QED
  BY <1>1, <1>2, <1>3, LatestStep DEF a

LEMMA FailedAttemptStep ==
    ASSUME RunsInv, NEW w \in Runs, IsOpen(w), NEW type \in ErrorTypes, AttemptFails(w, type),
           UNCHANGED <<asked, local, outcome, crashes>>
    PROVE  RunsInv'
<1> DEFINE a == Latest(w)
           b == [a EXCEPT !.state = IF Retried(a, type) THEN "scheduled" ELSE "failed",
                          !.error = type]
<1>1. Pending(w, "running") /\ Becomes(w, b)
  BY DEF AttemptFails
<1>2. /\ log[w] # <<>> /\ a.state # "completed" /\ a \in Activity
      /\ a.attempts <= MaxAttempts[a.input.kind]
      /\ a.input.kind \in {"Research", "Critique"}
  BY <1>1, LatestIs
<1> HIDE DEF a
<1>3. type \in FatalErrors => ~Retried(a, type)
  BY <1>2, FatalAssumption DEF FatalErrors, Retried
<1>4. Retried(a, type) => a.attempts < MaxAttempts[a.input.kind]
  BY DEF Retried
<1>5. Continues(a, b)
  <2>1. /\ b.state = IF Retried(a, type) THEN "scheduled" ELSE "failed"
        /\ b.input = a.input /\ b.error = type
        /\ b.attempts = a.attempts /\ b \in Activity
    BY <1>2 DEF Activity
  <2> QED
    BY <1>2, <1>3, <1>4, <2>1 DEF Continues
<1> HIDE DEF b
<1> QED
  BY <1>1, <1>2, <1>5, LatestStep DEF a

LEMMA WrittenIsText ==
    ASSUME RunsInv, NEW w \in Runs, IsOpen(w), Pending(w, "running")
    PROVE  Written(w) \in Text
<1>1. Latest(w) \in Activity /\ Len(log[w]) \in Nat
  BY RunIsOpen, LatestIs
<1>2. Latest(w).attempts \in Nat
  BY <1>1 DEF Activity
<1> QED
  BY <1>1, <1>2 DEF Written, Text

LEMMA ActivityEndsStep ==
    ASSUME RunsInv, NEW w \in Runs, ActivityEnds(w)
    PROVE  RunsInv'
<1>1. CASE Researches(w)
  <2>1. /\ IsOpen(w) /\ Pending(w, "running") /\ Latest(w).input.kind = "Research"
        /\ AttemptSucceeds(w, Written(w)) /\ UNCHANGED <<asked, local, outcome, crashes>>
    BY <1>1 DEF Researches
  <2>2. Written(w) \in IF Latest(w).input.kind = "Research" THEN Text ELSE Reply
    BY <2>1, WrittenIsText
  <2> QED
    BY <2>1, <2>2, SucceedsStep
<1>2. ASSUME NEW reply \in {"approve", "reject", "malformed"}, Critiques(w, reply)
      PROVE  RunsInv'
  <2>1. /\ IsOpen(w) /\ Pending(w, "running") /\ Latest(w).input.kind = "Critique"
        /\ UNCHANGED <<asked, local, outcome, crashes>>
    BY <1>2 DEF Critiques
  <2>2. CASE reply = "malformed"
    <3>1. AttemptFails(w, "InvalidLLMResponse")
      BY <1>2, <2>2 DEF Critiques
    <3> QED
      BY <2>1, <3>1, FailedAttemptStep, KindsAssumption
  <2>3. CASE reply # "malformed"
    <3> DEFINE verdict == [approved |-> reply = "approve", feedback |-> Written(w)]
    <3>1. AttemptSucceeds(w, verdict)
      BY <1>2, <2>3 DEF Critiques
    <3>2. Written(w) \in Text
      BY <2>1, WrittenIsText
    <3>3. verdict \in Reply
      BY <3>2 DEF Reply
    <3> HIDE DEF verdict
    <3>4. verdict \in IF Latest(w).input.kind = "Research" THEN Text ELSE Reply
      BY <2>1, <3>3
    <3> QED
      BY <2>1, <3>1, <3>4, SucceedsStep
  <2> QED
    BY <2>2, <2>3
<1>3. ASSUME NEW type \in ErrorTypes, ActivityErrs(w, type)
      PROVE  RunsInv'
  BY <1>3, FailedAttemptStep DEF ActivityErrs
<1> QED
  BY <1>1, <1>2, <1>3 DEF ActivityEnds

\* Every step of a run, alone or as a supervisor's child, keeps the invariant.
LEMMA RunsKept ==
    ASSUME RunsInv, NEW w \in Runs, ConvergeStep(w)
    PROVE  RunsInv'
BY CodeSteps, WorkerLostStep, StartStep, ActivityEndsStep DEF ConvergeStep

\* It writes in its own history.
LEMMA OwnHistory ==
    ASSUME NEW w \in Runs, ConvergeStep(w), DOMAIN log = Workflows, NEW v \in Workflows, v # w
    PROVE  log'[v] = log[v] /\ DOMAIN log' = Workflows
<1>1. UNCHANGED log \/ \E h : log' = [log EXCEPT ![w] = h]
  <2>1. ASSUME NEW input, NEW waiting, Execute(w, input, waiting)
        PROVE  UNCHANGED log \/ \E h : log' = [log EXCEPT ![w] = h]
    BY <2>1 DEF Execute, Issue
  <2>2. ASSUME NEW a, Becomes(w, a)
        PROVE  \E h : log' = [log EXCEPT ![w] = h]
    BY <2>2 DEF Becomes
  <2>3. CASE CodeStep(w) \/ WorkerLost(w)
    BY <2>1, <2>3 DEF CodeStep, Check, CheckFails, Research, Researched, Critique, ActivityFailed,
       Approved, CarryForward, GiveUp, Fails, Closes, WorkerLost
  <2>4. CASE StartActivity(w) \/ ActivityEnds(w)
    BY <2>2, <2>4 DEF StartActivity, StartAttempt, ActivityEnds, Researches, Critiques,
       ActivityErrs, AttemptSucceeds, AttemptFails
  <2> QED
    BY <2>3, <2>4 DEF ConvergeStep
<1> QED
  BY <1>1

-----------------------------------------------------------------------------
(* The specification *)

LEMMA RunAtFirst ==
    ASSUME NEW q
    PROVE  RunInv(q, FromTheTop, Open, <<>>)
<1>1. <<>> \in Seq(Activity) /\ Len(<<>>) = 0
  BY EmptySeq
<1>2. HistoryInv(<<>>)
  BY <1>1 DEF HistoryInv, Progress, Alternates
<1>3. FromTheTop \in Locals
  BY EmptySeq DEF FromTheTop, Locals, Text
<1>4. Past(FromTheTop, <<>>) /\ Place(FromTheTop, <<>>) /\ Bounded(q, FromTheTop, <<>>)
  BY <1>1, EmptySeq DEF FromTheTop, Past, Place, Bounded
<1>5. Open \in Closings /\ Open.state = "open"
  BY DEF Open, Closings, Text
<1> QED
  BY <1>2, <1>3, <1>4, <1>5 DEF RunInv, Closed

LEMMA InitInv == Init => IInv
<1> SUFFICES ASSUME Init PROVE IInv
  OBVIOUS
<1>1. \A w \in Runs : RunInv(asked[w], local[w], outcome[w], log[w])
  BY RunAtFirst, RunsAssumption DEF Init, NoActivities
<1> QED
  BY <1>1, QuestionsAssumption DEF Init, NoActivities, IInv, RunsInv

LEMMA Invariance == IInv /\ [Next]_convergeVars => IInv'
<1> SUFFICES ASSUME IInv, [Next]_convergeVars PROVE IInv'
  OBVIOUS
<1>1. CASE UNCHANGED convergeVars
  BY <1>1 DEF IInv, RunsInv, convergeVars
<1>2. ASSUME NEW w \in Runs, ConvergeStep(w)
      PROVE  IInv'
  <2>1. RunsInv'
    BY <1>2, RunsKept DEF IInv
  <2>2. \A v \in Workflows \ Runs : log'[v] = <<>>
    BY <1>2, OwnHistory DEF IInv, RunsInv
  <2> QED
    BY <2>1, <2>2 DEF IInv
<1> QED
  BY <1>1, <1>2 DEF Next

\* The inductive invariant: whatever was lost, the code's variables are what the
\* rounds on record that it has replayed make them (workflow.go:53-106).
THEOREM Inductive == Spec => []IInv
BY InitInv, Invariance, PTL DEF Spec

TypedEntry(a) ==
    /\ a.input.kind \in Kinds
    /\ a.state \in {"scheduled", "running", "completed", "failed"}
    /\ a.attempts \in 0..MaxAttempts[a.input.kind]
    /\ a.error \in ErrorTypes \cup {NoError}

LEMMA RunTyped ==
    ASSUME RunsInv, NEW w \in Runs
    PROVE  /\ \A k \in 1..Len(log[w]) : TypedEntry(log[w][k])
           /\ local[w].pc \in {"check", "research", "researching", "critique", "critiquing",
                               "stuck", "end"}
           /\ local[w].round \in Nat \ {0} /\ local[w].issued \in 0..Len(log[w])
           /\ {local[w].previous, local[w].feedback, local[w].candidate} \subseteq Text
           /\ \A r \in 1..Len(local[w].rounds) : local[w].rounds[r].research \in Text
           /\ outcome[w].state \in {"open", "completed", "failed", "terminated"}
           /\ outcome[w].text \in Text /\ outcome[w].rounds \in Nat
<1>1. RunInv(asked[w], local[w], outcome[w], log[w])
  BY DEF RunsInv
<1>2. /\ log[w] \in Seq(Activity) /\ Progress(log[w]) /\ local[w] \in Locals
      /\ Past(local[w], log[w]) /\ outcome[w] \in Closings
  BY <1>1 DEF RunInv, HistoryInv
<1>3. ASSUME NEW k \in 1..Len(log[w])
      PROVE  TypedEntry(log[w][k])
  <2> DEFINE a == log[w][k]
  <2>1. a \in Activity /\ a.attempts <= MaxAttempts[a.input.kind]
    BY <1>2, ElementOfSeq DEF Progress
  <2> HIDE DEF a
  <2>2. a.input.kind \in Kinds
    BY <2>1, KindsAssumption DEF Activity, Command
  <2>3. MaxAttempts[a.input.kind] \in Nat \ {0}
    BY <2>2, PolicyAssumption
  <2>4. a.attempts \in Nat
    BY <2>1 DEF Activity
  <2>5. a.attempts \in 0..MaxAttempts[a.input.kind]
    BY <2>1, <2>3, <2>4
  <2>6. TypedEntry(a)
    BY <2>1, <2>2, <2>5 DEF Activity, TypedEntry
  <2> QED
    BY <2>6 DEF a
<1>4. local[w].issued \in 0..Len(log[w])
  BY <1>2, LenProperties DEF Locals, Past
<1>5. \A r \in 1..Len(local[w].rounds) : local[w].rounds[r].research \in Text
  <2>1. local[w].rounds \in Seq([research : Text])
    BY <1>2 DEF Locals
  <2>2. \A r \in 1..Len(local[w].rounds) : local[w].rounds[r] \in [research : Text]
    BY <2>1, ElementOfSeq
  <2> QED
    BY <2>2
<1> QED
  BY <1>2, <1>3, <1>4, <1>5 DEF Locals, Closings

\* The types of everything, when those of the entries are known.
LEMMA RunsTyped ==
    ASSUME RunsInv, \A w \in Workflows \ Runs : \A k \in 1..Len(log[w]) : TypedEntry(log[w][k])
    PROVE  TypeOK
<1>1. LogTypeOK
  <2>1. \A w \in Workflows : \A k \in 1..Len(log[w]) : TypedEntry(log[w][k])
    BY RunTyped
  <2> QED
    BY <2>1 DEF LogTypeOK, TypedEntry
<1> QED
  BY <1>1, RunTyped DEF TypeOK, RunsInv

LEMMA Typed == IInv => TypeOK
<1> SUFFICES ASSUME IInv PROVE TypeOK
  OBVIOUS
<1>1. \A w \in Workflows \ Runs : Len(log[w]) = 0
  BY EmptySeq DEF IInv
<1>2. \A w \in Workflows \ Runs : \A k \in 1..Len(log[w]) : TypedEntry(log[w][k])
  BY <1>1
<1> QED
  BY <1>2, RunsTyped DEF IInv

LEMMA Revised == IInv => RoundsRevise
<1> SUFFICES ASSUME IInv, NEW w \in Runs, NEW k \in 1..Len(log[w])
             PROVE  LET r == (k + 1) \div 2
                        input == log[w][k].input
                    IN IF k % 2 = 0
                       THEN input = [kind |-> "Critique", round |-> r,
                                     answer |-> ResearchOf(w, r).result]
                       ELSE IF k = 1
                       THEN input = [kind |-> "Research", previous |-> NoText,
                                     feedback |-> NoText]
                       ELSE /\ ~CritiqueOf(w, r - 1).result.approved
                            /\ input = [kind |-> "Research",
                                        previous |-> ResearchOf(w, r - 1).result,
                                        feedback |-> CritiqueOf(w, r - 1).result.feedback]
  BY DEF RoundsRevise
<1>1. log[w] \in Seq(Activity) /\ Alternates(log[w]) /\ Len(log[w]) \in Nat
  BY LenProperties DEF IInv, RunsInv, RunInv, HistoryInv
<1>2. k \in Nat \ {0} /\ k <= Len(log[w])
  BY <1>1
<1>3. PICK r \in Nat \ {0} : k = 2 * r - 1 \/ k = 2 * r
  BY <1>2, RoundOf
<1>4. CASE k = 2 * r
  <2>1. (k + 1) \div 2 = r /\ k % 2 = 0
    BY <1>4
  <2>2. Judges(log[w], r)
    BY <1>1, <1>2, <1>4 DEF Alternates
  <2> QED
    BY <1>4, <2>1, <2>2 DEF Judges, ResearchOf
<1>5. CASE k = 2 * r - 1
  <2>1. (k + 1) \div 2 = r /\ k % 2 # 0
    BY <1>5
  <2>2. Revises(log[w], r)
    BY <1>1, <1>2, <1>5 DEF Alternates
  <2>3. CASE r = 1
    BY <1>5, <2>1, <2>2, <2>3 DEF Revises
  <2>4. CASE r > 1
    <3>1. k # 1 /\ 2 * (r - 1) - 1 = 2 * r - 3 /\ 2 * (r - 1) = 2 * r - 2
      BY <1>5, <2>4
    <3> QED
      BY <1>5, <2>1, <2>2, <2>4, <3>1 DEF Revises, ResearchOf, CritiqueOf
  <2> QED
    BY <2>3, <2>4
<1> QED
  BY <1>3, <1>4, <1>5

LEMMA Answered == IInv => AnswerIsTheLastJudged
<1> SUFFICES ASSUME IInv, NEW w \in Runs, outcome[w].state = "completed"
             PROVE  LET n == outcome[w].rounds IN
                    /\ Len(log[w]) = 2 * n
                    /\ outcome[w].text = ResearchOf(w, n).result
                    /\ outcome[w].converged = CritiqueOf(w, n).result.approved
                    /\ n <= asked[w].maxRounds
                    /\ ~outcome[w].converged => n = asked[w].maxRounds
  BY Typed DEF AnswerIsTheLastJudged
<1>1. Closed(asked[w], outcome[w], log[w])
  BY DEF IInv, RunsInv, RunInv
<1> QED
  BY <1>1 DEF Closed, ResearchOf, CritiqueOf

\* An activity that has failed for good is the last: its history is left alone.
LEMMA FatalIsTheEnd ==
    ASSUME RunsInv, NEW w \in Runs, ConvergeStep(w),
           NEW k \in 1..Len(log[w]), log[w][k].error \in FatalErrors
    PROVE  log'[w] = log[w]
<1>1. IsOpen(w) => /\ log[w] # <<>> /\ Latest(w).state = "failed"
                   /\ Latest(w) = log[w][Len(log[w])]
  <2> SUFFICES ASSUME IsOpen(w)
               PROVE  /\ log[w] # <<>> /\ Latest(w).state = "failed"
                      /\ Latest(w) = log[w][Len(log[w])]
    OBVIOUS
  <2>1. Progress(log[w]) /\ Len(log[w]) \in Nat
    BY RunIsOpen DEF RunInv, HistoryInv
  <2>2. log[w][k].state = "failed" /\ k = Len(log[w])
    BY <2>1 DEF Progress
  <2>3. log[w] # <<>>
    BY <2>1, EmptySeq
  <2> QED
    BY <2>2, <2>3 DEF Latest
<1>2. ASSUME NEW input, NEW waiting, Execute(w, input, waiting), IsOpen(w),
             local[w].pc \in {"research", "critique"}
      PROVE  log'[w] = log[w]
  <2>1. RunInv(asked[w], local[w], outcome[w], log[w])
    BY <1>2, RunIsOpen
  <2>2. /\ local[w] \in Locals /\ HistoryInv(log[w])
        /\ Past(local[w], log[w]) /\ Place(local[w], log[w])
    BY <2>1 DEF RunInv
  <2> DEFINE h == log[w]
             l == local[w]
             r == l.round
  <2>3. /\ r \in Nat \ {0} /\ Len(h) \in Nat
        /\ r > 1 => h[2 * r - 2].state = "completed"
    BY <2>2, RoundBegins
  <2>4. h # <<>> /\ h[Len(h)].state = "failed" /\ Len(h) # 0
    BY <1>1, <1>2, <2>3
  <2>5. l.issued # Len(h)
    <3>1. CASE l.pc = "research"
      <4>1. l.issued = 2 * r - 2
        BY <2>2, <3>1 DEF Place
      <4>2. r = 1 => l.issued = 0
        BY <4>1
      <4>3. r = 1 \/ r > 1
        BY <2>3
      <4> HIDE DEF r, h, l
      <4> QED
        BY <2>3, <2>4, <4>1, <4>2, <4>3
    <3>2. CASE l.pc = "critique"
      <4>1. l.issued = 2 * r - 1 /\ h[2 * r - 1].state = "completed"
        BY <2>2, <3>2 DEF Place
      <4> HIDE DEF r, h, l
      <4> QED
        BY <2>4, <4>1
    <3> QED
      BY <1>2, <3>1, <3>2
  <2> QED
    BY <1>2, <2>5 DEF Execute, Issue
<1>3. CASE CodeStep(w)
  <2>1. CASE Research(w)
    BY <1>2, <2>1 DEF Research
  <2>2. CASE Critique(w)
    BY <1>2, <2>2 DEF Critique
  <2> QED
    BY <1>3, <2>1, <2>2 DEF CodeStep, Check, CheckFails, Researched, ActivityFailed,
       Approved, CarryForward, GiveUp, Fails, Closes
<1>4. CASE WorkerLost(w)
  BY <1>4 DEF WorkerLost
<1>5. CASE StartActivity(w)
  BY <1>1, <1>5 DEF StartActivity, StartAttempt, Pending
<1>6. CASE ActivityEnds(w)
  BY <1>1, <1>6 DEF ActivityEnds, Researches, Critiques, ActivityErrs, AttemptSucceeds,
     AttemptFails, Pending
<1> QED
  BY <1>3, <1>4, <1>5, <1>6 DEF ConvergeStep

LEMMA NoneAfterFatal ==
    IInv /\ [Next]_convergeVars =>
        [\A w \in Runs : \A k \in 1..Len(log[w]) :
             log[w][k].error \in FatalErrors => log'[w] = log[w]]_convergeVars
<1> SUFFICES ASSUME IInv, NEW v \in Runs, ConvergeStep(v), NEW w \in Runs,
                    NEW k \in 1..Len(log[w]), log[w][k].error \in FatalErrors
             PROVE  log'[w] = log[w]
  BY DEF Next
<1>1. CASE w = v
  BY <1>1, FatalIsTheEnd DEF IInv
<1>2. CASE w # v
  BY <1>2, OwnHistory, RunsAssumption DEF IInv, RunsInv
<1> QED
  BY <1>1, <1>2

-----------------------------------------------------------------------------
(* The theorems *)

\* Every variable has its type, a workflow's history its activities and no attempt
\* beyond those of its policy.
THEOREM TypeCorrect == Spec => []TypeOK
BY Inductive, Typed, PTL

\* Whatever crashed in between, every round researches with the answer and the
\* feedback of the round before, on a rejection, and its critic judges the very
\* answer of the round (workflow.go:53-74, 99-101).
THEOREM RoundsReviseHolds == Spec => []RoundsRevise
BY Inductive, Revised, PTL

\* A completed workflow answers with the research of the last round it ran, says
\* it converged exactly if the critic approved that one, and otherwise has used
\* all of its rounds (workflow.go:83-106).
THEOREM AnswerIsTheLastJudgedHolds == Spec => []AnswerIsTheLastJudged
BY Inductive, Answered, PTL

\* After an error that retrying cannot mend no further call of the model is paid
\* for, by this attempt's activity or a later one (activities.go:121-126).
THEOREM NoCallAfterFatalErrorHolds == Spec => NoCallAfterFatalError
BY Inductive, NoneAfterFatal, PTL DEF Spec, NoCallAfterFatalError, FatalErrors

-----------------------------------------------------------------------------
(* Supervisor: the values *)

Answer ==
    [part : Nat, error : BOOLEAN, text : Text, converged : BOOLEAN, rounds : Nat]

SupCommand ==
    [kind : {"Decompose"}, cap : Int] \cup [kind : {"Synthesize"}, answers : Seq(Answer)]

SupActivity ==
    [input : SupCommand, state : {"scheduled", "running", "completed", "failed"},
     attempts : Nat, result : {NoResult} \cup Seq(Nat) \cup Text,
     error : ErrorTypes \cup {NoError}]

SupLocals ==
    [pc : {"check", "decompose", "decomposing", "spawn", "collect", "synthesize",
           "synthesizing", "panic", "end"},
     subs : Seq(Nat), answers : Seq(Answer), issued : 0..2]

SupClosings ==
    [state : {"open", "completed", "failed"}, answers : Seq(Answer), synthesis : Text]

CapOf(rq) == IF rq.cap = 0 THEN DefaultCap ELSE rq.cap

\* How many children the request has.
PartsOf(rq) == IF CapOf(rq) <= 0 \/ rq.parts <= CapOf(rq) THEN rq.parts ELSE CapOf(rq)

PartList(rq) == [i \in 1..PartsOf(rq) |-> i]

Valid(rq) == ~rq.empty /\ rq.rounds > 0

Begun(ask) == {w \in Runs : ask[w] # NotAsked}

\* What is noted of child w, which closed as o.
NotedOf(w, o) ==
    IF o.state = "completed"
    THEN [part |-> w, error |-> FALSE, text |-> o.text, converged |-> o.converged,
          rounds |-> o.rounds]
    ELSE [part |-> w, error |-> TRUE, text |-> NoText, converged |-> FALSE, rounds |-> 0]

AllNoted(rq, out) == [i \in 1..PartsOf(rq) |-> NotedOf(i, out[i])]

\* Every child was started and has closed.
Settled(rq, ask, out) ==
    Begun(ask) = 1..PartsOf(rq) /\ \A w \in 1..PartsOf(rq) : out[w].state # "open"

-----------------------------------------------------------------------------
(* The inductive invariant *)

\* The supervisor decomposes, and synthesizes when all that it started has closed.
SupEntry(rq, ask, out, h, k) ==
    /\ k < Len(h) => h[k].state = "completed"
    /\ h[k].attempts <= MaxAttempts[h[k].input.kind]
    /\ h[k].state = "scheduled" => h[k].attempts < MaxAttempts[h[k].input.kind]
    /\ k = 1 => /\ h[k].input = [kind |-> "Decompose", cap |-> CapOf(rq)]
                /\ h[k].state = "completed" => h[k].result = PartList(rq)
    /\ k = 2 => /\ h[k].input = [kind |-> "Synthesize", answers |-> AllNoted(rq, out)]
                /\ h[k].state = "completed" => h[k].result \in Text
                /\ Settled(rq, ask, out)

SupHistory(rq, ask, out, h) ==
    /\ h \in Seq(SupActivity) /\ Len(h) <= 2
    /\ h # <<>> => Valid(rq)
    /\ \A k \in 1..Len(h) : SupEntry(rq, ask, out, h, k)

\* The children are started together, on the parts that are on record.
ChildrenInv(rq, ask, h) ==
    /\ Begun(ask) # {} =>
          Begun(ask) = 1..PartsOf(rq) /\ h # <<>> /\ h[1].state = "completed"
    /\ \A w \in Begun(ask) : ask[w] = [text |-> w, maxRounds |-> rq.rounds]

\* Where the code stands in the history that it replays or writes.
SupPlace(rq, ask, s, h) ==
    /\ s.issued <= Len(h)
    /\ s.pc \in {"check", "decompose"} => s.issued = 0
    /\ s.pc \in {"decomposing", "spawn", "collect", "synthesize", "panic"} => s.issued = 1
    /\ s.pc = "synthesizing" => s.issued = 2
    /\ s.pc \in {"check", "decompose", "decomposing"} => s.subs = <<>>
    /\ s.pc \in {"check", "decompose", "decomposing", "spawn"} => s.answers = <<>>
    /\ s.pc \notin {"check", "end"} => Valid(rq)
    /\ s.pc \in {"spawn", "collect", "synthesize", "synthesizing", "panic"} =>
          s.subs = PartList(rq) /\ h[1].state = "completed"
    /\ s.pc \in {"collect", "synthesize", "synthesizing", "panic"} =>
          Begun(ask) = 1..PartsOf(rq)
    /\ s.pc \in {"synthesize", "synthesizing"} => Len(s.answers) = PartsOf(rq)

\* What has been noted is of children that have closed.
Noted(rq, ask, out, s) ==
    /\ s.subs \in {<<>>, PartList(rq)}
    /\ Len(s.answers) <= PartsOf(rq)
    /\ s.answers # <<>> => s.subs = PartList(rq) /\ Begun(ask) = 1..PartsOf(rq)
    /\ \A i \in 1..Len(s.answers) :
          s.answers[i] = NotedOf(i, out[i]) /\ out[i].state # "open"

FailedFor(h, kind) ==
    \E k \in 1..Len(h) : h[k].input.kind = kind /\ h[k].state = "failed"

\* The supervisor closes when all that it started has closed by itself.
SupClosed(rq, ask, out, s, c, h) ==
    /\ c.state = "open" <=> s.pc # "end"
    /\ c.state = "open" => \A w \in Runs : out[w].state # "terminated"
    /\ c.state # "open" => \A w \in Begun(ask) : out[w].state \in {"completed", "failed"}
    /\ c.answers # <<>> => Begun(ask) = 1..PartsOf(rq) /\ Len(c.answers) <= PartsOf(rq)
    /\ c.state = "completed" => Begun(ask) = 1..PartsOf(rq) /\ c.answers = AllNoted(rq, out)
    /\ c.state = "failed" =>
          \/ ~Valid(rq)
          \/ FailedFor(h, "Decompose")
          \/ Begun(ask) # {} /\ \A w \in Begun(ask) : out[w].state = "failed"
          \/ FailedFor(h, "Synthesize")

SupInv(rq, ask, out, s, c, h) ==
    /\ rq \in Requests /\ s \in SupLocals /\ c \in SupClosings
    /\ SupHistory(rq, ask, out, h) /\ ChildrenInv(rq, ask, h)
    /\ SupPlace(rq, ask, s, h) /\ Noted(rq, ask, out, s)
    /\ SupClosed(rq, ask, out, s, c, h)

SupIInv == RunsInv /\ SupInv(request, asked, outcome, sup, close, log[Top])

-----------------------------------------------------------------------------
(* The values of one request *)

LEMMA FunctionIsSeq ==
    ASSUME NEW S, NEW n \in Nat, NEW f \in [1..n -> S]
    PROVE  f \in Seq(S) /\ Len(f) = n
<1>1. f \in Seq(S)
  BY SeqDef
<1>2. Len(f) \in Nat /\ 1..Len(f) = 1..n
  BY <1>1, LenProperties
<1> DEFINE m == Len(f)
<1> HIDE DEF m
<1>3. ASSUME m \in Nat, 1..m = 1..n
      PROVE  m = n
  <2>1. m < n => n \in 1..n /\ n \notin 1..m
    BY <1>3
  <2>2. n < m => m \in 1..m /\ m \notin 1..n
    BY <1>3
  <2> QED
    BY <1>3, <2>1, <2>2
<1> QED
  BY <1>1, <1>2, <1>3 DEF m

LEMMA PartsAre ==
    ASSUME NEW rq \in Requests
    PROVE  /\ PartsOf(rq) \in Nat /\ PartsOf(rq) <= rq.parts /\ 1..PartsOf(rq) \subseteq Runs
           /\ CapOf(rq) \in Int /\ (CapOf(rq) > 0 => PartsOf(rq) <= CapOf(rq))
           /\ PartList(rq) \in Seq(Nat) /\ Len(PartList(rq)) = PartsOf(rq)
           /\ \A i \in 1..PartsOf(rq) : PartList(rq)[i] = i
<1>1. /\ DefaultCap \in Nat \ {0} /\ rq.parts \in Nat /\ rq.cap \in Int
      /\ 1..rq.parts \subseteq Runs
  BY RequestsAssumption
<1>2. CapOf(rq) \in Int
  BY <1>1 DEF CapOf
<1>3. PartsOf(rq) \in Nat /\ PartsOf(rq) <= rq.parts
      /\ (CapOf(rq) > 0 => PartsOf(rq) <= CapOf(rq))
  BY <1>1, <1>2 DEF PartsOf
<1>4. 1..PartsOf(rq) \subseteq 1..rq.parts
  BY <1>1, <1>3
<1>5. PartList(rq) \in [1..PartsOf(rq) -> Nat] /\ \A i \in 1..PartsOf(rq) : PartList(rq)[i] = i
  BY DEF PartList
<1> QED
  BY <1>1, <1>2, <1>3, <1>4, <1>5, FunctionIsSeq

LEMMA NotedTyped ==
    ASSUME NEW rq \in Requests, NEW out, \A w \in Runs : out[w] \in Closings
    PROVE  /\ \A w \in 1..PartsOf(rq) : NotedOf(w, out[w]) \in Answer
           /\ AllNoted(rq, out) \in Seq(Answer) /\ Len(AllNoted(rq, out)) = PartsOf(rq)
           /\ AllNoted(rq, out) \in [1..PartsOf(rq) -> Answer]
<1>1. PartsOf(rq) \in Nat /\ 1..PartsOf(rq) \subseteq Runs
  BY PartsAre
<1>2. ASSUME NEW w \in 1..PartsOf(rq)
      PROVE  NotedOf(w, out[w]) \in Answer
  <2>1. w \in Nat /\ out[w] \in Closings
    BY <1>1
  <2> QED
    BY <2>1 DEF NotedOf, Answer, Closings, Text
<1>3. AllNoted(rq, out) \in [1..PartsOf(rq) -> Answer]
  BY <1>2 DEF AllNoted
<1> QED
  BY <1>1, <1>2, <1>3, FunctionIsSeq

\* The answers are complete when there are as many as parts.
LEMMA NotedIsAll ==
    ASSUME NEW rq \in Requests, NEW ask, NEW out, \A w \in Runs : out[w] \in Closings,
           NEW s \in SupLocals, Noted(rq, ask, out, s), Len(s.answers) = PartsOf(rq),
           Begun(ask) = 1..PartsOf(rq)
    PROVE  s.answers = AllNoted(rq, out) /\ Settled(rq, ask, out)
<1>1. s.answers \in Seq(Answer)
  BY DEF SupLocals
<1>2. \A i \in 1..PartsOf(rq) : s.answers[i] = NotedOf(i, out[i]) /\ out[i].state # "open"
  BY DEF Noted
<1>3. /\ AllNoted(rq, out) \in Seq(Answer) /\ Len(AllNoted(rq, out)) = PartsOf(rq)
      /\ \A i \in 1..PartsOf(rq) : AllNoted(rq, out)[i] = NotedOf(i, out[i])
  BY NotedTyped DEF AllNoted
<1>4. \A i \in 1..Len(s.answers) : s.answers[i] = AllNoted(rq, out)[i]
  BY <1>2, <1>3
<1>5. s.answers = AllNoted(rq, out)
  BY <1>1, <1>3, <1>4, SeqEqual
<1> QED
  BY <1>2, <1>5 DEF Settled

\* What is known of SupInv where it is needed.
LEMMA SupKnown ==
    ASSUME NEW rq, NEW ask, NEW out, NEW s, NEW c, NEW h, SupInv(rq, ask, out, s, c, h)
    PROVE  /\ PartsOf(rq) \in Nat /\ 1..PartsOf(rq) \subseteq Runs
           /\ h \in Seq(SupActivity) /\ Len(h) \in 0..2 /\ (h # <<>> <=> Len(h) # 0)
           /\ s \in SupLocals /\ s.issued \in 0..2 /\ s.issued <= Len(h)
           /\ s.answers \in Seq(Answer) /\ Len(s.answers) \in 0..PartsOf(rq)
           /\ (s.answers # <<>> <=> Len(s.answers) # 0)
<1>1. rq \in Requests /\ s \in SupLocals /\ s.issued <= Len(h)
      /\ h \in Seq(SupActivity) /\ Len(h) <= 2 /\ Len(s.answers) <= PartsOf(rq)
  BY DEF SupInv, SupHistory, SupPlace, Noted
<1>2. s.issued \in 0..2 /\ s.answers \in Seq(Answer)
  BY <1>1 DEF SupLocals
<1>3. PartsOf(rq) \in Nat /\ 1..PartsOf(rq) \subseteq Runs
  BY <1>1, PartsAre
<1>4. /\ Len(h) \in Nat /\ (h # <<>> <=> Len(h) # 0)
      /\ Len(s.answers) \in Nat /\ (s.answers # <<>> <=> Len(s.answers) # 0)
  BY <1>1, <1>2, LenProperties, EmptySeq
<1>5. ASSUME NEW m, NEW n, m \in Nat, n \in Nat, m <= n
      PROVE  m \in 0..n
  BY <1>5
<1> QED
  BY <1>1, <1>2, <1>3, <1>4, <1>5

-----------------------------------------------------------------------------
(* The children *)

\* A child that goes on may close, and one that has closed stays as it closed.
LEMMA ChildMoves ==
    ASSUME NEW rq, NEW ask, NEW out, NEW s, NEW c, NEW h, SupInv(rq, ask, out, s, c, h),
           c.state = "open",
           NEW o, \A w \in Runs : /\ out[w].state # "open" => o[w] = out[w]
                                  /\ o[w].state # "terminated"
    PROVE  SupInv(rq, ask, o, s, c, h)
<1>1. /\ rq \in Requests /\ s \in SupLocals /\ c \in SupClosings
      /\ SupHistory(rq, ask, out, h) /\ ChildrenInv(rq, ask, h)
      /\ SupPlace(rq, ask, s, h) /\ Noted(rq, ask, out, s)
      /\ SupClosed(rq, ask, out, s, c, h)
      /\ 1..PartsOf(rq) \subseteq Runs
      /\ Len(s.answers) \in 0..PartsOf(rq) /\ PartsOf(rq) \in Nat
  BY SupKnown DEF SupInv
<1>2. ASSUME Settled(rq, ask, out)
      PROVE  Settled(rq, ask, o) /\ AllNoted(rq, o) = AllNoted(rq, out)
  <2>1. \A w \in 1..PartsOf(rq) : o[w] = out[w]
    BY <1>1, <1>2 DEF Settled
  <2> QED
    BY <1>2, <2>1 DEF Settled, AllNoted
<1>3. SupHistory(rq, ask, o, h)
  BY <1>1, <1>2 DEF SupHistory, SupEntry
<1>4. Noted(rq, ask, o, s)
  <2>1. 1..Len(s.answers) \subseteq Runs
    BY <1>1
  <2> QED
    BY <1>1, <2>1 DEF Noted
<1>5. SupClosed(rq, ask, o, s, c, h)
  BY <1>1 DEF SupClosed
<1> QED
  BY <1>1, <1>3, <1>4, <1>5 DEF SupInv

-----------------------------------------------------------------------------
(* The supervisor's moves *)

LEMMA SupCodeMoves ==
    ASSUME NEW rq, NEW ask, NEW out, NEW s, NEW c, NEW h, SupInv(rq, ask, out, s, c, h),
           c.state = "open", NEW m \in SupLocals, m.pc # "end",
           SupPlace(rq, ask, m, h), Noted(rq, ask, out, m)
    PROVE  SupInv(rq, ask, out, m, c, h)
BY DEF SupInv, SupClosed

\* The children are asked their parts, or found to have been.
LEMMA SpawnMoves ==
    ASSUME NEW rq, NEW ask, NEW out, NEW s, NEW c, NEW h, SupInv(rq, ask, out, s, c, h),
           s.pc = "spawn",
           NEW a, NEW m, m = [s EXCEPT !.pc = "collect"],
           IF Begun(ask) = {}
           THEN \A w \in Runs : a[w] = IF w \in 1..PartsOf(rq)
                                       THEN [text |-> w, maxRounds |-> rq.rounds]
                                       ELSE NotAsked
           ELSE a = ask
    PROVE  SupInv(rq, a, out, m, c, h)
<1>1. /\ rq \in Requests /\ s \in SupLocals /\ c \in SupClosings
      /\ SupHistory(rq, ask, out, h) /\ ChildrenInv(rq, ask, h)
      /\ SupPlace(rq, ask, s, h) /\ Noted(rq, ask, out, s)
      /\ SupClosed(rq, ask, out, s, c, h)
      /\ 1..PartsOf(rq) \subseteq Runs /\ PartsOf(rq) \in Nat
      /\ Len(h) \in 0..2 /\ (h # <<>> <=> Len(h) # 0)
  BY SupKnown DEF SupInv
<1>2. /\ m \in SupLocals /\ m.pc = "collect" /\ m.issued = s.issued /\ m.subs = s.subs
      /\ m.answers = s.answers
  BY <1>1 DEF SupLocals
<1>3. /\ s.issued = 1 /\ s.answers = <<>> /\ s.subs = PartList(rq) /\ h[1].state = "completed"
      /\ Valid(rq) /\ s.issued <= Len(h) /\ c.state = "open"
  BY <1>1 DEF SupPlace, SupClosed
<1>4. Begun(a) = 1..PartsOf(rq) /\ (Begun(ask) # {} => a = ask)
      /\ \A w \in Begun(a) : a[w] = [text |-> w, maxRounds |-> rq.rounds]
  <2>1. CASE Begun(ask) = {}
    <3>1. \A w \in 1..PartsOf(rq) : [text |-> w, maxRounds |-> rq.rounds] # NotAsked
      <4>1. rq.rounds > 0 /\ 1..PartsOf(rq) \subseteq 1..rq.parts
        <5>1. rq.rounds > 0
          BY <1>3 DEF Valid
        <5>2. PartsOf(rq) <= rq.parts /\ rq.parts \in Nat
          BY <1>1, PartsAre, RequestsAssumption
        <5> QED
          BY <1>1, <5>1, <5>2
      <4>2. \A w \in 1..rq.parts : [text |-> w, maxRounds |-> rq.rounds] \in Questions
        BY <1>1, <4>1, RequestsAssumption
      <4> QED
        BY <4>1, <4>2, QuestionsAssumption
    <3>2. \A w \in Runs : a[w] # NotAsked <=> w \in 1..PartsOf(rq)
      BY <2>1, <3>1
    <3>3. Begun(a) = 1..PartsOf(rq)
      BY <1>1, <3>2 DEF Begun
    <3> QED
      BY <1>1, <2>1, <3>3
  <2>2. CASE Begun(ask) # {}
    BY <1>1, <2>2 DEF ChildrenInv
  <2> QED
    BY <2>1, <2>2
<1>5. h # <<>>
  BY <1>1, <1>3
<1>6. ChildrenInv(rq, a, h)
  BY <1>3, <1>4, <1>5 DEF ChildrenInv
<1>7. SupHistory(rq, a, out, h)
  <2>1. Settled(rq, ask, out) => Settled(rq, a, out)
    BY <1>4 DEF Settled
  <2> QED
    BY <1>1, <2>1 DEF SupHistory, SupEntry
<1>8. SupPlace(rq, a, m, h)
  BY <1>2, <1>3, <1>4 DEF SupPlace
<1>9. Noted(rq, a, out, m)
  BY <1>1, <1>2, <1>3, <1>4 DEF Noted
<1>10. SupClosed(rq, a, out, m, c, h)
  BY <1>1, <1>2, <1>3, <1>4 DEF SupClosed
<1> QED
  BY <1>1, <1>2, <1>6, <1>7, <1>8, <1>9, <1>10 DEF SupInv

\* f.Get has returned: the next child's answer is noted.
LEMMA CollectMoves ==
    ASSUME NEW rq, NEW ask, NEW out, NEW s, NEW c, NEW h, SupInv(rq, ask, out, s, c, h),
           \A w \in Runs : out[w] \in Closings,
           s.pc = "collect", NEW i, i = Len(s.answers) + 1, i <= Len(s.subs),
           out[i].state # "open",
           NEW m, m = [s EXCEPT !.answers = Append(@, NotedOf(i, out[i]))]
    PROVE  SupInv(rq, ask, out, m, c, h)
<1> DEFINE n == PartsOf(rq)
           k == Len(s.answers)
           x == NotedOf(i, out[i])
           t == Append(s.answers, x)
<1>1. /\ rq \in Requests /\ s \in SupLocals /\ c.state = "open"
      /\ SupPlace(rq, ask, s, h) /\ Noted(rq, ask, out, s)
      /\ n \in Nat /\ k \in 0..n /\ s.answers \in Seq(Answer)
  BY SupKnown DEF SupInv, SupClosed
<1>2. s.subs = PartList(rq) /\ Begun(ask) = 1..n /\ Len(s.subs) = n
  BY <1>1, PartsAre DEF SupPlace
<1>3. i \in 1..n /\ k + 1 <= n /\ k \in Nat
  <2>1. k \in Nat /\ i = k + 1 /\ i <= n
    BY <1>1, <1>2
  <2> HIDE DEF k, n
  <2> QED
    BY <1>1, <2>1
<1>4. x \in Answer
  BY <1>1, <1>3, NotedTyped
<1> HIDE DEF x
<1>5. /\ t \in Seq(Answer) /\ Len(t) = k + 1 /\ t[k + 1] = x
      /\ \A j \in 1..k : t[j] = s.answers[j]
  BY <1>1, <1>4, AppendProperties
<1> HIDE DEF t
<1>6. /\ m \in SupLocals /\ m.pc = "collect" /\ m.issued = s.issued /\ m.subs = s.subs
      /\ m.answers = t
  BY <1>1, <1>5 DEF SupLocals, t, x
<1>7. SupPlace(rq, ask, m, h)
  BY <1>1, <1>6 DEF SupPlace
<1>8. Noted(rq, ask, out, m)
  <2>1. ASSUME NEW j \in 1..(k + 1)
        PROVE  t[j] = NotedOf(j, out[j]) /\ out[j].state # "open"
    <3>1. j = k + 1 \/ j \in 1..k
      <4> HIDE DEF k
      <4> QED
        BY <1>3
    <3>2. CASE j = k + 1
      BY <1>5, <3>2 DEF x
    <3>3. CASE j \in 1..k
      BY <1>1, <1>5, <3>3 DEF Noted
    <3> QED
      BY <3>1, <3>2, <3>3
  <2>2. Len(m.answers) <= n /\ Len(m.answers) = k + 1
    BY <1>3, <1>5, <1>6
  <2> QED
    BY <1>2, <1>5, <1>6, <2>1, <2>2 DEF Noted
<1> QED
  BY <1>1, <1>6, <1>7, <1>8, SupCodeMoves

\* What the code asks for when n activities have completed.
NextInput(rq, ask, out, h, n, input) ==
    /\ SupHistory(rq, ask, out, h) /\ Valid(rq)
    /\ input \in SupCommand
    /\ n \in 0..1 /\ n = Len(h)
    /\ n = 0 => input = [kind |-> "Decompose", cap |-> CapOf(rq)]
    /\ n = 1 => /\ h[1].state = "completed" /\ Settled(rq, ask, out)
                /\ input = [kind |-> "Synthesize", answers |-> AllNoted(rq, out)]

\* An activity may be put behind those that have completed.
LEMMA SupAppended ==
    ASSUME NEW rq, NEW ask, NEW out, NEW h, NEW n, NEW input,
           NextInput(rq, ask, out, h, n, input),
           NEW g, g = Append(h, Scheduled(input))
    PROVE  /\ SupHistory(rq, ask, out, g)
           /\ Len(g) = n + 1
           /\ n = 1 => g[1] = h[1]
<1> DEFINE a == Scheduled(input)
<1>0. /\ SupHistory(rq, ask, out, h) /\ Valid(rq) /\ input \in SupCommand
      /\ n \in 0..1 /\ n = Len(h)
      /\ n = 0 => input = [kind |-> "Decompose", cap |-> CapOf(rq)]
      /\ n = 1 => /\ h[1].state = "completed" /\ Settled(rq, ask, out)
                  /\ input = [kind |-> "Synthesize", answers |-> AllNoted(rq, out)]
  BY DEF NextInput
<1>1. /\ a \in SupActivity /\ a.input = input /\ a.state = "scheduled" /\ a.attempts = 0
      /\ MaxAttempts[input.kind] \in Nat \ {0}
  <2>1. input.kind \in Kinds
    BY <1>0, SupervisorKindsAssumption DEF SupCommand
  <2> QED
    BY <1>0, <2>1, PolicyAssumption DEF Scheduled, SupActivity
<1> HIDE DEF a
<1>2. /\ g \in Seq(SupActivity) /\ Len(g) = n + 1 /\ g[n + 1] = a
      /\ \A k \in 1..n : g[k] = h[k]
  BY <1>0, <1>1, AppendProperties DEF SupHistory, a
<1>3. g # <<>>
  BY <1>2, EmptySeq
<1>4. ASSUME NEW k \in 1..(n + 1)
      PROVE  SupEntry(rq, ask, out, g, k)
  <2>1. k = n + 1 \/ (k = 1 /\ n = 1)
    BY <1>0
  <2>2. CASE k = n + 1
    BY <1>0, <1>1, <1>2, <2>2 DEF SupEntry
  <2>3. CASE k = 1 /\ n = 1
    <3>1. SupEntry(rq, ask, out, h, 1) /\ g[1] = h[1]
      BY <1>0, <1>2, <2>3 DEF SupHistory
    <3> QED
      BY <1>0, <1>2, <2>3, <3>1 DEF SupEntry
  <2> QED
    BY <2>1, <2>2, <2>3
<1> QED
  BY <1>0, <1>2, <1>3, <1>4 DEF SupHistory

\* The command that the code issues, and where it stands then.
Issues(rq, s, input, m) ==
    /\ s.pc \in {"decompose", "synthesize"}
    /\ input = IF s.pc = "decompose" THEN [kind |-> "Decompose", cap |-> CapOf(rq)]
                                     ELSE [kind |-> "Synthesize", answers |-> s.answers]
    /\ m = [s EXCEPT !.pc = IF s.pc = "decompose" THEN "decomposing" ELSE "synthesizing",
                     !.issued = @ + 1]

\* It is the next one of the history or becomes it.
LEMMA SupIssued ==
    ASSUME NEW rq, NEW ask, NEW out, NEW s, NEW c, NEW h, SupInv(rq, ask, out, s, c, h),
           \A w \in Runs : out[w] \in Closings,
           NEW input, NEW m, Issues(rq, s, input, m)
    PROVE  /\ s.issued = Len(h) => SupInv(rq, ask, out, m, c, Append(h, Scheduled(input)))
           /\ s.issued # Len(h) =>
                 h[s.issued + 1].input = input /\ SupInv(rq, ask, out, m, c, h)
<1> DEFINE n == s.issued
           g == Append(h, Scheduled(input))
<1>0. /\ s.pc \in {"decompose", "synthesize"}
      /\ input = IF s.pc = "decompose" THEN [kind |-> "Decompose", cap |-> CapOf(rq)]
                                       ELSE [kind |-> "Synthesize", answers |-> s.answers]
      /\ m = [s EXCEPT !.pc = IF s.pc = "decompose" THEN "decomposing" ELSE "synthesizing",
                       !.issued = @ + 1]
  BY DEF Issues
<1>1. /\ rq \in Requests /\ s \in SupLocals /\ c \in SupClosings /\ c.state = "open"
      /\ SupHistory(rq, ask, out, h) /\ ChildrenInv(rq, ask, h)
      /\ SupPlace(rq, ask, s, h) /\ Noted(rq, ask, out, s)
      /\ SupClosed(rq, ask, out, s, c, h)
      /\ h \in Seq(SupActivity) /\ Len(h) \in 0..2 /\ (h # <<>> <=> Len(h) # 0)
  BY <1>0, SupKnown DEF SupInv, SupClosed
<1>2. /\ n = IF s.pc = "decompose" THEN 0 ELSE 1
      /\ n <= Len(h) /\ Valid(rq)
      /\ n = 1 => h[1].state = "completed"
      /\ s.pc = "decompose" => s.subs = <<>> /\ s.answers = <<>>
      /\ s.pc = "synthesize" => s.subs = PartList(rq) /\ Len(s.answers) = PartsOf(rq)
                                /\ Begun(ask) = 1..PartsOf(rq)
  BY <1>0, <1>1 DEF SupPlace
<1>3. /\ m \in SupLocals /\ m.issued = n + 1 /\ m.subs = s.subs /\ m.answers = s.answers
      /\ m.pc = IF s.pc = "decompose" THEN "decomposing" ELSE "synthesizing"
  <2>1. n \in {0, 1}
    BY <1>0, <1>2
  <2>2. n + 1 \in 0..2
    <3> HIDE DEF n
    <3> QED
      BY <2>1
  <2> QED
    BY <1>0, <1>1, <2>2 DEF SupLocals
<1>4. n = 1 => s.answers = AllNoted(rq, out) /\ Settled(rq, ask, out)
  BY <1>0, <1>1, <1>2, NotedIsAll
<1>5. Noted(rq, ask, out, m)
  BY <1>1, <1>3 DEF Noted
<1>6. ASSUME NEW k, n + 1 <= Len(k), n = 1 => k[1] = h[1]
      PROVE  SupPlace(rq, ask, m, k)
  BY <1>0, <1>2, <1>3, <1>6 DEF SupPlace
<1>7. ASSUME n # Len(h)
      PROVE  h[n + 1].input = input /\ SupInv(rq, ask, out, m, c, h)
  <2>1. n + 1 \in 1..Len(h) /\ n + 1 <= Len(h) /\ n \in {0, 1}
    <3> DEFINE l == Len(h)
    <3>1. n \in {0, 1} /\ n <= l /\ n # l /\ l \in 0..2
      BY <1>0, <1>1, <1>2, <1>7
    <3> HIDE DEF n, l
    <3>2. n + 1 \in 1..l /\ n + 1 <= l
      BY <3>1
    <3> QED
      BY <3>1, <3>2 DEF l
  <2>2. SupEntry(rq, ask, out, h, n + 1)
    BY <1>1, <2>1 DEF SupHistory
  <2>3. h[n + 1].input = input
    <3>1. CASE n = 0
      <4>1. SupEntry(rq, ask, out, h, 1) /\ n + 1 = 1
        BY <2>2, <3>1
      <4>2. h[1].input = [kind |-> "Decompose", cap |-> CapOf(rq)]
        BY <4>1 DEF SupEntry
      <4> QED
        BY <1>0, <1>2, <3>1, <4>1, <4>2
    <3>2. CASE n = 1
      <4>1. SupEntry(rq, ask, out, h, 2) /\ n + 1 = 2
        BY <2>2, <3>2
      <4>2. h[2].input = [kind |-> "Synthesize", answers |-> AllNoted(rq, out)]
        BY <4>1 DEF SupEntry
      <4> QED
        BY <1>0, <1>2, <1>4, <3>2, <4>1, <4>2
    <3> QED
      BY <2>1, <3>1, <3>2
  <2>4. SupPlace(rq, ask, m, h) /\ m.pc # "end"
    BY <1>3, <1>6, <2>1
  <2> QED
    BY <1>1, <1>3, <1>5, <2>3, <2>4, SupCodeMoves
<1>8. ASSUME n = Len(h)
      PROVE  SupInv(rq, ask, out, m, c, g)
  <2>1. input \in SupCommand
    <3>1. CapOf(rq) \in Int /\ s.answers \in Seq(Answer)
      BY <1>1, PartsAre DEF SupLocals
    <3> QED
      BY <1>0, <3>1 DEF SupCommand
  <2>2. n \in 0..1 /\ NextInput(rq, ask, out, h, n, input)
    <3>1. n \in 0..1
      <4>1. n \in {0, 1}
        BY <1>0, <1>2
      <4> HIDE DEF n
      <4> QED
        BY <4>1
    <3>2. n = 0 => s.pc = "decompose"
      BY <1>0, <1>2
    <3>3. n = 1 => s.pc = "synthesize" /\ s.answers = AllNoted(rq, out)
                   /\ Settled(rq, ask, out) /\ h[1].state = "completed"
      BY <1>0, <1>2, <1>4
    <3>4. n = 0 => input = [kind |-> "Decompose", cap |-> CapOf(rq)]
      BY <1>0, <3>2
    <3>5. n = 1 => input = [kind |-> "Synthesize", answers |-> AllNoted(rq, out)]
      BY <1>0, <3>3
    <3> QED
      BY <1>1, <1>2, <1>8, <2>1, <3>1, <3>3, <3>4, <3>5 DEF NextInput
  <2>3. SupHistory(rq, ask, out, g) /\ Len(g) = n + 1 /\ (n = 1 => g[1] = h[1])
    <3>1. NextInput(rq, ask, out, h, n, input) /\ g = Append(h, Scheduled(input))
      BY <2>2
    <3> HIDE DEF n, g
    <3>2. SupHistory(rq, ask, out, g)
      BY <3>1, SupAppended
    <3>3. Len(g) = n + 1
      BY <3>1, SupAppended
    <3>4. n = 1 => g[1] = h[1]
      BY <3>1, SupAppended
    <3> QED
      BY <3>2, <3>3, <3>4
  <2> HIDE DEF g
  <2>4. SupPlace(rq, ask, m, g)
    BY <1>6, <2>2, <2>3
  <2>5. ChildrenInv(rq, ask, g)
    <3>1. CASE n = 0
      <4>1. h = <<>>
        BY <1>1, <1>8, <3>1
      <4> QED
        BY <1>1, <4>1 DEF ChildrenInv
    <3>2. CASE n = 1
      <4>1. g # <<>>
        <5>1. g \in Seq(SupActivity) /\ Len(g) = n + 1
          BY <2>3 DEF SupHistory
        <5>2. Len(g) # 0
          BY <3>2, <5>1
        <5> QED
          BY <5>1, <5>2, EmptySeq
      <4> QED
        BY <1>1, <1>2, <2>3, <3>2, <4>1 DEF ChildrenInv
    <3> QED
      BY <2>2, <3>1, <3>2
  <2>6. SupClosed(rq, ask, out, m, c, g)
    BY <1>1, <1>3 DEF SupClosed
  <2> QED
    BY <1>1, <1>3, <1>5, <2>3, <2>4, <2>5, <2>6 DEF SupInv
<1> QED
  BY <1>7, <1>8

\* What may become of the latest activity, the k-th, when it has not completed.
SupContinues(rq, k, a, b) ==
    /\ b \in SupActivity /\ b.input = a.input
    /\ b.attempts <= MaxAttempts[b.input.kind]
    /\ b.state = "scheduled" => b.attempts < MaxAttempts[b.input.kind]
    /\ b.state = "completed" => /\ k = 1 => b.result = PartList(rq)
                                /\ k = 2 => b.result \in Text

LEMMA SupLatestContinues ==
    ASSUME NEW rq, NEW ask, NEW out, NEW s, NEW c, NEW h, SupInv(rq, ask, out, s, c, h),
           h # <<>>, h[Len(h)].state \in {"scheduled", "running"},
           NEW a, SupContinues(rq, Len(h), h[Len(h)], a)
    PROVE  SupInv(rq, ask, out, s, c, [h EXCEPT ![Len(h)] = a])
<1> DEFINE n == Len(h)
           g == [h EXCEPT ![n] = a]
<1>1. /\ rq \in Requests /\ s \in SupLocals /\ c \in SupClosings
      /\ SupHistory(rq, ask, out, h) /\ ChildrenInv(rq, ask, h)
      /\ SupPlace(rq, ask, s, h) /\ Noted(rq, ask, out, s)
      /\ SupClosed(rq, ask, out, s, c, h)
      /\ h \in Seq(SupActivity) /\ n \in 0..2 /\ n # 0
  BY SupKnown DEF SupInv
<1>2. n \in 1..n /\ n \in 1..2 /\ n <= 2
  BY <1>1
<1>3. /\ g \in Seq(SupActivity) /\ Len(g) = n
      /\ \A k \in 1..n : g[k] = IF k = n THEN a ELSE h[k]
  BY <1>1, <1>2, ExceptSeq DEF SupContinues
<1>4. g # <<>>
  BY <1>1, <1>3, EmptySeq
<1>5. SupContinues(rq, n, h[n], a) /\ h[n].state \in {"scheduled", "running"} /\ h # <<>>
  OBVIOUS
<1> HIDE DEF g, n
<1>6. SupHistory(rq, ask, out, g)
  <2> SUFFICES ASSUME NEW k \in 1..n
               PROVE  SupEntry(rq, ask, out, g, k)
    BY <1>1, <1>2, <1>3, <1>5 DEF SupHistory
  <2>1. SupEntry(rq, ask, out, h, k) /\ Len(h) = n
    BY <1>1 DEF SupHistory, n
  <2>2. CASE k = n
    BY <1>2, <1>3, <1>5, <2>1, <2>2 DEF SupEntry, SupContinues
  <2>3. CASE k # n
    BY <1>2, <1>3, <2>1, <2>3 DEF SupEntry
  <2> QED
    BY <2>2, <2>3
<1>7. h[1].state = "completed" => g[1] = h[1]
  BY <1>2, <1>3, <1>5
<1>8. ChildrenInv(rq, ask, g)
  BY <1>1, <1>4, <1>7 DEF ChildrenInv
<1>9. SupPlace(rq, ask, s, g)
  BY <1>1, <1>3, <1>7 DEF SupPlace, n
<1>10. \A kind : FailedFor(h, kind) => FailedFor(g, kind)
  <2> SUFFICES ASSUME NEW kind, NEW k \in 1..n, h[k].input.kind = kind, h[k].state = "failed"
               PROVE  FailedFor(g, kind)
    BY DEF FailedFor, n
  <2>1. g[k] = h[k]
    BY <1>3, <1>5
  <2> QED
    BY <1>3, <2>1 DEF FailedFor
<1>11. SupClosed(rq, ask, out, s, c, g)
  BY <1>1, <1>10 DEF SupClosed
<1> QED
  BY <1>1, <1>6, <1>8, <1>9, <1>11 DEF SupInv, g, n

\* The supervisor closes, when every child it started has.
LEMMA SupCloseMoves ==
    ASSUME NEW rq, NEW ask, NEW out, NEW s, NEW c, NEW h, SupInv(rq, ask, out, s, c, h),
           \A w \in Runs : out[w] \in Closings, c.state = "open",
           \A w \in Begun(ask) : out[w].state # "open",
           NEW m, m = [s EXCEPT !.pc = "end"],
           NEW d \in SupClosings, d.answers = s.answers, d.state # "open",
           d.state = "completed" =>
               Begun(ask) = 1..PartsOf(rq) /\ Len(s.answers) = PartsOf(rq),
           d.state = "failed" =>
               \/ ~Valid(rq)
               \/ FailedFor(h, "Decompose")
               \/ Begun(ask) # {} /\ \A w \in Begun(ask) : out[w].state = "failed"
               \/ FailedFor(h, "Synthesize")
    PROVE  SupInv(rq, ask, out, m, d, h)
<1>1. /\ rq \in Requests /\ s \in SupLocals
      /\ SupHistory(rq, ask, out, h) /\ ChildrenInv(rq, ask, h)
      /\ SupPlace(rq, ask, s, h) /\ Noted(rq, ask, out, s)
      /\ SupClosed(rq, ask, out, s, c, h)
  BY DEF SupInv
<1>2. /\ m \in SupLocals /\ m.pc = "end" /\ m.issued = s.issued /\ m.subs = s.subs
      /\ m.answers = s.answers
  BY <1>1 DEF SupLocals
<1>3. SupPlace(rq, ask, m, h) /\ Noted(rq, ask, out, m)
  BY <1>1, <1>2 DEF SupPlace, Noted
<1>4. \A w \in Begun(ask) : out[w].state \in {"completed", "failed"}
  <2> SUFFICES ASSUME NEW w \in Begun(ask)
               PROVE  out[w].state \in {"completed", "failed"}
    OBVIOUS
  <2>1. w \in Runs /\ out[w] \in Closings /\ out[w].state # "open"
        /\ out[w].state # "terminated"
    BY <1>1 DEF Begun, SupClosed
  <2> QED
    BY <2>1 DEF Closings
<1>5. d.state = "completed" => d.answers = AllNoted(rq, out)
  BY <1>1, NotedIsAll
<1>6. d.answers # <<>> => Begun(ask) = 1..PartsOf(rq) /\ Len(d.answers) <= PartsOf(rq)
  BY <1>1 DEF Noted
<1>7. SupClosed(rq, ask, out, m, d, h)
  BY <1>2, <1>4, <1>5, <1>6 DEF SupClosed
<1> QED
  BY <1>1, <1>2, <1>3, <1>7 DEF SupInv

\* When the supervisor gives up every child has closed, and it gives up for a reason.
LEMMA GivesUp ==
    ASSUME NEW rq, NEW ask, NEW out, NEW s, NEW c, NEW h, SupInv(rq, ask, out, s, c, h),
           \A w \in Runs : out[w] \in Closings,
           \/ s.pc = "check" /\ ~Valid(rq)
           \/ /\ s.pc = "collect" /\ Len(s.answers) + 1 > Len(s.subs) /\ s.answers # <<>>
              /\ \A i \in 1..Len(s.answers) : s.answers[i].error
           \/ s.pc \in {"decomposing", "synthesizing"} /\ h[s.issued].state = "failed"
    PROVE  /\ c.state = "open"
           /\ \A w \in Begun(ask) : out[w].state # "open"
           /\ \/ ~Valid(rq)
              \/ FailedFor(h, "Decompose")
              \/ Begun(ask) # {} /\ \A w \in Begun(ask) : out[w].state = "failed"
              \/ FailedFor(h, "Synthesize")
<1>1. /\ rq \in Requests /\ s \in SupLocals
      /\ SupHistory(rq, ask, out, h) /\ ChildrenInv(rq, ask, h)
      /\ SupPlace(rq, ask, s, h) /\ Noted(rq, ask, out, s)
      /\ SupClosed(rq, ask, out, s, c, h)
      /\ 1..PartsOf(rq) \subseteq Runs /\ PartsOf(rq) \in Nat
      /\ h \in Seq(SupActivity) /\ Len(h) \in 0..2 /\ (h # <<>> <=> Len(h) # 0)
      /\ s.answers \in Seq(Answer) /\ Len(s.answers) \in 0..PartsOf(rq)
      /\ (s.answers # <<>> <=> Len(s.answers) # 0)
      /\ s.issued \in 0..2 /\ s.issued <= Len(h)
  BY SupKnown DEF SupInv
<1>2. c.state = "open"
  BY <1>1 DEF SupClosed
<1>3. CASE s.pc = "check" /\ ~Valid(rq)
  <2>1. h = <<>>
    BY <1>1, <1>3 DEF SupHistory
  <2>2. Begun(ask) = {}
    BY <1>1, <2>1 DEF ChildrenInv
  <2> QED
    BY <1>2, <1>3, <2>2
<1>4. CASE s.pc = "decomposing" /\ h[s.issued].state = "failed"
  <2>1. s.issued = 1 /\ 1 \in 1..Len(h) /\ h[1].state = "failed"
    BY <1>1, <1>4 DEF SupPlace
  <2>2. h[1].input.kind = "Decompose"
    BY <1>1, <2>1 DEF SupHistory, SupEntry
  <2>3. FailedFor(h, "Decompose")
    BY <2>1, <2>2 DEF FailedFor
  <2>4. Begun(ask) = {}
    BY <1>1, <2>1 DEF ChildrenInv
  <2> QED
    BY <1>2, <2>3, <2>4
<1>5. CASE s.pc = "synthesizing" /\ h[s.issued].state = "failed"
  <2>1. s.issued = 2 /\ 2 \in 1..Len(h) /\ h[2].state = "failed"
    BY <1>1, <1>5 DEF SupPlace
  <2>2. h[2].input.kind = "Synthesize" /\ Settled(rq, ask, out)
    BY <1>1, <2>1 DEF SupHistory, SupEntry
  <2>3. FailedFor(h, "Synthesize")
    BY <2>1, <2>2 DEF FailedFor
  <2> QED
    BY <1>2, <2>2, <2>3 DEF Settled
<1>6. CASE /\ s.pc = "collect" /\ Len(s.answers) + 1 > Len(s.subs) /\ s.answers # <<>>
           /\ \A i \in 1..Len(s.answers) : s.answers[i].error
  <2>1. Len(s.answers) = PartsOf(rq) /\ PartsOf(rq) > 0
    <3>1. Len(s.subs) = PartsOf(rq)
      BY <1>1, <1>6, PartsAre DEF SupPlace
    <3> DEFINE n == PartsOf(rq)
               k == Len(s.answers)
    <3>2. k \in 0..n /\ n \in Nat /\ k + 1 > n /\ k # 0
      BY <1>1, <1>6, <3>1
    <3> HIDE DEF n, k
    <3>3. k = n /\ n > 0
      BY <3>2
    <3> QED
      BY <3>3 DEF n, k
  <2>2. Begun(ask) = 1..PartsOf(rq)
    BY <1>1, <1>6 DEF SupPlace
  <2>3. ASSUME NEW i \in 1..PartsOf(rq)
        PROVE  out[i].state = "failed"
    <3>1. s.answers[i] = NotedOf(i, out[i]) /\ out[i].state # "open" /\ s.answers[i].error
      BY <1>1, <1>6, <2>1 DEF Noted
    <3>2. out[i].state # "completed"
      BY <3>1 DEF NotedOf
    <3>3. out[i] \in Closings /\ out[i].state # "terminated"
      BY <1>1, <1>2 DEF SupClosed
    <3> QED
      BY <3>1, <3>2, <3>3 DEF Closings
  <2>4. 1 \in 1..PartsOf(rq)
    BY <1>1, <2>1
  <2> QED
    BY <1>2, <2>2, <2>3, <2>4
<1> QED
  BY <1>3, <1>4, <1>5, <1>6

-----------------------------------------------------------------------------
(* The steps *)

\* The invariant of the values as they are now.
Now == SupInv(request, asked, outcome, sup, close, log[Top])

LEMMA NowKnown ==
    ASSUME SupIInv
    PROVE  /\ RunsInv /\ Now /\ \A w \in Runs : outcome[w] \in Closings
           /\ request \in Requests /\ sup \in SupLocals /\ close \in SupClosings
           /\ sup.pc # "end" => close.state = "open"
           /\ log[Top] \in Seq(SupActivity) /\ Len(log[Top]) \in Nat
           /\ Top \in Workflows /\ Top \notin Runs
<1>1. /\ RunsInv /\ Now /\ \A w \in Runs : outcome[w] \in Closings
      /\ Top \in Workflows /\ Top \notin Runs
  BY TopAssumption DEF SupIInv, RunsInv, RunInv, Now
<1>2. /\ request \in Requests /\ sup \in SupLocals /\ close \in SupClosings
      /\ sup.pc # "end" => close.state = "open"
      /\ log[Top] \in Seq(SupActivity)
  BY <1>1 DEF Now, SupInv, SupHistory, SupClosed
<1> QED
  BY <1>1, <1>2, LenProperties

\* A step of a child is of one that is open, and at most closes it.
LEMMA ChildFrame ==
    ASSUME NEW w \in Runs, ConvergeStep(w), DOMAIN outcome = Runs
    PROVE  /\ IsOpen(w) /\ asked' = asked
           /\ \A v \in Runs \ {w} : outcome'[v] = outcome[v]
           /\ outcome'[w] = outcome[w] \/ outcome'[w].state \in {"completed", "failed"}
<1>1. IsOpen(w) /\ asked' = asked
  BY DEF ConvergeStep, CodeStep, Check, CheckFails, Research, Researched, Critique,
     ActivityFailed, Approved, CarryForward, GiveUp, Fails, Closes, Execute, Judged, WorkerLost,
     StartActivity, ActivityEnds, Researches, Critiques, ActivityErrs
<1>2. CASE Check(w) \/ Research(w) \/ Researched(w) \/ Critique(w) \/ CarryForward(w)
           \/ WorkerLost(w) \/ StartActivity(w) \/ ActivityEnds(w)
  BY <1>1, <1>2 DEF Check, Research, Researched, Critique, CarryForward, Execute, WorkerLost,
     StartActivity, ActivityEnds, Researches, Critiques, ActivityErrs
<1>3. ASSUME NEW o, Closes(w, o), o.state \in {"completed", "failed"}
      PROVE  /\ \A v \in Runs \ {w} : outcome'[v] = outcome[v]
             /\ outcome'[w].state \in {"completed", "failed"}
  BY <1>3 DEF Closes
<1>4. CASE CheckFails(w) \/ ActivityFailed(w)
  <2> DEFINE o == [Open EXCEPT !.state = "failed"]
  <2>1. Closes(w, o) /\ o.state \in {"completed", "failed"}
    BY <1>4 DEF CheckFails, ActivityFailed, Fails, Open
  <2> HIDE DEF o
  <2> QED
    BY <1>1, <1>3, <2>1
<1>5. CASE Approved(w)
  <2> DEFINE o == [state |-> "completed", text |-> local[w].candidate,
                   rounds |-> local[w].round, converged |-> TRUE]
  <2>1. Closes(w, o) /\ o.state \in {"completed", "failed"}
    BY <1>5 DEF Approved
  <2> HIDE DEF o
  <2> QED
    BY <1>1, <1>3, <2>1
<1>6. CASE GiveUp(w)
  <2> DEFINE o == [state |-> "completed",
                   text |-> local[w].rounds[Len(local[w].rounds)].research,
                   rounds |-> asked[w].maxRounds, converged |-> FALSE]
  <2>1. Closes(w, o) /\ o.state \in {"completed", "failed"}
    BY <1>6 DEF GiveUp
  <2> HIDE DEF o
  <2> QED
    BY <1>1, <1>3, <2>1
<1>7. CASE CodeStep(w)
  BY <1>2, <1>4, <1>5, <1>6, <1>7 DEF CodeStep
<1> QED
  BY <1>2, <1>7 DEF ConvergeStep

LEMMA ChildStepKeeps ==
    ASSUME SupIInv, NEW w \in Runs, ChildStep(w)
    PROVE  SupIInv'
<1>1. ConvergeStep(w) /\ UNCHANGED supervisorVars
  BY DEF ChildStep
<1>2. RunsInv /\ Now /\ Top \in Workflows /\ Top # w /\ DOMAIN log = Workflows
      /\ DOMAIN outcome = Runs
  BY NowKnown DEF RunsInv
<1>3. RunsInv'
  BY <1>1, <1>2, RunsKept
<1>4. log'[Top] = log[Top]
  BY <1>1, <1>2, OwnHistory
<1>5. /\ IsOpen(w) /\ asked' = asked
      /\ \A v \in Runs \ {w} : outcome'[v] = outcome[v]
      /\ outcome'[w] = outcome[w] \/ outcome'[w].state \in {"completed", "failed"}
  BY <1>1, <1>2, ChildFrame
<1>6. SupClosed(request, asked, outcome, sup, close, log[Top])
  BY <1>2 DEF Now, SupInv
<1>7. close.state = "open"
  BY <1>5, <1>6 DEF SupClosed, Begun, IsOpen
<1>8. \A v \in Runs : outcome[v].state # "terminated"
  BY <1>6, <1>7 DEF SupClosed
<1>9. \A v \in Runs : /\ outcome[v].state # "open" => outcome'[v] = outcome[v]
                      /\ outcome'[v].state # "terminated"
  BY <1>2, <1>5, <1>8 DEF IsOpen
<1>10. SupInv(request, asked, outcome', sup, close, log[Top])
  BY <1>2, <1>7, <1>9, ChildMoves DEF Now
<1> QED
  BY <1>1, <1>3, <1>4, <1>5, <1>10 DEF SupIInv, supervisorVars

\* A step of the supervisor that leaves the children alone.
LEMMA ChildrenKept ==
    ASSUME RunsInv, UNCHANGED <<asked, local, outcome>>, crashes' \in 0..MaxCrashes,
           DOMAIN log' = Workflows, \A w \in Runs : log'[w] = log[w]
    PROVE  RunsInv'
BY DEF RunsInv

\* A step of the supervisor's code that changes its own variables only.
LEMMA MovesKeep ==
    ASSUME SupIInv, UNCHANGED <<request, close, asked, local, outcome, log>>,
           crashes' \in 0..MaxCrashes,
           SupInv(request, asked, outcome, sup', close, log[Top])
    PROVE  SupIInv'
<1>1. RunsInv /\ DOMAIN log = Workflows
  BY NowKnown DEF RunsInv
<1>2. RunsInv'
  BY <1>1, ChildrenKept
<1> QED
  BY <1>2 DEF SupIInv

LEMMA SupCheckStep ==
    ASSUME SupIInv, SupCheck
    PROVE  SupIInv'
<1> DEFINE m == [sup EXCEPT !.pc = "decompose"]
<1>1. /\ sup.pc = "check" /\ Valid(request) /\ sup' = m
      /\ UNCHANGED <<request, close, asked, local, outcome, crashes, log>>
  BY DEF SupCheck, InputValid, Valid, SupGoesTo, convergeVars
<1>2. Now /\ sup \in SupLocals /\ close.state = "open" /\ crashes' \in 0..MaxCrashes
  BY <1>1, NowKnown DEF RunsInv
<1>3. SupPlace(request, asked, sup, log[Top]) /\ Noted(request, asked, outcome, sup)
  BY <1>2 DEF Now, SupInv
<1>4. /\ m \in SupLocals /\ m.pc = "decompose" /\ m.issued = sup.issued /\ m.subs = sup.subs
      /\ m.answers = sup.answers
  BY <1>2 DEF SupLocals
<1> HIDE DEF m
<1>5. SupPlace(request, asked, m, log[Top]) /\ Noted(request, asked, outcome, m)
  BY <1>1, <1>3, <1>4 DEF SupPlace, Noted
<1>6. SupInv(request, asked, outcome, m, close, log[Top])
  BY <1>2, <1>4, <1>5, SupCodeMoves DEF Now
<1> QED
  BY <1>1, <1>2, <1>6, MovesKeep

\* Nothing is terminated when every child has closed.
LEMMA SupClosesStep ==
    ASSUME SupIInv, close.state = "open", NEW d \in SupClosings, SupCloses(d),
           \A w \in Begun(asked) : outcome[w].state # "open",
           d.answers = sup.answers, d.state # "open",
           d.state = "completed" =>
               Begun(asked) = 1..PartsOf(request) /\ Len(sup.answers) = PartsOf(request),
           d.state = "failed" =>
               \/ ~Valid(request)
               \/ FailedFor(log[Top], "Decompose")
               \/ Begun(asked) # {} /\ \A w \in Begun(asked) : outcome[w].state = "failed"
               \/ FailedFor(log[Top], "Synthesize")
    PROVE  SupIInv'
<1>1. /\ close' = d /\ sup' = [sup EXCEPT !.pc = "end"]
      /\ UNCHANGED <<request, asked, local, crashes, log>>
      /\ outcome' = [w \in Runs |-> IF IsOpen(w) THEN [Open EXCEPT !.state = "terminated"]
                                                 ELSE outcome[w]]
  BY DEF SupCloses
<1>2. DOMAIN outcome' = Runs /\ \A w \in Runs : outcome'[w] = outcome[w]
  BY <1>1 DEF IsOpen, Begun
<1>3. /\ RunsInv /\ Now /\ \A w \in Runs : outcome[w] \in Closings
      /\ SupClosed(request, asked, outcome, sup, close, log[Top])
  BY NowKnown DEF Now, SupInv
<1>4. RunsInv'
  BY <1>1, <1>2, <1>3 DEF RunsInv
<1>5. \A w \in Runs : /\ outcome[w].state # "open" => outcome'[w] = outcome[w]
                      /\ outcome'[w].state # "terminated"
  BY <1>2, <1>3 DEF SupClosed
<1>6. SupInv(request, asked, outcome', sup, close, log[Top])
  BY <1>3, <1>5, ChildMoves DEF Now
<1>7. /\ \A w \in Runs : outcome'[w] \in Closings
      /\ \A w \in Begun(asked) : outcome'[w].state # "open"
      /\ (\A w \in Begun(asked) : outcome[w].state = "failed") =>
             \A w \in Begun(asked) : outcome'[w].state = "failed"
  BY <1>2, <1>3 DEF Begun
<1>8. SupInv(request, asked, outcome', [sup EXCEPT !.pc = "end"], d, log[Top])
  BY <1>6, <1>7, SupCloseMoves
<1> QED
  BY <1>1, <1>4, <1>8 DEF SupIInv

LEMMA SupFailsStep ==
    ASSUME SupIInv, SupFails,
           \/ sup.pc = "check" /\ ~Valid(request)
           \/ /\ sup.pc = "collect" /\ Len(sup.answers) + 1 > Len(sup.subs)
              /\ sup.answers # <<>> /\ \A i \in 1..Len(sup.answers) : sup.answers[i].error
           \/ /\ sup.pc \in {"decomposing", "synthesizing"}
              /\ log[Top][sup.issued].state = "failed"
    PROVE  SupIInv'
<1> DEFINE d == [Running EXCEPT !.state = "failed", !.answers = sup.answers]
<1>1. Now /\ sup \in SupLocals /\ \A w \in Runs : outcome[w] \in Closings
  BY NowKnown
<1>2. /\ close.state = "open"
      /\ \A w \in Begun(asked) : outcome[w].state # "open"
      /\ \/ ~Valid(request)
         \/ FailedFor(log[Top], "Decompose")
         \/ Begun(asked) # {} /\ \A w \in Begun(asked) : outcome[w].state = "failed"
         \/ FailedFor(log[Top], "Synthesize")
  BY <1>1, GivesUp DEF Now
<1>3. d \in SupClosings /\ d.state = "failed" /\ d.answers = sup.answers
  BY <1>1 DEF Running, SupClosings, SupLocals, Text
<1>4. SupCloses(d)
  BY DEF SupFails
<1> HIDE DEF d
<1> QED
  BY <1>2, <1>3, <1>4, SupClosesStep

LEMMA SupExecuteStep ==
    ASSUME SupIInv, sup.pc \in {"decompose", "synthesize"},
           NEW input, input = IF sup.pc = "decompose"
                              THEN [kind |-> "Decompose", cap |-> CapOf(request)]
                              ELSE [kind |-> "Synthesize", answers |-> sup.answers],
           NEW waiting, waiting = IF sup.pc = "decompose" THEN "decomposing"
                                                          ELSE "synthesizing",
           SupExecute(input, waiting)
    PROVE  SupIInv'
<1> DEFINE h == log[Top]
           m == [sup EXCEPT !.pc = IF sup.pc = "decompose" THEN "decomposing"
                                                           ELSE "synthesizing",
                            !.issued = @ + 1]
<1>1. /\ RunsInv /\ Now /\ \A w \in Runs : outcome[w] \in Closings
      /\ sup \in SupLocals /\ Top \in Workflows /\ Top \notin Runs
      /\ DOMAIN log = Workflows /\ crashes \in 0..MaxCrashes
  BY NowKnown DEF RunsInv
<1>2. /\ sup.issued = Len(h) =>
            SupInv(request, asked, outcome, m, close, Append(h, Scheduled(input)))
      /\ sup.issued # Len(h) =>
            /\ h[sup.issued + 1].input = input
            /\ SupInv(request, asked, outcome, m, close, h)
  <2>1. SupInv(request, asked, outcome, sup, close, h)
    BY <1>1 DEF Now
  <2>2. Issues(request, sup, input, m)
    BY DEF Issues
  <2> HIDE DEF m, h
  <2>3. sup.issued = Len(h) =>
            SupInv(request, asked, outcome, m, close, Append(h, Scheduled(input)))
    BY <1>1, <2>1, <2>2, SupIssued
  <2>4. sup.issued # Len(h) => h[sup.issued + 1].input = input
    BY <1>1, <2>1, <2>2, SupIssued
  <2>5. sup.issued # Len(h) => SupInv(request, asked, outcome, m, close, h)
    BY <1>1, <2>1, <2>2, SupIssued
  <2> QED
    BY <2>3, <2>4, <2>5
<1>3. Replayable(Top, sup.issued, input)
  BY <1>2 DEF Replayable
<1>4. sup' = m /\ UNCHANGED <<request, close, asked, local, outcome, crashes>>
  BY <1>1, <1>3 DEF SupExecute, SupLocals
<1> HIDE DEF m
<1>5. /\ sup.issued = Len(h) => log'[Top] = Append(h, Scheduled(input))
      /\ sup.issued # Len(h) => log'[Top] = h
      /\ DOMAIN log' = Workflows /\ \A w \in Runs : log'[w] = log[w]
  BY <1>1 DEF SupExecute, Issue
<1>6. RunsInv'
  BY <1>1, <1>4, <1>5, ChildrenKept
<1>7. SupInv(request, asked, outcome, m, close, log'[Top])
  BY <1>2, <1>5
<1> QED
  BY <1>4, <1>6, <1>7 DEF SupIInv

LEMMA DecomposeStep ==
    ASSUME SupIInv, Decompose
    PROVE  SupIInv'
<1>1. sup.pc = "decompose"
      /\ SupExecute([kind |-> "Decompose", cap |-> CapOf(request)], "decomposing")
  BY DEF Decompose, Cap, CapOf
<1> QED
  BY <1>1, SupExecuteStep

LEMMA SynthesizeStep ==
    ASSUME SupIInv, Synthesize
    PROVE  SupIInv'
<1>1. sup.pc = "synthesize"
      /\ SupExecute([kind |-> "Synthesize", answers |-> sup.answers], "synthesizing")
  BY DEF Synthesize
<1> QED
  BY <1>1, SupExecuteStep

LEMMA DecomposesStep ==
    ASSUME SupIInv, Decomposes
    PROVE  SupIInv'
<1> DEFINE h == log[Top]
           m == [sup EXCEPT !.pc = "spawn", !.subs = h[sup.issued].result]
<1>1. /\ sup.pc = "decomposing" /\ h[sup.issued].state = "completed" /\ sup' = m
      /\ UNCHANGED <<request, close, asked, local, outcome, crashes, log>>
  BY DEF Decomposes, Ended, convergeVars
<1>2. /\ Now /\ sup \in SupLocals /\ close.state = "open" /\ crashes' \in 0..MaxCrashes
      /\ request \in Requests
  BY <1>1, NowKnown DEF RunsInv
<1>3. /\ SupPlace(request, asked, sup, h) /\ Noted(request, asked, outcome, sup)
      /\ SupHistory(request, asked, outcome, h) /\ Len(h) \in Nat
  BY <1>2, NowKnown DEF Now, SupInv
<1>4. sup.issued = 1 /\ h[1].state = "completed" /\ 1 \in 1..Len(h)
  BY <1>1, <1>3 DEF SupPlace
<1>5. h[sup.issued].result = PartList(request)
  BY <1>3, <1>4 DEF SupHistory, SupEntry
<1>6. PartList(request) \in Seq(Nat)
  BY <1>2, PartsAre
<1>7. /\ m \in SupLocals /\ m.pc = "spawn" /\ m.issued = sup.issued
      /\ m.subs = PartList(request) /\ m.answers = sup.answers
  BY <1>2, <1>5, <1>6 DEF SupLocals
<1> HIDE DEF m
<1>8. SupPlace(request, asked, m, h) /\ Noted(request, asked, outcome, m)
  BY <1>1, <1>3, <1>4, <1>7 DEF SupPlace, Noted
<1>9. SupInv(request, asked, outcome, m, close, h)
  BY <1>2, <1>7, <1>8, SupCodeMoves DEF Now
<1> QED
  BY <1>1, <1>2, <1>9, MovesKeep

\* A child that was asked nothing has done nothing, and may be asked anything.
LEMMA Unasked ==
    ASSUME NEW l, NEW o, NEW h, RunInv(NotAsked, l, o, h), NEW q
    PROVE  RunInv(q, l, o, h)
<1>1. /\ HistoryInv(h) /\ l \in Locals /\ Past(l, h) /\ Place(l, h)
      /\ Bounded(NotAsked, l, h) /\ o \in Closings /\ Closed(NotAsked, o, h)
  BY DEF RunInv
<1>2. h = <<>> /\ Len(h) = 0
  BY <1>1, EmptySeq DEF Bounded
<1>3. Bounded(q, l, h)
  BY <1>1, <1>2 DEF Bounded
<1>4. o.state # "completed"
  <2> SUFFICES ASSUME o.state = "completed" PROVE FALSE
    OBVIOUS
  <2>1. o.rounds \in Nat /\ o.rounds > 0 /\ 0 = 2 * o.rounds
    BY <1>1, <1>2 DEF Closed, Closings
  <2> QED
    BY <2>1
<1>5. Closed(q, o, h)
  BY <1>4 DEF Closed
<1> QED
  BY <1>1, <1>3, <1>5 DEF RunInv

LEMMA PartIsAQuestion ==
    ASSUME NEW rq \in Requests, Valid(rq), NEW w \in 1..PartsOf(rq)
    PROVE  [text |-> w, maxRounds |-> rq.rounds] \in Questions
<1>1. PartsOf(rq) \in Nat /\ PartsOf(rq) <= rq.parts /\ rq.parts \in Nat /\ rq.rounds > 0
  BY PartsAre, RequestsAssumption DEF Valid
<1>2. w \in 1..rq.parts
  BY <1>1
<1>3. [text |-> w, maxRounds |-> rq.rounds] \in [text : 1..rq.parts, maxRounds : {rq.rounds}]
  BY <1>2
<1> QED
  BY <1>1, <1>3, RequestsAssumption

LEMMA SpawnStep ==
    ASSUME SupIInv, Spawn
    PROVE  SupIInv'
<1> DEFINE n == PartsOf(request)
           m == [sup EXCEPT !.pc = "collect"]
<1>1. /\ sup.pc = "spawn" /\ UNCHANGED <<request, close, local, outcome, crashes, log>>
  BY DEF Spawn
<1>2. /\ RunsInv /\ Now /\ sup \in SupLocals /\ request \in Requests
      /\ 1..n \subseteq Runs /\ n \in Nat
  BY NowKnown, PartsAre
<1>3. /\ SupPlace(request, asked, sup, log[Top]) /\ ChildrenInv(request, asked, log[Top])
  BY <1>2 DEF Now, SupInv
<1>4. /\ sup.subs = PartList(request) /\ Valid(request) /\ Len(sup.subs) = n
      /\ \A w \in 1..n : sup.subs[w] = w
  BY <1>1, <1>2, <1>3, PartsAre DEF SupPlace
<1>5. 1..Len(sup.subs) \cap Started = {} <=> Begun(asked) = {}
  BY <1>3, <1>4 DEF Started, Begun, ChildrenInv
<1>6. \A w \in 1..n : SubQuestionOf(w) = [text |-> w, maxRounds |-> request.rounds]
  BY <1>4 DEF SubQuestionOf
<1>7. CASE Begun(asked) = {}
  <2>1. \A w \in Runs : asked[w] = NotAsked
    BY <1>7 DEF Begun
  <2>2. /\ asked' = [w \in Runs |-> IF w \in 1..n THEN SubQuestionOf(w) ELSE asked[w]]
        /\ sup' = m
    BY <1>4, <1>5, <1>7 DEF Spawn
  <2>3. \A w \in Runs : asked'[w] = IF w \in 1..n
                                    THEN [text |-> w, maxRounds |-> request.rounds]
                                    ELSE NotAsked
    BY <1>6, <2>1, <2>2
  <2>4. asked' \in [Runs -> Questions \cup {NotAsked}]
    <3>1. \A w \in 1..n : [text |-> w, maxRounds |-> request.rounds] \in Questions
      BY <1>2, <1>4, PartIsAQuestion
    <3>2. \A w \in Runs : asked'[w] \in Questions \cup {NotAsked}
      BY <2>3, <3>1
    <3> QED
      BY <2>2, <3>2
  <2>5. \A w \in Runs : RunInv(asked'[w], local[w], outcome[w], log[w])
    BY <1>2, <2>1, Unasked DEF RunsInv
  <2>6. RunsInv'
    BY <1>1, <1>2, <2>4, <2>5 DEF RunsInv
  <2> HIDE DEF m
  <2>7. SupInv(request, asked', outcome, m, close, log[Top])
    <3>1. m = [sup EXCEPT !.pc = "collect"]
      BY DEF m
    <3> QED
      BY <1>1, <1>2, <1>7, <2>3, <3>1, SpawnMoves DEF Now
  <2> QED
    BY <1>1, <2>2, <2>6, <2>7 DEF SupIInv
<1>8. CASE Begun(asked) # {}
  <2>1. \A w \in 1..n : asked[w] = SubQuestionOf(w)
    BY <1>3, <1>6, <1>8 DEF ChildrenInv
  <2>2. sup' = m /\ asked' = asked
    BY <1>4, <1>5, <1>8, <2>1 DEF Spawn
  <2>3. crashes' \in 0..MaxCrashes
    BY <1>1, <1>2 DEF RunsInv
  <2> HIDE DEF m
  <2>4. SupInv(request, asked, outcome, m, close, log[Top])
    <3>1. m = [sup EXCEPT !.pc = "collect"]
      BY DEF m
    <3> QED
      BY <1>1, <1>2, <1>8, <3>1, SpawnMoves DEF Now
  <2> QED
    BY <1>1, <2>2, <2>3, <2>4, MovesKeep
<1> QED
  BY <1>7, <1>8

LEMMA CollectStep ==
    ASSUME SupIInv, Collect
    PROVE  SupIInv'
<1> DEFINE i == Len(sup.answers) + 1
           m == [sup EXCEPT !.answers = Append(@, NotedOf(i, outcome[i]))]
<1>1. /\ sup.pc = "collect" /\ i <= Len(sup.subs) /\ outcome[i].state # "open"
      /\ sup' = m /\ UNCHANGED <<request, close, asked, local, outcome, crashes, log>>
  BY DEF Collect, Next1, SubAnswerOf, NotedOf, convergeVars
<1>2. Now /\ (\A w \in Runs : outcome[w] \in Closings) /\ crashes' \in 0..MaxCrashes
  BY <1>1, NowKnown DEF RunsInv
<1>3. SupInv(request, asked, outcome, m, close, log[Top])
  BY <1>1, <1>2, CollectMoves DEF Now
<1> HIDE DEF m, i
<1> QED
  BY <1>1, <1>2, <1>3, MovesKeep

LEMMA SupCheckFailsStep ==
    ASSUME SupIInv, SupCheckFails
    PROVE  SupIInv'
BY SupFailsStep DEF SupCheckFails, InputValid, Valid

LEMMA SupActivityFailedStep ==
    ASSUME SupIInv, SupActivityFailed
    PROVE  SupIInv'
BY SupFailsStep DEF SupActivityFailed, Ended

LEMMA AllChildrenFailedStep ==
    ASSUME SupIInv, AllChildrenFailed
    PROVE  SupIInv'
<1>1. \A i \in 1..Len(sup.answers) : sup.answers[i].error
  BY DEF AllChildrenFailed, Succeeded
<1> QED
  BY <1>1, SupFailsStep DEF AllChildrenFailed, AllCollected, Next1

\* With all the answers noted the code synthesizes, or panics when there are none.
LEMMA CollectedStep ==
    ASSUME SupIInv, AllCollected, NEW pc \in {"synthesize", "panic"}, SupGoesTo(pc)
    PROVE  SupIInv'
<1> DEFINE n == PartsOf(request)
           k == Len(sup.answers)
           m == [sup EXCEPT !.pc = pc]
<1>1. /\ sup.pc = "collect" /\ k + 1 > Len(sup.subs)
      /\ sup' = m /\ UNCHANGED <<request, close, asked, local, outcome, crashes, log>>
  BY DEF AllCollected, Next1, SupGoesTo, convergeVars
<1>2. /\ Now /\ sup \in SupLocals /\ request \in Requests /\ close.state = "open"
      /\ crashes' \in 0..MaxCrashes
  BY <1>1, NowKnown DEF RunsInv
<1>3. /\ SupPlace(request, asked, sup, log[Top]) /\ Noted(request, asked, outcome, sup)
      /\ k \in 0..n /\ n \in Nat
  BY <1>2, SupKnown DEF Now, SupInv
<1>4. Len(sup.subs) = n
  BY <1>1, <1>2, <1>3, PartsAre DEF SupPlace
<1>5. k = n
  <2>1. k + 1 > n /\ k \in 0..n /\ n \in Nat
    BY <1>1, <1>3, <1>4
  <2> HIDE DEF n, k
  <2> QED
    BY <2>1
<1>6. /\ m \in SupLocals /\ m.pc = pc /\ m.issued = sup.issued /\ m.subs = sup.subs
      /\ m.answers = sup.answers
  BY <1>2 DEF SupLocals
<1> HIDE DEF m
<1>7. SupPlace(request, asked, m, log[Top])
  BY <1>1, <1>3, <1>5, <1>6 DEF SupPlace
<1>8. Noted(request, asked, outcome, m)
  BY <1>3, <1>6 DEF Noted
<1>9. SupInv(request, asked, outcome, m, close, log[Top])
  BY <1>2, <1>6, <1>7, <1>8, SupCodeMoves DEF Now
<1> QED
  BY <1>1, <1>2, <1>9, MovesKeep

LEMMA SynthesizedStep ==
    ASSUME SupIInv, Synthesized
    PROVE  SupIInv'
<1> DEFINE h == log[Top]
           d == [state |-> "completed", answers |-> sup.answers,
                 synthesis |-> h[sup.issued].result]
<1>1. sup.pc = "synthesizing" /\ h[sup.issued].state = "completed" /\ SupCloses(d)
  BY DEF Synthesized, Ended
<1>2. /\ Now /\ sup \in SupLocals /\ close.state = "open"
  BY <1>1, NowKnown
<1>3. /\ SupPlace(request, asked, sup, h) /\ SupHistory(request, asked, outcome, h)
      /\ Len(h) \in Nat
  BY <1>2, NowKnown DEF Now, SupInv
<1>4. /\ sup.issued = 2 /\ 2 \in 1..Len(h) /\ Begun(asked) = 1..PartsOf(request)
      /\ Len(sup.answers) = PartsOf(request)
  BY <1>1, <1>3 DEF SupPlace
<1>5. SupEntry(request, asked, outcome, h, 2) /\ h[2].state = "completed"
  BY <1>1, <1>3, <1>4 DEF SupHistory
<1>6. h[2].result \in Text /\ Settled(request, asked, outcome)
  BY <1>5 DEF SupEntry
<1>7. /\ d \in SupClosings /\ d.state = "completed" /\ d.answers = sup.answers
  BY <1>2, <1>4, <1>6 DEF SupClosings, SupLocals
<1>8. \A w \in Begun(asked) : outcome[w].state # "open"
  BY <1>6 DEF Settled
<1> HIDE DEF d
<1> QED
  BY <1>1, <1>2, <1>4, <1>7, <1>8, SupClosesStep

LEMMA SupWorkerLostStep ==
    ASSUME SupIInv, SupWorkerLost
    PROVE  SupIInv'
<1> DEFINE m == SupFromTheTop
<1>1. /\ close.state = "open" /\ sup' = m /\ crashes < MaxCrashes /\ crashes' = crashes + 1
      /\ UNCHANGED <<request, close, asked, local, outcome, log>>
  BY DEF SupWorkerLost
<1>2. Now /\ crashes' \in 0..MaxCrashes /\ request \in Requests /\ Len(log[Top]) \in Nat
  BY <1>1, NowKnown, QuestionsAssumption DEF RunsInv
<1>3. /\ m \in SupLocals /\ m.pc = "check" /\ m.issued = 0 /\ m.subs = <<>>
      /\ m.answers = <<>> /\ Len(m.answers) = 0
  BY EmptySeq DEF SupFromTheTop, SupLocals
<1> HIDE DEF m
<1>4. SupPlace(request, asked, m, log[Top])
  BY <1>2, <1>3 DEF SupPlace
<1>5. Noted(request, asked, outcome, m)
  BY <1>2, <1>3, PartsAre DEF Noted
<1>6. SupInv(request, asked, outcome, m, close, log[Top])
  BY <1>1, <1>2, <1>3, <1>4, <1>5, SupCodeMoves DEF Now
<1> QED
  BY <1>1, <1>2, <1>6, MovesKeep

LEMMA SupLatestStep ==
    ASSUME SupIInv, log[Top] # <<>>, Latest(Top).state \in {"scheduled", "running"},
           NEW a, SupContinues(request, Len(log[Top]), Latest(Top), a), Becomes(Top, a),
           UNCHANGED <<supervisorVars, asked, local, outcome, crashes>>
    PROVE  SupIInv'
<1> DEFINE h == log[Top]
<1>1. /\ RunsInv /\ Now /\ Top \in Workflows /\ Top \notin Runs
      /\ DOMAIN log = Workflows /\ crashes' \in 0..MaxCrashes
  BY NowKnown DEF RunsInv
<1>2. SupInv(request, asked, outcome, sup, close, [h EXCEPT ![Len(h)] = a])
  BY <1>1, SupLatestContinues DEF Now, Latest
<1>3. /\ DOMAIN log' = Workflows /\ log'[Top] = [h EXCEPT ![Len(h)] = a]
      /\ \A v \in Runs : log'[v] = log[v]
  BY <1>1 DEF Becomes
<1>4. RunsInv'
  BY <1>1, <1>3, ChildrenKept
<1> QED
  BY <1>2, <1>3, <1>4 DEF SupIInv, supervisorVars

LEMMA SupLatestIs ==
    ASSUME SupIInv, NEW s \in {"scheduled", "running"}, Pending(Top, s)
    PROVE  LET a == Latest(Top)
               n == Len(log[Top])
           IN /\ log[Top] # <<>> /\ a.state = s /\ a \in SupActivity /\ n \in 1..2
              /\ a.attempts <= MaxAttempts[a.input.kind]
              /\ s = "scheduled" => a.attempts < MaxAttempts[a.input.kind]
              /\ MaxAttempts[a.input.kind] \in Nat \ {0}
              /\ a.input.kind = IF n = 1 THEN "Decompose" ELSE "Synthesize"
<1> DEFINE a == Latest(Top)
           h == log[Top]
           n == Len(h)
<1>1. h # <<>> /\ a.state = s
  BY DEF Pending
<1>2. SupHistory(request, asked, outcome, h) /\ h \in Seq(SupActivity) /\ n \in 0..2 /\ n # 0
  BY <1>1, NowKnown, SupKnown DEF Now, SupInv
<1>3. n \in 1..n /\ n \in 1..2 /\ (n = 1 \/ n = 2)
  <2>1. n \in 0..2 /\ n # 0
    BY <1>2
  <2> HIDE DEF n
  <2> QED
    BY <2>1
<1>4. a \in SupActivity /\ SupEntry(request, asked, outcome, h, n)
  BY <1>2, <1>3, ElementOfSeq DEF Latest, SupHistory
<1>5. a.input.kind = IF n = 1 THEN "Decompose" ELSE "Synthesize"
  <2>1. CASE n = 1
    BY <1>4, <2>1 DEF SupEntry, Latest
  <2>2. CASE n = 2
    BY <1>4, <2>2 DEF SupEntry, Latest
  <2> QED
    BY <1>3, <2>1, <2>2
<1>6. MaxAttempts[a.input.kind] \in Nat \ {0}
  BY <1>5, PolicyAssumption, SupervisorKindsAssumption
<1>7. /\ a.attempts <= MaxAttempts[a.input.kind]
      /\ a.state = "scheduled" => a.attempts < MaxAttempts[a.input.kind]
  BY <1>4 DEF SupEntry, Latest
<1>8. s = "scheduled" => a.attempts < MaxAttempts[a.input.kind]
  BY <1>1, <1>7
<1> HIDE DEF a, n
<1>9. /\ h # <<>> /\ a.state = s /\ a \in SupActivity /\ n \in 1..2
      /\ a.attempts <= MaxAttempts[a.input.kind]
      /\ s = "scheduled" => a.attempts < MaxAttempts[a.input.kind]
      /\ MaxAttempts[a.input.kind] \in Nat \ {0}
      /\ a.input.kind = IF n = 1 THEN "Decompose" ELSE "Synthesize"
  BY <1>1, <1>3, <1>4, <1>5, <1>6, <1>7, <1>8
<1> QED
  BY <1>9 DEF a, n

LEMMA SupStartStep ==
    ASSUME SupIInv, SupStartActivity
    PROVE  SupIInv'
<1> DEFINE a == Latest(Top)
           b == [a EXCEPT !.state = "running", !.attempts = @ + 1]
<1>1. /\ Pending(Top, "scheduled") /\ Becomes(Top, b)
      /\ UNCHANGED <<supervisorVars, asked, local, outcome, crashes>>
  BY DEF SupStartActivity, StartAttempt
<1>2. /\ log[Top] # <<>> /\ a.state = "scheduled" /\ a \in SupActivity
      /\ a.attempts < MaxAttempts[a.input.kind]
      /\ MaxAttempts[a.input.kind] \in Nat \ {0}
  BY <1>1, SupLatestIs
<1> HIDE DEF a
<1>3. /\ b.state = "running" /\ b.input = a.input /\ b.attempts = a.attempts + 1
      /\ b \in SupActivity /\ a.attempts \in Nat
  <2>1. a.attempts \in Nat /\ a.attempts + 1 \in Nat
    BY <1>2 DEF SupActivity
  <2> QED
    BY <1>2, <2>1 DEF SupActivity
<1>4. b.attempts <= MaxAttempts[b.input.kind]
  BY <1>2, <1>3
<1>5. SupContinues(request, Len(log[Top]), a, b)
  BY <1>3, <1>4 DEF SupContinues
<1> HIDE DEF b
<1> QED
  BY <1>1, <1>2, <1>5, SupLatestStep DEF a

LEMMA SupSucceedsStep ==
    ASSUME SupIInv, SupActivitySucceeds
    PROVE  SupIInv'
<1> DEFINE a == Latest(Top)
           n == Len(log[Top])
           result == IF a.input.kind = "Decompose" THEN Decomposed ELSE Written(Top)
           b == [a EXCEPT !.state = "completed", !.result = result]
<1>1. /\ Pending(Top, "running") /\ Becomes(Top, b)
      /\ UNCHANGED <<supervisorVars, asked, local, outcome, crashes>>
  BY DEF SupActivitySucceeds, AttemptSucceeds
<1>2. /\ log[Top] # <<>> /\ a.state = "running" /\ a \in SupActivity /\ n \in 1..2
      /\ a.attempts <= MaxAttempts[a.input.kind]
      /\ a.input.kind = IF n = 1 THEN "Decompose" ELSE "Synthesize"
  BY <1>1, SupLatestIs
<1>3. Decomposed = PartList(request) /\ PartList(request) \in Seq(Nat)
  BY NowKnown, PartsAre DEF Decomposed, PartList, PartsOf, Cap, CapOf
<1>4. Written(Top) \in Text
  BY <1>2 DEF Written, Text, SupActivity
<1>5. /\ result \in {NoResult} \cup Seq(Nat) \cup Text
      /\ n = 1 => result = PartList(request)
      /\ n = 2 => result \in Text
  <2>1. (n = 1 \/ n = 2) /\ a.input.kind = IF n = 1 THEN "Decompose" ELSE "Synthesize"
    BY <1>2
  <2> HIDE DEF a, n
  <2>2. CASE n = 1
    BY <1>3, <2>1, <2>2
  <2>3. CASE n = 2
    BY <1>4, <2>1, <2>3
  <2> QED
    BY <2>1, <2>2, <2>3
<1> HIDE DEF a, n, result
<1>6. /\ b.state = "completed" /\ b.input = a.input /\ b.attempts = a.attempts
      /\ b.result = result /\ b \in SupActivity
  BY <1>2, <1>5 DEF SupActivity
<1>7. SupContinues(request, n, a, b)
  BY <1>2, <1>5, <1>6 DEF SupContinues
<1> HIDE DEF b
<1> QED
  BY <1>1, <1>2, <1>7, SupLatestStep DEF a, n

LEMMA SupErrsStep ==
    ASSUME SupIInv, NEW type \in ErrorTypes, SupActivityErrs(type)
    PROVE  SupIInv'
<1> DEFINE a == Latest(Top)
           b == [a EXCEPT !.state = IF Retried(a, type) THEN "scheduled" ELSE "failed",
                          !.error = type]
<1>1. /\ Pending(Top, "running") /\ Becomes(Top, b)
      /\ UNCHANGED <<supervisorVars, asked, local, outcome, crashes>>
  BY DEF SupActivityErrs, AttemptFails
<1>2. /\ log[Top] # <<>> /\ a.state = "running" /\ a \in SupActivity
      /\ a.attempts <= MaxAttempts[a.input.kind]
  BY <1>1, SupLatestIs
<1> HIDE DEF a
<1>3. Retried(a, type) => a.attempts < MaxAttempts[a.input.kind]
  BY DEF Retried
<1>4. /\ b.state = IF Retried(a, type) THEN "scheduled" ELSE "failed"
      /\ b.input = a.input /\ b.attempts = a.attempts /\ b \in SupActivity
  BY <1>2 DEF SupActivity
<1>5. SupContinues(request, Len(log[Top]), a, b)
  BY <1>2, <1>3, <1>4 DEF SupContinues
<1> HIDE DEF b
<1> QED
  BY <1>1, <1>2, <1>5, SupLatestStep DEF a

-----------------------------------------------------------------------------
(* The specification *)

LEMMA SupInitInv == SupInit => SupIInv
<1> SUFFICES ASSUME SupInit PROVE SupIInv
  OBVIOUS
<1>1. /\ asked = [w \in Runs |-> NotAsked] /\ local = [w \in Runs |-> FromTheTop]
      /\ outcome = [w \in Runs |-> Open] /\ crashes = 0
      /\ log = [w \in Workflows |-> <<>>]
      /\ request \in Requests /\ sup = SupFromTheTop /\ close = Running
  BY DEF SupInit, ConvergeInit, NoActivities
<1>2. \A w \in Runs : RunInv(asked[w], local[w], outcome[w], log[w])
  BY <1>1, RunAtFirst, RunsAssumption
<1>3. RunsInv
  BY <1>1, <1>2, QuestionsAssumption DEF RunsInv
<1>4. log[Top] = <<>> /\ Begun(asked) = {}
  BY <1>1, TopAssumption DEF Begun
<1>5. /\ sup \in SupLocals /\ sup.pc = "check" /\ sup.issued = 0 /\ sup.subs = <<>>
      /\ sup.answers = <<>> /\ Len(sup.answers) = 0
  BY <1>1, EmptySeq DEF SupFromTheTop, SupLocals
<1>6. close \in SupClosings /\ close.state = "open" /\ close.answers = <<>>
  BY <1>1, EmptySeq DEF Running, SupClosings, Text
<1>7. <<>> \in Seq(SupActivity) /\ Len(<<>>) = 0
  BY EmptySeq
<1>8. SupHistory(request, asked, outcome, <<>>) /\ ChildrenInv(request, asked, <<>>)
  BY <1>4, <1>7 DEF SupHistory, ChildrenInv
<1>9. SupPlace(request, asked, sup, <<>>)
  BY <1>5, <1>7 DEF SupPlace
<1>10. Noted(request, asked, outcome, sup)
  BY <1>1, <1>5, PartsAre DEF Noted
<1>11. SupClosed(request, asked, outcome, sup, close, <<>>)
  <2>1. \A w \in Runs : outcome[w].state # "terminated"
    BY <1>1 DEF Open
  <2> QED
    BY <1>4, <1>5, <1>6, <2>1 DEF SupClosed
<1>12. SupInv(request, asked, outcome, sup, close, <<>>)
  BY <1>1, <1>5, <1>6, <1>8, <1>9, <1>10, <1>11 DEF SupInv
<1> QED
  BY <1>3, <1>4, <1>12 DEF SupIInv

LEMMA SupInvariance == SupIInv /\ [SupNext]_vars => SupIInv'
<1> SUFFICES ASSUME SupIInv, [SupNext]_vars PROVE SupIInv'
  OBVIOUS
<1>1. CASE UNCHANGED vars
  BY <1>1 DEF SupIInv, RunsInv, vars, convergeVars, supervisorVars
<1>2. CASE SupCodeStep
  <2>1. CASE SupCheck
    BY <2>1, SupCheckStep
  <2>2. CASE SupCheckFails
    BY <2>2, SupCheckFailsStep
  <2>3. CASE Decompose
    BY <2>3, DecomposeStep
  <2>4. CASE Decomposes
    BY <2>4, DecomposesStep
  <2>5. CASE Spawn
    BY <2>5, SpawnStep
  <2>6. CASE Collect
    BY <2>6, CollectStep
  <2>7. CASE AllChildrenFailed
    BY <2>7, AllChildrenFailedStep
  <2>8. CASE NoFirstError
    BY <2>8, CollectedStep DEF NoFirstError
  <2>9. CASE SomeSucceeded
    BY <2>9, CollectedStep DEF SomeSucceeded
  <2>10. CASE Synthesize
    BY <2>10, SynthesizeStep
  <2>11. CASE SupActivityFailed
    BY <2>11, SupActivityFailedStep
  <2>12. CASE Synthesized
    BY <2>12, SynthesizedStep
  <2> QED
    BY <1>2, <2>1, <2>2, <2>3, <2>4, <2>5, <2>6, <2>7, <2>8, <2>9, <2>10, <2>11, <2>12
       DEF SupCodeStep
<1>3. CASE SupWorkerLost
  BY <1>3, SupWorkerLostStep
<1>4. CASE SupStartActivity
  BY <1>4, SupStartStep
<1>5. CASE SupActivityEnds
  BY <1>5, SupSucceedsStep, SupErrsStep DEF SupActivityEnds
<1>6. CASE \E w \in Runs : ChildStep(w)
  BY <1>6, ChildStepKeeps
<1> QED
  BY <1>1, <1>2, <1>3, <1>4, <1>5, <1>6 DEF SupNext

\* The inductive invariant, of the supervisor and its children together: what it
\* has noted of them is how they closed, and nothing it starts again on a replay
\* differs from what is on record (supervisor.go:81-189).
THEOREM SupInductive == SupSpec => []SupIInv
BY SupInitInv, SupInvariance, PTL DEF SupSpec

-----------------------------------------------------------------------------
(* What follows *)

LEMMA IntervalIsOfSize ==
    ASSUME NEW n \in Nat
    PROVE  Cardinality(1..n) = n
<1>1. Cardinality(1..n) = IF 1 > n THEN 0 ELSE n - 1 + 1
  BY FS_Interval
<1> QED
  BY <1>1

\* As the properties count them: the children and their answers.
LEMMA StartedAre ==
    ASSUME SupIInv
    PROVE  /\ Started = Begun(asked) /\ (Started = {} \/ Started = 1..PartsOf(request))
           /\ PartsOf(request) \in Nat
           /\ Cardinality(Started) = IF Started = {} THEN 0 ELSE PartsOf(request)
           /\ Started = 1..PartsOf(request) =>
                 [i \in 1..Cardinality(Started) |-> SubAnswerOf(i)]
                     = AllNoted(request, outcome)
<1>1. Started = Begun(asked)
  BY DEF Started, Begun
<1>2. request \in Requests /\ ChildrenInv(request, asked, log[Top])
  BY NowKnown DEF Now, SupInv
<1>3. PartsOf(request) \in Nat
  BY <1>2, PartsAre
<1>4. Started = {} \/ Started = 1..PartsOf(request)
  BY <1>1, <1>2 DEF ChildrenInv
<1>5. Cardinality({}) = 0 /\ Cardinality(1..PartsOf(request)) = PartsOf(request)
  BY <1>3, IntervalIsOfSize, FS_EmptySet
<1>6. \A i : SubAnswerOf(i) = NotedOf(i, outcome[i])
  BY DEF SubAnswerOf, NotedOf
<1> QED
  BY <1>1, <1>3, <1>4, <1>5, <1>6 DEF AllNoted

LEMMA AnswersKept == SupIInv => AnswersAreTheChildrens
<1> SUFFICES ASSUME SupIInv PROVE AnswersAreTheChildrens
  OBVIOUS
<1> DEFINE h == log[Top]
           all == [i \in 1..Cardinality(Started) |-> SubAnswerOf(i)]
<1>1. /\ SupHistory(request, asked, outcome, h) /\ Len(h) \in 0..2
      /\ SupClosed(request, asked, outcome, sup, close, h)
  BY NowKnown, SupKnown DEF Now, SupInv
<1>2. ASSUME NEW k \in 1..Len(h), h[k].input.kind = "Synthesize"
      PROVE  h[k].input.answers = all
  <2>1. SupEntry(request, asked, outcome, h, k) /\ (k = 1 \/ k = 2)
    BY <1>1 DEF SupHistory
  <2>2. k = 2
    BY <1>2, <2>1 DEF SupEntry
  <2>3. /\ h[k].input = [kind |-> "Synthesize", answers |-> AllNoted(request, outcome)]
        /\ Settled(request, asked, outcome)
    BY <2>1, <2>2 DEF SupEntry
  <2>4. all = AllNoted(request, outcome)
    BY <2>3, StartedAre DEF Settled
  <2> QED
    BY <2>3, <2>4
<1>3. ASSUME close.state = "completed"
      PROVE  close.answers = all
  BY <1>1, <1>3, StartedAre DEF SupClosed
<1> QED
  BY <1>2, <1>3 DEF AnswersAreTheChildrens

LEMMA ClosedLast == SupIInv => ClosesLast
<1> SUFFICES ASSUME SupIInv PROVE ClosesLast
  OBVIOUS
<1>1. SupClosed(request, asked, outcome, sup, close, log[Top]) /\ Started = Begun(asked)
  BY NowKnown, StartedAre DEF Now, SupInv
<1> QED
  BY <1>1 DEF SupClosed, ClosesLast

LEMMA FailedAsDocumented == SupIInv => FailsOnlyAsDocumented
<1> SUFFICES ASSUME SupIInv PROVE FailsOnlyAsDocumented
  OBVIOUS
<1>1. SupClosed(request, asked, outcome, sup, close, log[Top]) /\ Started = Begun(asked)
  BY NowKnown, StartedAre DEF Now, SupInv
<1>2. \A kind : ActivityFailedFor(kind) <=> FailedFor(log[Top], kind)
  BY DEF ActivityFailedFor, FailedFor
<1> QED
  BY <1>1, <1>2 DEF SupClosed, FailsOnlyAsDocumented, InputValid, Valid

\* The other workflows do nothing.
Idle == \A w \in Workflows \ (Runs \cup {Top}) : log[w] = <<>>

LEMMA IdleKept == SupIInv /\ Idle /\ [SupNext]_vars => Idle'
<1> SUFFICES ASSUME SupIInv, Idle, [SupNext]_vars,
                    NEW w \in Workflows \ (Runs \cup {Top})
             PROVE  log'[w] = log[w]
  BY DEF Idle
<1>1. DOMAIN log = Workflows /\ w \in Workflows /\ w # Top
  BY NowKnown DEF RunsInv
<1>2. CASE \E v \in Runs : ChildStep(v)
  BY <1>1, <1>2, OwnHistory DEF ChildStep
<1>3. ASSUME NEW a, Becomes(Top, a)
      PROVE  log'[w] = log[w]
  BY <1>1, <1>3 DEF Becomes
<1>4. CASE SupStartActivity \/ SupActivityEnds
  BY <1>3, <1>4 DEF SupStartActivity, SupActivityEnds, SupActivitySucceeds, SupActivityErrs,
     StartAttempt, AttemptSucceeds, AttemptFails
<1>5. ASSUME NEW input, NEW waiting, SupExecute(input, waiting)
      PROVE  log'[w] = log[w]
  BY <1>1, <1>5 DEF SupExecute, Issue
<1>6. CASE SupCodeStep
  BY <1>5, <1>6 DEF SupCodeStep, SupCheck, SupCheckFails, Decompose, Decomposes, Spawn, Collect,
     AllChildrenFailed, NoFirstError, SomeSucceeded, Synthesize, SupActivityFailed, Synthesized,
     SupGoesTo, SupFails, SupCloses, convergeVars
<1>7. CASE SupWorkerLost \/ UNCHANGED vars
  BY <1>7 DEF SupWorkerLost, vars, convergeVars
<1> QED
  BY <1>2, <1>4, <1>6, <1>7 DEF SupNext

LEMMA SupTyped == SupIInv /\ Idle => SupTypeOK
<1> SUFFICES ASSUME SupIInv, Idle PROVE SupTypeOK
  OBVIOUS
<1> DEFINE h == log[Top]
           n == PartsOf(request)
<1>1. /\ SupHistory(request, asked, outcome, h) /\ SupPlace(request, asked, sup, h)
      /\ Noted(request, asked, outcome, sup)
      /\ SupClosed(request, asked, outcome, sup, close, h)
      /\ request \in Requests /\ sup \in SupLocals /\ close \in SupClosings
      /\ 1..n \subseteq Runs /\ n \in Nat /\ h \in Seq(SupActivity) /\ Len(h) \in 0..2
  BY NowKnown, SupKnown DEF Now, SupInv
<1>2. ASSUME NEW k \in 1..Len(h)
      PROVE  TypedEntry(h[k])
  <2> DEFINE a == h[k]
  <2>1. a \in SupActivity /\ a.attempts <= MaxAttempts[a.input.kind]
    BY <1>1, ElementOfSeq DEF SupHistory, SupEntry
  <2> HIDE DEF a
  <2>2. a.input.kind \in Kinds
    BY <2>1, SupervisorKindsAssumption DEF SupActivity, SupCommand
  <2>3. MaxAttempts[a.input.kind] \in Nat \ {0} /\ a.attempts \in Nat
    BY <2>1, <2>2, PolicyAssumption DEF SupActivity
  <2>4. a.attempts \in 0..MaxAttempts[a.input.kind]
    BY <2>1, <2>3
  <2>5. TypedEntry(a)
    BY <2>1, <2>2, <2>4 DEF SupActivity, TypedEntry
  <2> QED
    BY <2>5 DEF a
<1>3. TypeOK
  <2>1. \A w \in Workflows \ (Runs \cup {Top}) : Len(log[w]) = 0
    BY EmptySeq DEF Idle
  <2>2. \A w \in Workflows \ Runs : \A k \in 1..Len(log[w]) : TypedEntry(log[w][k])
    BY <1>2, <2>1
  <2> QED
    BY <2>2, RunsTyped DEF SupIInv
<1>4. 1..Len(sup.subs) \subseteq Runs /\ Len(sup.answers) <= Len(sup.subs)
  <2>1. CASE sup.subs = PartList(request)
    <3>1. Len(sup.subs) = n
      BY <1>1, <2>1, PartsAre
    <3> QED
      BY <1>1, <3>1 DEF Noted
  <2>2. CASE sup.subs = <<>>
    <3>1. Len(sup.subs) = 0
      BY <2>2, EmptySeq
    <3>2. sup.answers # <<>> => sup.answers \in Seq(Answer) /\ n = 0
      BY <1>1, <2>2, <3>1, PartsAre DEF Noted, SupLocals
    <3>3. Len(sup.answers) = 0
      <4>1. CASE sup.answers = <<>>
        BY <4>1, EmptySeq
      <4>2. CASE sup.answers # <<>>
        <5>1. Len(sup.answers) <= 0 /\ Len(sup.answers) \in Nat
          BY <1>1, <3>2, <4>2, LenProperties DEF Noted
        <5> QED
          BY <5>1
      <4> QED
        BY <4>1, <4>2
    <3> QED
      BY <3>1, <3>3
  <2> QED
    BY <1>1, <2>1, <2>2 DEF Noted
<1>5. sup.issued \in 0..Len(h)
  <2>1. sup.issued \in 0..2 /\ sup.issued <= Len(h) /\ Len(h) \in 0..2
    BY <1>1 DEF SupLocals, SupPlace
  <2> DEFINE m == Len(h)
  <2> HIDE DEF m
  <2>2. sup.issued \in 0..2 /\ sup.issued <= m /\ m \in 0..2
    BY <2>1 DEF m
  <2>3. sup.issued \in 0..m
    BY <2>2
  <2> QED
    BY <2>3 DEF m
<1>6. Len(close.answers) \in 0..Cardinality(Started)
  <2>1. close.answers \in Seq(Answer)
    BY <1>1 DEF SupClosings
  <2>2. Cardinality(Started) \in Nat
    BY <1>1, StartedAre
  <2>3. CASE close.answers = <<>>
    <3>1. Len(close.answers) = 0
      BY <2>3, EmptySeq
    <3> QED
      BY <2>2, <3>1
  <2>4. CASE close.answers # <<>>
    <3>1. Len(close.answers) \in Nat /\ Len(close.answers) <= n /\ Started = 1..n
      BY <1>1, <2>1, <2>4, StartedAre, LenProperties DEF SupClosed
    <3>2. Cardinality(Started) = n
      BY <1>1, <3>1, IntervalIsOfSize
    <3> DEFINE m == Len(close.answers)
    <3>3. m \in Nat /\ m <= n /\ n \in Nat
      BY <1>1, <3>1
    <3> HIDE DEF m, n
    <3>4. m \in 0..n
      BY <3>3
    <3> QED
      BY <3>2, <3>4 DEF m
  <2> QED
    BY <2>3, <2>4
<1> QED
  BY <1>1, <1>3, <1>4, <1>5, <1>6 DEF SupTypeOK, SupLocals, SupClosings

\* The parts of CostIsCapped, without its sum: how many children there are, how many
\* activities each of them has had, of which kind, and how many attempts of each.
EachCostIsCapped ==
    /\ Cap > 0 => Cardinality(Started) <= Cap
    /\ Cardinality(Started) <= request.parts
    /\ \A w \in Runs \ Started : log[w] = <<>>
    /\ \A w \in Started :
          /\ Len(log[w]) <= 2 * request.rounds
          /\ \A r \in Nat \ {0} :
                /\ 2 * r - 1 <= Len(log[w]) => log[w][2 * r - 1].input.kind = "Research"
                /\ 2 * r <= Len(log[w]) => log[w][2 * r].input.kind = "Critique"
          /\ \A k \in 1..Len(log[w]) :
                log[w][k].attempts <= MaxAttempts[log[w][k].input.kind]

LEMMA EachCapped == SupIInv => EachCostIsCapped
<1> SUFFICES ASSUME SupIInv PROVE EachCostIsCapped
  OBVIOUS
<1>1. /\ request \in Requests /\ RunsInv /\ ChildrenInv(request, asked, log[Top])
      /\ Started = Begun(asked)
  BY NowKnown, StartedAre DEF Now, SupInv
<1>2. (Cap > 0 => Cardinality(Started) <= Cap) /\ Cardinality(Started) <= request.parts
  <2>1. /\ Cap = CapOf(request) /\ CapOf(request) \in Int /\ PartsOf(request) \in Nat
        /\ request.parts \in Nat /\ PartsOf(request) <= request.parts
        /\ CapOf(request) > 0 => PartsOf(request) <= CapOf(request)
    BY <1>1, PartsAre, RequestsAssumption DEF Cap, CapOf
  <2>2. Cardinality(Started) = 0 \/ Cardinality(Started) = PartsOf(request)
    BY StartedAre
  <2> DEFINE n == PartsOf(request)
             c == Cardinality(Started)
  <2> HIDE DEF n, c
  <2>3. (Cap > 0 => c <= Cap) /\ c <= request.parts
    BY <2>1, <2>2 DEF n, c
  <2> QED
    BY <2>3 DEF c
<1>3. ASSUME NEW w \in Runs
      PROVE  /\ HistoryInv(log[w]) /\ Bounded(asked[w], local[w], log[w])
             /\ w \notin Started => log[w] = <<>>
             /\ w \in Started => asked[w].maxRounds = request.rounds
  <2>1. HistoryInv(log[w]) /\ Bounded(asked[w], local[w], log[w])
    BY <1>1 DEF RunsInv, RunInv
  <2>2. w \notin Started => log[w] = <<>>
    BY <2>1 DEF Started, Bounded
  <2>3. w \in Started => asked[w].maxRounds = request.rounds
    <3>1. w \in Started => asked[w] = [text |-> w, maxRounds |-> request.rounds]
      BY <1>1 DEF ChildrenInv
    <3> QED
      BY <3>1
  <2> QED
    BY <2>1, <2>2, <2>3
<1>4. ASSUME NEW w \in Started
      PROVE  Len(log[w]) <= 2 * request.rounds
  <2>1. w \in Runs /\ Bounded(asked[w], local[w], log[w]) /\ asked[w].maxRounds = request.rounds
    BY <1>3 DEF Started
  <2>2. CASE log[w] # <<>>
    BY <2>1, <2>2 DEF Bounded
  <2>3. CASE log[w] = <<>>
    <3>1. request.rounds \in Int /\ request.rounds > 0
      <4>1. Valid(request)
        BY <1>1, NowKnown DEF Now, SupInv, SupHistory, ChildrenInv
      <4> QED
        BY <1>1, <4>1, RequestsAssumption DEF Valid
    <3>2. Len(log[w]) = 0
      BY <2>3, EmptySeq
    <3> QED
      BY <3>1, <3>2
  <2> QED
    BY <2>2, <2>3
<1>5. ASSUME NEW w \in Started, NEW r \in Nat \ {0}
      PROVE  /\ 2 * r - 1 <= Len(log[w]) => log[w][2 * r - 1].input.kind = "Research"
             /\ 2 * r <= Len(log[w]) => log[w][2 * r].input.kind = "Critique"
  <2>1. HistoryInv(log[w])
    BY <1>3 DEF Started
  <2>2. /\ 2 * r - 1 <= Len(log[w]) => Revises(log[w], r)
        /\ 2 * r <= Len(log[w]) => Judges(log[w], r)
    BY <2>1 DEF HistoryInv, Alternates
  <2> QED
    BY <2>2 DEF Revises, Judges
<1>6. ASSUME NEW w \in Started, NEW k \in 1..Len(log[w])
      PROVE  log[w][k].attempts <= MaxAttempts[log[w][k].input.kind]
  BY <1>3 DEF Started, HistoryInv, Progress
<1> QED
  BY <1>2, <1>3, <1>4, <1>5, <1>6 DEF EachCostIsCapped

LEMMA IntervalCounts ==
    ASSUME NEW n \in Nat
    PROVE  IsFiniteSet(1..n) /\ Cardinality(1..n) = n
<1>1. 1 \in Int /\ n \in Int
  OBVIOUS
<1>2. IsFiniteSet(1..n) /\ Cardinality(1..n) = IF 1 > n THEN 0 ELSE n - 1 + 1
  BY <1>1, FS_Interval
<1> QED
  BY <1>2

LEMMA ProductGrows ==
    ASSUME NEW m \in Nat, NEW n \in Nat, NEW k \in Nat, m <= n
    PROVE  m * k <= n * k
<1>1. PICK d \in Nat : n = m + d
  <2>1. n - m \in Nat /\ n = m + (n - m)
    OBVIOUS
  <2> QED
    BY <2>1
<1>2. n * k = m * k + d * k
  BY <1>1
<1>3. m * k \in Nat /\ d * k \in Nat
  OBVIOUS
<1> QED
  BY <1>2, <1>3

\* The calls are no more than the children by the rounds by the attempts at a
\* research and a critique, of which each call is another.
LEMMA CallsCounted ==
    ASSUME SupIInv, EachCostIsCapped, NEW R \in Nat, R = request.rounds,
           NEW a \in Nat, a = MaxAttempts["Research"],
           NEW b \in Nat, b = MaxAttempts["Critique"]
    PROVE  Cardinality(Calls) \in Nat /\ Cardinality(Calls) <= Cardinality(Started) * R * (a + b)
<1> DEFINE D == (Started \X (1..R)) \X (1..(a + b))
           f == [d \in D |-> IF d[2] <= a THEN <<<<d[1][1], 2 * d[1][2] - 1>>, d[2]>>
                                         ELSE <<<<d[1][1], 2 * d[1][2]>>, d[2] - a>>]
           T == {f[d] : d \in D}
<1>1. IsFiniteSet(D) /\ Cardinality(D) = Cardinality(Started) * R * (a + b)
  <2>1. IsFiniteSet(Started)
    <3>1. PartsOf(request) \in Nat /\ (Started = {} \/ Started = 1..PartsOf(request))
      BY StartedAre
    <3>2. IsFiniteSet({}) /\ IsFiniteSet(1..PartsOf(request))
      BY <3>1, IntervalCounts, FS_EmptySet
    <3> QED
      BY <3>1, <3>2
  <2>2. IsFiniteSet(1..R) /\ Cardinality(1..R) = R
    BY IntervalCounts
  <2>3. IsFiniteSet(1..(a + b)) /\ Cardinality(1..(a + b)) = a + b
    <3>1. a + b \in Nat
      OBVIOUS
    <3> QED
      BY <3>1, IntervalCounts
  <2>4. /\ IsFiniteSet(Started \X (1..R))
        /\ Cardinality(Started \X (1..R)) = Cardinality(Started) * R
    BY <2>1, <2>2, FS_Product
  <2>5. /\ IsFiniteSet((Started \X (1..R)) \X (1..(a + b)))
        /\ Cardinality((Started \X (1..R)) \X (1..(a + b))) =
               Cardinality(Started \X (1..R)) * Cardinality(1..(a + b))
    BY <2>3, <2>4, FS_Product
  <2> QED
    BY <2>3, <2>4, <2>5
<1>2. IsFiniteSet(T) /\ Cardinality(T) <= Cardinality(D)
  <2> HIDE DEF D
  <2>1. f \in Surjection(D, T)
    BY DEF Surjection
  <2> HIDE DEF f, T
  <2> QED
    BY <1>1, <2>1, FS_Surjection
<1>3. Calls \subseteq T
  <2> SUFFICES ASSUME NEW w \in Runs, NEW k \in 1..Len(log[w]), NEW j \in 1..log[w][k].attempts
               PROVE  <<<<w, k>>, j>> \in T
    <3>1. ASSUME NEW c \in Calls
          PROVE  \E w \in Runs : \E k \in 1..Len(log[w]) :
                     \E j \in 1..log[w][k].attempts : c = <<<<w, k>>, j>>
      <4>1. PICK w \in Runs : \E k \in 1..Len(log[w]) :
                                  c \in {<<w, k>>} \X (1..log[w][k].attempts)
        BY <3>1 DEF Calls
      <4>2. PICK k \in 1..Len(log[w]) : c \in {<<w, k>>} \X (1..log[w][k].attempts)
        BY <4>1
      <4>3. \E j \in 1..log[w][k].attempts : c = <<<<w, k>>, j>>
        BY <4>2
      <4> QED
        BY <4>3
    <3> HIDE DEF T
    <3> QED
      BY <3>1
  <2>1. w \in Started
    <3>1. w \notin Started => Len(log[w]) = 0
      BY EmptySeq DEF EachCostIsCapped
    <3> QED
      BY <3>1
  <2>2. /\ Len(log[w]) \in Nat /\ Len(log[w]) <= 2 * R
        /\ log[w][k].attempts \in Nat
        /\ log[w][k].attempts <= MaxAttempts[log[w][k].input.kind]
    <3>1. log[w] \in Seq(Activity)
      BY NowKnown DEF RunsInv, RunInv, HistoryInv
    <3>2. Len(log[w]) \in Nat /\ log[w][k] \in Activity
      BY <3>1
    <3>3. log[w][k].attempts \in Nat
      BY <3>2 DEF Activity
    <3>4. /\ Len(log[w]) <= 2 * R
          /\ log[w][k].attempts <= MaxAttempts[log[w][k].input.kind]
      BY <2>1 DEF EachCostIsCapped
    <3> QED
      BY <3>2, <3>3, <3>4
  <2>3. k \in Nat \ {0} /\ k <= 2 * R /\ j \in Nat \ {0}
    BY <2>2
  <2>4. PICK r \in Nat \ {0} : k = 2 * r - 1 \/ k = 2 * r
    BY <2>3, RoundOf
  <2>5. r \in 1..R
    BY <2>3, <2>4
  <2>6. CASE k = 2 * r - 1
    <3>1. j <= a
      BY <2>1, <2>2, <2>4, <2>6 DEF EachCostIsCapped
    <3>2. <<<<w, r>>, j>> \in D
      BY <2>1, <2>3, <2>5, <3>1
    <3>3. f[<<<<w, r>>, j>>] = <<<<w, k>>, j>>
      BY <2>6, <3>1, <3>2
    <3> QED
      BY <3>2, <3>3
  <2>7. CASE k = 2 * r
    <3>1. j <= b
      BY <2>1, <2>2, <2>4, <2>7 DEF EachCostIsCapped
    <3>2. j + a \in 1..(a + b) /\ ~(j + a <= a) /\ (j + a) - a = j
      BY <2>3, <3>1
    <3>3. <<<<w, r>>, j + a>> \in D
      BY <2>1, <2>5, <3>2
    <3>4. f[<<<<w, r>>, j + a>>] = <<<<w, k>>, j>>
      BY <2>7, <3>2, <3>3
    <3> QED
      BY <3>3, <3>4
  <2> QED
    BY <2>4, <2>6, <2>7
<1> HIDE DEF T, D
<1>4. IsFiniteSet(Calls) /\ Cardinality(Calls) <= Cardinality(T)
  BY <1>2, <1>3, FS_Subset
<1>5. Cardinality(Calls) \in Nat /\ Cardinality(T) \in Nat /\ Cardinality(D) \in Nat
  BY <1>1, <1>2, <1>4, FS_CardinalityType
<1>6. Cardinality(Calls) <= Cardinality(D)
  BY <1>2, <1>4, <1>5
<1> QED
  BY <1>1, <1>5, <1>6

\* A refused request costs nothing, and another at most its cap of children by its
\* rounds by the attempts at a research and a critique.
LEMMA CostCounted == SupIInv /\ SupTypeOK => CostIsCapped
<1> SUFFICES ASSUME SupIInv, SupTypeOK PROVE CostIsCapped
  OBVIOUS
<1> DEFINE s == Cardinality(Started)
           children == IF Cap > 0 THEN Cap ELSE request.parts
           R == request.rounds
           a == MaxAttempts["Research"]
           b == MaxAttempts["Critique"]
<1>1. EachCostIsCapped
  BY EachCapped
<1>2. request \in Requests
  BY NowKnown
<1>3. R \in Int /\ request.parts \in Nat /\ Cap \in Int
  BY <1>2, RequestsAssumption DEF Cap
<1>4. a \in Nat /\ b \in Nat
  BY PolicyAssumption, KindsAssumption
<1>5. s \in Nat
  BY StartedAre
<1>6. children \in Nat /\ s <= children
  <2>1. (Cap > 0 => s <= Cap) /\ s <= request.parts
    BY <1>1 DEF EachCostIsCapped
  <2> HIDE DEF s
  <2> QED
    BY <1>3, <1>5, <2>1
<1>7. ASSUME ~InputValid PROVE Calls = {}
  <2>1. Started = {}
    <3>1. /\ Started = Begun(asked) /\ ChildrenInv(request, asked, log[Top])
          /\ SupHistory(request, asked, outcome, log[Top])
      BY NowKnown, StartedAre DEF Now, SupInv
    <3> QED
      BY <1>7, <3>1 DEF ChildrenInv, SupHistory, Valid, InputValid
  <2>2. \A w \in Runs : 1..Len(log[w]) = {}
    <3>1. \A w \in Runs : Len(log[w]) = 0
      BY <1>1, <2>1, EmptySeq DEF EachCostIsCapped
    <3> QED
      BY <3>1
  <2> QED
    BY <2>2 DEF Calls
<1>8. ASSUME InputValid PROVE Cardinality(Calls) <= children * R * (a + b)
  <2>1. R \in Nat /\ a + b \in Nat
    BY <1>3, <1>4, <1>8 DEF InputValid
  <2>2. Cardinality(Calls) \in Nat /\ Cardinality(Calls) <= s * R * (a + b)
    BY <1>1, <1>4, <2>1, CallsCounted
  <2> DEFINE c == a + b
  <2> HIDE DEF s, children, R, c
  <2>3. s * R <= children * R
    BY <1>5, <1>6, <2>1, ProductGrows
  <2>4. s * R \in Nat /\ children * R \in Nat
    BY <1>5, <1>6, <2>1
  <2>5. (s * R) * c <= (children * R) * c
    BY <2>1, <2>3, <2>4, ProductGrows DEF c
  <2>6. Cardinality(Calls) <= (s * R) * c
    BY <2>2 DEF c
  <2>7. (s * R) * c \in Nat /\ (children * R) * c \in Nat
    BY <2>1, <2>4 DEF c
  <2>8. Cardinality(Calls) <= (children * R) * c
    BY <2>2, <2>5, <2>6, <2>7
  <2> QED
    BY <2>8 DEF c
<1> QED
  BY <1>7, <1>8 DEF CostIsCapped

-----------------------------------------------------------------------------
(* The theorems *)

\* Every variable of the supervisor and its children has its type, and no
\* workflow's activity more attempts than its policy allows.
THEOREM SupTypeCorrect == SupSpec => []SupTypeOK
<1>1. SupInit => Idle
  BY DEF SupInit, ConvergeInit, NoActivities, Idle
<1>2. SupSpec => []Idle
  BY <1>1, SupInductive, IdleKept, PTL DEF SupSpec
<1> QED
  BY <1>2, SupInductive, SupTyped, PTL

\* What is synthesized and returned is what became of each child, in the order of
\* the parts, whatever was replayed in between (supervisor.go:134-155, 179, 188).
THEOREM AnswersAreTheChildrensHolds == SupSpec => []AnswersAreTheChildrens
BY SupInductive, AnswersKept, PTL

\* The supervisor closes after all of its children, so that its closing, which
\* would terminate them, terminates none (supervisor.go:122-124, 136-138).
THEOREM ClosesLastHolds == SupSpec => []ClosesLast
BY SupInductive, ClosedLast, PTL

\* It fails only on bad input, on a failed decomposition or synthesis, or when
\* every child failed (supervisor.go:67-70).
THEOREM FailsOnlyAsDocumentedHolds == SupSpec => []FailsOnlyAsDocumented
BY SupInductive, FailedAsDocumented, PTL

\* A request costs at most its cap of children, each at most its rounds of one
\* research and one critique, each of these at most the attempts of its policy,
\* whatever is lost and replayed (supervisor.go:88-91, 116-131, decompose.go:173-178).
THEOREM CostIsCappedHolds == SupSpec => []CostIsCapped
BY SupInductive, SupTypeCorrect, CostCounted, PTL

=============================================================================
