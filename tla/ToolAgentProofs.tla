--------------------------- MODULE ToolAgentProofs ---------------------------
(***************************************************************************)
(* For every number of attempts, of tries and of steps, every lifetime of  *)
(* the cache's entries and either cache: the invariants of ToolAgent.  The *)
(* properties say nothing of the cache; what carries them is Traced.       *)
(***************************************************************************)
EXTENDS ToolAgent, SequenceTheorems, TLAPS

-----------------------------------------------------------------------------
(* Lemmas on the trace of decisions *)

\* A prefix of a history is not changed by the step that is appended to it.
LEMMA PrefixOfAppend ==
    ASSUME NEW S, NEW s \in Seq(S), NEW e \in S, NEW n \in 0..Len(s)
    PROVE  SubSeq(Append(s, e), 1, n) = SubSeq(s, 1, n)
<1>1. Append(s, e) \in Seq(S) /\ Len(Append(s, e)) = Len(s) + 1
      /\ \A i \in 1..Len(s) : Append(s, e)[i] = s[i]
  BY AppendProperties
<1>2. \A i \in 1..n : s[i] \in S /\ Append(s, e)[i] \in S /\ Append(s, e)[i] = s[i]
  BY <1>1, ElementOfSeq
<1>3. /\ SubSeq(s, 1, n) \in Seq(S)
      /\ Len(SubSeq(s, 1, n)) = IF 1 <= n THEN n - 1 + 1 ELSE 0
      /\ \A i \in 1..n - 1 + 1 : SubSeq(s, 1, n)[i] = s[1 + i - 1]
  BY <1>2, SubSeqProperties
<1>4. /\ SubSeq(Append(s, e), 1, n) \in Seq(S)
      /\ Len(SubSeq(Append(s, e), 1, n)) = IF 1 <= n THEN n - 1 + 1 ELSE 0
      /\ \A i \in 1..n - 1 + 1 : SubSeq(Append(s, e), 1, n)[i] = Append(s, e)[1 + i - 1]
  BY <1>2, SubSeqProperties
<1>5. \A i \in 1..Len(SubSeq(s, 1, n)) : SubSeq(Append(s, e), 1, n)[i] = SubSeq(s, 1, n)[i]
  BY <1>2, <1>3, <1>4
<1> QED
  BY <1>3, <1>4, <1>5, SeqEqual

\* A step the model decided for exactly this history may be appended to it.
LEMMA DecidedAppend ==
    ASSUME NEW s \in Seq(Step), NEW e \in Step, WasDecided(s), <<s, e.tool>> \in given
    PROVE  WasDecided(Append(s, e))
<1>1. /\ Len(Append(s, e)) = Len(s) + 1
      /\ \A i \in 1..Len(s) : Append(s, e)[i] = s[i]
      /\ Append(s, e)[Len(s) + 1] = e
  BY AppendProperties
<1>2. Len(s) \in Nat
  BY LenProperties
<1>3. SUFFICES ASSUME NEW i \in 1..Len(s) + 1
               PROVE  <<SubSeq(Append(s, e), 1, i - 1), Append(s, e)[i].tool>> \in given
  BY <1>1 DEF WasDecided
<1>4. SubSeq(Append(s, e), 1, i - 1) = SubSeq(s, 1, i - 1)
  BY <1>2, PrefixOfAppend
<1>5. CASE i \in 1..Len(s)
  BY <1>1, <1>4, <1>5 DEF WasDecided
<1>6. CASE i = Len(s) + 1
  <2>1. SubSeq(s, 1, i - 1) = s
    BY <1>2, <1>6, SubSeqFull
  <2> QED
    BY <1>1, <1>4, <1>6, <2>1
<1>7. i \in 1..Len(s) \/ i = Len(s) + 1
  BY <1>2
<1> QED
  BY <1>5, <1>6, <1>7

-----------------------------------------------------------------------------
(* The inductive invariant *)

\* What lies between the model's answer and the decision: the entries of the cache
\* and the answers on their way were given to the prompt they are kept under, and a
\* call that is under way has its caller's history for its prompt.
Traced ==
    /\ \A e \in cache : <<e.key, e.answer>> \in given
    /\ \A c \in Callers :
        /\ call[c].pc \in {"storing", "answered"} =>
               <<call[c].prompt, call[c].answer>> \in given /\ call[c].answer \in Decisions
        /\ call[c].pc # "idle" =>
               /\ loop[c].pc \in {"deciding", "calling"}
               /\ call[c].prompt = loop[c].history
               /\ Len(loop[c].history) < MaxSteps
        /\ call[c].pc \in {"stale", "asking", "backoff"} => call[c].tries < Tries
        /\ loop[c].pc = "calling" => call[c].pc = "answered" /\ call[c].answer \in Tools
        /\ Len(loop[c].history) <= MaxSteps

IInv == TypeOK /\ Traced /\ DecisionsWereMade /\ OutcomeIsJustified

\* The constants are what CompletionAssumption and ToolAgentAssumption say.
LEMMA InitInv == Init => IInv
<1> SUFFICES ASSUME Init PROVE IInv
  OBVIOUS
<1> USE CompletionAssumption, ToolAgentAssumption DEF Init, InitChain, Idle, NotBegun
<1>1. <<>> \in Seq(Step) /\ Len(<<>>) = 0
  BY EmptySeq
<1>2. TypeOK
  BY <1>1 DEF TypeOK, Call, CallPcs, Decisions
<1>3. Traced
  BY <1>1 DEF Traced
<1>4. DecisionsWereMade
  BY <1>1 DEF DecisionsWereMade, WasDecided
<1>5. act.state = "scheduled" /\ act.end = "none"
  OBVIOUS
<1>6. OutcomeIsJustified
  BY <1>5 DEF OutcomeIsJustified
<1> QED
  BY <1>2, <1>3, <1>4, <1>6 DEF IInv

-----------------------------------------------------------------------------
(* The server, time and the process *)

LEMMA BeginAttemptInv ==
    ASSUME IInv, NEW c \in Callers, BeginAttempt(c)
    PROVE  IInv'
<1> USE DEF IInv, BeginAttempt, chainVars
<1>1. TypeOK'
  BY DEF TypeOK
<1>2. Traced'
  BY DEF TypeOK, Traced
<1>3. DecisionsWereMade'
  BY DEF TypeOK, DecisionsWereMade, WasDecided
<1>4. OutcomeIsJustified'
  BY DEF TypeOK, OutcomeIsJustified
<1> QED
  BY <1>1, <1>2, <1>3, <1>4

\* An attempt more, or the end for want of one.
LEMMA AfterFailureProps ==
    ASSUME IInv, act.state = "running"
    PROVE  /\ AfterFailure \in [state : {"scheduled", "failed"}, by : {{}},
                                steps : Seq(Step), end : {"none", "retries"}]
           /\ AfterFailure.steps = act.steps
           /\ AfterFailure.state = "failed" <=> AfterFailure.end # "none"
           /\ AfterFailure.end = "retries" => \A c \in Callers : loop[c].pc # "none"
BY DEF IInv, TypeOK, OutcomeIsJustified, AfterFailure

LEMMA TimeOutInv == IInv /\ TimeOut => IInv'
<1> SUFFICES ASSUME IInv, TimeOut PROVE IInv'
  OBVIOUS
<1> USE DEF TimeOut, chainVars
<1>1. /\ act'.state \in {"scheduled", "failed"} /\ act'.by = {}
      /\ act'.steps = act.steps /\ act'.end \in {"none", "retries"}
      /\ act' \in [state : {"scheduled", "failed"}, by : {{}},
                   steps : Seq(Step), end : {"none", "retries"}]
      /\ act'.state = "failed" <=> act'.end # "none"
      /\ act'.end = "retries" => \A c \in Callers : loop[c].pc # "none"
  BY AfterFailureProps
<1>2. TypeOK'
  BY <1>1 DEF IInv, TypeOK
<1>3. Traced'
  BY DEF IInv, Traced
<1>4. DecisionsWereMade'
  BY <1>1 DEF IInv, DecisionsWereMade, WasDecided
<1>5. OutcomeIsJustified'
  BY <1>1 DEF OutcomeIsJustified
<1> QED
  BY <1>2, <1>3, <1>4, <1>5 DEF IInv

LEMMA TickInv == IInv /\ Tick /\ UNCHANGED <<act, loop, outages>> => IInv'
BY CompletionAssumption
DEF IInv, TypeOK, Traced, DecisionsWereMade, WasDecided, OutcomeIsJustified, Tick

LEMMA CrashInv == IInv /\ Crash => IInv'
<1> SUFFICES ASSUME IInv, Crash PROVE IInv'
  OBVIOUS
<1> USE DEF IInv, Crash, ChainLost, NotBegun, Ended, Idle
<1>1. <<>> \in Seq(Step) /\ Len(<<>>) = 0
  BY EmptySeq
<1>2. TypeOK'
  BY <1>1, CompletionAssumption, ToolAgentAssumption DEF TypeOK, Call, CallPcs
<1>3. Traced'
  BY <1>1, ToolAgentAssumption DEF TypeOK, Traced
<1>4. DecisionsWereMade'
  BY <1>1 DEF DecisionsWereMade, WasDecided
<1>5. OutcomeIsJustified'
  BY DEF TypeOK, OutcomeIsJustified
<1> QED
  BY <1>2, <1>3, <1>4, <1>5

-----------------------------------------------------------------------------
(* The completion *)

LEMMA IdleTyped == Idle \in Call /\ Idle.tries = 0
BY CompletionAssumption, EmptySeq DEF Idle, Call, CallPcs

LEMMA HitInv ==
    ASSUME IInv, NEW c \in Callers, loop[c].pc = "deciding",
           UNCHANGED <<act, loop, outages>>, Len(loop[c].history) < MaxSteps,
           Hit(c, loop[c].history)
    PROVE  IInv'
<1> USE DEF Hit, Moves
<1>1. TypeOK'
  <2>1. /\ loop[c].history \in Seq(Step)
        /\ call[c] \in Call
    BY DEF IInv, TypeOK
  <2>2. call'[c] \in Call /\ call' = [call EXCEPT ![c] = call'[c]]
    <3>1. PICK e \in cache : call' = [call EXCEPT ![c] =
                [Idle EXCEPT !.pc = "answered", !.prompt = loop[c].history,
                             !.answer = e.answer]]
      BY DEF Stored
    <3>2. e.answer \in Decisions
      BY DEF IInv, TypeOK
    <3>3. [Idle EXCEPT !.pc = "answered", !.prompt = loop[c].history,
                       !.answer = e.answer] \in Call
      BY <2>1, <3>2, IdleTyped DEF Call, CallPcs
    <3> QED
      BY <3>1, <3>3 DEF IInv, TypeOK
  <2> QED
    BY <2>2 DEF IInv, TypeOK
<1>2. Traced'
  BY DEF IInv, TypeOK, Traced, Idle, Stored, CacheKey
<1>3. DecisionsWereMade'
  BY DEF IInv, DecisionsWereMade, WasDecided
<1>4. OutcomeIsJustified'
  BY DEF IInv, OutcomeIsJustified
<1> QED
  BY <1>1, <1>2, <1>3, <1>4 DEF IInv

LEMMA FindStaleInv ==
    ASSUME IInv, NEW c \in Callers, loop[c].pc = "deciding",
           UNCHANGED <<act, loop, outages>>, Len(loop[c].history) < MaxSteps,
           FindStale(c, loop[c].history)
    PROVE  IInv'
<1> USE DEF FindStale, Moves
<1>1. TypeOK'
  <2>1. /\ loop[c].history \in Seq(Step)
        /\ call[c] \in Call
    BY DEF IInv, TypeOK
  <2>2. call'[c] \in Call /\ call' = [call EXCEPT ![c] = call'[c]]
    <3>1. [Idle EXCEPT !.pc = "stale", !.prompt = loop[c].history] \in Call
      BY <2>1, IdleTyped DEF Call, CallPcs
    <3> QED
      BY <3>1 DEF IInv, TypeOK
  <2> QED
    BY <2>2 DEF IInv, TypeOK
<1>2. Traced'
  BY CompletionAssumption DEF IInv, TypeOK, Traced, Idle
<1>3. DecisionsWereMade'
  BY DEF IInv, DecisionsWereMade, WasDecided
<1>4. OutcomeIsJustified'
  BY DEF IInv, OutcomeIsJustified
<1> QED
  BY <1>1, <1>2, <1>3, <1>4 DEF IInv

LEMMA MissInv ==
    ASSUME IInv, NEW c \in Callers, loop[c].pc = "deciding",
           UNCHANGED <<act, loop, outages>>, Len(loop[c].history) < MaxSteps,
           Miss(c, loop[c].history)
    PROVE  IInv'
<1> USE DEF Miss, Moves
<1>1. TypeOK'
  <2>1. /\ loop[c].history \in Seq(Step)
        /\ call[c] \in Call
    BY DEF IInv, TypeOK
  <2>2. call'[c] \in Call /\ call' = [call EXCEPT ![c] = call'[c]]
    <3>1. [Idle EXCEPT !.pc = "asking", !.prompt = loop[c].history] \in Call
      BY <2>1, IdleTyped DEF Call, CallPcs
    <3> QED
      BY <3>1 DEF IInv, TypeOK
  <2> QED
    BY <2>2 DEF IInv, TypeOK
<1>2. Traced'
  BY CompletionAssumption DEF IInv, TypeOK, Traced, Idle
<1>3. DecisionsWereMade'
  BY DEF IInv, DecisionsWereMade, WasDecided
<1>4. OutcomeIsJustified'
  BY DEF IInv, OutcomeIsJustified
<1> QED
  BY <1>1, <1>2, <1>3, <1>4 DEF IInv

LEMMA DeleteStaleInv ==
    ASSUME IInv, NEW c \in Callers, loop[c].pc = "deciding",
           UNCHANGED <<act, loop, outages>>, DeleteStale(c)
    PROVE  IInv'
<1> USE DEF DeleteStale, Moves, Stored
<1>1. TypeOK'
  <2>1. /\ loop[c].history \in Seq(Step)
        /\ call[c] \in Call
    BY DEF IInv, TypeOK
  <2>2. call'[c] \in Call /\ call' = [call EXCEPT ![c] = call'[c]]
    BY <2>1 DEF IInv, TypeOK, Call, CallPcs
  <2> QED
    BY <2>2 DEF IInv, TypeOK
<1>2. Traced'
  BY DEF IInv, TypeOK, Traced
<1>3. DecisionsWereMade'
  BY DEF IInv, DecisionsWereMade, WasDecided
<1>4. OutcomeIsJustified'
  BY DEF IInv, OutcomeIsJustified
<1> QED
  BY <1>1, <1>2, <1>3, <1>4 DEF IInv

LEMMA StoreInv ==
    ASSUME IInv, NEW c \in Callers, loop[c].pc = "deciding",
           UNCHANGED <<act, loop, outages>>, Store(c)
    PROVE  IInv'
<1> USE DEF Store, Moves, Stored, CacheKey
<1>1. TypeOK'
  <2>1. /\ loop[c].history \in Seq(Step)
        /\ call[c] \in Call
    BY DEF IInv, TypeOK
  <2>2. call'[c] \in Call /\ call' = [call EXCEPT ![c] = call'[c]]
    BY <2>1 DEF IInv, TypeOK, Call, CallPcs
  <2>3. call[c].prompt \in Seq(Step) /\ call[c].answer \in Decisions
        /\ clock + TTL \in Nat
    <3>1. clock \in Nat
      BY CompletionAssumption DEF IInv, TypeOK
    <3>2. call[c].answer \in Decisions
      BY DEF IInv, Traced
    <3> QED
      BY <2>1, <3>1, <3>2, CompletionAssumption DEF Call
  <2>4. \A e \in cache' : e.key \in Seq(Step) /\ e.answer \in Decisions /\ e.expires \in Nat
    BY <2>3 DEF IInv, TypeOK
  <2> QED
    BY <2>2, <2>4 DEF IInv, TypeOK
<1>2. Traced'
  BY DEF IInv, TypeOK, Traced
<1>3. DecisionsWereMade'
  BY DEF IInv, DecisionsWereMade, WasDecided
<1>4. OutcomeIsJustified'
  BY DEF IInv, OutcomeIsJustified
<1> QED
  BY <1>1, <1>2, <1>3, <1>4 DEF IInv

LEMMA FailInv ==
    ASSUME IInv, NEW c \in Callers, loop[c].pc = "deciding",
           UNCHANGED <<act, loop, outages>>, Fail(c)
    PROVE  IInv'
<1> USE DEF Fail, Moves
<1>1. TypeOK'
  <2>1. /\ loop[c].history \in Seq(Step)
        /\ call[c] \in Call
    BY DEF IInv, TypeOK
  <2>2. call'[c] \in Call /\ call' = [call EXCEPT ![c] = call'[c]]
    <3>1. call[c].tries + 1 \in 0..Tries
      <4>1. call[c].tries < Tries
        BY DEF IInv, Traced
      <4>2. call[c].tries \in 0..Tries
        BY <2>1 DEF Call
      <4> QED
        BY <4>1, <4>2, CompletionAssumption
    <3>2. (IF call[c].tries + 1 < Tries THEN "backoff" ELSE "failed") \in CallPcs
      BY DEF CallPcs
    <3>3. [call[c] EXCEPT !.tries = call[c].tries + 1,
                          !.pc = IF call[c].tries + 1 < Tries THEN "backoff"
                                                              ELSE "failed"] \in Call
      BY <2>1, <3>1, <3>2 DEF Call
    <3> QED
      BY <3>3 DEF IInv, TypeOK
  <2> QED
    BY <2>2 DEF IInv, TypeOK
<1>2. Traced'
  BY CompletionAssumption DEF IInv, TypeOK, Call, Traced
<1>3. DecisionsWereMade'
  BY DEF IInv, DecisionsWereMade, WasDecided
<1>4. OutcomeIsJustified'
  BY DEF IInv, OutcomeIsJustified
<1> QED
  BY <1>1, <1>2, <1>3, <1>4 DEF IInv

LEMMA BackoffEndsInv ==
    ASSUME IInv, NEW c \in Callers, loop[c].pc = "deciding",
           UNCHANGED <<act, loop, outages>>, NEW b \in BOOLEAN, BackoffEnds(c, b)
    PROVE  IInv'
<1> USE DEF BackoffEnds, Moves
<1>1. TypeOK'
  <2>1. /\ loop[c].history \in Seq(Step)
        /\ call[c] \in Call
    BY DEF IInv, TypeOK
  <2>2. call'[c] \in Call /\ call' = [call EXCEPT ![c] = call'[c]]
    <3>1. (IF b THEN "failed" ELSE "asking") \in CallPcs
      BY DEF CallPcs
    <3>2. [call[c] EXCEPT !.pc = IF b THEN "failed" ELSE "asking"] \in Call
      BY <2>1, <3>1 DEF Call
    <3> QED
      BY <3>2 DEF IInv, TypeOK
  <2> QED
    BY <2>2 DEF IInv, TypeOK
<1>2. Traced'
  BY DEF IInv, TypeOK, Traced
<1>3. DecisionsWereMade'
  BY DEF IInv, DecisionsWereMade, WasDecided
<1>4. OutcomeIsJustified'
  BY DEF IInv, OutcomeIsJustified
<1> QED
  BY <1>1, <1>2, <1>3, <1>4 DEF IInv

LEMMA AnswerInv ==
    ASSUME IInv, NEW c \in Callers, loop[c].pc = "deciding",
           UNCHANGED <<act, loop, outages>>, NEW d \in Decisions, Answer(c, d)
    PROVE  IInv'
<1> USE DEF Answer, Moves
<1>1. TypeOK'
  <2>1. /\ loop[c].history \in Seq(Step)
        /\ call[c] \in Call
    BY DEF IInv, TypeOK
  <2>2. call'[c] \in Call /\ call' = [call EXCEPT ![c] = call'[c]]
    BY <2>1 DEF IInv, TypeOK, Call, CallPcs
  <2> QED
    BY <2>2 DEF IInv, TypeOK
<1>2. Traced'
  BY DEF IInv, TypeOK, Traced
<1>3. DecisionsWereMade'
  BY DEF IInv, DecisionsWereMade, WasDecided
<1>4. OutcomeIsJustified'
  BY DEF IInv, OutcomeIsJustified
<1> QED
  BY <1>1, <1>2, <1>3, <1>4 DEF IInv

LEMMA AskInv == ASSUME IInv, NEW c \in Callers, Ask(c) PROVE IInv'
BY HitInv, FindStaleInv, MissInv DEF Ask, Deciding

LEMMA InChainInv == ASSUME IInv, NEW c \in Callers, InChain(c) PROVE IInv'
<1>1. loop[c].pc = "deciding" /\ UNCHANGED <<act, loop, outages>>
  BY DEF InChain, Deciding
<1>2. CASE DeleteStale(c)
  BY <1>1, <1>2, DeleteStaleInv
<1>3. CASE Store(c)
  BY <1>1, <1>3, StoreInv
<1>4. CASE Fail(c)
  BY <1>1, <1>4, FailInv
<1>5. CASE \E d \in Decisions : Answer(c, d)
  BY <1>1, <1>5, AnswerInv
<1>6. ASSUME NEW b \in BOOLEAN, BackoffEnds(c, b) PROVE IInv'
  BY <1>1, <1>6, BackoffEndsInv DEF BackoffEnds
<1> QED
  BY <1>2, <1>3, <1>4, <1>5, <1>6 DEF InChain

-----------------------------------------------------------------------------
(* The loop *)

\* A decision that was answered was made for the history it is taken with.
LEMMA DecisionTaken ==
    ASSUME IInv, NEW c \in Callers, call[c].pc = "answered"
    PROVE  /\ <<loop[c].history, call[c].answer>> \in given
           /\ call[c].answer \in Decisions
           /\ Len(loop[c].history) < MaxSteps
           /\ loop[c].history \in Seq(Step) /\ WasDecided(loop[c].history)
BY DEF IInv, TypeOK, Traced, DecisionsWereMade

\* What all ends of the loop have in common: the attempt is over, its call idle,
\* and the execution's outcome is justified.
LEMMA ReturnInv ==
    ASSUME IInv, NEW c \in Callers, loop[c].pc = "deciding",
           call' = call \/ call' = [call EXCEPT ![c] = Idle], call'[c] = Idle,
           UNCHANGED <<clock, cache, given>>,
           NEW how, Returns(c, how),
           Live(c) => /\ how \in [state : {"scheduled", "completed", "failed"},
                                  by : SUBSET Callers, steps : Seq(Step),
                                  end : {"none", "converged", "max_steps",
                                         "InvalidLLMResponse", "retries"}]
                      /\ WasDecided(how.steps)
                      /\ how.state # "scheduled" <=> how.end # "none"
                      /\ how.end = "converged" =>
                           Len(how.steps) < MaxSteps /\ <<how.steps, "final">> \in given
                      /\ how.end = "max_steps" => Len(how.steps) = MaxSteps
                      /\ how.end = "InvalidLLMResponse" =>
                           Len(how.steps) < MaxSteps /\ <<how.steps, "malformed">> \in given
                      /\ how.end = "retries" => \A d \in Callers : loop[d].pc # "none"
    PROVE  IInv'
<1> USE DEF Returns
<1>1. <<>> \in Seq(Step) /\ Len(<<>>) = 0
  BY EmptySeq
<1>2. Ended \in [pc : {"none", "deciding", "calling", "ended"}, history : Seq(Step)]
  BY <1>1 DEF Ended
<1>3. act' \in [state : {"scheduled", "running", "completed", "failed"},
                by : SUBSET Callers, steps : Seq(Step),
                end : {"none", "converged", "max_steps", "InvalidLLMResponse", "retries"}]
  BY DEF IInv, TypeOK
<1>4. TypeOK'
  BY <1>2, <1>3, IdleTyped DEF IInv, TypeOK
<1>5. Traced'
  BY <1>1, ToolAgentAssumption DEF IInv, TypeOK, Traced, Ended, Idle
<1>6. DecisionsWereMade'
  <2>1. WasDecided(act.steps)' /\ WasDecided(<<>>)
    BY <1>1 DEF IInv, DecisionsWereMade, WasDecided
  <2>2. ASSUME NEW d \in Callers
        PROVE  loop'[d].history = IF d = c THEN <<>> ELSE loop[d].history
    BY DEF IInv, TypeOK, Ended
  <2>3. ASSUME NEW d \in Callers
        PROVE  WasDecided(loop[d].history)'
    BY <2>1, <2>2, <2>3 DEF IInv, DecisionsWereMade, WasDecided
  <2> QED
    BY <2>1, <2>3 DEF DecisionsWereMade
<1>7. \A d \in Callers : loop[d].pc # "none" => loop'[d].pc # "none"
  BY DEF IInv, TypeOK, Ended
<1>8. OutcomeIsJustified'
  <2>1. CASE Live(c)
    BY <2>1, <1>7 DEF OutcomeIsJustified
  <2>2. CASE ~Live(c)
    BY <2>2, <1>7 DEF IInv, OutcomeIsJustified
  <2> QED
    BY <2>1, <2>2
<1> QED
  BY <1>4, <1>5, <1>6, <1>8 DEF IInv

\* Steps appended by the loop.
LEMMA RecordInv ==
    ASSUME IInv, NEW c \in Callers, call[c].pc = "answered", Hangs(c),
           NEW step \in Step, Record(c, step), step.tool = call[c].answer,
           UNCHANGED <<act, outages>>
    PROVE  IInv'
<1> USE DEF Hangs, Moves, Record
<1>0. loop[c].history \in Seq(Step) /\ WasDecided(loop[c].history)
      /\ <<loop[c].history, step.tool>> \in given
  BY DecisionTaken
<1>1. /\ Append(loop[c].history, step) \in Seq(Step)
      /\ Len(Append(loop[c].history, step)) = Len(loop[c].history) + 1
  BY <1>0, AppendProperties
<1>2. WasDecided(Append(loop[c].history, step))
  BY <1>0, DecidedAppend
<1>3. Len(loop[c].history) \in Nat
  BY <1>0, LenProperties
<1>4. TypeOK'
  BY <1>1, IdleTyped DEF IInv, TypeOK
<1>5. Traced'
  BY <1>1, <1>3, DecisionTaken, ToolAgentAssumption DEF IInv, TypeOK, Traced, Idle
<1>6. DecisionsWereMade'
  <2>1. ASSUME NEW d \in Callers
        PROVE  loop'[d].history = IF d = c THEN Append(loop[c].history, step)
                                           ELSE loop[d].history
    BY DEF IInv, TypeOK
  <2>2. ASSUME NEW d \in Callers
        PROVE  WasDecided(loop[d].history)'
    <3>1. CASE d = c
      BY <1>2, <2>1, <3>1 DEF WasDecided
    <3>2. CASE d # c
      BY <2>1, <3>2, SMTT(30) DEF IInv, DecisionsWereMade, WasDecided
    <3> QED
      BY <3>1, <3>2
  <2> QED
    BY <2>2 DEF IInv, DecisionsWereMade, WasDecided
<1>7. OutcomeIsJustified'
  BY DEF IInv, TypeOK, OutcomeIsJustified
<1> QED
  BY <1>4, <1>5, <1>6, <1>7 DEF IInv

LEMMA UnregisteredInv == ASSUME IInv, NEW c \in Callers, Unregistered(c) PROVE IInv'
<1>1. [tool |-> "unregistered", result |-> "error"] \in Step
  BY DEF Step, Results, Calculator, FileRead, WebSearch
<1> QED
  BY <1>1, RecordInv DEF Unregistered, Decided, Deciding

LEMMA CallToolInv == ASSUME IInv, NEW c \in Callers, CallTool(c) PROVE IInv'
<1> USE DEF CallTool, Deciding, chainVars
<1>1. TypeOK'
  BY DEF IInv, TypeOK
<1>2. Traced'
  BY DEF IInv, TypeOK, Traced
<1>3. DecisionsWereMade'
  BY DEF IInv, TypeOK, DecisionsWereMade, WasDecided
<1>4. OutcomeIsJustified'
  BY DEF IInv, TypeOK, OutcomeIsJustified
<1> QED
  BY <1>1, <1>2, <1>3, <1>4 DEF IInv

LEMMA ToolReturnsInv == ASSUME IInv, NEW c \in Callers, ToolReturns(c) PROVE IInv'
<1>1. call[c].pc = "answered" /\ call[c].answer \in Tools
  BY DEF IInv, Traced, ToolReturns
<1>2. PICK r \in Outcomes(call[c].answer) :
        Record(c, [tool |-> call[c].answer, result |-> r])
  BY DEF ToolReturns
<1>3. r \in Results
  BY <1>1, ToolAgentAssumption DEF Outcomes, Results
<1>4. [tool |-> call[c].answer, result |-> r] \in Step
  BY <1>1, <1>3 DEF Step
<1> QED
  BY <1>1, <1>2, <1>4, RecordInv DEF ToolReturns

LEMMA StepsUsedUpInv == ASSUME IInv, NEW c \in Callers, StepsUsedUp(c) PROVE IInv'
<1> DEFINE how == Closes("completed", loop[c].history, "max_steps")
<1>1. loop[c].history \in Seq(Step) /\ WasDecided(loop[c].history) /\ act.by \in SUBSET Callers
  BY DEF IInv, TypeOK, DecisionsWereMade
<1>2. /\ how \in [state : {"completed"}, by : SUBSET Callers, steps : Seq(Step),
                  end : {"max_steps"}]
      /\ how.steps = loop[c].history /\ how.state = "completed" /\ how.end = "max_steps"
  BY <1>1 DEF Closes, IInv, TypeOK
<1>3. call'[c] = Idle /\ call' = call /\ UNCHANGED <<clock, cache, given>>
      /\ loop[c].pc = "deciding" /\ Returns(c, how) /\ Len(loop[c].history) = MaxSteps
  BY DEF StepsUsedUp, Deciding, chainVars
<1> HIDE DEF how
<1> QED
  BY <1>1, <1>2, <1>3, ReturnInv

LEMMA FinalInv == ASSUME IInv, NEW c \in Callers, Final(c) PROVE IInv'
<1> DEFINE how == Closes("completed", loop[c].history, "converged")
<1>1. call[c].pc = "answered" /\ call[c].answer = "final"
  BY DEF Final, Decided
<1>2. /\ loop[c].history \in Seq(Step) /\ WasDecided(loop[c].history)
      /\ Len(loop[c].history) < MaxSteps /\ <<loop[c].history, "final">> \in given
  BY <1>1, DecisionTaken
<1>3. /\ how \in [state : {"completed"}, by : SUBSET Callers, steps : Seq(Step),
                  end : {"converged"}]
      /\ how.steps = loop[c].history /\ how.state = "completed" /\ how.end = "converged"
  BY <1>2 DEF Closes, IInv, TypeOK
<1>4. call'[c] = Idle /\ call' = [call EXCEPT ![c] = Idle] /\ UNCHANGED <<clock, cache, given>>
      /\ loop[c].pc = "deciding" /\ Returns(c, how)
  BY DEF Final, Decided, Deciding, Hangs, Moves, IInv, TypeOK
<1> HIDE DEF how
<1> QED
  BY <1>2, <1>3, <1>4, ReturnInv

LEMMA MalformedInv == ASSUME IInv, NEW c \in Callers, Malformed(c) PROVE IInv'
<1> DEFINE how == Closes("failed", loop[c].history, "InvalidLLMResponse")
<1>1. call[c].pc = "answered" /\ call[c].answer = "malformed"
  BY DEF Malformed, Decided
<1>2. /\ loop[c].history \in Seq(Step) /\ WasDecided(loop[c].history)
      /\ Len(loop[c].history) < MaxSteps /\ <<loop[c].history, "malformed">> \in given
  BY <1>1, DecisionTaken
<1>3. /\ how \in [state : {"failed"}, by : SUBSET Callers, steps : Seq(Step),
                  end : {"InvalidLLMResponse"}]
      /\ how.steps = loop[c].history /\ how.state = "failed" /\ how.end = "InvalidLLMResponse"
  BY <1>2 DEF Closes, IInv, TypeOK
<1>4. call'[c] = Idle /\ call' = [call EXCEPT ![c] = Idle] /\ UNCHANGED <<clock, cache, given>>
      /\ loop[c].pc = "deciding" /\ Returns(c, how)
  BY DEF Malformed, Decided, Deciding, Hangs, Moves, IInv, TypeOK
<1> HIDE DEF how
<1> QED
  BY <1>2, <1>3, <1>4, ReturnInv

LEMMA CompletionFailedInv == ASSUME IInv, NEW c \in Callers, CompletionFailed(c) PROVE IInv'
<1> DEFINE how == AfterFailure
<1>1. call'[c] = Idle /\ call' = [call EXCEPT ![c] = Idle] /\ UNCHANGED <<clock, cache, given>>
      /\ loop[c].pc = "deciding" /\ Returns(c, how)
  BY DEF CompletionFailed, Deciding, Hangs, Moves, IInv, TypeOK
<1>2. Live(c) => /\ how \in [state : {"scheduled", "failed"}, by : {{}},
                             steps : Seq(Step), end : {"none", "retries"}]
                 /\ WasDecided(how.steps)
                 /\ how.state # "scheduled" <=> how.end # "none"
                 /\ how.end = "retries" => \A d \in Callers : loop[d].pc # "none"
  <2> SUFFICES ASSUME Live(c)
               PROVE  /\ how \in [state : {"scheduled", "failed"}, by : {{}},
                                  steps : Seq(Step), end : {"none", "retries"}]
                      /\ WasDecided(how.steps)
                      /\ how.state # "scheduled" <=> how.end # "none"
                      /\ how.end = "retries" => \A d \in Callers : loop[d].pc # "none"
    OBVIOUS
  <2>1. act.state = "running" /\ WasDecided(act.steps)
    BY DEF Live, IInv, DecisionsWereMade
  <2> QED
    BY <2>1, AfterFailureProps
<1> HIDE DEF how
<1> QED
  BY <1>1, <1>2, ReturnInv

LEMMA LoopStepInv == ASSUME IInv, NEW c \in Callers, LoopStep(c) PROVE IInv'
BY StepsUsedUpInv, AskInv, InChainInv, FinalInv, MalformedInv, CompletionFailedInv,
   UnregisteredInv, CallToolInv, ToolReturnsInv
DEF LoopStep

-----------------------------------------------------------------------------
(* The theorems *)

LEMMA NextInv == IInv /\ [Next]_vars => IInv'
<1> SUFFICES ASSUME IInv, [Next]_vars PROVE IInv'
  OBVIOUS
<1>1. CASE Next
  <2>1. CASE \E c \in Callers : BeginAttempt(c)
    BY <2>1, BeginAttemptInv
  <2>2. CASE \E c \in Callers : LoopStep(c)
    BY <2>2, LoopStepInv
  <2>3. CASE TimeOut
    BY <2>3, TimeOutInv
  <2>4. CASE Crash
    BY <2>4, CrashInv
  <2>5. CASE Tick /\ UNCHANGED <<act, loop, outages>>
    BY <2>5, TickInv
  <2> QED
    BY <1>1, <2>1, <2>2, <2>3, <2>4, <2>5 DEF Next
<1>2. CASE UNCHANGED vars
  BY <1>2
  DEF vars, chainVars, IInv, TypeOK, Traced, DecisionsWereMade, WasDecided, OutcomeIsJustified
<1> QED
  BY <1>1, <1>2

\* The inductive invariant holds of every behaviour.
THEOREM Invariance == Spec => []IInv
BY InitInv, NextInv, PTL DEF Spec

\* Histories, prompts, entries and decisions are what the code's types say, and no
\* call makes more attempts than WithRetry allows (middleware.go:75-99).
THEOREM TypeCorrect == Spec => []TypeOK
<1>1. IInv => TypeOK
  BY DEF IInv
<1> QED
  BY <1>1, Invariance, PTL

\* Every step of an attempt and of the output was decided by the model for exactly
\* the steps before it, whatever the cache, retries, time-outs and crashes did
\* (tool_agent.go:106-211, middleware.go:178-205).
THEOREM DecisionsHold == Spec => []DecisionsWereMade
<1>1. IInv => DecisionsWereMade
  BY DEF IInv
<1> QED
  BY <1>1, Invariance, PTL

\* An execution ends as its last attempt, or the want of one, justifies
\* (tool_agent.go:121-205).
THEOREM OutcomeHolds == Spec => []OutcomeIsJustified
<1>1. IInv => OutcomeIsJustified
  BY DEF IInv
<1> QED
  BY <1>1, Invariance, PTL

=============================================================================
