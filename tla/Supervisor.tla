----------------------------- MODULE Supervisor -----------------------------
(***************************************************************************)
(* SupervisorWorkflow (src/agent/supervisor.go, src/agent/decompose.go)    *)
(* composed with the ConvergeWorkflows it starts as children: it splits a  *)
(* question, gives one child each part, waits for them in order, whatever  *)
(* becomes of them, and makes one text of their answers.                   *)
(*                                                                         *)
(* A question is known by the number of its parts; part i is the text i.   *)
(* Child w is the workflow "<parent>-sub-<w - 1>".                         *)
(***************************************************************************)
EXTENDS Converge, FiniteSets

CONSTANTS
    Top,            \* the supervisor
    Requests,       \* what it may be asked
    DefaultCap      \* 5 in the code

ASSUME TopAssumption == Top \in Workflows \ Runs

ASSUME RequestsAssumption ==
    /\ DefaultCap \in Nat \ {0}
    /\ \A r \in Requests :
          /\ r.parts \in Nat /\ r.cap \in Int /\ r.rounds \in Int
          /\ 1..r.parts \subseteq Runs
          /\ r.rounds > 0 => [text : 1..r.parts, maxRounds : {r.rounds}] \subseteq Questions

ASSUME SupervisorKindsAssumption == {"Decompose", "Synthesize"} \subseteq Kinds

VARIABLES
    request,        \* [empty, parts, cap, rounds]: the SupervisorInput
    sup,            \* the variables of the supervisor's code
    close           \* history: how the supervisor closed

supervisorVars == <<request, sup, close>>
vars == <<convergeVars, supervisorVars>>

SupFromTheTop == [pc |-> "check", subs |-> <<>>, answers |-> <<>>, issued |-> 0]

Running == [state |-> "open", answers |-> <<>>, synthesis |-> NoText]

Started == {w \in Runs : asked[w] # NotAsked}

SupTypeOK ==
    /\ TypeOK
    /\ request \in Requests
    /\ sup.pc \in {"check", "decompose", "decomposing", "spawn", "collect", "synthesize",
                   "synthesizing", "panic", "stuck", "end"}
    /\ 1..Len(sup.subs) \subseteq Runs
    /\ Len(sup.answers) <= Len(sup.subs)
    /\ sup.issued \in 0..Len(log[Top])
    /\ close.state \in {"open", "completed", "failed"}
    /\ Len(close.answers) \in 0..Cardinality(Started)
    /\ close.synthesis \in Text

SupInit ==
    /\ ConvergeInit
    /\ request \in Requests
    /\ sup = SupFromTheTop
    /\ close = Running

-----------------------------------------------------------------------------
(* Decomposition *)

\* MaxSubQuestions: 0 stands for the default, and less than 0 for no cap.
Cap == IF request.cap = 0 THEN DefaultCap ELSE request.cap

\* Mutant: as many as there are.
DecomposedUncapped == [i \in 1..request.parts |-> i]

\* applyMaxSubQuestions of the split.
Decomposed ==
    [i \in 1..(IF Cap <= 0 \/ request.parts <= Cap THEN request.parts ELSE Cap) |-> i]

-----------------------------------------------------------------------------
(* The workflow's code *)

\* ParentClosePolicy is TERMINATE: a child still open goes with its parent.
SupCloses(how) ==
    /\ close' = how
    /\ sup' = [sup EXCEPT !.pc = "end"]
    /\ outcome' = [w \in Runs |-> IF IsOpen(w) THEN [Open EXCEPT !.state = "terminated"]
                                               ELSE outcome[w]]
    /\ UNCHANGED <<request, asked, local, crashes, log>>

\* The caller gets the error alone; what was collected by then is kept as history.
SupFails == SupCloses([Running EXCEPT !.state = "failed", !.answers = sup.answers])

SupGoesTo(pc) ==
    /\ sup' = [sup EXCEPT !.pc = pc]
    /\ UNCHANGED <<request, close, convergeVars>>

InputValid == ~request.empty /\ request.rounds > 0

SupCheck == sup.pc = "check" /\ InputValid /\ SupGoesTo("decompose")

SupCheckFails == sup.pc = "check" /\ ~InputValid /\ SupFails

SupExecute(input, waiting) ==
    /\ Issue(Top, sup.issued, input)
    /\ sup' = [sup EXCEPT !.pc = IF Replayable(Top, sup.issued, input) THEN waiting ELSE "stuck",
                          !.issued = @ + 1]
    /\ UNCHANGED <<request, close, asked, local, outcome, crashes>>

Decompose ==
    sup.pc = "decompose" /\ SupExecute([kind |-> "Decompose", cap |-> Cap], "decomposing")

Decomposes ==
    /\ sup.pc = "decomposing" /\ Ended(Top, sup.issued, "completed")
    /\ sup' = [sup EXCEPT !.pc = "spawn", !.subs = log[Top][sup.issued].result]
    /\ UNCHANGED <<request, close, convergeVars>>

SubQuestionOf(w) == [text |-> sup.subs[w], maxRounds |-> request.rounds]

\* Mutant: a supervisor that comes back asks other questions.
SpawnAnew ==
    /\ sup.pc = "spawn"
    /\ IF 1..Len(sup.subs) \cap Started = {}
       THEN /\ asked' = [w \in Runs |-> IF w \in 1..Len(sup.subs) THEN SubQuestionOf(w)
                                                                  ELSE asked[w]]
            /\ sup' = [sup EXCEPT !.pc = "collect"]
       ELSE /\ sup' = [sup EXCEPT !.pc = "stuck"]
            /\ UNCHANGED asked
    /\ UNCHANGED <<request, close, local, outcome, crashes, log>>

\* All children are started in one workflow task, or, on a replay, found to be
\* the ones on record.
Spawn ==
    /\ sup.pc = "spawn"
    /\ IF 1..Len(sup.subs) \cap Started = {}
       THEN /\ asked' = [w \in Runs |-> IF w \in 1..Len(sup.subs) THEN SubQuestionOf(w)
                                                                  ELSE asked[w]]
            /\ sup' = [sup EXCEPT !.pc = "collect"]
       ELSE /\ sup' = [sup EXCEPT !.pc =
                          IF \A w \in 1..Len(sup.subs) : asked[w] = SubQuestionOf(w)
                          THEN "collect" ELSE "stuck"]
            /\ UNCHANGED asked
    /\ UNCHANGED <<request, close, local, outcome, crashes, log>>

Next1 == Len(sup.answers) + 1

\* What the supervisor notes of a child that has closed.
SubAnswerOf(w) ==
    IF outcome[w].state = "completed"
    THEN [part |-> w, error |-> FALSE, text |-> outcome[w].text,
          converged |-> outcome[w].converged, rounds |-> outcome[w].rounds]
    ELSE [part |-> w, error |-> TRUE, text |-> NoText, converged |-> FALSE, rounds |-> 0]

\* Mutant: it does not wait for a child that is late.
CollectImpatiently ==
    /\ sup.pc = "collect" /\ Next1 <= Len(sup.subs)
    /\ sup' = [sup EXCEPT !.answers = Append(@, SubAnswerOf(Next1))]
    /\ UNCHANGED <<request, close, convergeVars>>

\* f.Get blocks until the child closes; its failure is noted, not returned.
Collect ==
    /\ sup.pc = "collect" /\ Next1 <= Len(sup.subs)
    /\ outcome[Next1].state # "open"
    /\ sup' = [sup EXCEPT !.answers = Append(@, SubAnswerOf(Next1))]
    /\ UNCHANGED <<request, close, convergeVars>>

AllCollected == sup.pc = "collect" /\ Next1 > Len(sup.subs)
Succeeded == {i \in 1..Len(sup.answers) : ~sup.answers[i].error}

\* Mutant: one failed child is enough.
AnyChildFailed == AllCollected /\ Cardinality(Succeeded) < Len(sup.answers) /\ SupFails

AllChildrenFailed == AllCollected /\ Succeeded = {} /\ sup.answers # <<>> /\ SupFails

\* subAnswers[0] of no answers: the workflow task panics, and the server has it
\* tried again, on and on.
NoFirstError == AllCollected /\ sup.answers = <<>> /\ SupGoesTo("panic")

SomeSucceeded == AllCollected /\ Succeeded # {} /\ SupGoesTo("synthesize")

\* Mutant: only the answers that are answers.
SynthesizeSuccesses ==
    /\ sup.pc = "synthesize"
    /\ SupExecute([kind |-> "Synthesize",
                   answers |-> SelectSeq(sup.answers, LAMBDA a : ~a.error)], "synthesizing")

Synthesize ==
    /\ sup.pc = "synthesize"
    /\ SupExecute([kind |-> "Synthesize", answers |-> sup.answers], "synthesizing")

SupActivityFailed ==
    /\ sup.pc \in {"decomposing", "synthesizing"} /\ Ended(Top, sup.issued, "failed")
    /\ SupFails

Synthesized ==
    /\ sup.pc = "synthesizing" /\ Ended(Top, sup.issued, "completed")
    /\ SupCloses([state |-> "completed", answers |-> sup.answers,
                  synthesis |-> log[Top][sup.issued].result])

SupCodeStep ==
    \/ SupCheck \/ SupCheckFails \/ Decompose \/ Decomposes \/ Spawn \/ Collect
    \/ AllChildrenFailed \/ NoFirstError \/ SomeSucceeded \/ Synthesize
    \/ SupActivityFailed \/ Synthesized

SupWorkerLost ==
    /\ close.state = "open" /\ sup # SupFromTheTop
    /\ crashes < MaxCrashes
    /\ crashes' = crashes + 1
    /\ sup' = SupFromTheTop
    /\ UNCHANGED <<request, close, asked, local, outcome, log>>

-----------------------------------------------------------------------------
(* Its activities *)

SupStartActivity ==
    StartAttempt(Top) /\ UNCHANGED <<supervisorVars, asked, local, outcome, crashes>>

SupActivitySucceeds ==
    /\ Pending(Top, "running")
    /\ AttemptSucceeds(Top, IF Latest(Top).input.kind = "Decompose" THEN Decomposed
                                                                    ELSE Written(Top))
    /\ UNCHANGED <<supervisorVars, asked, local, outcome, crashes>>

SupActivityErrs(type) ==
    AttemptFails(Top, type) /\ UNCHANGED <<supervisorVars, asked, local, outcome, crashes>>

SupActivityEnds ==
    SupActivitySucceeds \/ \E type \in ErrorTypes : SupActivityErrs(type)

-----------------------------------------------------------------------------

ChildStep(w) == ConvergeStep(w) /\ UNCHANGED supervisorVars

SupNext ==
    \/ SupCodeStep
    \/ SupWorkerLost
    \/ SupStartActivity
    \/ SupActivityEnds
    \/ \E w \in Runs : ChildStep(w)

SupSpec == SupInit /\ [][SupNext]_vars

\* As for the children, for the supervisor's own steps and activities.
SupFairness ==
    /\ WF_vars(SupCodeStep) /\ WF_vars(SupStartActivity) /\ WF_vars(SupActivityEnds)
    /\ \A w \in Runs :
        /\ WF_vars(CodeStep(w) /\ UNCHANGED supervisorVars)
        /\ WF_vars(StartActivity(w) /\ UNCHANGED supervisorVars)
        /\ WF_vars(ActivityEnds(w) /\ UNCHANGED supervisorVars)

SupFairSpec == SupSpec /\ SupFairness

-----------------------------------------------------------------------------
(* Properties *)

\* What is synthesized, and what is returned, is what became of each child, in
\* the order of the parts: nobody's answer is lost, stands under another's
\* question or is one a later attempt replaced (supervisor.go:134-155, 179, 188).
AnswersAreTheChildrens ==
    LET TrueAnswers == [i \in 1..Cardinality(Started) |-> SubAnswerOf(i)]
    IN /\ \A k \in 1..Len(log[Top]) : log[Top][k].input.kind = "Synthesize" =>
              log[Top][k].input.answers = TrueAnswers
       /\ close.state = "completed" => close.answers = TrueAnswers

\* The supervisor closes after all of its children, so that closing terminates
\* none (supervisor.go:122-124, 136-138).
ClosesLast ==
    close.state # "open" => \A w \in Started : outcome[w].state \in {"completed", "failed"}

ActivityFailedFor(kind) ==
    \E k \in 1..Len(log[Top]) : log[Top][k].input.kind = kind /\ log[Top][k].state = "failed"

\* It fails only on bad input, or if decomposition failed, or every child did, or
\* synthesis did; one child that answers is enough (supervisor.go:67-70).
FailsOnlyAsDocumented ==
    close.state = "failed" =>
        \/ ~InputValid
        \/ ActivityFailedFor("Decompose")
        \/ Started # {} /\ \A w \in Started : outcome[w].state = "failed"
        \/ ActivityFailedFor("Synthesize")

\* The calls of the model by the children so far: every attempt at every activity.
Calls ==
    UNION {UNION {{<<w, k>>} \X (1..log[w][k].attempts) : k \in 1..Len(log[w])} : w \in Runs}

\* Whatever crashes, a request costs at most its cap of children, each at most
\* its rounds of one research and one critique, each of these at most the
\* attempts of its policy, and nothing if it is refused (supervisor.go:88-91,
\* 116-131, decompose.go:173-178).
CostIsCapped ==
    LET children == IF Cap > 0 THEN Cap ELSE request.parts
    IN /\ SupTypeOK
       /\ ~InputValid => Calls = {}
       /\ InputValid =>
             Cardinality(Calls) <= children * request.rounds *
                                       (MaxAttempts["Research"] + MaxAttempts["Critique"])

\* A request is answered or refused, and nothing else (supervisor.go:67-70).
SupervisorEnds == <>(close.state # "open")

\* With the exception of blank questions, every request ends, whatever fails: the
\* supervisor never waits for a child that is not going to close, nor for one it
\* did not find again after losing its worker.
NonBlankEnds == request.empty \/ request.parts > 0 => <>(close.state # "open")

=============================================================================
