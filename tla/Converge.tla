------------------------------ MODULE Converge ------------------------------
(***************************************************************************)
(* ConvergeWorkflow (src/agent/workflow.go) with its activities Research   *)
(* and Critique (src/agent/activities.go), for a set of workflows that run *)
(* side by side.                                                           *)
(*                                                                         *)
(* The loop's variables are a worker's; they are lost when it stops and    *)
(* rebuilt from the history by the worker that takes the workflow over.    *)
(* A text is known by the attempt that wrote it: <<k, n>> is what the n-th *)
(* attempt of a workflow's k-th activity returned, and <<>> is "".         *)
(***************************************************************************)
EXTENDS TemporalActivities

CONSTANTS
    Runs,           \* the workflows that are ConvergeWorkflows
    Questions,      \* what they may be asked
    EmptyText,      \* the text of an empty question
    NotAsked,
    MaxCrashes      \* bound: how often a workflow loses its worker

ASSUME RunsAssumption == Runs \subseteq Workflows

ASSUME KindsAssumption ==
    {"Research", "Critique"} \subseteq Kinds /\ "InvalidLLMResponse" \in ErrorTypes

\* The options of both activities name these error types (workflow.go:40-48).
ASSUME FatalAssumption ==
    /\ NoError \notin {"InvalidLLMResponse", "ConfigurationError"}
    /\ \A kind \in {"Research", "Critique"} :
          {"InvalidLLMResponse", "ConfigurationError"} \cap ErrorTypes \subseteq NonRetryable[kind]

ASSUME QuestionsAssumption ==
    /\ \A q \in Questions : q.maxRounds \in Int
    /\ NotAsked \notin Questions
    /\ MaxCrashes \in Nat

VARIABLES
    asked,          \* run -> its question, or NotAsked
    local,          \* run -> the variables of the code
    outcome,        \* run -> history: how it closed
    crashes

convergeVars == <<asked, local, outcome, crashes, log>>

NoText == <<>>
Text == {NoText} \cup (Nat \X Nat)

FromTheTop ==
    [pc |-> "check", round |-> 1, previous |-> NoText, feedback |-> NoText,
     candidate |-> NoText, rounds |-> <<>>, issued |-> 0]

Open == [state |-> "open", text |-> NoText, rounds |-> 0, converged |-> FALSE]

TypeOK ==
    /\ LogTypeOK
    /\ asked \in [Runs -> Questions \cup {NotAsked}]
    /\ \A w \in Runs :
        /\ local[w].pc \in {"check", "research", "researching", "critique", "critiquing",
                            "stuck", "end"}
        /\ local[w].round \in Nat \ {0} /\ local[w].issued \in 0..Len(log[w])
        /\ {local[w].previous, local[w].feedback, local[w].candidate} \subseteq Text
        /\ \A r \in 1..Len(local[w].rounds) : local[w].rounds[r].research \in Text
        /\ outcome[w].state \in {"open", "completed", "failed", "terminated"}
        /\ outcome[w].text \in Text /\ outcome[w].rounds \in Nat
    /\ crashes \in 0..MaxCrashes

ConvergeInit ==
    /\ asked = [w \in Runs |-> NotAsked]
    /\ local = [w \in Runs |-> FromTheTop]
    /\ outcome = [w \in Runs |-> Open]
    /\ crashes = 0
    /\ NoActivities

\* Clients start some of the workflows (cmd/ask, ConvergeArrow).
Init ==
    /\ asked \in [Runs -> Questions \cup {NotAsked}]
    /\ local = [w \in Runs |-> FromTheTop]
    /\ outcome = [w \in Runs |-> Open]
    /\ crashes = 0
    /\ NoActivities

IsOpen(w) == asked[w] # NotAsked /\ outcome[w].state = "open"

-----------------------------------------------------------------------------
(* The workflow's code *)

Closes(w, how) ==
    /\ outcome' = [outcome EXCEPT ![w] = how]
    /\ local' = [local EXCEPT ![w].pc = "end"]
    /\ UNCHANGED <<asked, crashes, log>>

Fails(w) == Closes(w, [Open EXCEPT !.state = "failed"])

Check(w) ==
    /\ IsOpen(w) /\ local[w].pc = "check"
    /\ asked[w].maxRounds > 0 /\ asked[w].text # EmptyText
    /\ local' = [local EXCEPT ![w].pc = "research"]
    /\ UNCHANGED <<asked, outcome, crashes, log>>

\* InvalidInput.
CheckFails(w) ==
    /\ IsOpen(w) /\ local[w].pc = "check"
    /\ asked[w].maxRounds <= 0 \/ asked[w].text = EmptyText
    /\ Fails(w)

\* ExecuteActivity.  A command other than the one on record is a
\* non-determinism error, and the workflow task fails again and again.
Execute(w, input, waiting) ==
    /\ Issue(w, local[w].issued, input)
    /\ local' = [local EXCEPT
                    ![w].pc = IF Replayable(w, local[w].issued, input) THEN waiting ELSE "stuck",
                    ![w].issued = @ + 1]
    /\ UNCHANGED <<asked, outcome, crashes>>

\* Mutant: the worker's own memory decides the prompt.
ResearchAfresh(w) ==
    /\ IsOpen(w) /\ local[w].pc = "research" /\ local[w].round <= asked[w].maxRounds
    /\ Execute(w, [kind |-> "Research", previous |-> local[w].previous,
                   feedback |-> IF crashes = 0 THEN local[w].feedback ELSE NoText],
               "researching")

Research(w) ==
    /\ IsOpen(w) /\ local[w].pc = "research" /\ local[w].round <= asked[w].maxRounds
    /\ Execute(w, [kind |-> "Research", previous |-> local[w].previous,
                   feedback |-> local[w].feedback],
               "researching")

Researched(w) ==
    /\ IsOpen(w) /\ local[w].pc = "researching"
    /\ Ended(w, local[w].issued, "completed")
    /\ local' = [local EXCEPT ![w].pc = "critique",
                              ![w].candidate = log[w][local[w].issued].result]
    /\ UNCHANGED <<asked, outcome, crashes, log>>

Critique(w) ==
    /\ IsOpen(w) /\ local[w].pc = "critique"
    /\ Execute(w, [kind |-> "Critique", answer |-> local[w].candidate,
                   round |-> local[w].round],
               "critiquing")

ActivityFailed(w) ==
    /\ IsOpen(w) /\ local[w].pc \in {"researching", "critiquing"}
    /\ Ended(w, local[w].issued, "failed")
    /\ Fails(w)

VerdictOf(w) == log[w][local[w].issued].result
Judged(w) ==
    IsOpen(w) /\ local[w].pc = "critiquing" /\ Ended(w, local[w].issued, "completed")

Approved(w) ==
    /\ Judged(w) /\ VerdictOf(w).approved
    /\ Closes(w, [state |-> "completed", text |-> local[w].candidate,
                  rounds |-> local[w].round, converged |-> TRUE])

\* Mutant: the answer of the round before goes on, not this round's.
CarryForwardLate(w) ==
    /\ Judged(w) /\ ~VerdictOf(w).approved
    /\ local' = [local EXCEPT
                    ![w].pc = "research",
                    ![w].rounds = Append(@, [research |-> local[w].candidate]),
                    ![w].feedback = VerdictOf(w).feedback,
                    ![w].round = @ + 1]
    /\ UNCHANGED <<asked, outcome, crashes, log>>

\* The next round revises this answer by this feedback.
CarryForward(w) ==
    /\ Judged(w) /\ ~VerdictOf(w).approved
    /\ local' = [local EXCEPT
                    ![w].pc = "research",
                    ![w].rounds = Append(@, [research |-> local[w].candidate]),
                    ![w].previous = local[w].candidate,
                    ![w].feedback = VerdictOf(w).feedback,
                    ![w].round = @ + 1]
    /\ UNCHANGED <<asked, outcome, crashes, log>>

\* Mutant: the first candidate is returned.
GiveUpOnFirst(w) ==
    /\ IsOpen(w) /\ local[w].pc = "research" /\ local[w].round > asked[w].maxRounds
    /\ Closes(w, [state |-> "completed", text |-> local[w].rounds[1].research,
                  rounds |-> asked[w].maxRounds, converged |-> FALSE])

\* MaxRounds without approval: the last candidate is the answer.
GiveUp(w) ==
    /\ IsOpen(w) /\ local[w].pc = "research" /\ local[w].round > asked[w].maxRounds
    /\ Closes(w, [state |-> "completed",
                  text |-> local[w].rounds[Len(local[w].rounds)].research,
                  rounds |-> asked[w].maxRounds, converged |-> FALSE])

CodeStep(w) ==
    \/ Check(w) \/ CheckFails(w) \/ Research(w) \/ Researched(w) \/ Critique(w)
    \/ ActivityFailed(w) \/ Approved(w) \/ CarryForward(w) \/ GiveUp(w)

\* The worker stops, or drops the workflow from its cache.
WorkerLost(w) ==
    /\ IsOpen(w) /\ local[w] # FromTheTop
    /\ crashes < MaxCrashes
    /\ crashes' = crashes + 1
    /\ local' = [local EXCEPT ![w] = FromTheTop]
    /\ UNCHANGED <<asked, outcome, log>>

-----------------------------------------------------------------------------
(* Its activities *)

\* What this attempt writes.
Written(w) == <<Len(log[w]), Latest(w).attempts>>

Researches(w) ==
    /\ IsOpen(w) /\ Pending(w, "running") /\ Latest(w).input.kind = "Research"
    /\ AttemptSucceeds(w, Written(w))
    /\ UNCHANGED <<asked, local, outcome, crashes>>

\* parseVerdict: a reply that is not JSON is an error of its own type.
Critiques(w, reply) ==
    /\ IsOpen(w) /\ Pending(w, "running") /\ Latest(w).input.kind = "Critique"
    /\ IF reply = "malformed"
       THEN AttemptFails(w, "InvalidLLMResponse")
       ELSE AttemptSucceeds(w, [approved |-> reply = "approve", feedback |-> Written(w)])
    /\ UNCHANGED <<asked, local, outcome, crashes>>

StartActivity(w) ==
    IsOpen(w) /\ StartAttempt(w) /\ UNCHANGED <<asked, local, outcome, crashes>>

\* The model or the network fails, the worker is lost, no client is configured.
ActivityErrs(w, type) ==
    /\ IsOpen(w) /\ type # "InvalidLLMResponse" /\ AttemptFails(w, type)
    /\ UNCHANGED <<asked, local, outcome, crashes>>

ActivityEnds(w) ==
    \/ Researches(w)
    \/ \E reply \in {"approve", "reject", "malformed"} : Critiques(w, reply)
    \/ \E type \in ErrorTypes : ActivityErrs(w, type)

ConvergeStep(w) == CodeStep(w) \/ WorkerLost(w) \/ StartActivity(w) \/ ActivityEnds(w)

Next == \E w \in Runs : ConvergeStep(w)

Spec == Init /\ [][Next]_convergeVars

\* A worker polls the task queue for workflows and for activities, and the
\* server times out an attempt that does not end (StartToCloseTimeout).
ConvergeFairness ==
    \A w \in Runs : /\ WF_convergeVars(CodeStep(w))
                    /\ WF_convergeVars(StartActivity(w))
                    /\ WF_convergeVars(ActivityEnds(w))

FairSpec == Spec /\ ConvergeFairness

-----------------------------------------------------------------------------
(* Properties *)

\* In a workflow's history research and critique alternate: activity 2r - 1 is
\* the research of round r and activity 2r its critique.
ResearchOf(w, r) == log[w][2 * r - 1]
CritiqueOf(w, r) == log[w][2 * r]

\* Whatever crashed in between, a round researches with the answer and the
\* feedback of the round before, on a rejection, and its critic judges the very
\* answer of the round (workflow.go:53-74, 99-101).
RoundsRevise ==
    \A w \in Runs : \A k \in 1..Len(log[w]) :
        LET r == (k + 1) \div 2
            input == log[w][k].input
        IN IF k % 2 = 0
           THEN input = [kind |-> "Critique", round |-> r, answer |-> ResearchOf(w, r).result]
           ELSE IF k = 1
           THEN input = [kind |-> "Research", previous |-> NoText, feedback |-> NoText]
           ELSE /\ ~CritiqueOf(w, r - 1).result.approved
                /\ input = [kind |-> "Research",
                            previous |-> ResearchOf(w, r - 1).result,
                            feedback |-> CritiqueOf(w, r - 1).result.feedback]

\* A completed workflow answers with the research of the last round it ran; it
\* says it converged exactly if the critic approved that one, and otherwise it
\* has used all of its rounds (workflow.go:83-106).
AnswerIsTheLastJudged ==
    /\ TypeOK
    /\ \A w \in Runs : outcome[w].state = "completed" =>
           LET n == outcome[w].rounds IN
               /\ Len(log[w]) = 2 * n
               /\ outcome[w].text = ResearchOf(w, n).result
               /\ outcome[w].converged = CritiqueOf(w, n).result.approved
               /\ n <= asked[w].maxRounds
               /\ ~outcome[w].converged => n = asked[w].maxRounds

\* After an error that retrying cannot mend, above all a malformed verdict, the
\* workflow pays for no further call of the model (activities.go:121-126).
NoCallAfterFatalError ==
    [][\A w \in Runs : \A k \in 1..Len(log[w]) :
           log[w][k].error \in {"InvalidLLMResponse", "ConfigurationError"} =>
               log'[w] = log[w]]_convergeVars

\* Every workflow that was started closes.
Converges == \A w \in Runs : asked[w] # NotAsked ~> outcome[w].state # "open"

=============================================================================
