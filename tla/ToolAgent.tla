----------------------------- MODULE ToolAgent -----------------------------
(***************************************************************************)
(* RunToolAgent (src/agent/tool_agent.go): a loop in which the model       *)
(* either names a tool to call, whose result it is shown next, or gives    *)
(* the final answer.  The whole loop is one Temporal activity, and its     *)
(* decisions come through the cached and retried completions of            *)
(* Completion.                                                             *)
(*                                                                         *)
(* The callers of Completion are the attempts at one execution of the      *)
(* activity.  An attempt that is over for the server may go on in its      *)
(* process: its context is cancelled, which neither the cache nor a tool   *)
(* nor the model need notice.  An attempt knows the history of its own     *)
(* steps, and that history is all that changes in its prompt.              *)
(***************************************************************************)
EXTENDS Completion

CONSTANTS
    Tools,      \* the names registered, among those of tools_builtin.go
    MaxSteps,   \* of the input
    MaxOutages  \* bound: how often the worker's process ends

ASSUME ToolAgentAssumption ==
    /\ Tools \subseteq {"calculator", "file_read", "web_search"}
    /\ MaxSteps \in Nat \ {0} /\ MaxOutages \in Nat

VARIABLES
    act,        \* the execution: its state, the attempt the server waits for, its end
    loop,       \* attempt -> where its loop is, and its history
    outages

vars == <<chainVars, act, loop, outages>>

\* What the model may decide.  "malformed" is JSON that cannot be read, an action
\* that does not exist, or a call without the name of a tool.
Decisions == Tools \cup {"unregistered", "final", "malformed"}

\* What a tool may answer, whatever it is asked: an expression has a value or is ill
\* formed; a file and the web change from call to call, and may be out of bounds,
\* missing or out of reach.
Calculator == {"value", "error"}
FileRead == {"content", "error"}
WebSearch == {"hits", "error"}

Outcomes(tool) == CASE tool = "calculator" -> Calculator
                    [] tool = "file_read" -> FileRead
                    [] tool = "web_search" -> WebSearch

Results == Calculator \cup FileRead \cup WebSearch
Step == [tool : Tools \cup {"unregistered"}, result : Results]

NotBegun == [pc |-> "none", history |-> <<>>]
Ended == [pc |-> "ended", history |-> <<>>]

Call == [pc : CallPcs, prompt : Seq(Step), tries : 0..Tries,
         answer : Decisions \cup {"none"}]

TypeOK ==
    /\ clock \in 0..MaxTime
    /\ \A e \in cache : e.key \in Seq(Step) /\ e.answer \in Decisions /\ e.expires \in Nat
    /\ call \in [Callers -> Call]
    /\ act \in [state : {"scheduled", "running", "completed", "failed"},
                by : SUBSET Callers, steps : Seq(Step),
                end : {"none", "converged", "max_steps", "InvalidLLMResponse", "retries"}]
    /\ loop \in [Callers -> [pc : {"none", "deciding", "calling", "ended"},
                             history : Seq(Step)]]
    /\ outages \in 0..MaxOutages

Init ==
    /\ InitChain
    /\ act = [state |-> "scheduled", by |-> {}, steps |-> <<>>, end |-> "none"]
    /\ loop = [c \in Callers |-> NotBegun]
    /\ outages = 0

-----------------------------------------------------------------------------
(* The server *)

\* The attempts begin one after the other; which is which does not matter.
NextAttempt == CHOOSE c \in Callers : loop[c].pc = "none"

BeginAttempt(c) ==
    /\ act.state = "scheduled" /\ loop[c].pc = "none" /\ c = NextAttempt
    /\ act' = [act EXCEPT !.state = "running", !.by = {c}]
    /\ loop' = [loop EXCEPT ![c].pc = "deciding"]
    /\ UNCHANGED <<chainVars, outages>>

\* The attempt the server waits for; only its context is not cancelled.
Live(c) == act.state = "running" /\ c \in act.by

\* An attempt that failed is retried as long as there is one left.
AfterFailure ==
    IF \E c \in Callers : loop[c].pc = "none"
    THEN [act EXCEPT !.state = "scheduled", !.by = {}]
    ELSE [act EXCEPT !.state = "failed", !.by = {}, !.end = "retries"]

\* StartToCloseTimeout.
TimeOut ==
    /\ act.state = "running"
    /\ act' = AfterFailure
    /\ UNCHANGED <<chainVars, loop, outages>>

\* The loop returns.  What an attempt that has timed out returns is dropped.
Returns(c, how) ==
    /\ act' = IF Live(c) THEN how ELSE act
    /\ loop' = [loop EXCEPT ![c] = Ended]
    /\ UNCHANGED outages

Closes(state, steps, end) == [act EXCEPT !.state = state, !.steps = steps, !.end = end]

-----------------------------------------------------------------------------
(* The loop *)

Deciding(c) == loop[c].pc = "deciding" /\ UNCHANGED outages

\* MaxSteps without a final answer: no error, but not converged.
StepsUsedUp(c) ==
    /\ Deciding(c) /\ call[c] = Idle /\ Len(loop[c].history) = MaxSteps
    /\ Returns(c, Closes("completed", loop[c].history, "max_steps"))
    /\ UNCHANGED chainVars

\* The prompt has the history so far.
Ask(c) ==
    /\ Deciding(c) /\ Len(loop[c].history) < MaxSteps
    /\ \/ Hit(c, loop[c].history)
       \/ FindStale(c, loop[c].history)
       \/ Miss(c, loop[c].history)
    /\ UNCHANGED <<act, loop>>

\* The completion on its way.  A cancelled context ends the backoff, unless the delay
\* is over as well; the model's answer may come all the same.
InChain(c) ==
    /\ Deciding(c)
    /\ \/ DeleteStale(c) \/ Store(c) \/ Fail(c)
       \/ \E d \in Decisions : Answer(c, d)
       \/ BackoffEnds(c, FALSE) \/ (~Live(c) /\ BackoffEnds(c, TRUE))
    /\ UNCHANGED <<act, loop>>

Decided(c, decision) ==
    /\ Deciding(c) /\ call[c].pc = "answered" /\ call[c].answer = decision
    /\ Hangs(c)

Final(c) ==
    /\ Decided(c, "final")
    /\ Returns(c, Closes("completed", loop[c].history, "converged"))

\* Not to be retried.
Malformed(c) ==
    /\ Decided(c, "malformed")
    /\ Returns(c, Closes("failed", loop[c].history, "InvalidLLMResponse"))

\* Mutant: an error of the model is final as well.
FailedForGood(c) ==
    /\ Deciding(c) /\ call[c].pc = "failed"
    /\ Hangs(c)
    /\ Returns(c, Closes("failed", loop[c].history, "retries"))

CompletionFailed(c) ==
    /\ Deciding(c) /\ call[c].pc = "failed"
    /\ Hangs(c)
    /\ Returns(c, AfterFailure)

Record(c, step) ==
    loop' = [loop EXCEPT ![c] = [pc |-> "deciding", history |-> Append(@.history, step)]]

\* The model is told which tools there are.
Unregistered(c) ==
    /\ Decided(c, "unregistered")
    /\ Record(c, [tool |-> "unregistered", result |-> "error"])
    /\ UNCHANGED act

\* The decision is kept until the tool has run, which others need not wait for.
CallTool(c) ==
    /\ Deciding(c) /\ call[c].pc = "answered" /\ call[c].answer \in Tools
    /\ loop' = [loop EXCEPT ![c].pc = "calling"]
    /\ UNCHANGED <<chainVars, act>>

\* The tool's error is recorded like its result.
ToolReturns(c) ==
    /\ loop[c].pc = "calling"
    /\ \E r \in Outcomes(call[c].answer) : Record(c, [tool |-> call[c].answer, result |-> r])
    /\ Hangs(c)
    /\ UNCHANGED <<act, outages>>

LoopStep(c) ==
    \/ StepsUsedUp(c) \/ Ask(c) \/ InChain(c) \/ Final(c) \/ Malformed(c)
    \/ CompletionFailed(c) \/ Unregistered(c) \/ CallTool(c) \/ ToolReturns(c)

\* The process ends, with all that runs in it, and is started again.
Crash ==
    /\ outages < MaxOutages /\ outages' = outages + 1
    /\ ChainLost
    /\ loop' = [c \in Callers |-> IF loop[c].pc = "none" THEN NotBegun ELSE Ended]
    /\ UNCHANGED act

-----------------------------------------------------------------------------

Next ==
    \/ \E c \in Callers : BeginAttempt(c) \/ LoopStep(c)
    \/ TimeOut \/ Crash
    \/ Tick /\ UNCHANGED <<act, loop, outages>>

Spec == Init /\ [][Next]_vars

\* A worker takes an attempt and goes on with it, and tools and the model answer or
\* fail; the server's timer is needed for an attempt that went down with its
\* process, and for no other.
Fairness ==
    /\ WF_vars(\E c \in Callers : BeginAttempt(c))
    /\ \A c \in Callers : WF_vars(LoopStep(c))
    /\ WF_vars((\A c \in act.by : loop[c].pc = "ended") /\ TimeOut)

FairSpec == Spec /\ Fairness

-----------------------------------------------------------------------------
(* Properties *)

\* Each step of s was decided by the model, for the prompt with the steps before it.
WasDecided(s) ==
    \A i \in 1..Len(s) : <<SubSeq(s, 1, i - 1), s[i].tool>> \in given

\* However decisions were cached, deleted, stored over each other by attempts that
\* run side by side, or survived a crash: what an attempt did, and what the output
\* shows for an audit, is what the model decided, step by step, knowing exactly the
\* results that this attempt had got by then (tool_agent.go:108-215,
\* middleware.go:178-193).
DecisionsWereMade ==
    /\ WasDecided(act.steps)
    /\ \A c \in Callers : WasDecided(loop[c].history)

\* The execution converged on a final answer given within MaxSteps to the very
\* history it returns, or used its steps up, or failed: for a malformed decision at
\* once, for anything else only when no attempt was left (tool_agent.go:119-214).
OutcomeIsJustified ==
    /\ act.state \in {"completed", "failed"} <=> act.end # "none"
    /\ act.end = "converged" =>
        Len(act.steps) < MaxSteps /\ <<act.steps, "final">> \in given
    /\ act.end = "max_steps" => Len(act.steps) = MaxSteps
    /\ act.end = "InvalidLLMResponse" =>
        Len(act.steps) < MaxSteps /\ <<act.steps, "malformed">> \in given
    /\ act.end = "retries" => \A c \in Callers : loop[c].pc # "none"

\* The execution ends, by the bounds of the loop and of the retries alone unless
\* its process ends first (middleware.go:81-98, tool_agent.go:119).
AgentEnds == <>(act.state \in {"completed", "failed"})

=============================================================================
