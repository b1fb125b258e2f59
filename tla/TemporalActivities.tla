------------------------- MODULE TemporalActivities -------------------------
(***************************************************************************)
(* What the Temporal server keeps of the activities of workflows that run  *)
(* one activity at a time (src/agent/workflow.go, src/agent/supervisor.go):*)
(* the history of each workflow, the attempts of its latest activity and   *)
(* the retry policy that decides, after each failed attempt, whether there *)
(* is to be another.                                                       *)
(*                                                                         *)
(* A workflow that is run again after its worker stopped issues its        *)
(* commands from the first: those the history holds are matched with it.   *)
(***************************************************************************)
EXTENDS Integers, Sequences

CONSTANTS
    Workflows,
    Kinds,          \* activities, by name
    MaxAttempts,    \* kind -> RetryPolicy.MaximumAttempts
    NonRetryable,   \* kind -> RetryPolicy.NonRetryableErrorTypes
    ErrorTypes,     \* how an attempt may fail; a timeout is one of them
    NoResult,
    NoError

ASSUME PolicyAssumption ==
    /\ MaxAttempts \in [Kinds -> Nat \ {0}]
    /\ NonRetryable \in [Kinds -> SUBSET ErrorTypes]
    /\ NoError \notin ErrorTypes

VARIABLE log        \* workflow -> its activities, in the order of their scheduling

Scheduled(input) ==
    [input |-> input, state |-> "scheduled", attempts |-> 0, result |-> NoResult,
     error |-> NoError]

LogTypeOK ==
    \A w \in Workflows : \A k \in 1..Len(log[w]) : LET a == log[w][k] IN
        /\ a.input.kind \in Kinds
        /\ a.state \in {"scheduled", "running", "completed", "failed"}
        /\ a.attempts \in 0..MaxAttempts[a.input.kind]
        /\ a.error \in ErrorTypes \cup {NoError}

NoActivities == log = [w \in Workflows |-> <<>>]

-----------------------------------------------------------------------------

\* The n + 1st command is new, or the one the history has in that place.
Replayable(w, n, input) == n = Len(log[w]) \/ log[w][n + 1].input = input

Issue(w, n, input) ==
    log' = IF n = Len(log[w]) THEN [log EXCEPT ![w] = Append(@, Scheduled(input))] ELSE log

Ended(w, n, state) == n <= Len(log[w]) /\ log[w][n].state = state

Latest(w) == log[w][Len(log[w])]

Pending(w, state) == log[w] # <<>> /\ Latest(w).state = state

Becomes(w, a) == log' = [log EXCEPT ![w][Len(log[w])] = a]

-----------------------------------------------------------------------------

\* A worker takes the task.
StartAttempt(w) ==
    /\ Pending(w, "scheduled")
    /\ Becomes(w, [Latest(w) EXCEPT !.state = "running", !.attempts = @ + 1])

AttemptSucceeds(w, result) ==
    /\ Pending(w, "running")
    /\ Becomes(w, [Latest(w) EXCEPT !.state = "completed", !.result = result])

\* Mutant: every error is worth another attempt.
RetriedWhateverTheError(a, type) == a.attempts < MaxAttempts[a.input.kind]

Retried(a, type) ==
    type \notin NonRetryable[a.input.kind] /\ a.attempts < MaxAttempts[a.input.kind]

\* An error that may be retried schedules another attempt while there is one left.
AttemptFails(w, type) ==
    /\ Pending(w, "running")
    /\ Becomes(w, [Latest(w) EXCEPT
                      !.state = IF Retried(Latest(w), type) THEN "scheduled" ELSE "failed",
                      !.error = type])

=============================================================================
