---------------------------- MODULE PlanWorkflow ----------------------------
(***************************************************************************)
(* A plan and the Temporal workflow that runs it (src/plan/plan.go and     *)
(* src/plan/workflow.go): Submit, Validate, the layering loop, the         *)
(* dispatch of a layer and the wait for its nodes, in order.               *)
(*                                                                         *)
(* The workflow's variables live in a worker's memory.  What survives a    *)
(* worker is the run's history on the Temporal server: which activities    *)
(* the workflow scheduled, in which order and with which input, and what   *)
(* became of them.  After a crash another worker runs the workflow again   *)
(* from the top against that history: a command the history already holds  *)
(* is matched with it, not issued again, and one that differs is a         *)
(* non-determinism error that stops the run.  Retries and attempts are the *)
(* server's, under the options the workflow passes.                        *)
(***************************************************************************)
EXTENDS Integers, Sequences, FiniteSetsExt, Functions

CONSTANTS
    NodeIDs,            \* the node IDs a plan may use; EmptyID is ""
    EmptyID,
    Plans,              \* the plans that are run
    ErrorTypes,         \* application error types of activities
    DefaultMaxAttempts, \* 3 in the code
    DefaultNonRetryable,\* InvalidInput, InvalidPlan, ConfigurationError
    SortIDs(_),         \* sort.Slice: a set of IDs in increasing order
    NoOutput,
    MaxCrashes          \* bound: crashes of the workflow's worker

ASSUME SortAssumption ==
    \A S \in SUBSET NodeIDs : IsFiniteSet(S) =>
        SortIDs(S) \in [1..Cardinality(S) -> S] /\ Range(SortIDs(S)) = S

ASSUME BoundsAssumption ==
    DefaultMaxAttempts \in Nat \ {0} /\ MaxCrashes \in Nat /\ NoOutput \notin Nat

Options == [taskQueue : STRING, timeout : Int, heartbeat : Int, maxAttempts : Int,
            nonRetryable : SUBSET STRING]

\* A plan as decoded, well-formed or not.
ASSUME PlansAssumption ==
    \A p \in Plans :
        /\ p.nodes \in Seq([id : NodeIDs, named : BOOLEAN, requires : Seq(NodeIDs),
                            options : Options])
        /\ p.defaults \in Options

VARIABLES
    plan,       \* the plan, fixed
    caller,     \* who validates: "submit", or the "workflow"
    pc,         \* "check", "layer", "dispatch", "await", "stuck" or "end"
    indegree,   \* the locals of Layers
    done,
    layers,
    remaining,
    layer,      \* the layer being run, an index of layers
    future,     \* the future waited for, an index of that layer
    outputs,    \* the workflow's outputs map
    issued,     \* how many commands this execution of the code has issued
    commands,   \* history: the activities scheduled, in order
    status,     \* history: what became of each activity
    attempts,   \* history: attempts started, per activity
    result,     \* history: the recorded result, the attempt that produced it
    verdict,    \* history: "open", "completed", "failed" or "rejected"
    crashes

memory == <<caller, pc, indegree, done, layers, remaining, layer, future, outputs, issued>>
history == <<commands, status, attempts, result, verdict>>
vars == <<plan, memory, history, crashes>>

Outcome == Nat \cup {NoOutput}

\* A node is tried as often as it says, else as the plan says, else as by default.
FirstSet(a, b, c) == IF a # 0 THEN a ELSE IF b # 0 THEN b ELSE c
Tries(n) == FirstSet(n.options.maxAttempts, plan.defaults.maxAttempts, DefaultMaxAttempts)

TypeOK ==
    /\ plan \in Plans
    /\ caller \in {"submit", "workflow"}
    /\ pc \in {"check", "layer", "dispatch", "await", "stuck", "end"}
    /\ \A id \in DOMAIN indegree : id \in NodeIDs /\ indegree[id] \in Nat
    /\ done \in SUBSET NodeIDs
    /\ layers \in Seq(Seq(NodeIDs))
    /\ remaining \in Nat
    /\ layer \in Nat /\ future \in Nat
    /\ outputs \in [NodeIDs -> Outcome]
    /\ issued \in Nat
    /\ \A i \in 1..Len(commands) :
        /\ commands[i].id \in NodeIDs
        /\ \A r \in DOMAIN commands[i].upstream :
               r \in NodeIDs /\ commands[i].upstream[r] \in Outcome
    /\ status \in [NodeIDs -> {"none", "scheduled", "running", "completed", "failed"}]
    /\ attempts \in [NodeIDs -> Nat]
    /\ \A i \in 1..Len(commands) : \A n \in Range(plan.nodes) :
           n.id = commands[i].id => attempts[n.id] <= Tries(n)
    /\ result \in [NodeIDs -> Outcome]
    /\ verdict \in {"open", "completed", "failed", "rejected"}
    /\ crashes \in 0..MaxCrashes

-----------------------------------------------------------------------------
(* Options *)

\* Options with nothing set.
Unset == [taskQueue |-> "", timeout |-> 0, heartbeat |-> 0, maxAttempts |-> 0,
          nonRetryable |-> {}]

DefaultOptions == [Unset EXCEPT !.timeout = 180, !.maxAttempts = DefaultMaxAttempts,
                                !.nonRetryable = DefaultNonRetryable]

\* Every field that over sets replaces o's, except that error types are added.
Over(o, over) ==
    [field \in DOMAIN o |->
        IF field = "nonRetryable" THEN o.nonRetryable \cup over.nonRetryable
        ELSE IF over[field] # Unset[field] THEN over[field] ELSE o[field]]

Checked(o) == o.timeout >= 0 /\ o.heartbeat >= 0 /\ o.maxAttempts >= 0

OptionsFor(n) == Over(Over(DefaultOptions, plan.defaults), n.options)

-----------------------------------------------------------------------------
(* Validation and layers *)

Nodes == Range(plan.nodes)
Node(id) == CHOOSE n \in Nodes : n.id = id
Required(n) == Range(n.requires)

\* Validate, except for the cycle check, which is the layering loop.
NodesChecked ==
    /\ plan.nodes # <<>>
    /\ Checked(plan.defaults)
    /\ \A i \in DOMAIN plan.nodes : LET n == plan.nodes[i] IN
        /\ n.id # EmptyID
        /\ \A j \in 1..(i - 1) : plan.nodes[j].id # n.id
        /\ n.named
        /\ Checked(n.options)
        /\ \A r \in Required(n) : r # n.id /\ \E m \in Nodes : m.id = r

\* Mutant: the nodes that depend on nothing.
Sources == SortIDs({n.id : n \in {m \in Nodes : m.requires = <<>>}})

\* The IDs no node depends on, in order.
Leaves == SortIDs({n.id : n \in Nodes} \ UNION {Required(n) : n \in Nodes})

Init ==
    /\ plan \in Plans
    /\ caller \in {"submit", "workflow"}
    /\ pc = "check"
    /\ indegree = <<>>
    /\ done = {}
    /\ layers = <<>>
    /\ remaining = 0
    /\ layer = 1
    /\ future = 1
    /\ outputs = [id \in NodeIDs |-> NoOutput]
    /\ issued = 0
    /\ commands = <<>>
    /\ status = [id \in NodeIDs |-> "none"]
    /\ attempts = [id \in NodeIDs |-> 0]
    /\ result = [id \in NodeIDs |-> NoOutput]
    /\ verdict = "open"
    /\ crashes = 0

\* Submit returns the error and starts nothing; the workflow fails with the
\* non-retryable error InvalidPlan.
Reject ==
    /\ verdict' = "rejected"
    /\ pc' = "end"
    /\ UNCHANGED <<plan, caller, indegree, done, layers, remaining, layer, future, outputs,
                   issued, commands, status, attempts, result, crashes>>

\* Validate checks the nodes, then Layers counts what each requires.
Check ==
    /\ pc = "check" /\ NodesChecked
    /\ indegree' = [id \in {n.id : n \in Nodes} |-> Len(Node(id).requires)]
    /\ done' = {}
    /\ layers' = <<>>
    /\ remaining' = Len(plan.nodes)
    /\ pc' = "layer"
    /\ UNCHANGED <<plan, caller, layer, future, outputs, issued, history, crashes>>

CheckFails == pc = "check" /\ ~NodesChecked /\ Reject

\* Mutant: off by one.
RunnableEarly == {id \in DOMAIN indegree : indegree[id] <= 1 /\ id \notin done}

Runnable == {id \in DOMAIN indegree : indegree[id] = 0 /\ id \notin done}

\* Mutant: an entry is taken off once per node, not once per entry.
AnyEntryIn(id, S) == IF Required(Node(id)) \cap S = {} THEN 0 ELSE 1

\* How many of the entries of its requires a node finds in S.
EntriesIn(id, S) == Cardinality({j \in DOMAIN Node(id).requires : Node(id).requires[j] \in S})

\* Mutant: the layer keeps the order of the map iteration.
NextLayerUnsorted ==
    /\ pc = "layer" /\ remaining > 0 /\ Runnable # {}
    /\ \E order \in [1..Cardinality(Runnable) -> Runnable] :
        /\ Range(order) = Runnable
        /\ layers' = Append(layers, order)
    /\ done' = done \cup Runnable
    /\ indegree' = [id \in DOMAIN indegree |-> indegree[id] - EntriesIn(id, Runnable)]
    /\ remaining' = remaining - Cardinality(Runnable)
    /\ UNCHANGED <<plan, caller, pc, layer, future, outputs, issued, history, crashes>>

\* One round of the layering loop.
NextLayer ==
    /\ pc = "layer" /\ remaining > 0 /\ Runnable # {}
    /\ layers' = Append(layers, SortIDs(Runnable))
    /\ done' = done \cup Runnable
    /\ indegree' = [id \in DOMAIN indegree |-> indegree[id] - EntriesIn(id, Runnable)]
    /\ remaining' = remaining - Cardinality(Runnable)
    /\ UNCHANGED <<plan, caller, pc, layer, future, outputs, issued, history, crashes>>

\* Mutant: the loop goes on without a runnable node.
CycleUndetected == pc = "layer" /\ remaining > 0 /\ Runnable = {} /\ UNCHANGED vars

CycleDetected == pc = "layer" /\ remaining > 0 /\ Runnable = {} /\ Reject

\* Layers returns.  Submit has validated and starts the workflow, which
\* validates again; the workflow's second call of Layers gives the same layers.
LayersReturn ==
    /\ pc = "layer" /\ remaining = 0
    /\ IF caller = "submit" THEN caller' = "workflow" /\ pc' = "check"
                            ELSE UNCHANGED caller /\ pc' = "dispatch"
    /\ UNCHANGED <<plan, indegree, done, layers, remaining, layer, future, outputs, issued,
                   history, crashes>>

-----------------------------------------------------------------------------
(* Running the layers *)

\* The commands that start a layer: each node with the outputs it requires.
CommandsOf(ids) ==
    [i \in DOMAIN ids |->
        [id |-> ids[i], upstream |-> [r \in Required(Node(ids[i])) |-> outputs[r]]]]

\* All nodes of a layer are dispatched before the first is awaited, in one
\* workflow task: the server records all of its commands or, after a crash,
\* none.
DispatchLayer ==
    /\ pc = "dispatch" /\ layer <= Len(layers)
    /\ LET new == CommandsOf(layers[layer])
           last == issued + Len(new)
       IN \/ /\ issued = Len(commands)
             /\ commands' = commands \o new
             /\ status' = [id \in NodeIDs |->
                              IF id \in Range(layers[layer]) THEN "scheduled" ELSE status[id]]
             /\ pc' = "await"
          \/ /\ issued < Len(commands)
             /\ pc' = IF SubSeq(commands, issued + 1, last) = new THEN "await" ELSE "stuck"
             /\ UNCHANGED <<commands, status>>
    /\ issued' = issued + Len(layers[layer])
    /\ future' = 1
    /\ UNCHANGED <<plan, caller, indegree, done, layers, remaining, layer, outputs,
                   attempts, result, verdict, crashes>>

Awaited == layers[layer][future]

\* Mutant: the output is not kept.
AwaitForgets ==
    /\ pc = "await" /\ status[Awaited] = "completed"
    /\ IF future < Len(layers[layer])
       THEN future' = future + 1 /\ UNCHANGED <<layer, pc>>
       ELSE layer' = layer + 1 /\ pc' = "dispatch" /\ UNCHANGED future
    /\ UNCHANGED <<plan, caller, indegree, done, layers, remaining, outputs, issued, history,
                   crashes>>

\* future.Get returns an output; after the last of a layer comes the next layer.
AwaitOutput ==
    /\ pc = "await" /\ status[Awaited] = "completed"
    /\ outputs' = [outputs EXCEPT ![Awaited] = result[Awaited]]
    /\ IF future < Len(layers[layer])
       THEN future' = future + 1 /\ UNCHANGED <<layer, pc>>
       ELSE layer' = layer + 1 /\ pc' = "dispatch" /\ UNCHANGED future
    /\ UNCHANGED <<plan, caller, indegree, done, layers, remaining, issued, history, crashes>>

\* future.Get returns the error of a node that failed for good.  The outputs
\* of the others are lost, and nobody waits for those still running.
AwaitError ==
    /\ pc = "await" /\ status[Awaited] = "failed"
    /\ verdict' = "failed"
    /\ pc' = "end"
    /\ UNCHANGED <<plan, caller, indegree, done, layers, remaining, layer, future, outputs,
                   issued, commands, status, attempts, result, crashes>>

Return ==
    /\ pc = "dispatch" /\ layer > Len(layers)
    /\ verdict' = "completed"
    /\ pc' = "end"
    /\ UNCHANGED <<plan, caller, indegree, done, layers, remaining, layer, future, outputs,
                   issued, commands, status, attempts, result, crashes>>

\* The worker stops.  The next one starts the code again with empty memory.
Crash ==
    /\ caller = "workflow" /\ pc # "end"
    /\ crashes < MaxCrashes
    /\ crashes' = crashes + 1
    /\ pc' = "check"
    /\ indegree' = <<>> /\ done' = {} /\ layers' = <<>> /\ remaining' = 0
    /\ layer' = 1 /\ future' = 1 /\ issued' = 0
    /\ outputs' = [id \in NodeIDs |-> NoOutput]
    /\ UNCHANGED <<plan, caller, history>>

-----------------------------------------------------------------------------
(* Activities, as the Temporal server runs them *)

StartAttempt(id) ==
    /\ verdict = "open" /\ status[id] = "scheduled"
    /\ status' = [status EXCEPT ![id] = "running"]
    /\ attempts' = [attempts EXCEPT ![id] = @ + 1]
    /\ UNCHANGED <<plan, memory, commands, result, verdict, crashes>>

AttemptSucceeds(id) ==
    /\ verdict = "open" /\ status[id] = "running"
    /\ status' = [status EXCEPT ![id] = "completed"]
    /\ result' = [result EXCEPT ![id] = attempts[id]]
    /\ UNCHANGED <<plan, memory, commands, attempts, verdict, crashes>>

\* An attempt that is to be retried goes back to the task queue.
AfterFailure(id, retryable) ==
    IF retryable /\ attempts[id] < OptionsFor(Node(id)).maxAttempts
    THEN "scheduled" ELSE "failed"

\* The activity returns an error of some type.
AttemptFails(id, type) ==
    /\ verdict = "open" /\ status[id] = "running"
    /\ status' = [status EXCEPT ![id] =
                     AfterFailure(id, type \notin OptionsFor(Node(id)).nonRetryable)]
    /\ UNCHANGED <<plan, memory, commands, attempts, result, verdict, crashes>>

\* The worker running it is lost, or its answer is: the attempt times out.
AttemptTimesOut(id) ==
    /\ verdict = "open" /\ status[id] = "running"
    /\ status' = [status EXCEPT ![id] = AfterFailure(id, TRUE)]
    /\ UNCHANGED <<plan, memory, commands, attempts, result, verdict, crashes>>

-----------------------------------------------------------------------------

WorkflowStep ==
    \/ Check \/ CheckFails \/ NextLayer \/ CycleDetected \/ LayersReturn
    \/ DispatchLayer \/ AwaitOutput \/ AwaitError \/ Return

ActivityEnds(id) ==
    \/ AttemptSucceeds(id)
    \/ \E type \in ErrorTypes : AttemptFails(id, type)
    \/ AttemptTimesOut(id)

Next ==
    \/ WorkflowStep
    \/ Crash
    \/ \E id \in NodeIDs : StartAttempt(id) \/ ActivityEnds(id)

Spec == Init /\ [][Next]_vars

\* Some worker polls the workflow's task queue and each node's, and the server
\* times out an attempt that does not end.
Fairness ==
    /\ WF_vars(WorkflowStep)
    /\ \A id \in NodeIDs : WF_vars(StartAttempt(id)) /\ WF_vars(ActivityEnds(id))

FairSpec == Spec /\ Fairness

-----------------------------------------------------------------------------
(* Properties *)

\* A worker that takes the run over after a crash issues the very commands the
\* history holds, in the same order and with the same input: Layers iterates
\* over a map but sorts (plan.go:231-240), and outputs are refilled from history.
\* No activity is given more attempts than its merged options allow (TypeOK).
ReplayIsDeterministic == TypeOK /\ pc # "stuck"

\* Every node was given, for exactly the nodes it requires, the outputs on
\* record, crash or not (workflow.go:66-74, 84).
UpstreamIsRecorded ==
    \A i \in DOMAIN commands : LET c == commands[i] IN
        /\ DOMAIN c.upstream = Required(Node(c.id))
        /\ \A r \in DOMAIN c.upstream : c.upstream[r] = result[r] /\ result[r] # NoOutput

\* Once Layers has returned, every node is in one layer, the one just after the
\* last layer that holds a node it requires (plan.go:211-215).
LayersAreDepths ==
    pc \in {"dispatch", "await", "end"} /\ verdict # "rejected" =>
        LET at(id) == {k \in DOMAIN layers : id \in Range(layers[k])}
        IN \A n \in Nodes :
            at(n.id) = {1 + Max({0} \cup UNION {at(r) : r \in Required(n)})}

\* A result holds the recorded output of every node, and its leaves are the
\* plan's terminal outputs: none is required, and whatever node one starts from,
\* what depends on it, directly or not, ends in one (workflow.go:88-97,
\* plan.go:263-281).
ResultIsWhole ==
    verdict = "completed" =>
        /\ \A n \in Nodes : outputs[n.id] = result[n.id] /\ result[n.id] # NoOutput
        /\ \A n \in Nodes : Required(n) \cap Range(Leaves) = {}
        /\ \A S \in (SUBSET Nodes) \ {{}} :
               (\A n \in Nodes : (\E m \in S : m.id \in Required(n)) => n \in S)
                   => \E n \in S : n.id \in Range(Leaves)

\* The layered execution, with its crashes and retries, runs the plan as a DAG:
\* it rejects exactly the ill-formed plans, starts a node once and only when all
\* it requires have outputs, and fails only because a node did (workflow.go:34-41).
Dag == INSTANCE DagRun WITH
    Outputs <- Nat,
    nodes <- [i \in DOMAIN plan.nodes |-> LET n == plan.nodes[i] IN
                 [id |-> n.id, requires |-> n.requires,
                  acceptable |-> n.id # EmptyID /\ n.named /\ Checked(n.options)]],
    defaults <- Checked(plan.defaults),
    started <- {commands[i].id : i \in DOMAIN commands},
    output <- result,
    broken <- {id \in NodeIDs : status[id] = "failed"}
RunsAsDag == Dag!Spec

\* Every run ends, with a result or with an error: layering always finishes, and
\* a node either answers or uses its attempts up.
Terminates == <>(pc = "end")

=============================================================================
