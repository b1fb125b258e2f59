------------------------------- MODULE DagRun -------------------------------
(***************************************************************************)
(* What running a plan means, whoever schedules it: an ill-formed plan is  *)
(* rejected and nothing of it runs; of a well-formed one a node starts     *)
(* once, after everything it requires has an output; the run completes     *)
(* when every node has an output and fails only because a node failed.     *)
(***************************************************************************)
EXTENDS Naturals, Sequences

CONSTANTS NodeIDs, Outputs, NoOutput

VARIABLES
    nodes,      \* the plan: a sequence of nodes, fixed
    defaults,   \* whether the plan's own defaults are acceptable, fixed
    started,    \* the nodes that were started
    output,     \* the output of each node that has one
    broken,     \* the nodes that failed for good
    verdict     \* "open", "completed", "failed" or "rejected"

vars == <<nodes, defaults, started, output, broken, verdict>>

Ids == {nodes[i].id : i \in DOMAIN nodes}

RequiredBy(n) == {n.requires[j] : j \in DOMAIN n.requires}

\* An order in which the nodes could be run one after the other.
Acyclic ==
    \E rank \in [Ids -> 1..Len(nodes)] :
        \A i \in DOMAIN nodes : \A r \in RequiredBy(nodes[i]) : rank[r] < rank[nodes[i].id]

WellFormed ==
    /\ nodes # <<>>
    /\ defaults
    /\ \A i \in DOMAIN nodes :
        /\ nodes[i].acceptable
        /\ RequiredBy(nodes[i]) \subseteq Ids
        /\ \A j \in DOMAIN nodes : nodes[i].id = nodes[j].id => i = j
    /\ Acyclic

Init ==
    /\ started = {}
    /\ output = [id \in NodeIDs |-> NoOutput]
    /\ broken = {}
    /\ verdict = "open"

Reject ==
    /\ verdict = "open" /\ started = {}
    /\ ~WellFormed
    /\ verdict' = "rejected"
    /\ UNCHANGED <<nodes, defaults, started, output, broken>>

\* Several nodes may start at once.
Start(S) ==
    /\ verdict = "open"
    /\ WellFormed
    /\ S \subseteq Ids \ started
    /\ \A i \in DOMAIN nodes : nodes[i].id \in S =>
        \A r \in RequiredBy(nodes[i]) : output[r] # NoOutput
    /\ started' = started \cup S
    /\ UNCHANGED <<nodes, defaults, output, broken, verdict>>

Finish(id) ==
    /\ verdict = "open"
    /\ id \in started \ broken /\ output[id] = NoOutput
    /\ output'[id] \in Outputs
    /\ output' = [output EXCEPT ![id] = output'[id]]
    /\ UNCHANGED <<nodes, defaults, started, broken, verdict>>

Break(id) ==
    /\ verdict = "open"
    /\ id \in started \ broken /\ output[id] = NoOutput
    /\ broken' = broken \cup {id}
    /\ UNCHANGED <<nodes, defaults, started, output, verdict>>

Complete ==
    /\ verdict = "open"
    /\ WellFormed /\ \A id \in Ids : output[id] # NoOutput
    /\ verdict' = "completed"
    /\ UNCHANGED <<nodes, defaults, started, output, broken>>

Fail ==
    /\ verdict = "open"
    /\ broken # {}
    /\ verdict' = "failed"
    /\ UNCHANGED <<nodes, defaults, started, output, broken>>

Next ==
    \/ Reject \/ Complete \/ Fail
    \/ \E S \in SUBSET NodeIDs : Start(S)
    \/ \E id \in NodeIDs : Finish(id) \/ Break(id)

Spec == Init /\ [][Next]_vars
=============================================================================
