--------------------------- MODULE MCPlanWorkflow ---------------------------
(* Plans of three nodes listed out of order: each requires nothing, one of   *)
(* the others, both, or one of them twice, so that chains, forks, joins,     *)
(* diamonds' halves and every cycle occur; and one plan for each way of      *)
(* being ill-formed.                                                         *)
EXTENDS PlanWorkflow, SequencesExt

IDs == 0..4
Sorted(S) == SetToSortSeq(S, <)

Types == {"InvalidInput", "other"}
Permanent == {"InvalidInput"}

N(id, requires, options) ==
    [id |-> id, named |-> TRUE, requires |-> requires, options |-> options]
P(nodes) == [nodes |-> nodes, defaults |-> Unset]

RequiresOf(a, b) == {<<>>, <<a>>, <<b>>, <<a, b>>, <<a, a>>}
Once == [Unset EXCEPT !.maxAttempts = 1]
NoRetry == [Unset EXCEPT !.nonRetryable = {"other"}]

Shapes == {P(<<N(3, r, NoRetry), N(1, s, Once), N(2, t, Unset)>>) :
              r \in RequiresOf(1, 2), s \in RequiresOf(2, 3), t \in RequiresOf(1, 3)}

IllFormed ==
    { P(<<>>),
      P(<<N(1, <<1>>, Unset)>>),
      P(<<N(1, <<4>>, Unset)>>),
      P(<<N(0, <<>>, Unset)>>),
      P(<<N(1, <<>>, Unset), N(1, <<>>, Unset)>>),
      P(<<N(1, <<>>, [Unset EXCEPT !.timeout = -1])>>),
      P(<<[N(1, <<>>, Unset) EXCEPT !.named = FALSE]>>),
      [nodes |-> <<N(1, <<>>, Unset)>>, defaults |-> [Unset EXCEPT !.heartbeat = -1]] }

\* The plan's own default against the node's and the workflow's.
Retrying == { [nodes |-> <<N(2, <<1>>, Once), N(1, <<>>, Unset)>>,
               defaults |-> [Unset EXCEPT !.maxAttempts = 3]] }

AllPlans == Shapes \cup IllFormed \cup Retrying
=============================================================================
