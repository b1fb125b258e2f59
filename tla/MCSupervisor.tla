---------------------------- MODULE MCSupervisor ----------------------------
(* A supervisor and up to two children at a time (cmd/ask-supervisor), or a  *)
(* convergence workflow that a client starts itself (cmd/ask).  Every        *)
(* activity is tried twice.                                                  *)
EXTENDS Supervisor

Children == 1..3
AllWorkflows == Children \cup {Top}

Attempts == [kind \in Kinds |-> 2]
Errors == {"ConfigurationError", "InvalidLLMResponse", "Timeout"}
Fatal == [kind \in Kinds |-> IF kind \in {"Research", "Critique"}
                             THEN {"ConfigurationError", "InvalidLLMResponse"} ELSE {}]

Request(parts, cap, rounds) == [empty |-> FALSE, parts |-> parts, cap |-> cap, rounds |-> rounds]

\* Spaces, and nothing else.
Blank == { Request(0, 1, 3) }

\* Without a cap, beyond the cap, beyond the default cap of 1, and refused.
AllRequests ==
    Blank \cup { Request(2, -1, 1), Request(3, 1, 2), Request(2, 0, 1),
                 Request(1, 1, 0), [Request(0, 0, 1) EXCEPT !.empty = TRUE] }

\* Up to three rounds, and every way of asking wrongly.
AskedByClients == [text : {1, EmptyText}, maxRounds : 0..3]

AllQuestions == AskedByClients \cup [text : Children, maxRounds : {1, 2}]

\* There is no supervisor: its code has nothing to do, and it has no outcome.
Alone == sup.pc = "end" /\ close.state = "open"

AskedDirectly ==
    /\ Init
    /\ asked[1] \in AskedByClients /\ \A w \in Runs \ {1} : asked[w] = NotAsked
    /\ request \in Blank
    /\ sup = [SupFromTheTop EXCEPT !.pc = "end"]
    /\ close = Running

MCNext ==
    \/ ~Alone /\ SupNext
    \/ Alone /\ \E w \in Runs : ChildStep(w)

MCSpec == (SupInit \/ AskedDirectly) /\ [][MCNext]_vars /\ SupFairness
=============================================================================
