--------------------------- MODULE MCHumanVerdict ---------------------------
(* Slack and a second channel, which can do both, only post, only wait, or is *)
(* not registered; a registry in which neither can wait.                      *)
EXTENDS HumanVerdict

Names == {"slack", "teams"}

Teams == [able |-> {"notify", "await"}, deaf |-> {"notify"}, mute |-> {"await"}]
WithTeams(kind) == [slack |-> {"notify", "await"}, teams |-> Teams[kind]]
SlackAlone == [slack |-> {"notify", "await"}]
BothDeaf == [slack |-> {"notify"}, teams |-> {"notify"}]

Pair == <<"slack", "teams">>

Asks(mode_, registry_, route_) == [mode |-> mode_, registry |-> registry_, route |-> route_]

BehaviourSetups ==
    {Asks("behaviour", r, Pair) : r \in {WithTeams(k) : k \in DOMAIN Teams} \cup {SlackAlone, BothDeaf}}
      \cup {Asks("behaviour", SlackAlone, <<>>), Asks("behaviour", SlackAlone, <<"slack", "slack">>)}

WorkflowSetups ==
    {Asks("workflow", WithTeams("deaf"), route_) : route_ \in {<<>>, <<"slack">>, Pair}}

AllSetups == BehaviourSetups \cup WorkflowSetups

\* Two channels are posted to and neither can wait.
DeafSetups == {Asks("behaviour", BothDeaf, Pair)}

Choices == {"accept", "reject"}
=============================================================================
