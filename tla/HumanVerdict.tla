---------------------------- MODULE HumanVerdict ----------------------------
(***************************************************************************)
(* Asking a human: the Dispatcher of src/channels posts a message to the   *)
(* channels a router picks and races them for the first verdict; the Slack *)
(* adapter polls for a reaction.  One ask is made either by the behaviour  *)
(* WithHumanVerdict of src/agents, or by a workflow through the activities *)
(* of src/channels/temporal.                                               *)
(*                                                                         *)
(* A message is known by the order in which it was posted; a Receipt is    *)
(* the number of its message.  A reaction is the choice it maps to.  What  *)
(* is the empty string, or nil, in the code is "none" here.                *)
(***************************************************************************)
EXTENDS Integers, Sequences, FiniteSets, Functions

CONSTANTS
    Channels,           \* names of channels
    Offered,            \* the choices the message offers
    Ignored,            \* reactions that are not mapped, not allowed, or without a user
    Setups,             \* [mode, registry, route]: who asks, what is registered, the router's choice
    MaxPostAttempts,    \* the retry policy of the Post activity
    MaxReactions        \* bound: reactions put in all, each once

Capabilities == {"notify", "await"}

ASSUME VerdictAssumption ==
    /\ MaxPostAttempts \in Nat \ {0} /\ MaxReactions \in Nat
    /\ Offered \cap Ignored = {}
    /\ \A s \in Setups : /\ s.mode \in {"behaviour", "workflow"}
                         /\ DOMAIN s.registry \subseteq Channels
                         /\ Range(s.registry) \subseteq SUBSET Capabilities
                         /\ s.route \in Seq(Channels)

VARIABLES
    mode, route,    \* as set up
    registry,       \* registered channel -> its function fields that are not nil
    messages,       \* the messages posted: [channel, reactions]
    given,          \* history: <<message, choice>> a human has put
    ask,            \* the caller, in Notify, Await and around them
    waiter,         \* channel -> its Await: a goroutine, or the caller itself
    out,            \* the buffered channel of the race
    cancelled       \* the caller's context is done

vars == <<mode, route, registry, messages, given, ask, waiter, out, cancelled>>

NoVerdict == [choice |-> "none", message |-> 0]
Off == [pc |-> "off", next |-> 1, due |-> FALSE, verdict |-> NoVerdict, err |-> "none", standing |-> {}]

Busy == {"post", "posted", "await", "single", "race", "judge"}
Waiting == {"single", "race"}

\* The channels of the receipts, and the places of a channel's receipts among them.
Groups == {messages[m].channel : m \in Range(ask.receipts)}
Group(ch) == {i \in DOMAIN ask.receipts : messages[ask.receipts[i]].channel = ch}

Has(ch, capability) == ch \in DOMAIN registry /\ capability \in registry[ch]
Able == {ch \in Groups : Has(ch, "await")}

Verdicts == [choice : Offered \cup Ignored, message : 1..Len(messages)] \cup {NoVerdict}

TypeOK ==
    /\ \A m \in 1..Len(messages) : /\ messages[m].channel \in Channels
                                   /\ Range(messages[m].reactions) \subseteq Offered \cup Ignored
    /\ given \subseteq (1..Len(messages)) \X (Offered \cup Ignored)
    /\ ask.pc \in Busy \cup {"start", "orphaned", "done"}
    /\ ask.attempt \in 1..MaxPostAttempts /\ ask.next \in 1..(Len(route) + 1)
    /\ Range(ask.receipts) \subseteq 1..Len(messages)
    /\ ask.launched \subseteq Groups /\ ask.verdict \in Verdicts
    /\ 0 <= ask.timeouts /\ ask.timeouts <= ask.taken /\ ask.taken <= Cardinality(Able)
    /\ ask.ended \in {"none", "verdict", "timeout", "cancelled", "no_receipts", "unknown_channel",
                      "not_supported", "all_failed", "lost"}
    /\ ask.outcome \in {"none", "inner_error", "not_required", "passed", "zeroed", "snoozed",
                        "post_failed", "await_failed", "returned"}
    /\ \A ch \in Channels : /\ waiter[ch].pc \in {"off", "polling", "asleep", "sending", "ended"}
                            /\ waiter[ch].verdict \in Verdicts
                            /\ waiter[ch].err \in {"none", "timeout", "cancelled"}
    /\ Range(out) \subseteq Groups

Init ==
    /\ \E s \in Setups : mode = s.mode /\ registry = s.registry /\ route = s.route
    /\ messages = <<>> /\ given = {}
    /\ ask = [pc |-> "start", attempt |-> 1, next |-> 1, receipts |-> <<>>, launched |-> {},
              taken |-> 0, timeouts |-> 0, ended |-> "none", verdict |-> NoVerdict, outcome |-> "none"]
    /\ waiter = [ch \in Channels |-> Off]
    /\ out = <<>> /\ cancelled = FALSE

AskBecomes(pc) == ask' = [ask EXCEPT !.pc = pc]
Done(outcome) == ask' = [ask EXCEPT !.pc = "done", !.outcome = outcome]

-----------------------------------------------------------------------------
(* Before the ask *)

\* The inner arrow fails, or the policy does not require a verdict.
NoQuestion(outcome) ==
    /\ ask.pc = "start" /\ mode = "behaviour"
    /\ Done(outcome)
    /\ UNCHANGED <<mode, route, registry, messages, given, waiter, out, cancelled>>

Ask ==
    /\ ask.pc = "start"
    /\ AskBecomes("post")
    /\ UNCHANGED <<mode, route, registry, messages, given, waiter, out, cancelled>>

-----------------------------------------------------------------------------
(* Notify *)

\* The receipts of the attempt are lost; the messages it posted are not.
RetryPost ==
    ask' = IF ask.attempt < MaxPostAttempts
           THEN [ask EXCEPT !.attempt = @ + 1, !.next = 1, !.receipts = <<>>]
           ELSE [ask EXCEPT !.pc = "done", !.receipts = <<>>, !.outcome = "post_failed"]

\* The router fails or selects nothing: ErrNoTarget.  A behaviour turns to its
\* policy with the empty verdict.
NoTarget ==
    /\ ask.pc = "post" /\ route = <<>>
    /\ IF mode = "behaviour" THEN AskBecomes("judge") ELSE RetryPost
    /\ UNCHANGED <<mode, route, registry, messages, given, waiter, out, cancelled>>

Posting(ch) == ask.pc = "post" /\ ask.next \in DOMAIN route /\ ch = route[ask.next]

\* An unknown channel, one that cannot post, or a post that fails: an entry in
\* Errors, and on to the next target.
PostFails(ch) ==
    /\ Posting(ch)
    /\ ask' = [ask EXCEPT !.next = @ + 1]
    /\ UNCHANGED <<mode, route, registry, messages, given, waiter, out, cancelled>>

\* The message is posted.  The reply may be lost, and the receipt with it.
Post(ch, received) ==
    /\ Posting(ch) /\ Has(ch, "notify")
    /\ messages' = Append(messages, [channel |-> ch, reactions |-> <<>>])
    /\ ask' = [ask EXCEPT !.next = @ + 1,
                          !.receipts = IF received THEN Append(@, Len(messages) + 1) ELSE @]
    /\ UNCHANGED <<mode, route, registry, given, waiter, out, cancelled>>

Posted ==
    /\ ask.pc = "post" /\ route # <<>> /\ ask.next > Len(route)
    /\ AskBecomes(IF mode = "workflow" THEN "posted"
                  ELSE IF ask.receipts = <<>> THEN "judge" ELSE "await")
    /\ UNCHANGED <<mode, route, registry, messages, given, waiter, out, cancelled>>

\* The worker stops, or the attempt takes longer than StartToCloseTimeout.
PostTimesOut ==
    /\ ask.pc = "post" /\ mode = "workflow"
    /\ RetryPost
    /\ UNCHANGED <<mode, route, registry, messages, given, waiter, out, cancelled>>

\* The worker that will wait may be a newer one, which does not have the
\* channel, or whose adapter cannot wait.
Redeploy(ch) ==
    /\ ask.pc = "posted" /\ ch \in DOMAIN registry
    /\ registry' \in {Restrict(registry, DOMAIN registry \ {ch}), [registry EXCEPT ![ch] = {"notify"}]}
    /\ AskBecomes("await")
    /\ UNCHANGED <<mode, route, messages, given, waiter, out, cancelled>>

StartAwait ==
    /\ ask.pc = "posted"
    /\ AskBecomes("await")
    /\ UNCHANGED <<mode, route, registry, messages, given, waiter, out, cancelled>>

Notify ==
    \/ NoTarget
    \/ \E ch \in Channels : PostFails(ch) \/ \E received \in BOOLEAN : Post(ch, received)
    \/ Posted \/ StartAwait

-----------------------------------------------------------------------------
(* Humans *)

\* A reaction after the end of the ask concerns no one.
React(m, choice) ==
    /\ m \in DOMAIN messages /\ ask.pc # "done"
    /\ <<m, choice>> \notin given /\ Cardinality(given) < MaxReactions
    /\ given' = given \cup {<<m, choice>>}
    /\ messages' = [messages EXCEPT ![m].reactions = Append(@, choice)]
    /\ UNCHANGED <<mode, route, registry, ask, waiter, out, cancelled>>

\* The places of the reactions that count.
Valid(m) == {i \in DOMAIN messages[m].reactions : messages[m].reactions[i] \in Offered}

Retract(m, i) ==
    /\ m \in DOMAIN messages /\ ask.pc # "done" /\ i \in DOMAIN messages[m].reactions
    /\ messages' = [messages EXCEPT ![m].reactions =
                        SubSeq(@, 1, i - 1) \o SubSeq(@, i + 1, Len(@))]
    /\ waiter' = [ch \in Channels |->
                     [waiter[ch] EXCEPT !.standing = {n \in @ : n # m \/ Valid(n)' # {}}]]
    /\ UNCHANGED <<mode, route, registry, given, ask, out, cancelled>>

-----------------------------------------------------------------------------
(* A channel's Await: the polling loop of the Slack adapter *)

\* standing is history: the messages that have had a valid reaction since the
\* round began, and which it may yet read.
Standing(ch) == {m \in {ask.receipts[i] : i \in Group(ch)} : Valid(m) # {}}

\* Every message is looked at, in every round, from the first.
Round(ch) == [waiter[ch] EXCEPT !.pc = "polling", !.next = 1, !.standing = Standing(ch)]

Answers(ch, verdict, err) ==
    waiter' = [waiter EXCEPT ![ch] = [@ EXCEPT !.pc = "sending", !.verdict = verdict, !.err = err]]

\* A waiter's context: that of the caller, or of a race that is over.
ContextDone == cancelled \/ ask.pc \notin Waiting

\* The receipts the round has yet to come to.
Left(ch) == {i \in Group(ch) : i >= waiter[ch].next}

Reading(ch, i) ==
    waiter[ch].pc = "polling" /\ i \in Left(ch) /\ \A j \in Left(ch) : i <= j

\* GetReactions fails; the wait goes on.
ReadFails(ch, i) ==
    /\ Reading(ch, i)
    /\ waiter' = [waiter EXCEPT ![ch].next = i + 1, ![ch].standing = @ \ {ask.receipts[i]}]
    /\ UNCHANGED <<mode, route, registry, messages, given, ask, out, cancelled>>

\* Mutant: the first reaction counts, whatever it is.
AnyOf(m) == DOMAIN messages[m].reactions

Candidates(m) == Valid(m)

\* The first reaction, in the order Slack lists them, that maps to an allowed choice.
First(m, k) == k \in Candidates(m) /\ \A j \in Candidates(m) : k <= j

Read(ch, i) ==
    /\ Reading(ch, i)
    /\ LET m == ask.receipts[i] IN
       \/ \E k \in DOMAIN messages[m].reactions :
             First(m, k) /\ Answers(ch, [choice |-> messages[m].reactions[k], message |-> m], "none")
       \/ Candidates(m) = {} /\ waiter' = [waiter EXCEPT ![ch].next = i + 1]
    /\ UNCHANGED <<mode, route, registry, messages, given, ask, out, cancelled>>

\* The deadline is looked at after a round.
EndRound(ch) ==
    /\ waiter[ch].pc = "polling" /\ Left(ch) = {}
    /\ IF waiter[ch].due THEN Answers(ch, NoVerdict, "timeout")
                         ELSE waiter' = [waiter EXCEPT ![ch].pc = "asleep"]
    /\ UNCHANGED <<mode, route, registry, messages, given, ask, out, cancelled>>

\* Mutant: the deadline is looked at before the round.
TickUnlessDue(ch) ==
    /\ waiter[ch].pc = "asleep"
    /\ waiter' = [waiter EXCEPT ![ch] = IF waiter[ch].due
                                        THEN [Round(ch) EXCEPT !.pc = "sending", !.err = "timeout"]
                                        ELSE Round(ch)]
    /\ UNCHANGED <<mode, route, registry, messages, given, ask, out, cancelled>>

Tick(ch) ==
    /\ waiter[ch].pc = "asleep"
    /\ waiter' = [waiter EXCEPT ![ch] = Round(ch)]
    /\ UNCHANGED <<mode, route, registry, messages, given, ask, out, cancelled>>

WaitCancelled(ch) ==
    /\ waiter[ch].pc = "asleep" /\ ContextDone
    /\ Answers(ch, NoVerdict, "cancelled")
    /\ UNCHANGED <<mode, route, registry, messages, given, ask, out, cancelled>>

\* Mutant: out has no buffer.
SendToReceiver(ch) ==
    /\ waiter[ch].pc = "sending" /\ ask.pc = "race" /\ ask.launched = Groups /\ out = <<>>
    /\ out' = Append(out, ch)
    /\ waiter' = [waiter EXCEPT ![ch].pc = "ended"]
    /\ UNCHANGED <<mode, route, registry, messages, given, ask, cancelled>>

\* out has room for every channel.  In the single-channel path nothing is sent.
Send(ch) ==
    /\ waiter[ch].pc = "sending" /\ ask.pc # "single"
    /\ out' = Append(out, ch)
    /\ waiter' = [waiter EXCEPT ![ch].pc = "ended"]
    /\ UNCHANGED <<mode, route, registry, messages, given, ask, cancelled>>

WaiterStep(ch) ==
    \/ \E i \in DOMAIN ask.receipts : Read(ch, i) \/ ReadFails(ch, i)
    \/ EndRound(ch) \/ Tick(ch) \/ WaitCancelled(ch) \/ Send(ch)

Deadline(ch) ==
    /\ waiter[ch].pc \in {"polling", "asleep"} /\ ~waiter[ch].due
    /\ waiter' = [waiter EXCEPT ![ch].due = TRUE]
    /\ UNCHANGED <<mode, route, registry, messages, given, ask, out, cancelled>>

-----------------------------------------------------------------------------
(* Dispatcher.Await *)

\* A behaviour hands a verdict or a timeout to its policy and returns any other
\* error.  The activity returns all of them, and they end the workflow's wait.
Returned(end, verdict) ==
    [ask EXCEPT !.ended = end, !.verdict = verdict,
                !.pc = IF mode = "behaviour" /\ end \in {"verdict", "timeout"} THEN "judge" ELSE "done",
                !.outcome = IF mode = "behaviour"
                            THEN IF end \in {"verdict", "timeout"} THEN "none" ELSE "await_failed"
                            ELSE IF end = "verdict" THEN "returned" ELSE "await_failed"]

AwaitRefused ==
    /\ ask.pc = "await"
    /\ \/ ask.receipts = <<>> /\ ask' = Returned("no_receipts", NoVerdict)
       \/ \E ch \in Channels :
             /\ Groups = {ch} /\ ~Has(ch, "await")
             /\ ask' = Returned(IF ch \in DOMAIN registry THEN "not_supported" ELSE "unknown_channel",
                                NoVerdict)
    /\ UNCHANGED <<mode, route, registry, messages, given, waiter, out, cancelled>>

AwaitSingle(ch) ==
    /\ ask.pc = "await" /\ Groups = {ch} /\ Has(ch, "await")
    /\ AskBecomes("single")
    /\ waiter' = [waiter EXCEPT ![ch] = Round(ch)]
    /\ UNCHANGED <<mode, route, registry, messages, given, out, cancelled>>

SingleReturns(ch) ==
    /\ ask.pc = "single" /\ waiter[ch].pc = "sending"
    /\ waiter' = [waiter EXCEPT ![ch].pc = "ended"]
    /\ ask' = Returned(IF waiter[ch].err = "none" THEN "verdict" ELSE waiter[ch].err, waiter[ch].verdict)
    /\ UNCHANGED <<mode, route, registry, messages, given, out, cancelled>>

AwaitRace ==
    /\ ask.pc = "await" /\ Cardinality(Groups) > 1
    /\ AskBecomes("race")
    /\ UNCHANGED <<mode, route, registry, messages, given, waiter, out, cancelled>>

\* The groups come in any order.  A channel that cannot wait is skipped; an
\* unknown one ends the race, with the waiters before it already started.
Launch(ch) ==
    /\ ask.pc = "race" /\ ch \in Groups \ ask.launched
    /\ IF ch \in DOMAIN registry
       THEN /\ ask' = [ask EXCEPT !.launched = @ \cup {ch}]
            /\ waiter' = IF Has(ch, "await") THEN [waiter EXCEPT ![ch] = Round(ch)] ELSE waiter
       ELSE ask' = Returned("unknown_channel", NoVerdict) /\ UNCHANGED waiter
    /\ UNCHANGED <<mode, route, registry, messages, given, out, cancelled>>

\* Mutant: every group is expected to answer.
ExpectedOfAll == Cardinality(Groups)

Expected == Cardinality(Able)

Collecting == ask.pc = "race" /\ ask.launched = Groups

\* The first verdict wins; timeouts are counted, errors are not.
Take ==
    /\ Collecting /\ ask.taken < Expected /\ out # <<>>
    /\ LET result == waiter[Head(out)] IN
       ask' = IF result.err = "none" THEN Returned("verdict", result.verdict)
              ELSE [ask EXCEPT !.taken = @ + 1,
                               !.timeouts = @ + (IF result.err = "timeout" THEN 1 ELSE 0)]
    /\ out' = Tail(out)
    /\ UNCHANGED <<mode, route, registry, messages, given, waiter, cancelled>>

RaceCancelled ==
    /\ Collecting /\ ask.taken < Expected /\ cancelled
    /\ ask' = Returned("cancelled", NoVerdict)
    /\ UNCHANGED <<mode, route, registry, messages, given, waiter, out, cancelled>>

\* Mutant: one timeout is a timeout.
AnyTimedOut == ask.timeouts > 0

AllTimedOut == ask.timeouts = Expected

RaceEnds ==
    /\ Collecting /\ ask.taken = Expected
    /\ ask' = Returned(IF AllTimedOut THEN "timeout" ELSE "all_failed", NoVerdict)
    /\ UNCHANGED <<mode, route, registry, messages, given, waiter, out, cancelled>>

Await ==
    \/ AwaitRefused \/ AwaitRace \/ Take \/ RaceCancelled \/ RaceEnds
    \/ \E ch \in Channels : AwaitSingle(ch) \/ SingleReturns(ch) \/ Launch(ch)

-----------------------------------------------------------------------------
(* After the wait *)

\* OnVerdict of AlwaysAskPolicy without hooks.
OnVerdict ==
    /\ ask.pc = "judge"
    /\ Done(CASE ask.verdict.choice = "reject" -> "zeroed"
              [] ask.verdict.choice = "snooze" -> "snoozed"
              [] OTHER -> "passed")
    /\ UNCHANGED <<mode, route, registry, messages, given, waiter, out, cancelled>>

\* The worker of the AwaitVerdict activity stops, and its goroutines with it.
WorkerLost ==
    /\ mode = "workflow" /\ ask.pc \in Waiting
    /\ AskBecomes("orphaned")
    /\ waiter' = [ch \in Channels |-> Off] /\ out' = <<>>
    /\ UNCHANGED <<mode, route, registry, messages, given, cancelled>>

\* There are no more heartbeats, and the policy has one attempt.
HeartbeatTimesOut ==
    /\ ask.pc = "orphaned"
    /\ ask' = Returned("lost", NoVerdict)
    /\ UNCHANGED <<mode, route, registry, messages, given, waiter, out, cancelled>>

\* The caller of the agent gives up.
Cancel ==
    /\ mode = "behaviour" /\ ask.pc \in Busy /\ ~cancelled
    /\ cancelled' = TRUE
    /\ UNCHANGED <<mode, route, registry, messages, given, ask, waiter, out>>

AskStep == Ask \/ Notify \/ Await \/ OnVerdict \/ HeartbeatTimesOut

Next ==
    \/ \E outcome \in {"inner_error", "not_required"} : NoQuestion(outcome)
    \/ AskStep
    \/ \E ch \in Channels : WaiterStep(ch) \/ Deadline(ch) \/ Redeploy(ch)
    \/ \E m \in DOMAIN messages :
          \/ \E choice \in Offered \cup Ignored : React(m, choice)
          \/ \E i \in DOMAIN messages[m].reactions : Retract(m, i)
    \/ PostTimesOut \/ WorkerLost \/ Cancel

Spec == Init /\ [][Next]_vars

\* The schedulers of Go and Temporal run what can run, time passes, and calls of
\* the channels' APIs return.  Nothing is assumed of humans.
FairSpec ==
    /\ Spec
    /\ WF_vars(AskStep)
    /\ \A ch \in Channels : WF_vars(WaiterStep(ch)) /\ WF_vars(Deadline(ch))

-----------------------------------------------------------------------------
(* Properties *)

\* A verdict that is acted upon is one of the choices offered, and a human put it
\* on a message the caller holds a receipt of; what becomes of the output follows
\* it (slack.go:193-219, channels.go:190-193, verdict.go:111-121).
VerdictWasGiven ==
    /\ TypeOK
    /\ ask.verdict # NoVerdict =>
          /\ ask.verdict.choice \in Offered
          /\ <<ask.verdict.message, ask.verdict.choice>> \in given
          /\ ask.verdict.message \in Range(ask.receipts)
    /\ ask.outcome = "zeroed" => ask.verdict.choice = "reject"
    /\ ask.outcome \in {"passed", "zeroed", "snoozed"} => ask.ended \in {"none", "verdict", "timeout"}

\* Where a channel is able to wait, a wait without a verdict is reported as timed out,
\* which lets the output pass, exactly when every such channel has itself waited to its
\* deadline, and as failed only when one of them was cut short (channels.go:177-202).
\* TimeoutMeansSomeoneWaited is about the case that is left.
SilenceIsUnanimous ==
    Able # {} /\ ask.ended \in {"timeout", "all_failed"} =>
        (ask.ended = "timeout" <=> \A ch \in Able : waiter[ch].err = "timeout")

\* Nobody is taken to have been silent who was not listened to: "ErrTimeout indicates a
\* wait completed without a valid verdict", and for channels that cannot wait "The
\* Dispatcher checks at call time and returns ErrNotSupported if the requested
\* capability isn't present" (types.go:204-209, 218-220).
TimeoutMeansSomeoneWaited ==
    ask.ended = "timeout" => \E ch \in Channels : waiter[ch].err = "timeout"

\* A reaction that is in place when a round of polling begins, and stays, is not
\* missed for the deadline: a waiter gives up only after a round that found none
\* of them or could not read them (slack.go:181-231).
ReactionIsNotMissed ==
    \A ch \in Channels : waiter[ch].err = "timeout" => waiter[ch].standing = {}

\* No goroutine of the race is left behind, whichever channel wins and however
\* Await returns (channels.go:159-175).
WaitersEnd ==
    \A ch \in Channels : waiter[ch].pc # "off" ~> waiter[ch].pc \in {"off", "ended"}

\* Whatever is registered and whoever answers, an ask that has begun comes to an
\* end (channels.go:177-203).
AsksEnd == ask.pc = "post" ~> ask.pc = "done"

=============================================================================
