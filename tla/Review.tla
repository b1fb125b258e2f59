------------------------------- MODULE Review -------------------------------
(***************************************************************************)
(* The PR review as cmd/api-server runs it: PRReviewWorkflow and its       *)
(* activities (src/agent/review_workflow.go), the stream of a model's      *)
(* answer (stream.go, anthropic_stream.go), the HTTP handlers that start a *)
(* run and show it, and the life of the process, which holds worker,       *)
(* broker and handlers.                                                    *)
(*                                                                         *)
(* What Temporal keeps (run, act) outlives the process; the variables of   *)
(* the workflow's code (wf), the calls under way and the watching client's *)
(* stream do not.  A workflow task is atomic.  The broker is that of       *)
(* Broker, reduced to what PubSub promises: who is subscribed is sent the  *)
(* event.  Events are known by their kind, and a text by the number of     *)
(* pieces of it that have arrived.                                         *)
(***************************************************************************)
EXTENDS Integers, Sequences, Functions

CONSTANTS
    Parse, Synthesize,  \* the first and the last activity
    Analyzers,          \* those in between, in the order they are awaited in
    MaxAttempts,        \* RetryPolicy.MaximumAttempts, 3 in the code
    TextLength,         \* pieces the model's whole answer comes in
    ChanCap,            \* buffer of the channel of chunks, 32 in the code
    MaxOutages          \* bound: how often the process ends

Nodes == {Parse, Synthesize} \cup Range(Analyzers)

ASSUME ReviewAssumption ==
    /\ MaxAttempts \in Nat \ {0} /\ TextLength \in Nat /\ ChanCap \in Nat \ {0}
    /\ MaxOutages \in Nat
    /\ Parse # Synthesize /\ {Parse, Synthesize} \cap Range(Analyzers) = {}
    /\ Analyzers \in Seq(Range(Analyzers)) /\ "none" \notin Nodes

VARIABLES
    server,     \* the process: "up", "draining" (http.Server.Shutdown) or "down"
    client,     \* where the client that started the run is
    seen,       \* history: the kinds of events its stream has shown it
    run,        \* the workflow execution, and the node it failed for
    wf,         \* the workflow's code: where it waits, and what it has read so far
    act,        \* node -> its activity, on the server
    call,       \* node -> the attempt under way in this process
    streaming,  \* whether the backend can stream (a.Stream # nil)
    outages

clientVars == <<client, seen>>
vars == <<server, clientVars, run, wf, act, call, streaming, outages>>

Ends == {"open", "stop", "error", "eof"}
NoText == [attempt |-> 0, len |-> 0, end |-> "open"]
Text == [attempt : 0..MaxAttempts, len : 0..TextLength, end : Ends]

NotScheduled == [state |-> "none", attempts |-> 0, input |-> <<>>, result |-> NoText]
NoCall == [on |-> FALSE, sent |-> 0, got |-> 0, end |-> "open"]
NewCall == [NoCall EXCEPT !.on = TRUE]
FromTheTop == [pc |-> "start", outs |-> <<>>]

EventKinds == {"workflow.started", "workflow.ended", "activity.started",
               "activity.completed", "llm.token"}

TypeOK ==
    /\ server \in {"up", "draining", "down"}
    /\ client \in {"idle", "posting", "knows", "watching", "gone"}
    /\ seen \subseteq EventKinds
    /\ run.state \in {"none", "open", "completed", "failed"}
    /\ run.cause \in Nodes \cup {"none", "InvalidInput"}
    /\ wf.pc \in {"start", "parsing", "analyzing", "synthesizing", "end"}
    /\ wf.outs \in Seq(Text)
    /\ \A n \in Nodes :
        /\ act[n].state \in {"none", "scheduled", "running", "completed", "failed", "dropped"}
        /\ act[n].attempts \in 0..MaxAttempts
        /\ act[n].input \in Seq(Text) /\ act[n].result \in Text
        /\ call[n].on => server # "down" /\ act[n].state = "running"
        /\ call[n].sent \in 0..TextLength /\ call[n].got \in 0..call[n].sent
        /\ call[n].sent - call[n].got <= ChanCap
        /\ call[n].end \in Ends
    /\ streaming \in BOOLEAN
    /\ outages \in 0..MaxOutages

Init ==
    /\ server = "up"
    /\ client = "idle"
    /\ seen = {}
    /\ run = [state |-> "none", diff |-> "none", cause |-> "none", output |-> <<>>]
    /\ wf = FromTheTop
    /\ act = [n \in Nodes |-> NotScheduled]
    /\ call = [n \in Nodes |-> NoCall]
    /\ streaming \in BOOLEAN
    /\ outages = 0

-----------------------------------------------------------------------------
(* The HTTP handlers *)

\* EmitterForActivity asks Temporal for the run's ID; EmitterFromContext takes the
\* one WithWorkflowID has put into the context, which nothing does.
RunID == "run"
ContextID == ""

\* What is published under the run's ID reaches the client that subscribed to it.
Publish(id, kind) ==
    seen' = IF client = "watching" /\ id = RunID THEN seen \cup {kind} ELSE seen

Starts(diff) ==
    /\ run.state = "none"
    /\ run' = [run EXCEPT !.state = "open", !.diff = diff]

\* POST /run: an empty diff is replaced, an ID made up, the workflow started.
HandleRun ==
    /\ client = "idle" /\ server = "up"
    /\ Starts("given")
    /\ client' = "posting"
    /\ UNCHANGED <<server, seen, wf, act, call, streaming, outages>>

\* Any other client of the Temporal server may start it with an empty one.
StartedElsewhere ==
    /\ Starts("empty")
    /\ UNCHANGED <<server, clientVars, wf, act, call, streaming, outages>>

\* The handler announces the run under its ID, and only then tells the client the
\* ID.
Respond ==
    /\ client = "posting"
    /\ Publish(RunID, "workflow.started")
    /\ client' = "knows"
    /\ UNCHANGED <<server, run, wf, act, call, streaming, outages>>

\* GET /events.  Of the events that would end the stream none is ever published,
\* so the handler stays with its client.
HandleEvents ==
    /\ client = "knows" /\ server = "up"
    /\ client' = "watching"
    /\ UNCHANGED <<server, seen, run, wf, act, call, streaming, outages>>

Disconnect ==
    /\ client = "watching"
    /\ client' = "gone"
    /\ UNCHANGED <<server, seen, run, wf, act, call, streaming, outages>>

HandlersActive == client \in {"posting", "watching"}

-----------------------------------------------------------------------------
(* The workflow's code *)

\* On a replay the activities of the history are found again, not scheduled.
Schedule(nodes, input) ==
    act' = [n \in Nodes |-> IF n \in nodes /\ act[n].state = "none"
                            THEN [NotScheduled EXCEPT !.state = "scheduled", !.input = input]
                            ELSE act[n]]

\* A workflow task is taken by a worker that is there.
Ready == run.state = "open" /\ server # "down"

Closes(how) ==
    /\ run' = [run EXCEPT !.state = how.state, !.cause = how.cause, !.output = how.output]
    /\ wf' = [wf EXCEPT !.pc = "end"]
    /\ UNCHANGED <<server, clientVars, act, call, streaming, outages>>

FailsFor(cause) == Closes([state |-> "failed", cause |-> cause, output |-> <<>>])

InvalidInput == Ready /\ wf.pc = "start" /\ run.diff = "empty" /\ FailsFor("InvalidInput")

ParseFirst ==
    /\ Ready /\ wf.pc = "start" /\ run.diff = "given"
    /\ Schedule({Parse}, <<>>)
    /\ wf' = [wf EXCEPT !.pc = "parsing"]
    /\ UNCHANGED <<server, clientVars, run, call, streaming, outages>>

\* The future the code is in Get of.
Awaited ==
    CASE wf.pc = "parsing" -> Parse
      [] wf.pc = "analyzing" /\ Len(wf.outs) <= Len(Analyzers) -> Analyzers[Len(wf.outs)]
      [] wf.pc = "synthesizing" -> Synthesize
      [] OTHER -> "none"

Got(n, state) == Ready /\ Awaited = n /\ act[n].state = state

\* All analyzers are started in one workflow task, on the same text.
FanOut ==
    /\ Got(Parse, "completed")
    /\ Schedule(Range(Analyzers), <<act[Parse].result>>)
    /\ wf' = [pc |-> "analyzing", outs |-> <<act[Parse].result>>]
    /\ UNCHANGED <<server, clientVars, run, call, streaming, outages>>

\* Mutant: whichever analyzer is done is taken for the one awaited.
GetAny(n) ==
    /\ Ready /\ wf.pc = "analyzing" /\ Len(wf.outs) <= Len(Analyzers)
    /\ act[n].state = "completed"
    /\ wf' = [wf EXCEPT !.outs = Append(@, act[n].result)]
    /\ UNCHANGED <<server, clientVars, run, act, call, streaming, outages>>

\* Get of the next analyzer's future, in the order of the code.
GetAnalyzer(n) ==
    /\ Got(n, "completed")
    /\ wf' = [wf EXCEPT !.outs = Append(@, act[n].result)]
    /\ UNCHANGED <<server, clientVars, run, act, call, streaming, outages>>

SynthesizeLast ==
    /\ Ready /\ wf.pc = "analyzing" /\ Len(wf.outs) = 1 + Len(Analyzers)
    /\ Schedule({Synthesize}, Tail(wf.outs))
    /\ wf' = [wf EXCEPT !.pc = "synthesizing"]
    /\ UNCHANGED <<server, clientVars, run, call, streaming, outages>>

\* Mutant: a failed analyzer is passed over.
FailUnlessAnalyzer ==
    \E n \in {Parse, Synthesize} : Got(n, "failed") /\ FailsFor(n)

\* The first error met ends the workflow, whatever the other analyzers do.
ActivityFailed == \E n \in Nodes : Got(n, "failed") /\ FailsFor(n)

Synthesized ==
    /\ Got(Synthesize, "completed")
    /\ Closes([state |-> "completed", cause |-> "none",
               output |-> Append(wf.outs, act[Synthesize].result)])

CodeStep ==
    \/ InvalidInput \/ ParseFirst \/ FanOut
    \/ \E n \in Range(Analyzers) : GetAnalyzer(n)
    \/ SynthesizeLast \/ ActivityFailed \/ Synthesized

-----------------------------------------------------------------------------
(* The activities *)

Sets(n, a, c) == act' = [act EXCEPT ![n] = a] /\ call' = [call EXCEPT ![n] = c]

\* An attempt starts while the workflow is open, in a process that takes tasks.
Begin(n) ==
    /\ Ready /\ act[n].state = "scheduled"
    /\ Sets(n, [act[n] EXCEPT !.state = "running", !.attempts = @ + 1], NewCall)
    /\ Publish(RunID, "activity.started")
    /\ UNCHANGED <<server, client, run, wf, streaming, outages>>

InCall(n, c) ==
    /\ call[n].on /\ call' = [call EXCEPT ![n] = c]
    /\ UNCHANGED <<server, client, run, wf, act, streaming, outages>>

Streams(n) == streaming /\ n # Parse

\* All of an answer at once.
Whole(n) == [call[n] EXCEPT !.sent = TextLength, !.got = TextLength, !.end = "stop"]

\* The first activity only says what it was given.
ParseDiff ==
    /\ call[Parse] = NewCall
    /\ InCall(Parse, Whole(Parse))
    /\ UNCHANGED seen

\* A model that does not stream: the answer, or an error.  Either is emitted as
\* one chunk.
Answers(n, ok) ==
    /\ n # Parse /\ ~Streams(n) /\ call[n] = NewCall
    /\ InCall(n, IF ok THEN Whole(n) ELSE [call[n] EXCEPT !.end = "error"])
    /\ Publish(ContextID, "llm.token")

Producing(n) == Streams(n) /\ call[n].on /\ call[n].end = "open"
HasRoom(n) == call[n].sent - call[n].got < ChanCap

\* A text delta is put into the channel, or waits for room in it.
Delta(n) ==
    /\ Producing(n) /\ HasRoom(n) /\ call[n].sent < TextLength
    /\ InCall(n, [call[n] EXCEPT !.sent = @ + 1]) /\ UNCHANGED seen

\* message_stop: the last chunk says so, and the channel is closed.
Stop(n) ==
    /\ Producing(n) /\ HasRoom(n) /\ call[n].sent = TextLength
    /\ InCall(n, [call[n] EXCEPT !.end = "stop"]) /\ UNCHANGED seen

\* The request fails before there is a stream; or there is an error event, or a
\* body that cannot be read to its end, and the last chunk has the error.
StreamErrs(n) ==
    /\ Producing(n) /\ HasRoom(n)
    /\ InCall(n, [call[n] EXCEPT !.end = "error"]) /\ UNCHANGED seen

\* The body ends without message_stop: the channel is closed, and that is all.
StreamEnds(n) ==
    /\ Producing(n)
    /\ InCall(n, [call[n] EXCEPT !.end = "eof"]) /\ UNCHANGED seen

\* CollectStream takes a chunk and emits it.
Collect(n) ==
    /\ call[n].got < call[n].sent
    /\ InCall(n, [call[n] EXCEPT !.got = @ + 1])
    /\ Publish(ContextID, "llm.token")

\* What the server makes of an attempt that failed.  Of the types of error that
\* are not retried a configured worker produces none.
AfterFailure(n) ==
    [act[n] EXCEPT !.state = IF act[n].attempts < MaxAttempts THEN "scheduled" ELSE "failed"]

\* Mutant: an error in the last chunk is not looked at.
NeverErred(n) == FALSE

Erred(n) == call[n].end = "error"

\* The channel is closed and empty, or its last chunk was an error: the activity
\* emits its end and returns the text, or the error.  For a workflow that has
\* closed the result comes too late.
Return(n) ==
    /\ call[n].on /\ call[n].end # "open" /\ call[n].got = call[n].sent
    /\ Publish(RunID, "activity.completed")
    /\ Sets(n, CASE run.state # "open" -> [act[n] EXCEPT !.state = "dropped"]
                 [] run.state = "open" /\ Erred(n) -> AfterFailure(n)
                 [] OTHER -> [act[n] EXCEPT
                                 !.state = "completed",
                                 !.result = [attempt |-> act[n].attempts,
                                             len |-> call[n].got, end |-> call[n].end]],
               NoCall)
    /\ UNCHANGED <<server, client, run, wf, streaming, outages>>

\* StartToCloseTimeout: of an attempt under way, which is cancelled and may still
\* emit its end, or of one that went down with its process.
TimeOut(n) ==
    /\ run.state = "open" /\ act[n].state = "running"
    /\ Sets(n, AfterFailure(n), NoCall)
    /\ Publish(RunID, "activity.completed") \/ UNCHANGED seen
    /\ UNCHANGED <<server, client, run, wf, streaming, outages>>

CallStep(n) ==
    \/ n = Parse /\ ParseDiff
    \/ \E ok \in BOOLEAN : Answers(n, ok)
    \/ Delta(n) \/ Stop(n) \/ StreamErrs(n) \/ StreamEnds(n)
    \/ Collect(n) \/ Return(n)

-----------------------------------------------------------------------------
(* The process *)

Outage == outages < MaxOutages /\ outages' = outages + 1

\* SIGINT or SIGTERM: no new connections; worker and broker go on.
Signal ==
    /\ server = "up" /\ Outage
    /\ server' = "draining"
    /\ UNCHANGED <<clientVars, run, wf, act, call, streaming>>

\* The process ends and with it its calls, its streams, the handlers and whatever
\* the code of the workflow knew.  A browser opens a lost stream again.
GoesDown ==
    /\ server' = "down"
    /\ wf' = IF run.state = "open" THEN FromTheTop ELSE wf
    /\ call' = [n \in Nodes |-> NoCall]
    /\ seen' = {}
    /\ client' = CASE client = "watching" -> "knows"
                   [] client = "posting" -> "gone"
                   [] OTHER -> client
    /\ UNCHANGED <<run, act, streaming>>

\* Shutdown returns once no handler is active ...
Drained == server = "draining" /\ ~HandlersActive /\ GoesDown /\ UNCHANGED outages

\* Mutant: Shutdown without a deadline.
DrainedOnly == Drained

\* ... or after five seconds; then main stops the worker and closes the broker.
ShutdownExpires == server = "draining" /\ HandlersActive /\ GoesDown /\ UNCHANGED outages

Crash == server = "up" /\ Outage /\ GoesDown

Restart ==
    /\ server = "down"
    /\ server' = "up"
    /\ UNCHANGED <<clientVars, run, wf, act, call, streaming, outages>>

-----------------------------------------------------------------------------

Next ==
    \/ HandleRun \/ StartedElsewhere \/ Respond \/ HandleEvents \/ Disconnect
    \/ CodeStep
    \/ \E n \in Nodes : Begin(n) \/ CallStep(n) \/ TimeOut(n)
    \/ Signal \/ Drained \/ ShutdownExpires \/ Crash \/ Restart

Spec == Init /\ [][Next]_vars

\* The worker polls for workflow tasks and for activities, the server's timer
\* and Shutdown's deadline expire, and a process that is down is started again.
Fairness ==
    /\ WF_vars(CodeStep)
    /\ \A n \in Nodes : WF_vars(Begin(n)) /\ WF_vars(CallStep(n)) /\ WF_vars(TimeOut(n))
    /\ WF_vars(Drained) /\ WF_vars(ShutdownExpires) /\ WF_vars(Restart)

FairSpec == Spec /\ Fairness

-----------------------------------------------------------------------------
(* Properties *)

Results(nodes) == [i \in 1..Len(nodes) |-> act[nodes[i]].result]

\* Whatever was retried or crashed: the analyzers all worked on the text that was
\* parsed, the synthesis on the analyzers' recorded texts, each under its own
\* name, and the review is these and the synthesis.  A review that failed names
\* the first node, in the order of the code, that failed, and those before it
\* completed (review_workflow.go:118-175).
ReviewIsOfTheRecord ==
    LET order == <<Parse>> \o Analyzers \o <<Synthesize>>
    IN /\ TypeOK
       /\ \A n \in Range(Analyzers) :
              act[n].state # "none" => act[n].input = Results(<<Parse>>)
       /\ act[Synthesize].state # "none" => act[Synthesize].input = Results(Analyzers)
       /\ run.state = "completed" => run.output = Results(order)
       /\ run.state = "failed" /\ run.cause # "InvalidInput" =>
              \E i \in 1..Len(order) :
                  /\ run.cause = order[i] /\ act[order[i]].state = "failed"
                  /\ \A j \in 1..(i - 1) : act[order[j]].state = "completed"

\* The text an activity completes with is whole, unless the backend ended its
\* stream before message_stop, which nothing tells from the end of the text
\* (anthropic_stream.go:81-154, stream.go:101-123).
WholeUnlessCut ==
    \A n \in Nodes : act[n].state = "completed" =>
        \/ act[n].result.len = TextLength
        \/ act[n].result.end = "eof"

\* A run ends, and a failure among the analyzers, noticed in whatever order, ends
\* it (review_workflow.go:125-128): nothing is waited for that cannot come.
ReviewEnds == run.state = "open" ~> run.state \in {"completed", "failed"}

\* The process ends when told to.  The streams it waits for would outlast it, as
\* they are only closed by the broker it closes afterwards (main.go:146-163, 290).
ShutdownEnds == server = "draining" ~> server = "down"

\* A client that watches a run from before its first activity ends gets to see, if
\* the review is completed and it stays, one of: the run's start ("the UI wants to
\* know 'the workflow exists now'", main.go:239-241), a piece of an answer
\* ("the UI gets live updates", stream.go:21-27, broker.go:333-337), the run's end
\* ("emitted when a workflow finishes successfully", events.go:106, on which the
\* stream is to close).  Each of these promises implies it.
WatchersSeeTheRun ==
    client = "watching" /\ act[Parse].state \in {"none", "scheduled", "running"} ~>
        \/ client = "gone" \/ run.state = "failed"
        \/ {"workflow.started", "llm.token", "workflow.ended"} \cap seen # {}

=============================================================================
