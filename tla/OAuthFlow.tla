----------------------------- MODULE OAuthFlow -----------------------------
(***************************************************************************)
(* The sign-in of src/auth/oauth: StartFlow and the callback handler in    *)
(* the API server, the state mapper they share, OAuthFlowWorkflow and its  *)
(* three activities in a worker, and the provider that hands out and       *)
(* redeems authorization codes.                                            *)
(*                                                                         *)
(* A flow is one call of StartFlow; the State it generates and the ID of   *)
(* its workflow are unique to it and stand for it.  A code is known by the *)
(* request that first brought it, the tokens it buys by the code.          *)
(***************************************************************************)
EXTENDS TemporalActivities, FiniteSets

CONSTANTS
    Requests,       \* callbacks the browsers make
    Stray,          \* a State no flow has
    MaxStrays,      \* bound: signals that did not come from the handler, per flow
    MaxRestarts,    \* bound: restarts of the API server
    MaxCrashes      \* bound: losses of a worker

ASSUME OAuthKindsAssumption ==
    /\ Kinds = {"Exchange", "Whoami", "StoreTokens"}
    /\ {"ConfigurationError", "Rejected", "Timeout"} \subseteq ErrorTypes

ASSUME StrayAssumption == Stray \notin Workflows

Flows == Workflows
NoCode == <<>>

VARIABLES
    starter,        \* flow -> where its StartFlow is
    mapper,         \* MemoryStateMapper: the States it maps, each to its own flow
    request,        \* request -> where its handler is, and what it brought
    flow,           \* flow -> the server's record of the workflow
    local,          \* flow -> the variables of the workflow's code
    redeemed,       \* the codes the provider has exchanged
    stored,         \* history: the tokens put in the token store
    restarts, crashes

vars == <<starter, mapper, request, flow, local, redeemed, stored, restarts, crashes, log>>

FromTheTop == [pc |-> "begin", code |-> NoCode, issued |-> 0]

NotStarted ==
    [state |-> "none", verifier |-> TRUE, signals |-> <<>>, timer |-> "unset", tokens |-> NoCode]

NoRequest == [pc |-> "none", state |-> Stray, code |-> NoCode]

TypeOK ==
    /\ LogTypeOK
    /\ starter \in [Flows -> {"idle", "mapped", "unmapping", "started", "failed", "gone"}]
    /\ mapper \subseteq Flows
    /\ \A r \in Requests :
        /\ request[r].pc \in {"none", "parsed", "found", "signalled", "success", "error", "gone"}
        /\ request[r].state \in Flows \cup {Stray} /\ request[r].code \in Requests \cup {NoCode}
    /\ \A f \in Flows :
        /\ flow[f].state \in {"none", "open", "completed", "failed"}
        /\ flow[f].timer \in {"unset", "running", "fired"}
        /\ flow[f].tokens \in Requests \cup {NoCode}
        /\ local[f].pc \in {"begin", "select", "exchange", "exchanging", "whoami", "asking",
                            "store", "storing", "stuck", "end"}
        /\ local[f].issued \in 0..3
    /\ redeemed \subseteq Requests /\ stored \subseteq Requests

Init ==
    /\ starter = [f \in Flows |-> "idle"]
    /\ mapper = {}
    /\ request = [r \in Requests |-> NoRequest]
    /\ flow = [f \in Flows |-> NotStarted]
    /\ local = [f \in Flows |-> FromTheTop]
    /\ redeemed = {} /\ stored = {}
    /\ restarts = 0 /\ crashes = 0
    /\ NoActivities

IsOpen(f) == flow[f].state = "open"

-----------------------------------------------------------------------------
(* StartFlow *)

StarterBecomes(f, pc) == starter' = [starter EXCEPT ![f] = pc]

\* A required input is missing, the provider is not registered, its Authorize
\* fails or returns no State.
Refuse(f) ==
    /\ starter[f] = "idle"
    /\ StarterBecomes(f, "failed")
    /\ UNCHANGED <<mapper, request, flow, local, redeemed, stored, restarts, crashes, log>>

\* mapper.Put: before the workflow exists.  An Authorize arrow may leave out
\* the code verifier; the workflow's input then has none.
PutState(f, verifier) ==
    /\ starter[f] = "idle"
    /\ StarterBecomes(f, "mapped")
    /\ mapper' = mapper \cup {f}
    /\ flow' = [flow EXCEPT ![f].verifier = verifier]
    /\ UNCHANGED <<request, local, redeemed, stored, restarts, crashes, log>>

\* tc.ExecuteWorkflow returns; the caller redirects the browser to the URL.
Started(f) ==
    /\ starter[f] = "mapped"
    /\ StarterBecomes(f, "started")
    /\ flow' = [flow EXCEPT ![f].state = "open"]
    /\ UNCHANGED <<mapper, request, local, redeemed, stored, restarts, crashes, log>>

\* It returns an error; the server may have started the workflow all the same.
StartFails(f, opened) ==
    /\ starter[f] = "mapped"
    /\ StarterBecomes(f, "unmapping")
    /\ flow' = [flow EXCEPT ![f].state = IF opened THEN "open" ELSE "none"]
    /\ UNCHANGED <<mapper, request, local, redeemed, stored, restarts, crashes, log>>

DeleteOnFailure(f) ==
    /\ starter[f] = "unmapping"
    /\ StarterBecomes(f, "failed")
    /\ mapper' = mapper \ {f}
    /\ UNCHANGED <<request, flow, local, redeemed, stored, restarts, crashes, log>>

StartFlow(f) ==
    \/ Refuse(f) \/ \E verifier \in BOOLEAN : PutState(f, verifier)
    \/ Started(f) \/ \E opened \in BOOLEAN : StartFails(f, opened)
    \/ DeleteOnFailure(f)

-----------------------------------------------------------------------------
(* The callback handler *)

RequestBecomes(r, pc) == request' = [request EXCEPT ![r].pc = pc]

\* Codes a browser may bring for a flow: that of a new consent, or, when a
\* page is loaded again, that of an earlier request.
CodesFor(r, f) == {r} \cup {request[q].code : q \in {q \in Requests : request[q].state = f}}

\* ParseCallback finds code and state.
Arrives(r, f, code) ==
    /\ request[r].pc = "none"
    /\ starter[f] = "started" /\ code \in CodesFor(r, f)
    /\ request' = [request EXCEPT ![r] = [pc |-> "parsed", state |-> f, code |-> code]]
    /\ UNCHANGED <<starter, mapper, flow, local, redeemed, stored, restarts, crashes, log>>

\* The provider redirected with ?error=, or something is missing: status 400.
\* The workflow is told nothing.
ArrivesWithError(r) ==
    /\ request[r].pc = "none"
    /\ RequestBecomes(r, "error")
    /\ UNCHANGED <<starter, mapper, flow, local, redeemed, stored, restarts, crashes, log>>

\* mapper.Get
Lookup(r) ==
    /\ request[r].pc = "parsed"
    /\ RequestBecomes(r, IF request[r].state \in mapper THEN "found" ELSE "error")
    /\ UNCHANGED <<starter, mapper, flow, local, redeemed, stored, restarts, crashes, log>>

Signalled(f, code, state) ==
    flow' = [flow EXCEPT ![f].signals = Append(@, [code |-> code, state |-> state])]

\* tc.SignalWorkflow
Signal(r) ==
    /\ request[r].pc = "found" /\ IsOpen(request[r].state)
    /\ RequestBecomes(r, "signalled")
    /\ Signalled(request[r].state, request[r].code, request[r].state)
    /\ UNCHANGED <<starter, mapper, local, redeemed, stored, restarts, crashes, log>>

\* Mutant: the mapping goes whether or not the signal got through.
DeleteWhateverTheSignal(r) ==
    /\ request[r].pc = "found"
    /\ RequestBecomes(r, "error")
    /\ mapper' = mapper \ {request[r].state}
    /\ UNCHANGED <<starter, flow, local, redeemed, stored, restarts, crashes, log>>

\* The workflow is closed, the server is not reached, or only its reply is
\* lost: status 500.
SignalFails(r) ==
    /\ request[r].pc = "found"
    /\ RequestBecomes(r, "error")
    /\ \/ UNCHANGED flow
       \/ /\ IsOpen(request[r].state)
          /\ Signalled(request[r].state, request[r].code, request[r].state)
    /\ UNCHANGED <<starter, mapper, local, redeemed, stored, restarts, crashes, log>>

\* mapper.Delete and the page that says the authorization is complete.
DeleteState(r) ==
    /\ request[r].pc = "signalled"
    /\ RequestBecomes(r, "success")
    /\ mapper' = mapper \ {request[r].state}
    /\ UNCHANGED <<starter, flow, local, redeemed, stored, restarts, crashes, log>>

Handler(r) ==
    \/ \E f \in Flows : \E code \in CodesFor(r, f) : Arrives(r, f, code)
    \/ ArrivesWithError(r)
    \/ Lookup(r) \/ Signal(r) \/ SignalFails(r) \/ DeleteState(r)

\* The API server stops: the mapper and all it was doing are lost.
Restart ==
    /\ restarts < MaxRestarts
    /\ restarts' = restarts + 1
    /\ mapper' = {}
    /\ starter' = [f \in Flows |-> IF starter[f] \in {"mapped", "unmapping"}
                                   THEN "gone" ELSE starter[f]]
    /\ request' = [r \in Requests |->
                      IF request[r].pc \in {"parsed", "found", "signalled"}
                      THEN [request[r] EXCEPT !.pc = "gone"] ELSE request[r]]
    /\ UNCHANGED <<flow, local, redeemed, stored, crashes, log>>

\* Any client of Temporal may signal the workflow, with any State.
StraySignal(f) ==
    /\ IsOpen(f)
    /\ Cardinality({k \in 1..Len(flow[f].signals) : flow[f].signals[k].state = Stray}) < MaxStrays
    /\ Signalled(f, NoCode, Stray)
    /\ UNCHANGED <<starter, mapper, request, local, redeemed, stored, restarts, crashes, log>>

-----------------------------------------------------------------------------
(* OAuthFlowWorkflow *)

LocalBecomes(f, pc) == local' = [local EXCEPT ![f].pc = pc]

Closes(f, state, tokens) ==
    /\ flow' = [flow EXCEPT ![f].state = state, ![f].tokens = tokens]
    /\ LocalBecomes(f, "end")
    /\ UNCHANGED <<starter, mapper, request, redeemed, stored, restarts, crashes, log>>

Fails(f) == Closes(f, "failed", NoCode)

At(f, pc) == IsOpen(f) /\ local[f].pc = pc

\* Mutant: a CallbackTimeout of zero is no timeout.
BeginUndefaulted(f) ==
    /\ At(f, "begin") /\ flow[f].verifier
    /\ LocalBecomes(f, "select")
    /\ UNCHANGED <<starter, mapper, request, flow, redeemed, stored, restarts, crashes, log>>

\* The timer is set; on replay it is the one the history has.
Begin(f) ==
    /\ At(f, "begin") /\ flow[f].verifier
    /\ LocalBecomes(f, "select")
    /\ flow' = [flow EXCEPT ![f].timer = IF @ = "unset" THEN "running" ELSE @]
    /\ UNCHANGED <<starter, mapper, request, redeemed, stored, restarts, crashes, log>>

\* InvalidInput.
BeginFails(f) == At(f, "begin") /\ ~flow[f].verifier /\ Fails(f)

Callback(f) == Head(flow[f].signals)

\* Mutant: the latest callback counts.
AcceptLatestCallback(f) ==
    LET latest == flow[f].signals[Len(flow[f].signals)] IN
    /\ At(f, "select") /\ flow[f].signals # <<>> /\ latest.state = f
    /\ local' = [local EXCEPT ![f].pc = "exchange", ![f].code = latest.code]
    /\ UNCHANGED <<starter, mapper, request, flow, redeemed, stored, restarts, crashes, log>>

\* The selector finds a signal; it looks for one before it looks at the timer.
AcceptCallback(f) ==
    /\ At(f, "select") /\ flow[f].signals # <<>> /\ Callback(f).state = f
    /\ local' = [local EXCEPT ![f].pc = "exchange", ![f].code = Callback(f).code]
    /\ UNCHANGED <<starter, mapper, request, flow, redeemed, stored, restarts, crashes, log>>

\* CSRFViolation.
StateMismatch(f) ==
    At(f, "select") /\ flow[f].signals # <<>> /\ Callback(f).state # f /\ Fails(f)

CallbackTimeout(f) ==
    At(f, "select") /\ flow[f].signals = <<>> /\ flow[f].timer = "fired" /\ Fails(f)

Execute(f, from, input, waiting) ==
    /\ At(f, from)
    /\ Issue(f, local[f].issued, input)
    /\ local' = [local EXCEPT
                    ![f].pc = IF Replayable(f, local[f].issued, input) THEN waiting ELSE "stuck",
                    ![f].issued = @ + 1]
    /\ UNCHANGED <<starter, mapper, request, flow, redeemed, stored, restarts, crashes>>

Exchange(f) ==
    Execute(f, "exchange", [kind |-> "Exchange", code |-> local[f].code], "exchanging")

Tokens(f) == log[f][1].result

Whoami(f) == Execute(f, "whoami", [kind |-> "Whoami", tokens |-> Tokens(f)], "asking")

StoreTokens(f) ==
    Execute(f, "store", [kind |-> "StoreTokens", tokens |-> Tokens(f)], "storing")

Goes(f, from, to) ==
    /\ At(f, from) /\ Ended(f, local[f].issued, "completed")
    /\ LocalBecomes(f, to)
    /\ UNCHANGED <<starter, mapper, request, flow, redeemed, stored, restarts, crashes, log>>

Exchanged(f) == Goes(f, "exchanging", "whoami")
Identified(f) == Goes(f, "asking", "store")

\* Mutant: the result of StoreTokens is not awaited.
CompletesEarly(f) == At(f, "storing") /\ Closes(f, "completed", Tokens(f))

Completes(f) ==
    /\ At(f, "storing") /\ Ended(f, local[f].issued, "completed")
    /\ Closes(f, "completed", Tokens(f))

ActivityFailed(f) ==
    /\ IsOpen(f) /\ local[f].pc \in {"exchanging", "asking", "storing"}
    /\ Ended(f, local[f].issued, "failed")
    /\ Fails(f)

CodeStep(f) ==
    \/ Begin(f) \/ BeginFails(f)
    \/ AcceptCallback(f) \/ StateMismatch(f) \/ CallbackTimeout(f)
    \/ Exchange(f) \/ Exchanged(f) \/ Whoami(f) \/ Identified(f) \/ StoreTokens(f)
    \/ Completes(f) \/ ActivityFailed(f)

TimerFires(f) ==
    /\ IsOpen(f) /\ flow[f].timer = "running"
    /\ flow' = [flow EXCEPT ![f].timer = "fired"]
    /\ UNCHANGED <<starter, mapper, request, local, redeemed, stored, restarts, crashes, log>>

WorkerLost(f) ==
    /\ IsOpen(f) /\ local[f] # FromTheTop
    /\ crashes < MaxCrashes
    /\ crashes' = crashes + 1
    /\ local' = [local EXCEPT ![f] = FromTheTop]
    /\ UNCHANGED <<starter, mapper, request, flow, redeemed, stored, restarts, log>>

-----------------------------------------------------------------------------
(* The activities *)

Attempting(f, kind) == IsOpen(f) /\ Pending(f, "running") /\ Latest(f).input.kind = kind

StartActivity(f) ==
    /\ IsOpen(f) /\ StartAttempt(f)
    /\ UNCHANGED <<starter, mapper, request, flow, local, redeemed, stored, restarts, crashes>>

\* The provider redeems a code once.  Its reply may be lost.
Redeems(f) ==
    /\ Attempting(f, "Exchange") /\ Latest(f).input.code \notin redeemed
    /\ redeemed' = redeemed \cup {Latest(f).input.code}
    /\ AttemptSucceeds(f, Latest(f).input.code) \/ AttemptFails(f, "Timeout")
    /\ UNCHANGED <<starter, mapper, request, flow, local, stored, restarts, crashes>>

RedeemRejected(f) ==
    /\ Attempting(f, "Exchange") /\ Latest(f).input.code \in redeemed
    /\ AttemptFails(f, "Rejected")
    /\ UNCHANGED <<starter, mapper, request, flow, local, redeemed, stored, restarts, crashes>>

Identifies(f) ==
    /\ Attempting(f, "Whoami") /\ AttemptSucceeds(f, "identity")
    /\ UNCHANGED <<starter, mapper, request, flow, local, redeemed, stored, restarts, crashes>>

\* store.Put; the worker may be lost before it reports.
Puts(f) ==
    /\ Attempting(f, "StoreTokens")
    /\ stored' = stored \cup {Latest(f).input.tokens}
    /\ AttemptSucceeds(f, "stored") \/ AttemptFails(f, "Timeout")
    /\ UNCHANGED <<starter, mapper, request, flow, local, redeemed, restarts, crashes>>

\* The network or the store fails, the worker is lost, or nothing is
\* registered under the name.
ActivityErrs(f, type) ==
    /\ IsOpen(f) /\ type \in {"Timeout", "ConfigurationError"} /\ AttemptFails(f, type)
    /\ UNCHANGED <<starter, mapper, request, flow, local, redeemed, stored, restarts, crashes>>

ActivityEnds(f) ==
    \/ Redeems(f) \/ RedeemRejected(f) \/ Identifies(f) \/ Puts(f)
    \/ \E type \in ErrorTypes : ActivityErrs(f, type)

-----------------------------------------------------------------------------

FlowStep(f) ==
    \/ StartFlow(f) \/ StraySignal(f) \/ CodeStep(f) \/ TimerFires(f) \/ WorkerLost(f)
    \/ StartActivity(f) \/ ActivityEnds(f)

Next == Restart \/ (\E r \in Requests : Handler(r)) \/ (\E f \in Flows : FlowStep(f))

Spec == Init /\ [][Next]_vars

\* Temporal fires timers, hands workflow and activity tasks to the workers that
\* poll, and times out attempts.  Nothing is assumed of browsers or the API server.
FairSpec ==
    /\ Spec
    /\ \A f \in Flows : /\ WF_vars(CodeStep(f)) /\ WF_vars(TimerFires(f))
                        /\ WF_vars(StartActivity(f)) /\ WF_vars(ActivityEnds(f))

-----------------------------------------------------------------------------
(* Properties *)

\* However many callbacks arrive, and whichever worker replays the workflow, a
\* flow redeems the code of the first callback alone, one with its own State
\* (workflow.go:137-164).
FirstCallbackCounts ==
    /\ TypeOK
    /\ \A f \in Flows :
        /\ local[f].pc # "stuck"
        /\ log[f] # <<>> => /\ log[f][1].input = [kind |-> "Exchange", code |-> Callback(f).code]
                            /\ Callback(f).state = f

\* As long as the API server runs, the browser that was sent to the provider
\* finds its flow until a callback has reached it, even after callbacks that
\* failed (start.go:131-134, callback.go:90-100).
StateIsKeptForTheCallback ==
    \A f \in Flows :
        starter[f] = "started" /\ IsOpen(f) /\ flow[f].signals = <<>> /\ restarts = 0
            => f \in mapper

\* A session is reported only for tokens that were bought with the code of the
\* flow's callback and are in the store (workflow.go:203-222).
SessionIsStored ==
    \A f \in Flows : flow[f].state = "completed" =>
        flow[f].tokens = Callback(f).code /\ flow[f].tokens \in redeemed \cap stored

\* A flow that was started closes, with or without a callback (workflow.go:125-154).
FlowsClose == \A f \in Flows : IsOpen(f) ~> ~IsOpen(f)

=============================================================================
