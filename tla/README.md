# TLA+ models of sibyl

This directory holds a specification of the parts of sibyl that keep state and
run concurrently: the event broker, the Temporal workflows (plans, convergence,
supervision, PR review, OAuth sign-in), the API server that starts a review and
shows it, the tool agent with the caches and retries its completions go through,
the token store with those who refresh its tokens, and the channels over which
humans are asked for a verdict. Every definition is a translation of the Go
source; `PROJECT.json` maps each to its lines. The models are checked with TLC on
small instances, and their safety properties are proved with TLAPS for all values
of the constants.

Contents

1. [The system](#1-the-system)
2. [The modules](#2-the-modules)
3. [The runs](#3-the-runs)
4. [What the code does and its documents do not say](#4-what-the-code-does-and-its-documents-do-not-say)
5. [Fairness](#5-fairness)
6. [The proofs](#6-the-proofs)
7. [What is not modelled](#7-what-is-not-modelled)
8. [The plan](#8-the-plan)

## 1. The system

sibyl runs teams of language-model agents on Temporal. A client (`cmd/ask`,
`cmd/ask-supervisor`, `cmd/api-server`) starts a workflow; workers (`worker/`,
`cmd/worker`) run the workflow code and its activities; activities call the
model, publish events to a broker, ask humans over channels, and call APIs on a
user's behalf with tokens from a store. `*` marks what is modelled.

| Component | State | Operations | What makes it hard | What makes it correct |
|---|---|---|---|---|
| Event broker* `agent/broker.go` | registry of subscriptions (by workflow, and to all), closed flag, counters, one buffered Go channel per subscription | Publish, Subscribe, SubscribeAll, cancel, Close, Stats | lock taken only for the registry; sends to a snapshot outside the lock; three parties close channels | no send blocks, no event vanishes uncounted, order per publisher, no channel left open or closed twice |
| Emitter* `agent/broker.go`, `broker_temporal.go`, `events.go` | none | stamp an event with the workflow ID, find the emitter in a context | events without an ID reach only subscribers to all | events reach their workflow's stream |
| Plans* `plan/plan.go` | none (pure) | merge options, Validate, Layers, Leaves | map iteration, repeated requirements, cycles | layers are the depths of the graph, in an order that does not depend on the map |
| Plan workflow* `plan/workflow.go` | outputs so far, position in the layers; history on the server | Submit, dispatch a layer, await its nodes | crash and replay, retries, partial failure | runs the plan as a DAG, each node once, replays deterministically, ends |
| Convergence workflow* `agent/workflow.go`, `activities.go` | round, previous answer, feedback, history of rounds | Research, Critique, approve or carry forward, give up | locals lost with the worker, malformed verdicts, at-least-once activities | each round revises the round before; the answer is the one last judged; bounded cost |
| Supervisor workflow* `agent/supervisor.go`, `decompose.go` | subquestions, children's futures, their answers | decompose, start children, collect, synthesize | children end in any order, some fail; parent-close policy; replay | everyone's answer in its place; fails only when it must; closes last |
| PR review workflow* `agent/review_workflow.go` | futures of three analyzers | parse, three analyzers side by side, synthesize | fixed await order, first error abandons the rest, partial tokens streamed | all findings or an error |
| Streaming* `agent/stream.go`, `anthropic_stream.go` | a channel of chunks, accumulated text | produce, collect, publish | cancellation, a stream that ends early | the text is whole or the caller gets an error |
| Tool agent* `agent/tools.go`, `tool_agent.go`, `tools_builtin.go` | steps of the loop | decide, call a tool, finish | the whole loop is one activity: a retry starts again and may overlap the attempt that timed out | bounded steps; each decision was made for the steps before it |
| Middleware, caches* `agent/middleware.go`, `cache_sqlite.go`, `tokens.go` | entries with expiry; counters | retry, Get, Set, Vacuum | check-then-delete in two critical sections | no fresh value lost, no stale value returned |
| Channels* `channels/`, `channels/slack`, `channels/temporal` | posted references, the race of waiters | Notify, Await, Post, AwaitVerdict | adapters race; timeouts, errors and empty verdicts; the wait is one activity attempt | the first real verdict wins, a timeout is not a verdict |
| Human verdicts* `agents/` | agent registry | Register, WithHumanVerdict and its policies | what becomes of an output on timeout or error | an output passes only if the policy says so |
| OAuth flow* `auth/oauth/{start,callback,workflow,activities}.go` | State to workflow mapping (memory); workflow's history; codes redeemed at the provider | StartFlow, callback handler, wait for signal or timer, exchange, identify, store | several callbacks, lost replies, restart of the API server, timer against signal | one callback is redeemed, sessions are stored, flows end |
| Token refresh* `auth/oauth/{flow,store,store_sqlite}.go`, `agents/oauth.go` | the stored pair; every caller's own copy | WithRefresh, CurrentSession, sign-in, Delete | two refreshes of one pair, rotation, crash between refresh and Put | tokens are stored before use; the sign-in is not lost |
| API server* `cmd/api-server` | the process: broker, worker, open streams | run, stream events (SSE), shut down | subscription against publication; end of a stream; shutdown with streams open | a watcher sees the run; the process ends when told to |

How they interact. Activities and workflow code publish through the broker; the
API server's SSE handlers are its subscribers. Supervisors start convergence
workflows as children. The API server's callback handler signals OAuth
workflows through Temporal and shares the state mapper with StartFlow. OAuth
workflows put into the token store what agents later load and refresh. Temporal
stands between all workflows and activities: it keeps the history, retries
attempts, fires timers and hands tasks to whichever worker polls.

The hazards these interactions bring are listed in `PROJECT.json`, each at the
line where it bites, with the properties that cover it.

## 2. The modules

### Broker, PubSub, MCBroker, BrokerProofs

`Broker` models `agent/broker.go` at the granularity of its atomic steps: an
atomic load, add or compare-and-swap, one critical section of `b.mu`, or one
channel operation.

| Code | Model |
|---|---|
| `b.closed`, `b.workflowSubs`, `b.allSubs`, `b.published`, `b.dropped` | `closed`, `workflowSubs`, `allSubs`, `published`, `dropped` |
| `subscription.ch` | `chan` (nil, open, closed by cancel, closed by Close), `log` (everything it accepted), `read` (how much was received), `cap` |
| Publish: check, count, snapshot, one select per subscription, return | `PublishCheck`, `PublishCount`, `PublishSnapshot`, `PublishSend` / `PublishDrop` / `PublishPanic`, `PublishReturn` |
| Subscribe, SubscribeAll | `Subscribe`, `SubscribeAll` (one critical section each) |
| cancel: unregister, then `close(ch)` | `CancelRemove`, `CancelClose` |
| Close: compare-and-swap, snapshot, `safeClose` of each | `CloseSwap`, `CloseSnapshot`, `SafeClose`, `CloseReturn` |

A channel is kept as the log of all it ever accepted, so that order and
duplication can be stated. Slices of subscriptions are sets, which allows every
order of visiting them. A panic ends the goroutine's call and the others go on,
as Temporal recovers panics in activities and net/http those in handlers. A
Publish on a closed broker returns and changes nothing, so it is not a step.

`PubSub` is the abstract specification: a mailbox accepts events of its topic,
those of one publisher in order, each at most once, never above its capacity and
never once closed. `Broker` implements it under the mapping that forgets the
registry and who closed a channel (`Mailboxes`, `DeliversAsPromised`).

### DagRun, PlanWorkflow, MCPlanWorkflow, PlanWorkflowProofs

`PlanWorkflow` models the whole of `plan/plan.go` and `plan/workflow.go`:
`Options.Over` and `check`, `Validate`, the layering loop one round at a time,
`Leaves`, and the workflow: dispatch of a layer, the awaits in order, the return.
Variables are split into `memory` (what a worker holds, lost in `Crash`) and
`history` (what the server holds). After a crash the code runs again from the
top; each command is compared with the history, and one that differs sets
`pc = "stuck"`, Temporal's non-determinism error. Node IDs are numbers, `SortIDs`
(`sort.Slice`) is a constant operator, an activity's output is the number of
the attempt that gave it.

`DagRun` is the abstract specification: a plan that is not well formed is
rejected and nothing of it runs; of a well-formed one a node starts once and
after all it requires has an output; the run completes when all have, and fails
only because a node failed. It does not know layers, awaits, crashes or retries.

### TemporalActivities, Converge, Supervisor and their MC and proof modules

`TemporalActivities` is the server's part, shared by all workflows that run one
activity at a time: the history, attempts, the retry policy, and the matching of
commands on replay (`Issue`, `Replayable`).

`Converge` is `ConvergeWorkflow` with Research and Critique, for a set of
workflows side by side. A text is known by the attempt that wrote it, so two
attempts never write the same text; that is what makes it observable whether
the critic judged the very answer on record. `parseVerdict`'s failure is an
error type of its own.

`Supervisor` extends `Converge`: its children are the runs of `Converge`, which
it starts, awaits by index and terminates when it closes (`ParentClosePolicy`).
A question is the number of its parts. A subscript out of range in workflow code
(`subAnswers[0]`) is `pc = "panic"`: the workflow task is retried for ever.

`MCSupervisor` has two sorts of initial states: a supervisor is asked, or a client
starts a convergence workflow itself, well or wrongly asked (`AskedDirectly`, in
which the supervisor's code has nothing to do). The proofs are about each on its
own, `SupSpec` and `Spec`.

### OAuthFlow, MCOAuthFlow, OAuthFlowProofs

`OAuthFlow` models the sign-in across three processes.

| Code | Model |
|---|---|
| `StartFlow` | `Refuse`, `PutState`, `Started` / `StartFails`, `DeleteOnFailure`; `StartFails` may leave a workflow behind when only the reply is lost |
| `MemoryStateMapper` | `mapper`, emptied by `Restart` ("Lost on restart") |
| `NewCallbackHandler` | `Arrives` / `ArrivesWithError`, `Lookup`, `Signal` / `SignalFails`, `DeleteState` |
| `OAuthFlowWorkflow` | `Begin`, `BeginFails`, `AcceptCallback`, `StateMismatch`, `CallbackTimeout`, `Exchange` ... `Completes`, `ActivityFailed` |
| activities | `Redeems`, `RedeemRejected`, `Identifies`, `Puts`, `ActivityErrs` |

A State is the flow it was generated for; a code is the request that first
brought it; the tokens a code buys are named after the code. The provider
redeems a code once and its reply may be lost. A browser may load the callback
page again, come back with a new consent, or bring an error. Any client of
Temporal may signal a workflow (`StraySignal`). The selector prefers a signal to
the timer, as the SDK's does: it tries its cases in the order they were added.

### TokenRefresh, TokenRefreshProofs

`TokenRefresh` models one identity at one provider: the store, any number of
callers of `WithRefresh` (which `WithOAuth` delegates to) and `CurrentSession`,
a sign-in that obtains a pair and later puts it, and deletions. Get, Put and
Delete are atomic, under a lock in memory and one statement in SQL; between them
each caller works on its own copy, and may stop. The provider is of one of three
kinds: it repeats the refresh token in its reply, rotates it, or leaves it out.
In the last case `postForm` makes a pair whose refresh token is empty
(`okta.go:213-218`) and the store loses the good one; the model has this, see
section 4. Access tokens age from fresh over expiring to expired; an API may
also reject a token that has not expired. Encryption, `List` and the SQL schema
are left out: they change nothing that a caller reads back.

### HumanVerdict, MCHumanVerdict, HumanVerdictProofs

`HumanVerdict` models one ask, made either by the behaviour `WithHumanVerdict`
(`mode = "behaviour"`) or by a workflow through the activities of
`channels/temporal` (`"workflow"`).

| Code | Model |
|---|---|
| `Dispatcher.channels`, with nil fields | `registry`: channel -> its capabilities |
| what the router selects | `route`; the empty one is also a router that fails, as callers treat both alike |
| `Dispatcher.Notify` | `NoTarget`, `Post` (the reply, and with it the receipt, may be lost), `PostFails`, `Posted` |
| `PostFromWorkflow` | `RetryPost`, `PostTimesOut`: an attempt that is retried leaves its messages behind and loses its receipts |
| `Dispatcher.Await`, one channel | `AwaitRefused`, `AwaitSingle`, `SingleReturns` |
| `Dispatcher.Await`, several | `AwaitRace`, `Launch` (the map's order is any order), `Take`, `RaceCancelled`, `RaceEnds` |
| the Slack adapter's `await` | `waiter`: `Read` / `ReadFails` per receipt of its channel, in the receipts' order, `EndRound`, `Tick` or `WaitCancelled`, `Send` |
| `raceCtx`, cancelled by `defer cancel()` | `ContextDone`: the caller's context, or a race that is over |
| `AwaitVerdictFromWorkflow` | `StartAwait`, `WorkerLost`, `HeartbeatTimesOut`; `Redeploy` is a worker with another registry that takes the activity with receipts from the history |
| `AlwaysAskPolicy.OnVerdict` | `OnVerdict` |

All waiters poll as the Slack adapter does; it is the only adapter in the
repository outside tests. A message is known by its place among those posted, a
reaction by the choice it maps to; reactions that are not mapped, not allowed or
have no user are `Ignored`. A channel's receipts (`Group`) and the reactions that
count (`Valid`) are sets of places, and the next or first of them is the least
place. Empty strings and nil errors are `"none"`. Humans react and take reactions back at any time.
`StartToCloseTimeout` of the wait is five minutes longer than the wait and is
left out. `TimeoutMeansSomeoneWaited` states what `channels/types.go` says of a wait on
channels that cannot wait; it has a run of its own in which it is violated
(section 4).

### Review, MCReview, ReviewProofs

`Review` models one run of `PRReviewWorkflow` as `cmd/api-server` hosts it, with
one client that watches it. The process holds the worker, the broker and the
HTTP handlers, and they go down together; what Temporal keeps (`run`, `act`)
outlives it.

| Code | Model |
|---|---|
| `PRReviewWorkflow` | `InvalidInput`, `ParseFirst`, `FanOut`, `GetAnalyzer` (in the code's order), `SynthesizeLast`, `ActivityFailed`, `Synthesized`; `wf` is lost with the process and the code starts again, its commands matched with `act` |
| `ParseDiff`, `runAnalyzer`, `SynthesizeReview` | `Begin`, `ParseDiff` or what `callLLMWithStreaming` does, `Return`, with the events they emit; `TimeOut` |
| `CompleteWithStreaming` without a stream | `Answers` |
| `AnthropicClient.CompleteStream` | `Delta`, `Stop`, `StreamErrs`, `StreamEnds`, into a channel of `ChanCap` |
| `CollectStream` | `Collect`, and the error of the last chunk in `Return` |
| `EmitterForActivity`, `EmitterFromContext` | the IDs they publish under, `RunID` and `ContextID` |
| `handleRun`, `handleEvents` | `HandleRun`, `Respond`; `HandleEvents`, `Disconnect` |
| shutdown in `main` | `Signal`, `Drained` or `ShutdownExpires`; also `Crash`, `Restart` |

A text is the attempt that produced it, how many of its pieces arrived and how its
stream ended. The broker is what `PubSub` promises of it: who is subscribed to an
ID is sent what is published under it; that is what the run `broker` and the
proofs show, so its steps are not repeated here. `Parse` is an activity like the
others but for not asking a model.

### Completion, ToolAgent, MCToolAgent, ToolAgentProofs

`Completion` is the chain of middleware both workers put around the model:
`WithCache` outermost, `WithRetry` inside, the memory or the SQLite cache. A Get
that finds an expired entry (`FindStale`) deletes it in a second critical section
(`DeleteStale`), and between the two another caller may have stored a fresh one.
Two callers of one prompt both ask. With `Durable`, the database may refuse any
operation, which is a miss or a lost Set, and survives a crash. It has steps and
no `Next`: who calls, with which prompt, is for the module that extends it.

`ToolAgent` extends it: the callers are the attempts at one execution of
`RunToolAgent`. After StartToCloseTimeout the next attempt begins while the last
may still be in its process, with a cancelled context that ends the retry's delay
(unless the delay is over too, when Go's `select` may take either) and that
neither the cache nor a tool nor the model has to notice: an answer may be there
already, and a scripted model does not look. A prompt is the
history of the attempt's own steps (`buildToolAgentUserMessage`: the rest of it is
the same for all attempts), and a decision is the name of a tool or how the loop
ends. That the same tool is called with other arguments is not told apart from
its giving another result.

## 3. The runs

| Run | Instance | States | Shows |
|---|---|---|---|
| `broker` | 2 publishers, 1 subscription, 2 closers, 2 events, buffers of 1 | ~110 000 | types; the registry holds only open channels (`RegistryOpen`); no open channel is forgotten (`NoOrphanChannel`); every send is accepted, counted as dropped or cut off by a panic (`SendsAccountedFor`); `Broker` implements `PubSub`; Publish returns even if nobody reads; Close reaches every registered subscription |
| `broker_panics` | 2 publishers, 2 subscriptions, 1 closer | violation | `CloseIsFine`, see 4.1 and 4.2 |
| `plan` | all requires-graphs over 3 nodes in which a node requires up to two others or one twice (125), one plan for each way of being ill formed, one with defaults on three levels; 1 crash | ~23 500 | types, and replay is deterministic; upstream outputs are those on record; attempts follow the merged policy; layers are depths; results are whole; `PlanWorkflow` implements `DagRun`; every run ends |
| `supervisor` | up to 2 children at a time, of up to 2 rounds, budgets of 0, 1 and -1 for up to 3 parts, or 1 workflow asked directly for 0 to 3 rounds; 2 attempts, 1 lost worker | 422 076 | rounds revise; the answer is the last judged; no model call after a fatal error; every convergence workflow closes; answers in their places; closes last; fails only as documented; cost is capped; ends unless the question is blank |
| `supervisor_blank` | a question of spaces | violation | `SupervisorEnds`, see 4.3 |
| `oauth_flow` | 1 flow, 2 callbacks, 1 stray signal, 1 restart, 1 lost worker, 2 attempts | ~548 000 | one callback, the first, is redeemed; the mapping is kept until a callback got through; a session reported is a session stored; flows close |
| `token_refresh` | 2 callers, 3 access tokens, 1 more sign-in, 1 deletion, all three kinds of provider | 597 315 | tokens are stored before they are used; retries use newer ones; the stored pair can be refreshed, but where the provider rotates and a caller that has spent its token owes the store the successor |
| `human_verdict` | 1 or 2 channels of every capability, 10 setups, 2 reactions, 2 attempts at posting, 1 cancellation, redeployment or lost worker | 291 550 | only a choice a human gave is acted on; where anyone can wait, a wait without a verdict is a timeout exactly if it is everyone's; a standing reaction is not missed; no goroutine is left behind; asks end |
| `human_verdict_deaf` | 2 channels, neither of which can wait | violation | `TimeoutMeansSomeoneWaited`, see 4.7 |
| `review` | 2 analyzers, 2 attempts, an answer of 1 piece, a channel of 1, streaming or not, 1 crash or shutdown | 245 178 | the review, and the node a failed one names, are those of the record; a text is whole unless its stream was cut; a run ends; a shutdown ends |
| `review_watch` | 1 analyzer, no outage | violation | `WatchersSeeTheRun`, see 4.4 to 4.6 |
| `tool_agent` | 2 overlapping attempts, 2 steps, 2 tries per completion, an SQLite cache with entries good for 1 of 2 ticks, 1 lost process | ~2.2 million | every step was decided by the model for the steps before it; the outcome is the one the steps justify; the execution ends |

Why these bounds. The broker's hazards are races of two: a publisher against
Close, cancel against Close, two publishers at one channel; two of each, and a
buffer that the second event finds full, make every such pair meet. Three nodes give chains, forks, joins,
repeated requirements and all cycles of length two and three; a fourth gives
diamonds, which to the layering loop are a fork and a join. Three rounds show a
first, a middle and a last one. Of two children one may fail and the other be late,
and a part beyond the cap has none; that more children, and more rounds of each,
change nothing is proved. Two callbacks and two callers are the
least that race, and three access tokens the least for two refreshes of one
pair. Two analyzers are the least of which the second may fail first; an answer
of one piece can arrive or not, and fills the channel, so that the end of the
stream has to wait for room. Two attempts of the tool agent overlap once, and a
clock of two lets an entry of the one expire and be replaced before the other
deletes it. Two channels are a race, and two reactions let one contradict the other or
come back after the first was taken away. Attempts are bounded at one or two where the code has three or five: the
policy compares a number with its bound, and two reach both sides of the
comparison. One crash can fall between any two steps; a
second one starts from a state the first has made possible.

The run `broker` has one subscription, which each of two publishers, two closers
and its own cancel may meet; that a second one changes nothing is proved.

Bounds by name: `MaxEvents`, `MaxCrashes`, `MaxRestarts`, `MaxStrays`,
`MaxIssued`, `MaxSignIns`, `MaxSignOuts`, `MaxReactions`, `MaxOutages`,
`MaxTime`, `TextLength`, and the sizes of the sets `Publishers`,
`Subscribers`, `Closers`, `Runs`, `Requests`, `Callers`.

Deadlock checking is off in every run because every one of these systems may
stop: workflows close, publishers have published all they will, callers have
returned. That nothing stops too early is what the liveness properties say.

Every property of a passing run has a mutant in `PROJECT.json`: a change to one
mapped definition, as a plausible bug would make it, under which the run finds
the property violated. The definitions marked "Mutant" in the modules exist for
that purpose only.

## 4. What the code does and its documents do not say

Found while modelling, each shown by a run:

1. `agent/broker.go:96`. Publish checks the closed flag once, takes its snapshot
   and sends with no lock held. A Close in between closes the channels and the
   send panics. The comment at 200-201 says the flag guards it.
2. `agent/broker.go:141`. `cancel` closes its channel without recovering. After
   Close has closed it the channel is closed a second time and `cancel`, which
   callers are told to defer, panics. Close uses `safeClose` for this very
   case, cancel does not.
3. `agent/supervisor.go:162`. A question of spaces is not empty, decomposes to
   nothing, starts no child, and `subAnswers[0]` panics in every workflow task:
   the workflow never closes.
4. `agent/stream.go:141`. The emitter of a streamed answer comes from
   `EmitterFromContext`, whose workflow ID is a context value that only
   `WithWorkflowID` sets, and nobody calls it: `worker/worker.go` registers the
   activities unwrapped, where `broker.go:391-393` says that it stamps the ID. The
   chunks are published under the empty ID and reach no client of `/events`.
5. `cmd/api-server/main.go:290`. The event stream closes on a terminal event
   (251-252), but nothing publishes one: `NewWorkflowCompleted` and
   `NewWorkflowFailed` have no caller. The stream stays until its client leaves,
   and a shutdown has to wait its five seconds for it.
6. `cmd/api-server/main.go:242`. The run's start is published under an ID that the
   client is told only afterwards, and the broker keeps nothing for later
   subscribers: "the UI wants to know" (239-241), and does not get to.

`WatchersSeeTheRun` is the weakest statement each of the last three promises
implies: the watcher sees the start, a chunk or the end. Its counterexample is a
completed review of which the watcher has seen none.

7. `channels/channels.go:199`. With several channels of which none can wait, the
   number of timeouts equals the number expected, zero, and Await reports a
   timeout at once, on which the default policy lets the output pass: nobody has
   waited for a human. `channels/types.go:207-209` and 218-220 say that a
   capability that is missing is `ErrNotSupported`, which is what a single such
   channel gets (142-143).
Noted, in the model where its part is modelled, and not shown by a run of its own:

- `channels/temporal/temporal.go:160`: the wait for a verdict is an activity of one
  attempt. When its worker stops, the heartbeat timeout fails the activity and
  with it the wait (`WorkerLost`, `HeartbeatTimesOut`), where
  `channels/types.go:31-33` says that worker restarts mid-wait are recovered
  transparently. `MaximumAttempts: 1` is there so that a timed-out wait is not
  repeated; it cannot tell one from a lost worker. `AsksEnd` shows no more than
  that the workflow is told.
- `agent/anthropic_stream.go:148`: a body that ends before `message_stop` closes the
  channel without a last chunk and without an error, where `stream.go:49-50` says
  that a stream ends normally or with an error in the final chunk. What arrived
  is returned as the answer and the activity completes with it. `WholeUnlessCut`
  has this case as its exception, and so says that it is the only one.
- `agent/cache_sqlite.go:111`: Get deletes by key what it found stale, in a
  statement of its own; the entry may by then be one that another caller has
  just stored, and it is deleted though it is fresh. The memory cache does the
  same under two locks (`middleware.go:138-149`). It costs a call of the model,
  and `DecisionsWereMade` shows that it costs no more.
- `cmd/worker/main.go:101-106` lists metrics and token accounting as inside the
  retry and "recorded once per attempt"; in the slice that follows, logging and
  accounting are outside of `WithRetry` and count calls, metrics alone is inside.
- `agent/tokens.go:58` calls `Snapshot` atomic; it is three loads, between which a
  call may be recorded. Its readers print the totals at exit.
- `agent/tool_agent.go:42-43` says that `Answer` is empty if the agent did not
  converge; it is a fixed sentence (line 212). `Steps` has the steps of the
  attempt that succeeded only, so tools called by earlier attempts are not in it,
  and on an error it is empty.
- A malformed decision is cached like any other answer, and so is found again by
  every later run with the same task and history until it expires.
- `auth/oauth/start.go:82` says that if any step fails no workflow is started;
  if only ExecuteWorkflow's reply is lost, one is. It ends by its timer
  (`FlowsClose` covers it).
- `auth/oauth/providers/okta/okta.go:216` takes the refresh token from the reply
  even when the reply has none, as RFC 6749 allows, and the good one is
  overwritten with "". `SignInLasts` is therefore stated for providers that
  repeat it or rotate it.
- `auth/oauth/workflow.go:7-12` promises that users need not start over when a
  worker dies. That holds of the worker; a restart of the API server empties
  the memory state mapper, and the browser that comes back is told "unknown
  state". `StateIsKeptForTheCallback` is therefore stated for the time the API
  server runs.
- `auth/oauth/flow.go:189`: with a provider that rotates refresh tokens, two calls
  that find the same expired pair both refresh it. The second refresh is
  refused and its call fails, though the store by then holds a good pair. The
  stored pair itself does not suffer from such a race: `SignInLasts` shows that it
  is void only while, or because, a caller that has spent it has not stored the
  successor, be it that it is about to, that it stopped, that Put failed or that
  the provider's reply was lost.
- `agents/verdict.go:103` says that a failed Notify is surfaced; its error is
  dropped and the policy sees an empty verdict, which by default lets the output
  pass as a timeout does.
- `channels/types.go:200` says that every wait that ends without a verdict returns
  `ErrTimeout`; cancelled waits, refused ones and races in which a waiter was
  cancelled return other errors.
- The mapping of a flow that timed out is never removed, and the page that says
  "authorization complete" is shown before the code is exchanged.

## 5. Fairness

Fairness is weak fairness of what a scheduler really drives, nothing else.

- Broker: a goroutine inside Publish, cancel or Close keeps running (Go's
  scheduler is preemptive and none of these steps waits for another goroutine
  beyond a short critical section). Nobody is obliged to publish, subscribe,
  read, cancel or close.
- Workflows: some worker polls the task queue, so workflow code that can go on
  does (`WorkflowStep`, `CodeStep`), and scheduled activities are started; the
  server ends attempts by StartToCloseTimeout, so a running attempt ends, in
  success or failure, whichever the model chooses (`ActivityEnds`). Timers
  fire. Crashes are bounded in number: with workers lost for ever nothing ends.
- Review: as for the other workflows; a stream under way goes on or ends, since
  its attempt has a timeout (`CallStep`, `TimeOut`); the deadline of `Shutdown`
  passes and a process that is down is started again. Nothing is assumed of the
  client: `ShutdownEnds` does not wait for it to leave.
- Tool agent: attempts are begun, and a loop goes on: the model, the database and
  the tools answer or fail. Timeouts are assumed only of an attempt that went
  down with its process; every other ends by the loop's own bounds.
- Human verdicts: the caller and the waiters go on, deadlines pass, and calls of
  the channels' APIs return, with an answer or an error. Nothing is assumed of
  humans: `AsksEnd` rests on the deadlines.
- OAuth: nothing is assumed of browsers or of the API server. `FlowsClose` rests
  on the timer alone.

## 6. The proofs

Proved with TLAPS, with no bound on anything and from the named assumptions on
the constants alone:

| Theorem | Says |
|---|---|
| `BrokerProofs!TypeCorrect` | `Spec => []TypeOK` |
| `BrokerProofs!RegistryCorrect`, `RegistryOpenHolds`, `NoOrphanChannelHolds` | the two registry invariants of the run `broker` |
| `BrokerProofs!SendsAccountedForHolds` | its third, `SendsAccountedFor` |
| `BrokerProofs!DeliveryCorrect`, `BrokerImplementsPubSub` | `Spec => DeliversAsPromised` |
| `TokenRefreshProofs!RefreshInvariant` | the inductive invariant below |
| `TokenRefreshProofs!TokensTypeCorrect` | `Spec => []TypeOK` |
| `TokenRefreshProofs!UsedTokensAreStored`, `StoredSignInLasts` | the two invariants of the run `token_refresh` |
| `ToolAgentProofs!Invariance` | the inductive invariant below |
| `ToolAgentProofs!TypeCorrect`, `DecisionsHold`, `OutcomeHolds` | types, and the two invariants of the run `tool_agent` |
| `PlanWorkflowProofs!Inductive` | the inductive invariant below |
| `PlanWorkflowProofs!ReplayIsDeterministicHolds`, `UpstreamIsRecordedHolds`, `LayersAreDepthsHolds`, `ResultIsWholeHolds` | the four invariants of the run `plan` |
| `PlanWorkflowProofs!RunsAsDagHolds` | `Spec => RunsAsDag`: the workflow implements `DagRun` |
| `SupervisorProofs!Inductive`, `TypeCorrect` | the inductive invariant of the convergence workflow below, and types |
| `SupervisorProofs!RoundsReviseHolds`, `AnswerIsTheLastJudgedHolds`, `NoCallAfterFatalErrorHolds` | the two invariants and the action property of the convergence workflow in the run `supervisor` |
| `SupervisorProofs!SupInductive`, `SupTypeCorrect` | the inductive invariant below, and types |
| `SupervisorProofs!AnswersAreTheChildrensHolds`, `ClosesLastHolds`, `FailsOnlyAsDocumentedHolds`, `CostIsCappedHolds` | the four invariants of the run `supervisor` |
| `OAuthFlowProofs!Inductive` | the inductive invariant below |
| `OAuthFlowProofs!FirstCallbackCountsHolds`, `StateIsKeptForTheCallbackHolds`, `SessionIsStoredHolds` | the three invariants of the run `oauth_flow` |
| `ReviewProofs!Inductive` | the inductive invariant below |
| `ReviewProofs!ReviewIsOfTheRecordHolds`, `WholeUnlessCutHolds` | the two invariants of the run `review` |
| `HumanVerdictProofs!Inductive` | the inductive invariant below |
| `HumanVerdictProofs!VerdictWasGivenHolds`, `SilenceIsUnanimousHolds`, `ReactionIsNotMissedHolds` | the three invariants of the run `human_verdict` |

**The registry.** `RegistryOpen` is not inductive: SafeClose could close a
registered channel for all it says. `RegistryInv` adds that what Close is
closing has left the registry (`ClosingUnregistered`), and that a channel is nil
exactly before its subscription is made (`MadeOnce`), which keeps a new
subscription from being the one a closer or a snapshot holds. With them, cancel
and Close can each be shown to unregister before they close.

**Delivery.** For a step of `Broker` to be a step of `PubSub`, an accepted event
must be newer than all its publisher has put there. `DeliveryInv` carries it from
where numbers are given out: `EventNumbers` (an event is its publisher's and is
numbered no higher than the last), `TargetsMatch` (a snapshot holds only
subscriptions to the event's topic, which never changes) and `LogsBehind` (a
channel still in a snapshot has accepted only older events of that publisher).
The refinement proof then maps `Open`, `PublishSend`, `Receive`, `CancelClose` and
`SafeClose` to the five actions of `PubSub` and all else to stuttering.
Assumptions: the set of subscriptions is finite, topics are distinct, the default
buffer is positive.

**Sends.** `SendsAccountedFor` counts two sets, the sends accepted (a channel and a
place in its log) and those pending (a publisher and a subscription of its
snapshot), where a sum of lengths would be an induction. `SendsInv` adds that both
are finite: each step moves one element from the second to the first or to the
counter, and a snapshot, which is taken when nothing is pending for its
publisher, adds a set disjoint from what is there. Publishers may be infinitely
many.

**Tokens.** `SignInLasts` speaks of the store, but the store is filled from
copies. `RefreshInv` says of every copy that may yet be put - the callers'
loaded and fresh pairs, the sign-in's - what holds of the store: its access
token has been issued, and where the provider repeats the refresh token, it is
honoured. It also ties each caller's place in the code to what is in the
store already. `CallerMoves` and `CallerGoesOn` are the two shapes a caller's step
has; each action is brought to one of them. With a provider that rotates, a token
in the store can be void, and `RotationInv` says who spent it (`Spent`). The danger
is that a token is void before it reaches the store. It is not, because only
tokens that were stored are ever spent, and those on their way to the store
(`Holds`) are not stored yet, are honoured, and are held by one caller or sign-in
only. So every Put leaves an honoured token, and only a refresh of the stored
token (`SpendsRotating`) voids it, by a caller that owes its successor from then on.

**Decisions.** `DecisionsWereMade` speaks of histories; what is appended to one
comes out of a call, and a call's answer may come out of the cache. `Traced`
therefore says of all three that they hold answers the model gave for that
prompt: entries of the cache under their key, answers of calls under their
prompt, and, for a caller that is not idle, that its prompt is the history of its
own loop, which only its own steps change. The last conjunct makes the first two
usable: an answer is appended to the very history it was given for.
`PrefixOfAppend` and `DecidedAppend` carry a history's decisions over to the longer
one. A deleted, expired or overwritten entry cannot break the invariant, as
entries only ever leave or are added with an answer that is in `given`; which is
the reason why the race in the caches costs calls and never correctness. For
`OutcomeIsJustified` the history must be no longer than `MaxSteps`, and shorter
while a call is under way. Assumptions: the tools are among the three built in,
`MaxSteps` and `Tries` are positive.

**Replay.** The five workflows share one difficulty. What a run promises is said of
the history or of what a closed workflow returned, but is computed from locals
that a crash empties and a replay fills again. In each proof the invariant
therefore says what the locals are, at every place in the code, *as a function of
the history and of how far the replay has come*: a worker that has lost them is
at the beginning of the same history, and one that writes it anew is at its end.
Each module then has three kinds of lemmas: what the code does at one place
(replaying or issuing), what the server's steps change in the history (an
attempt is begun, ends, is retried), and that a history which only goes on
(`Continues`, `Keeps`) leaves what was said of its earlier part true.

**Plans.** `ReplayIsDeterministic` compares the next command with the recorded
one, `ResultIsWhole` speaks of a layer's nodes: neither says what layers the code
that recorded the history had, and so neither is inductive. `IInv` says that there
is one sequence of layers F, the one the loop computes (`Layering`: each layer is
what is ready after those before, sorted), such that the history holds the
commands of its first m layers (`HistoryInv`) and the memory, whatever was lost, a
part of it (`Place`: the loop has found a first few, with the in-degree of a node
the number of its requirements not yet done; the dispatch stands at layer l with
the outputs of all before it). From it, the recorded commands are those of F
and every replay issues them; a node's layer is one more than the greatest of
those it requires (`LayersAreDepthsHolds`); and when no node is left over, all are
in some layer. That a cycle is what leaves nodes over is proved by a least element of
the ranks, not by induction. For the refinement each action is mapped: a dispatch
that adds a layer is `DagRun`'s start of its nodes, an attempt that succeeds is a
finish, a replay is a stutter, and the place where the code rejects a plan
is reached exactly when `DagRun` says it is not well formed (`DagWellFormed`).
Assumptions: `SortAssumption` (sorting a finite set gives its elements, each
once; nothing is assumed of the order), `PlansAssumption` (the shape of a decoded
plan), `BoundsAssumption`.

**Convergence.** `RunInv` says of one run: the history alternates research and
critique, with the research of a round given the text and the feedback on record
for the round before (`Alternates`); the locals are those of a replay of its
first `issued` entries (`Past`, `Place`); the rounds asked bound both (`Bounded`);
and a completed run closed on the last critique (`Closed`). `RoundsRevise` is then a
conjunct read off `Alternates`. It could not stand alone: the step that issues a
research knows only its locals. `NoCallAfterFatalError` follows from `Progress`: a
fatal error leaves the activity failed, so none but the latest entry may be
running, and no step begins another attempt at it. `FatalAssumption` is what the
options of both activities say (`agent/workflow.go:40-48`).

**Supervisor.** Its children are the runs of `Converge`, so `SupIInv` is the
invariant of all the runs and, on top, `SupInv`: of `Top`'s own history, which has
at most two entries (`SupHistory`), of the children, which are begun all
together with the recorded parts (`ChildrenInv`), of its locals (`SupPlace`, `Noted`:
the answers noted are those of children that have closed), and of how it closed
(`SupClosed`). A step of a child leaves `Top` alone but for one thing, the outcome
that `Noted` speaks of: the first part of the module shows that an outcome once closed stays,
unless it is terminated, and `SupClosed` that nobody terminates before the
supervisor closes. `ClosesLast` is that last fact, which needs all of the others,
since what the supervisor has waited for is what it has noted.
`FailsOnlyAsDocumented` rests on the same. For `CostIsCapped` the calls made
(child, activity, attempt) are shown to be among the images of the triples of a child,
a round and one of the attempts at a research or a critique
(`CallsCounted`). Assumptions:
`RequestsAssumption` (what may be asked, and that the default cap is positive),
`TopAssumption` (the supervisor is not one of its children).

**OAuth flow.** `FlowInv` says of a flow that its history is the exchange of the
code of its *first* signal, the identification and the storing of the tokens
that it bought, as far as they go (`Trades`), that the locals are in step
(`Place`), and that nothing of this exists before the flow was called back with
its own State (`CalledBack`). Signals only ever go to the end, so that the first stays the first.
`HandlersInv` relates the other two processes: a callback under way carries the
State of a flow that was started, and as long as the API server has not
restarted, a started flow without a signal is still in the mapper.
`StrayAssumption` says that a State nobody generated is none of theirs.

**Review.** `CodeInv` says that what the code has read (`wf.outs`) are the results of a
prefix of the activities, in the code's order (`Order`), and `RunInv` the same of
what a closed run returned, and that the node a failed run names failed while all before it in
that order had completed. What is on record as completed or failed never changes
(`Keeps`). `CallInv` bounds a call under way: no more was collected than sent, no
more sent than the channel holds beyond it, and a stream that said
`message_stop` has sent everything; with it, `Tried` says of every result that it
is whole or was cut. Assumptions: `ReviewAssumption`.

**Human verdicts.** None of the three properties is inductive. `VerdictWasGiven` speaks
of the verdict the caller returns, which a waiter read a while before, from a message
that may have lost the reaction since: `Recorded` says that what stands on a message was
given and that receipts are of messages posted, `Genuine` that whatever verdict a
waiter or the caller holds was given on a message of a receipt; a reaction taken
back leaves `given` as it is. For `ReactionIsNotMissed`, `Waits` says that during a
round what stands is among the messages whose receipts the round has yet to come
to, and has a reaction that counts: reading a message either answers or finds that it has
none, so that the end of the round, where the deadline is looked at, finds
nothing standing. `SilenceIsUnanimous` compares two counters. `Counted` says what they
count: the waiters that have ended and are no longer in the buffer, and those of
them that timed out; `Buffered` (each ended waiter is in the buffer at most once)
makes a `Take` add one to the first, and `Waits` places both sets among the channels
able to wait. As many timeouts as able channels then are those channels, by the
subset theorem on finite sets, and where all have answered and fewer timed out, one
of them was cancelled; the channels of an ask are finitely many because its
receipts are a sequence, so `Channels` need not be. `Phase` also says where the caller
stands: nothing is decided before `Returned`, and a single channel is the only one to
have a waiter. Assumptions: `VerdictAssumption` (the shape of a setup, and that the
choices offered and the reactions ignored are disjoint).

Not proved, only checked:

- The liveness properties: the prover does not reason about fairness and ENABLED.
- What recursion computes, and what needs induction over data.

## 7. What is not modelled

- `agent/anthropic.go`, `agent/claudecode.go`, Slack's HTTP client: I/O without
  state. What they answer enters as a choice of replies and errors.
- What the built-in tools compute, prompt and message texts, JSON, HTML, Slack blocks,
  `crypt.go`: data, not control. How a question is split (`splitHeuristic`) is
  abstracted to how many parts it has; the byte offsets it computes on
  lower-cased text are listed as a hazard and are out of the abstraction's
  reach.
- `agent/tracing.go`, `agent/metrics.go`: written and never read back.
- Flags, exporters and the embedded page of `cmd/`; `cmd/ask` and
  `cmd/ask-supervisor`, which start one workflow and print its result.
- `agent/tokens.go`, `WithLogging`, `WithMetrics`: they count and change no answer.
  `SQLiteCache.Vacuum` and `StreamFromComplete`: nothing calls them.
- The checks of a tool agent's input and of a worker's configuration
  (`ConfigurationError`, `InvalidInput` of `RunToolAgent`): `MaxSteps` is assumed
  positive, and the model and the registry to be there. In the repository no
  worker registers `RunToolAgent` yet; how its activity is retried is therefore
  the caller's, and any number of attempts is allowed for.
- Cancellation of workflows from outside: nothing in the repository does it.
- `WithIdentityResolver`, `lookupActor`, hooks of policies, `agents.Register`: they
  keep no state and decide nothing about the ask.

## 8. The plan

The components with state of their own are modelled, and the safety properties of
the runs are theorems; what is left of the code is listed in section 7, and what
only the runs show is the liveness properties. As the theorems hold for every instance, the
runs that have grown close to what is comfortable (`tool_agent`, `supervisor`) may
be made smaller where liveness does not need their size.

When the code changes: a change of an action shows first in the runs, then in the
step of the invariant's proof that is named for it; a new adapter with a loop other than
Slack's needs waiters of its own in `HumanVerdict`, of which the race's part of the
invariant asks only what `Waits`, `Buffered` and `Counted` say.
