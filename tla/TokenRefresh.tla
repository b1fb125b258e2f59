---------------------------- MODULE TokenRefresh ----------------------------
(***************************************************************************)
(* The token store of src/auth/oauth and those that use it for one         *)
(* identity at one provider: agents that call an API through WithRefresh   *)
(* (src/agents/oauth.go wraps it as WithOAuth), callers of CurrentSession, *)
(* sign-ins that put new tokens and sign-outs that delete them.            *)
(*                                                                         *)
(* The store's Get, Put and Delete are atomic (a lock, or one SQL          *)
(* statement); between them every caller works on its own copy.  The n-th  *)
(* access token the provider issues is n; a pair's refresh token is known  *)
(* by the access token it was first issued with.                           *)
(***************************************************************************)
EXTENDS Integers

CONSTANTS
    Callers,
    Policies,       \* what providers do with a refresh token that is used
    MaxIssued,      \* bound: access tokens the provider issues
    MaxSignIns,     \* bound: sign-ins after the first
    MaxSignOuts     \* bound: calls of Delete

\* "same": the reply repeats the refresh token; "rotates": it has a new one and
\* the old one is void; "omits": it has none and the old one stays good.
ASSUME RefreshAssumption ==
    /\ Policies \subseteq {"same", "rotates", "omits"}
    /\ MaxIssued \in Nat \ {0} /\ MaxSignIns \in Nat /\ MaxSignOuts \in Nat

VARIABLES
    store,          \* the pair Get returns, or NoPair
    put,            \* history: the access tokens that were in the store
    caller,         \* caller -> where it is, and its copies
    signIn,         \* the pair a sign-in has obtained and not put yet, or NoPair
    policy,         \* the provider's
    issued,         \* how many access tokens the provider has issued
    age,            \* access token -> how the provider and the clock see it
    honoured,       \* the refresh tokens the provider accepts
    signIns, signOuts

vars == <<store, put, caller, signIn, policy, issued, age, honoured, signIns, signOuts>>
provider == <<policy, issued, age, honoured>>

NoPair == [access |-> 0, refresh |-> 0]
Pair == [access : 1..MaxIssued, refresh : 0..MaxIssued]

Idle == [pc |-> "idle", pair |-> NoPair, fresh |-> NoPair]

Unloaded == {"idle", "not_found", "load_failed"}
Busy == {"call", "refresh_call", "refresh_session", "put_call", "put_session", "retry"}
Ended == {"ok", "session", "call_failed", "rejected", "refresh_failed", "put_failed",
          "retry_failed", "gone"}

Copies == [pc : Unloaded \cup Busy \cup Ended,
           pair : Pair \cup {NoPair}, fresh : Pair \cup {NoPair}]

TypeOK ==
    /\ {store, signIn} \subseteq Pair \cup {NoPair}
    /\ put \subseteq 1..issued
    /\ caller \in [Callers -> Copies]
    /\ \A c \in Callers : caller[c].pc \notin Unloaded => caller[c].pair # NoPair
    /\ policy \in Policies
    /\ issued \in 1..MaxIssued
    /\ age \in [1..MaxIssued -> {"fresh", "expiring", "expired"}]
    /\ honoured \subseteq 1..issued
    /\ signIns \in 0..MaxSignIns /\ signOuts \in 0..MaxSignOuts

Init ==
    /\ store = [access |-> 1, refresh |-> 1] /\ put = {1}
    /\ caller = [c \in Callers |-> Idle]
    /\ signIn = NoPair
    /\ policy \in Policies
    /\ issued = 1 /\ age = [n \in 1..MaxIssued |-> "fresh"] /\ honoured = {1}
    /\ signIns = 0 /\ signOuts = 0

-----------------------------------------------------------------------------
(* The store *)

Put(pair) == store' = pair /\ put' = put \cup {pair.access}

\* Any client of the store deletes the tokens.
Delete ==
    /\ signOuts < MaxSignOuts
    /\ signOuts' = signOuts + 1
    /\ store' = NoPair
    /\ UNCHANGED <<put, caller, signIn, provider, signIns>>

-----------------------------------------------------------------------------
(* The provider *)

\* A refresh buys a new access token; the pair is what the reply says, and no
\* more (postForm).
Refreshed(pair) ==
    [access |-> issued + 1,
     refresh |-> CASE policy = "same" -> pair.refresh
                   [] policy = "rotates" -> issued + 1
                   [] policy = "omits" -> 0]

Refreshes(pair) ==
    /\ issued < MaxIssued /\ pair.refresh \in honoured
    /\ issued' = issued + 1
    /\ honoured' = IF policy = "rotates"
                   THEN (honoured \ {pair.refresh}) \cup {issued + 1} ELSE honoured
    /\ UNCHANGED <<policy, age>>

\* Time passes: a token comes within the leeway of its expiry, then it expires.
Ages(n) ==
    /\ n <= issued /\ age[n] # "expired"
    /\ age' = [age EXCEPT ![n] = IF @ = "fresh" THEN "expiring" ELSE "expired"]
    /\ UNCHANGED <<store, put, caller, signIn, policy, issued, honoured, signIns, signOuts>>

\* A sign-in obtains a pair (Exchange of OAuthFlowWorkflow, or NewFlow) ...
SignInExchanges ==
    /\ signIns < MaxSignIns /\ signIn = NoPair /\ issued < MaxIssued
    /\ signIns' = signIns + 1
    /\ issued' = issued + 1
    /\ honoured' = honoured \cup {issued + 1}
    /\ signIn' = [access |-> issued + 1, refresh |-> issued + 1]
    /\ UNCHANGED <<store, put, caller, policy, age, signOuts>>

\* ... and stores it.
SignInPuts ==
    /\ signIn # NoPair
    /\ Put(signIn)
    /\ signIn' = NoPair
    /\ UNCHANGED <<caller, provider, signIns, signOuts>>

-----------------------------------------------------------------------------
(* WithRefresh and CurrentSession *)

Becomes(c, pc) == caller' = [caller EXCEPT ![c].pc = pc]

\* store.Get; CurrentSession looks at the clock at once.
Load(c) ==
    /\ caller[c].pc = "idle" /\ store # NoPair
    /\ \/ caller' = [caller EXCEPT ![c] = [Idle EXCEPT !.pc = "call", !.pair = store]]
       \/ caller' = [caller EXCEPT ![c] =
            [pc |-> IF age[store.access] = "fresh" THEN "session" ELSE "refresh_session",
             pair |-> store, fresh |-> IF age[store.access] = "fresh" THEN store ELSE NoPair]]
    /\ UNCHANGED <<store, put, signIn, provider, signIns, signOuts>>

\* ErrTokenNotFound, which WithOAuth reports as MissingCredentialError; or the
\* context is cancelled, or the entry cannot be read.
LoadFails(c) ==
    /\ caller[c].pc = "idle"
    /\ Becomes(c, IF store = NoPair THEN "not_found" ELSE "load_failed")
    /\ UNCHANGED <<store, put, signIn, provider, signIns, signOuts>>

\* The inner call.  AuthenticationError, which an API may return for a token that
\* has not expired too, asks for a refresh; any other error is returned as it is.
Call(c) ==
    /\ caller[c].pc = "call"
    /\ \/ age[caller[c].pair.access] # "expired" /\ Becomes(c, "ok")
       \/ \E pc \in {"refresh_call", "call_failed"} : Becomes(c, pc)
    /\ UNCHANGED <<store, put, signIn, provider, signIns, signOuts>>

Refreshing(c) == caller[c].pc \in {"refresh_call", "refresh_session"}
Putting(c) == caller[c].pc \in {"put_call", "put_session"}

\* Mutant: the new tokens are used first and stored at the end, if at all.
RefreshAndRetry(c) ==
    /\ Refreshing(c)
    /\ Refreshes(caller[c].pair)
    /\ caller' = [caller EXCEPT
                    ![c].pc = IF @ = "refresh_call" THEN "retry" ELSE "put_session",
                    ![c].fresh = Refreshed(caller[c].pair)]
    /\ UNCHANGED <<store, put, signIn, signIns, signOuts>>

Refresh(c) ==
    /\ Refreshing(c)
    /\ Refreshes(caller[c].pair)
    /\ caller' = [caller EXCEPT
                    ![c].pc = IF @ = "refresh_call" THEN "put_call" ELSE "put_session",
                    ![c].fresh = Refreshed(caller[c].pair)]
    /\ UNCHANGED <<store, put, signIn, signIns, signOuts>>

\* There is no refresh token, or the provider does not honour it.
RefreshRejected(c) ==
    /\ Refreshing(c) /\ caller[c].pair.refresh \notin honoured
    /\ Becomes(c, "rejected")
    /\ UNCHANGED <<store, put, signIn, provider, signIns, signOuts>>

\* The provider is not reached, or its reply is lost or makes no sense.
RefreshFails(c) ==
    /\ Refreshing(c)
    /\ Becomes(c, "refresh_failed")
    /\ UNCHANGED provider \/ Refreshes(caller[c].pair)
    /\ UNCHANGED <<store, put, signIn, signIns, signOuts>>

\* Mutant: the old refresh token is kept, in case the reply has none.
PutKeepingRefreshToken(c) ==
    /\ Putting(c)
    /\ Put([caller[c].fresh EXCEPT !.refresh = caller[c].pair.refresh])
    /\ Becomes(c, IF caller[c].pc = "put_call" THEN "retry" ELSE "session")
    /\ UNCHANGED <<signIn, provider, signIns, signOuts>>

\* store.Put, and what follows it.
PutFresh(c) ==
    /\ Putting(c)
    /\ Put(caller[c].fresh)
    /\ Becomes(c, IF caller[c].pc = "put_call" THEN "retry" ELSE "session")
    /\ UNCHANGED <<signIn, provider, signIns, signOuts>>

PutFails(c) ==
    /\ Putting(c)
    /\ Becomes(c, "put_failed")
    /\ UNCHANGED <<store, put, signIn, provider, signIns, signOuts>>

\* The call with the fresh pair is the last, whatever it returns.
Retry(c) ==
    /\ caller[c].pc = "retry"
    /\ \/ age[caller[c].fresh.access] # "expired" /\ Becomes(c, "ok")
       \/ Becomes(c, "retry_failed")
    /\ UNCHANGED <<store, put, signIn, provider, signIns, signOuts>>

\* The process stops, or the context of the call is cancelled.
Gone(c) ==
    /\ caller[c].pc \in Busy
    /\ Becomes(c, "gone")
    /\ UNCHANGED <<store, put, signIn, provider, signIns, signOuts>>

CallerStep(c) ==
    \/ Load(c) \/ LoadFails(c) \/ Call(c) \/ Refresh(c) \/ RefreshRejected(c)
    \/ RefreshFails(c) \/ PutFresh(c) \/ PutFails(c) \/ Retry(c) \/ Gone(c)

Next ==
    \/ Delete \/ SignInExchanges \/ SignInPuts
    \/ \E n \in 1..MaxIssued : Ages(n)
    \/ \E c \in Callers : CallerStep(c)

Spec == Init /\ [][Next]_vars

-----------------------------------------------------------------------------
(* Properties *)

Persisted(pair) == pair.access \in put

\* Tokens that are used or handed out were in the store before, so that a
\* process that stops takes none with it that anyone has used; and those a call
\* is retried with are newer than those it failed with (flow.go:188-200, 250-251).
UsedTokensWereStored ==
    \A c \in Callers :
        /\ caller[c].pc \in {"call", "retry", "session", "retry_failed"} =>
              Persisted(caller[c].pair)
        /\ caller[c].pc \in {"retry", "session", "retry_failed"} =>
              /\ Persisted(caller[c].fresh)
              /\ caller[c].fresh.access >= caller[c].pair.access
        /\ caller[c].pc \in {"retry", "retry_failed"} =>
              caller[c].fresh.access > caller[c].pair.access

\* A caller has spent the refresh token it loaded, and what it bought is not in the
\* store: it is on its way there, it was lost with its caller or by a failed Put, or
\* the reply never came.
Owes(c) ==
    \/ caller[c].fresh # NoPair /\ ~Persisted(caller[c].fresh)
    \/ caller[c].pc = "refresh_failed"

\* The sign-in does not wear out: however refreshes of one pair, failures, sign-ins
\* and their Puts interleave, the pair in the store can be refreshed.  With a provider
\* that rotates there is one exception, a caller that has spent this very refresh
\* token and owes the store its successor; two callers that refresh the same pair are
\* none (flow.go:188-195).  A provider whose reply has no refresh token is not covered:
\* the store loses it (okta.go:216).
SignInLasts ==
    policy # "omits" /\ store # NoPair /\ store.refresh \notin honoured =>
        /\ policy = "rotates"
        /\ \E c \in Callers : caller[c].pair.refresh = store.refresh /\ Owes(c)

=============================================================================
