----------------------------- MODULE Completion -----------------------------
(***************************************************************************)
(* A completion as the workers of sibyl ask for it: agent.Chain of         *)
(* WithCache, WithLogging, WithTokenAccounting, WithRetry and WithMetrics  *)
(* around the model (src/agent/middleware.go, tokens.go, metrics.go), with *)
(* the cache in memory or in an SQLite file (cache_sqlite.go).  Logging,   *)
(* accounting and metrics only count and are left out.                     *)
(*                                                                         *)
(* The callers are goroutines that share the cache and nothing else: what  *)
(* is read under one lock is acted upon under another, and two callers of  *)
(* one prompt both ask the model.  This module has the steps; who calls,   *)
(* with which prompt, is for the module that extends it.                   *)
(***************************************************************************)
EXTENDS Integers, Sequences

CONSTANTS
    Callers,    \* the goroutines
    Tries,      \* WithRetry(attempts): 3 in the code
    TTL,        \* how long an entry of the cache is good; 0 is for ever
    Durable,    \* whether the cache is the SQLite one
    MaxTime     \* bound: the clock stops here

ASSUME CompletionAssumption ==
    Tries \in Nat \ {0} /\ TTL \in Nat /\ MaxTime \in Nat /\ Durable \in BOOLEAN

VARIABLES
    clock,
    cache,      \* a set of entries, at most one to a key
    call,       \* caller -> where its call is
    given       \* history: the model's answers, <<prompt, answer>>

chainVars == <<clock, cache, call, given>>

Idle == [pc |-> "idle", prompt |-> <<>>, tries |-> 0, answer |-> "none"]

CallPcs == {"idle", "stale", "asking", "backoff", "storing", "answered", "failed"}

InitChain ==
    /\ clock = 0
    /\ cache = {}
    /\ call = [c \in Callers |-> Idle]
    /\ given = {}

-----------------------------------------------------------------------------
(* WithCache and the caches *)

\* Mutant: a key that is not of the whole prompt.
KeyOfTheTask(prompt) == <<>>

\* The hash of the two prompts, which is not the same for two different pairs.
CacheKey(prompt) == prompt

Stored(prompt) == {e \in cache : e.key = CacheKey(prompt)}
Expired(e) == TTL > 0 /\ clock > e.expires

Moves(c, to) == call' = [call EXCEPT ![c] = to]

Hit(c, prompt) ==
    /\ call[c].pc = "idle"
    /\ \E e \in Stored(prompt) :
        /\ ~Expired(e)
        /\ Moves(c, [Idle EXCEPT !.pc = "answered", !.prompt = prompt, !.answer = e.answer])
    /\ UNCHANGED <<clock, cache, given>>

\* The entry that was read has expired; it is deleted under a lock of its own ...
FindStale(c, prompt) ==
    /\ call[c].pc = "idle"
    /\ \E e \in Stored(prompt) : Expired(e)
    /\ Moves(c, [Idle EXCEPT !.pc = "stale", !.prompt = prompt])
    /\ UNCHANGED <<clock, cache, given>>

\* ... by its key, so that it may be another caller's fresh entry by now.
DeleteStale(c) ==
    /\ call[c].pc = "stale"
    /\ cache' = cache \ Stored(call[c].prompt)
    /\ Moves(c, [call[c] EXCEPT !.pc = "asking"])
    /\ UNCHANGED <<clock, given>>

\* An error of the database is a miss.
Miss(c, prompt) ==
    /\ call[c].pc = "idle"
    /\ Stored(prompt) = {} \/ Durable
    /\ Moves(c, [Idle EXCEPT !.pc = "asking", !.prompt = prompt])
    /\ UNCHANGED <<clock, cache, given>>

\* An answer, whatever it says, is stored, with a database that may refuse it.
Store(c) ==
    LET prompt == call[c].prompt
    IN /\ call[c].pc = "storing"
       /\ \/ cache' = (cache \ Stored(prompt)) \cup
                        {[key |-> CacheKey(prompt), answer |-> call[c].answer,
                          expires |-> clock + TTL]}
          \/ Durable /\ UNCHANGED cache
       /\ Moves(c, [call[c] EXCEPT !.pc = "answered"])
       /\ UNCHANGED <<clock, given>>

-----------------------------------------------------------------------------
(* WithRetry around the model *)

Answer(c, answer) ==
    /\ call[c].pc = "asking"
    /\ given' = given \cup {<<call[c].prompt, answer>>}
    /\ Moves(c, [call[c] EXCEPT !.pc = "storing", !.answer = answer])
    /\ UNCHANGED <<clock, cache>>

\* Mutant: the attempts are not counted.
FailUncounted(c) ==
    /\ call[c].pc = "asking"
    /\ Moves(c, [call[c] EXCEPT !.pc = "backoff"])
    /\ UNCHANGED <<clock, cache, given>>

\* An error of the model.  After the last attempt it is the caller's.
Fail(c) ==
    /\ call[c].pc = "asking"
    /\ Moves(c, [call[c] EXCEPT !.tries = @ + 1,
                                !.pc = IF call[c].tries + 1 < Tries THEN "backoff"
                                                                    ELSE "failed"])
    /\ UNCHANGED <<clock, cache, given>>

\* The delay is over, or the context is, which ends the call.
BackoffEnds(c, cancelled) ==
    /\ call[c].pc = "backoff"
    /\ Moves(c, [call[c] EXCEPT !.pc = IF cancelled THEN "failed" ELSE "asking"])
    /\ UNCHANGED <<clock, cache, given>>

-----------------------------------------------------------------------------
(* The caller's side, time, and the process *)

\* The caller has taken the outcome of its call.
Hangs(c) == Moves(c, Idle) /\ UNCHANGED <<clock, cache, given>>

Tick ==
    /\ clock < MaxTime /\ clock' = clock + 1
    /\ UNCHANGED <<cache, call, given>>

\* The process ends.  A cache in memory goes with it.
ChainLost ==
    /\ call' = [c \in Callers |-> Idle]
    /\ cache' = IF Durable THEN cache ELSE {}
    /\ UNCHANGED <<clock, given>>

=============================================================================
