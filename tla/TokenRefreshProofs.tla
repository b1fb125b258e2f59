------------------------- MODULE TokenRefreshProofs -------------------------
(***************************************************************************)
(* Proofs about TokenRefresh, for any number of callers, any provider and  *)
(* any bounds.                                                             *)
(***************************************************************************)
EXTENDS TokenRefresh, TLAPS

\* What every copy of a pair satisfies, wherever it is kept.
PairOK(pair) ==
    pair # NoPair => /\ pair.access <= issued
                     /\ policy = "same" => pair.refresh \in honoured

CallerOK(c) ==
    /\ PairOK(caller[c].pair) /\ PairOK(caller[c].fresh)
    /\ caller[c].pc \notin Unloaded => Persisted(caller[c].pair)
    /\ caller[c].pc \in {"put_call", "retry", "retry_failed"} =>
          caller[c].fresh.access > caller[c].pair.access
    /\ caller[c].pc \in {"put_session", "session"} =>
          caller[c].fresh.access >= caller[c].pair.access
    /\ caller[c].pc \in {"retry", "session", "retry_failed"} => Persisted(caller[c].fresh)

\* The inductive invariant: what holds of the store holds of the copies that
\* may yet be put in it.
RefreshInv ==
    /\ TypeOK
    /\ PairOK(store) /\ PairOK(signIn)
    /\ store # NoPair => Persisted(store)
    /\ \A c \in Callers : CallerOK(c)

\* NoPair is no pair, and a pair's tokens are numbers (types.go:111-142).
LEMMA PairFacts ==
    ASSUME RefreshInv
    PROVE  /\ issued \in 1..MaxIssued /\ MaxIssued \in Nat
           /\ NoPair \notin Pair
           /\ \A pair \in Pair : pair.access \in 1..MaxIssued /\ pair.refresh \in 0..MaxIssued
BY RefreshAssumption DEF RefreshInv, TypeOK, NoPair, Pair

\* The invariant holds when the identity has signed in once.
LEMMA InitRefreshInv == Init => RefreshInv
<1> SUFFICES ASSUME Init PROVE RefreshInv
  OBVIOUS
<1>1. store \in Pair /\ NoPair \notin Pair
  BY RefreshAssumption DEF Init, Pair, NoPair
<1>2. TypeOK
  BY <1>1, RefreshAssumption
  DEF Init, TypeOK, Copies, Idle, Unloaded, NoPair
<1>3. QED
  BY <1>1, <1>2 DEF Init, RefreshInv, PairOK, CallerOK, Persisted, Idle, Unloaded, NoPair

\* Moving a caller on leaves its copies of the tokens as they are.
LEMMA CopiesFields ==
    \A r \in Copies, pc \in Unloaded \cup Busy \cup Ended :
        /\ [r EXCEPT !.pc = pc] \in Copies
        /\ [r EXCEPT !.pc = pc].pc = pc
        /\ [r EXCEPT !.pc = pc].pair = r.pair
        /\ [r EXCEPT !.pc = pc].fresh = r.fresh
BY DEF Copies

\* Becomes moves one caller on and touches no other.
LEMMA BecomesFacts ==
    ASSUME caller \in [Callers -> Copies], NEW c \in Callers
    PROVE  \A pc \in Unloaded \cup Busy \cup Ended : Becomes(c, pc) =>
               /\ caller' \in [Callers -> Copies]
               /\ caller'[c].pc = pc
               /\ caller'[c].pair = caller[c].pair /\ caller'[c].fresh = caller[c].fresh
               /\ \A d \in Callers : d # c => caller'[d] = caller[d]
<1> TAKE pc \in Unloaded \cup Busy \cup Ended
<1> HAVE Becomes(c, pc)
<1>1. caller' = [caller EXCEPT ![c] = [caller[c] EXCEPT !.pc = pc]]
  BY DEF Becomes
<1>2. [caller[c] EXCEPT !.pc = pc] \in Copies
  BY CopiesFields
<1>3. caller'[c] = [caller[c] EXCEPT !.pc = pc]
  BY <1>1
<1>4. QED
  BY <1>1, <1>2, <1>3, CopiesFields

\* A step of one caller keeps the invariant if the caller and the store keep
\* theirs, and if the provider forgets nothing it need not forget.
LEMMA CallerMoves ==
    ASSUME RefreshInv, NEW c \in Callers,
           caller' \in [Callers -> Copies],
           \A d \in Callers : d # c => caller'[d] = caller[d],
           caller'[c].pc \notin Unloaded => caller'[c].pair # NoPair,
           CallerOK(c)',
           store' \in Pair \cup {NoPair}, PairOK(store)', store' # NoPair => Persisted(store)',
           UNCHANGED <<signIn, policy, age, signIns, signOuts>>,
           issued <= issued', issued' \in 1..MaxIssued,
           put \subseteq put', put' \subseteq 1..issued',
           policy = "same" => honoured \subseteq honoured', honoured' \subseteq 1..issued'
    PROVE  RefreshInv'
<1>1. TypeOK'
  BY DEF RefreshInv, TypeOK
<1>2. PairOK(signIn)'
  BY PairFacts DEF RefreshInv, TypeOK, PairOK
<1>3. ASSUME NEW d \in Callers, d # c PROVE CallerOK(d)'
  <2>1. /\ caller'[d] = caller[d] /\ CallerOK(d)
        /\ caller[d].pair \in Pair \cup {NoPair} /\ caller[d].fresh \in Pair \cup {NoPair}
    BY <1>3 DEF RefreshInv, TypeOK, Copies
  <2>2. PairOK(caller[d].pair)' /\ PairOK(caller[d].fresh)'
    BY <2>1, PairFacts DEF PairOK, CallerOK
  <2>3. QED
    BY <2>1, <2>2 DEF CallerOK, Persisted
<1>4. QED
  BY <1>1, <1>2, <1>3 DEF RefreshInv

\* A caller that goes on without new tokens.
LEMMA CallerGoesOn ==
    ASSUME RefreshInv, NEW c \in Callers,
           caller[c].pc \in Busy,
           NEW pc \in {"ok", "refresh_call", "call_failed", "rejected", "refresh_failed",
                       "put_failed", "retry_failed", "gone"},
           Becomes(c, pc),
           pc = "retry_failed" => caller[c].pc = "retry",
           UNCHANGED <<store, put, signIn, policy, age, signIns, signOuts>>,
           issued <= issued', issued' \in 1..MaxIssued,
           policy = "same" => honoured \subseteq honoured', honoured' \subseteq 1..issued'
    PROVE  RefreshInv'
<1>1. /\ caller' \in [Callers -> Copies]
      /\ caller'[c].pc = pc
      /\ caller'[c].pair = caller[c].pair /\ caller'[c].fresh = caller[c].fresh
      /\ \A d \in Callers : d # c => caller'[d] = caller[d]
  BY BecomesFacts DEF RefreshInv, TypeOK, Unloaded, Busy, Ended
<1>2. /\ caller[c].pair \in Pair /\ caller[c].fresh \in Pair \cup {NoPair}
      /\ CallerOK(c) /\ Persisted(caller[c].pair)
  BY DEF RefreshInv, TypeOK, CallerOK, Copies, Busy, Unloaded
<1>3. CallerOK(c)'
  BY <1>1, <1>2, PairFacts DEF CallerOK, PairOK, Persisted, Unloaded
<1>4. /\ store \in Pair \cup {NoPair} /\ PairOK(store)' /\ (store # NoPair => Persisted(store)')
      /\ put \subseteq 1..issued'
  BY PairFacts DEF RefreshInv, TypeOK, PairOK, Persisted
<1>5. QED
  <2>1. caller'[c].pair # NoPair
    BY <1>1, <1>2, PairFacts
  <2>2. put \subseteq put' /\ store' \in Pair \cup {NoPair}
    BY <1>4
  <2>3. QED
    BY <1>1, <1>3, <1>4, <2>1, <2>2, CallerMoves

\* What a caller has once it has loaded the stored pair.
LEMMA LoadIs ==
    ASSUME RefreshInv, NEW c \in Callers, Load(c)
    PROVE  \E r \in Copies : /\ caller' = [caller EXCEPT ![c] = r]
                             /\ r.pair = store
                             /\ \/ r.pc \in {"call", "refresh_session"} /\ r.fresh = NoPair
                                \/ r.pc = "session" /\ r.fresh = store
<1>1. store \in Pair
  BY DEF Load, RefreshInv, TypeOK
<1>2. CASE caller' = [caller EXCEPT ![c] = [Idle EXCEPT !.pc = "call", !.pair = store]]
  <2>1. /\ [Idle EXCEPT !.pc = "call", !.pair = store] \in Copies
        /\ [Idle EXCEPT !.pc = "call", !.pair = store].pair = store
        /\ [Idle EXCEPT !.pc = "call", !.pair = store].pc = "call"
        /\ [Idle EXCEPT !.pc = "call", !.pair = store].fresh = NoPair
    BY <1>1 DEF Idle, Copies, Busy
  <2>2. QED
    BY <1>2, <2>1
<1>3. CASE caller' = [caller EXCEPT ![c] =
           [pc |-> IF age[store.access] = "fresh" THEN "session" ELSE "refresh_session",
            pair |-> store, fresh |-> IF age[store.access] = "fresh" THEN store ELSE NoPair]]
  <2> DEFINE r == [pc |-> IF age[store.access] = "fresh" THEN "session" ELSE "refresh_session",
                   pair |-> store,
                   fresh |-> IF age[store.access] = "fresh" THEN store ELSE NoPair]
  <2>1. /\ r \in Copies /\ r.pair = store
        /\ \/ r.pc \in {"call", "refresh_session"} /\ r.fresh = NoPair
           \/ r.pc = "session" /\ r.fresh = store
    BY <1>1 DEF Copies, Busy, Ended
  <2>2. QED
    BY <1>3, <2>1
<1>4. QED
  BY <1>2, <1>3 DEF Load

\* Every step of a caller, the provider, a sign-in or a sign-out keeps the
\* invariant.
LEMMA StepRefreshInv == RefreshInv /\ [Next]_vars => RefreshInv'
<1> SUFFICES ASSUME RefreshInv, [Next]_vars PROVE RefreshInv'
  OBVIOUS
<1>1. CASE Delete
  <2>1. TypeOK'
    <3>1. store' = NoPair /\ UNCHANGED <<put, caller, signIn, policy, issued, age, honoured, signIns>>
      BY <1>1 DEF Delete, provider
    <3>2. signOuts' \in 0..MaxSignOuts
      BY <1>1, RefreshAssumption DEF Delete, RefreshInv, TypeOK
    <3>3. QED
      BY <3>1, <3>2 DEF RefreshInv, TypeOK
  <2>2. PairOK(store)' /\ PairOK(signIn)' /\ (store # NoPair => Persisted(store))'
    BY <1>1 DEF Delete, RefreshInv, PairOK, provider
  <2>3. ASSUME NEW d \in Callers PROVE CallerOK(d)'
    BY <1>1 DEF Delete, RefreshInv, PairOK, CallerOK, Persisted, provider
  <2>4. QED
    BY <2>1, <2>2, <2>3 DEF RefreshInv
<1>2. CASE SignInExchanges
  <2>1. /\ signIn' \in Pair /\ signIn'.access = issued + 1 /\ signIn'.refresh = issued + 1
        /\ issued' = issued + 1 /\ issued' \in 1..MaxIssued
        /\ honoured' = honoured \cup {issued + 1} /\ policy' = policy
        /\ UNCHANGED <<store, put, caller, age, signOuts>>
    BY <1>2, PairFacts DEF SignInExchanges, Pair
  <2>2. TypeOK'
    <3>1. signIns' \in 0..MaxSignIns
      BY <1>2, RefreshAssumption DEF SignInExchanges, RefreshInv, TypeOK
    <3>2. put \subseteq 1..issued' /\ honoured' \subseteq 1..issued'
      BY <2>1, PairFacts DEF RefreshInv, TypeOK
    <3>3. QED
      BY <2>1, <3>1, <3>2 DEF RefreshInv, TypeOK
  <2>3. PairOK(store)' /\ PairOK(signIn)' /\ (store # NoPair => Persisted(store))'
    BY <2>1, PairFacts DEF RefreshInv, TypeOK, PairOK, Persisted
  <2>4. ASSUME NEW d \in Callers PROVE CallerOK(d)'
    <3>1. /\ caller[d].pair \in Pair \cup {NoPair} /\ caller[d].fresh \in Pair \cup {NoPair}
          /\ CallerOK(d)
      BY DEF RefreshInv, TypeOK, Copies
    <3>2. QED
      BY <2>1, <3>1, PairFacts DEF PairOK, CallerOK, Persisted
  <2>5. QED
    BY <2>2, <2>3, <2>4 DEF RefreshInv
<1>3. CASE SignInPuts
  <2>1. signIn \in Pair /\ signIn.access \in 1..issued
    BY <1>3, PairFacts DEF SignInPuts, RefreshInv, TypeOK, PairOK
  <2>2. TypeOK'
    BY <1>3, <2>1, PairFacts DEF SignInPuts, Put, RefreshInv, TypeOK, provider
  <2>3. PairOK(store)' /\ PairOK(signIn)' /\ (store # NoPair => Persisted(store))'
    BY <1>3, <2>1 DEF SignInPuts, Put, RefreshInv, PairOK, Persisted, provider
  <2>4. ASSUME NEW d \in Callers PROVE CallerOK(d)'
    BY <1>3 DEF SignInPuts, Put, RefreshInv, PairOK, CallerOK, Persisted, provider
  <2>5. QED
    BY <2>2, <2>3, <2>4 DEF RefreshInv
<1>4. CASE \E n \in 1..MaxIssued : Ages(n)
  <2>1. TypeOK'
    BY <1>4 DEF Ages, RefreshInv, TypeOK
  <2>2. QED
    BY <1>4, <2>1 DEF Ages, RefreshInv, PairOK, CallerOK, Persisted
<1>5. ASSUME NEW c \in Callers, CallerStep(c) PROVE RefreshInv'
  <2>0. issued \in 1..MaxIssued /\ honoured \subseteq 1..issued /\ put \subseteq 1..issued
    BY DEF RefreshInv, TypeOK
  <2>a. ASSUME UNCHANGED <<put, issued, honoured>>
        PROVE  /\ issued <= issued' /\ issued' \in 1..MaxIssued
               /\ put \subseteq put' /\ put' \subseteq 1..issued'
               /\ policy = "same" => honoured \subseteq honoured'
               /\ honoured' \subseteq 1..issued'
    BY <2>0, <2>a
  <2>1. CASE Load(c)
    <3>1. store \in Pair /\ Persisted(store) /\ PairOK(store)
      BY <2>1 DEF Load, RefreshInv, TypeOK
    <3>2. PICK r \in Copies : /\ caller' = [caller EXCEPT ![c] = r]
                              /\ r.pair = store
                              /\ \/ r.pc \in {"call", "refresh_session"} /\ r.fresh = NoPair
                                 \/ r.pc = "session" /\ r.fresh = store
      BY <2>1, LoadIs
    <3>3. /\ caller' \in [Callers -> Copies] /\ caller'[c] = r
          /\ \A d \in Callers : d # c => caller'[d] = caller[d]
      BY <3>2 DEF RefreshInv, TypeOK
    <3>4. UNCHANGED <<store, put, signIn, policy, issued, age, honoured, signIns, signOuts>>
      BY <2>1 DEF Load, provider
    <3>5. CallerOK(c)'
      BY <3>1, <3>2, <3>3, <3>4, PairFacts DEF CallerOK, PairOK, Persisted
    <3>6. QED
      <4>1. /\ store' \in Pair \cup {NoPair} /\ PairOK(store)' /\ (store' # NoPair => Persisted(store)')
            /\ caller'[c].pair # NoPair
        BY <2>1, <3>1, <3>2, <3>3, <3>4 DEF Load, PairOK, Persisted
      <4>2. QED
        BY <2>a, <3>3, <3>4, <3>5, <4>1, CallerMoves
  <2>2. CASE LoadFails(c)
    <3>1. PICK pc \in {"not_found", "load_failed"} : Becomes(c, pc)
      BY <2>2 DEF LoadFails
    <3>2. /\ caller' \in [Callers -> Copies]
          /\ caller'[c].pc = pc
          /\ caller'[c].pair = caller[c].pair /\ caller'[c].fresh = caller[c].fresh
          /\ \A d \in Callers : d # c => caller'[d] = caller[d]
      BY <3>1, BecomesFacts DEF RefreshInv, TypeOK, Unloaded
    <3>3. UNCHANGED <<store, put, signIn, policy, issued, age, honoured, signIns, signOuts>>
      BY <2>2 DEF LoadFails, provider
    <3>4. CallerOK(c)'
      BY <3>1, <3>2, <3>3 DEF RefreshInv, CallerOK, PairOK, Unloaded
    <3>5. /\ store \in Pair \cup {NoPair} /\ PairOK(store)' /\ (store # NoPair => Persisted(store)')
      BY <3>3 DEF RefreshInv, TypeOK, PairOK, Persisted
    <3>6. QED
      <4>1. caller'[c].pc \in Unloaded /\ store' \in Pair \cup {NoPair}
        BY <3>1, <3>2, <3>3, <3>5 DEF Unloaded
      <4>2. QED
        BY <2>a, <3>2, <3>3, <3>4, <3>5, <4>1, CallerMoves
  <2>3. CASE Call(c)
    <3>1. PICK pc \in {"ok", "refresh_call", "call_failed"} : Becomes(c, pc)
      BY <2>3 DEF Call
    <3>2. /\ UNCHANGED <<store, put, signIn, policy, issued, age, honoured, signIns, signOuts>>
          /\ caller[c].pc \in Busy
      BY <2>3 DEF Call, provider, Busy
    <3>3. QED
      BY <2>a, <3>1, <3>2, CallerGoesOn
  <2>4. CASE Refresh(c)
    <3> DEFINE pair == caller[c].pair
               fresh == Refreshed(pair)
               pc == IF caller[c].pc = "refresh_call" THEN "put_call" ELSE "put_session"
    <3>1. /\ pair \in Pair /\ pair.access \in 1..issued
          /\ policy = "same" => pair.refresh \in honoured
          /\ caller[c].pc \in {"refresh_call", "refresh_session"}
      BY <2>4, PairFacts DEF Refresh, Refreshing, RefreshInv, TypeOK, Copies, PairOK, CallerOK,
                             Persisted, Unloaded
    <3>2. /\ issued' = issued + 1 /\ issued' \in 1..MaxIssued
          /\ policy = "same" => honoured' = honoured
          /\ honoured' \subseteq 1..issued'
          /\ UNCHANGED <<store, put, signIn, policy, age, signIns, signOuts>>
      BY <2>0, <2>4, PairFacts DEF Refresh, Refreshes
    <3>3. fresh.access = issued + 1 /\ fresh.refresh \in 0..MaxIssued
      BY <3>1, <3>2, PairFacts, RefreshAssumption DEF Refreshed, RefreshInv, TypeOK
    <3>4. fresh \in Pair
      BY <3>2, <3>3 DEF Refreshed, Pair
    <3>5. policy = "same" => fresh.refresh = pair.refresh
      BY DEF Refreshed
    <3>6. caller' = [caller EXCEPT ![c] = [caller[c] EXCEPT !.pc = pc, !.fresh = fresh]]
      BY <2>4 DEF Refresh
    <3>7. caller[c] \in Copies
      BY DEF RefreshInv, TypeOK
    <3> HIDE DEF fresh
    <3>8. /\ caller' \in [Callers -> Copies]
          /\ caller'[c].pc \in {"put_call", "put_session"}
          /\ caller'[c].pair = pair /\ caller'[c].fresh = fresh
          /\ \A d \in Callers : d # c => caller'[d] = caller[d]
      <4>1. /\ [caller[c] EXCEPT !.pc = pc, !.fresh = fresh] \in Copies
            /\ [caller[c] EXCEPT !.pc = pc, !.fresh = fresh].pc = pc
            /\ [caller[c] EXCEPT !.pc = pc, !.fresh = fresh].pair = pair
            /\ [caller[c] EXCEPT !.pc = pc, !.fresh = fresh].fresh = fresh
        <5>1. pc \in Unloaded \cup Busy \cup Ended /\ fresh \in Pair \cup {NoPair}
          BY <3>4 DEF Busy
        <5> HIDE DEF pc
        <5>2. QED
          BY <3>7, <5>1 DEF Copies
      <4>2. caller'[c] = [caller[c] EXCEPT !.pc = pc, !.fresh = fresh]
        BY <3>6 DEF RefreshInv, TypeOK
      <4>3. caller' \in [Callers -> Copies]
        BY <3>6, <4>1 DEF RefreshInv, TypeOK
      <4>4. \A d \in Callers : d # c => caller'[d] = caller[d]
        BY <3>6 DEF RefreshInv, TypeOK
      <4>5. QED
        BY <4>1, <4>2, <4>3, <4>4
    <3>9. CallerOK(c)' /\ caller'[c].pair # NoPair
      <4>1. pair.access \in put
        BY <3>1 DEF RefreshInv, CallerOK, Persisted, Unloaded
      <4>2. QED
        BY <3>1, <3>2, <3>3, <3>4, <3>5, <3>8, <4>1, PairFacts DEF CallerOK, PairOK, Persisted
    <3>10. /\ store \in Pair \cup {NoPair} /\ PairOK(store)' /\ (store # NoPair => Persisted(store)')
           /\ put \subseteq 1..issued' /\ issued <= issued'
      BY <2>0, <3>2, PairFacts DEF RefreshInv, TypeOK, PairOK, Persisted
    <3>11. QED
      <4>1. /\ store' \in Pair \cup {NoPair} /\ put \subseteq put' /\ put' \subseteq 1..issued'
            /\ (store' # NoPair => Persisted(store)')
            /\ policy = "same" => honoured \subseteq honoured'
        BY <3>2, <3>10
      <4>2. QED
        BY <3>2, <3>8, <3>9, <3>10, <4>1, CallerMoves
  <2>5. CASE RefreshRejected(c)
    <3>1. /\ UNCHANGED <<store, put, signIn, policy, issued, age, honoured, signIns, signOuts>>
          /\ caller[c].pc \in Busy /\ Becomes(c, "rejected")
      BY <2>5 DEF RefreshRejected, Refreshing, provider, Busy
    <3>2. QED
      BY <2>a, <3>1, CallerGoesOn
  <2>6. CASE RefreshFails(c)
    <3>1. /\ UNCHANGED <<store, put, signIn, policy, age, signIns, signOuts>>
          /\ caller[c].pc \in Busy /\ Becomes(c, "refresh_failed")
      BY <2>6 DEF RefreshFails, Refreshes, Refreshing, provider, Busy
    <3>2. /\ issued <= issued' /\ issued' \in 1..MaxIssued
          /\ policy = "same" => honoured \subseteq honoured'
          /\ honoured' \subseteq 1..issued'
      <4>1. CASE UNCHANGED provider
        BY <2>0, <4>1 DEF provider
      <4>2. CASE Refreshes(caller[c].pair)
        <5>1. issued < MaxIssued /\ issued' = issued + 1
          BY <4>2 DEF Refreshes
        <5>2. issued <= issued' /\ issued' \in 1..MaxIssued
          BY <2>0, <5>1, PairFacts
        <5>3. honoured' \subseteq honoured \cup {issued + 1} /\ (policy = "same" => honoured' = honoured)
          BY <4>2 DEF Refreshes
        <5>4. honoured' \subseteq 1..issued'
          BY <2>0, <5>1, <5>3
        <5>5. QED
          BY <5>2, <5>3, <5>4
      <4>3. QED
        BY <2>6, <4>1, <4>2 DEF RefreshFails
    <3>3. QED
      BY <3>1, <3>2, CallerGoesOn
  <2>7. CASE PutFresh(c)
    <3>1. PICK pc \in {"retry", "session"} :
             /\ Becomes(c, pc)
             /\ pc = "retry" => caller[c].pc = "put_call"
             /\ pc = "session" => caller[c].pc = "put_session"
      BY <2>7 DEF PutFresh, Putting
    <3>2. /\ store' = caller[c].fresh /\ put' = put \cup {caller[c].fresh.access}
          /\ UNCHANGED <<signIn, policy, issued, age, honoured, signIns, signOuts>>
      BY <2>7 DEF PutFresh, Put, provider
    <3>3. /\ caller[c].pair \in Pair /\ CallerOK(c) /\ Persisted(caller[c].pair)
          /\ caller[c].fresh \in Pair \cup {NoPair}
      BY <3>1 DEF RefreshInv, TypeOK, Copies, CallerOK, Unloaded
    <3>4. caller[c].fresh.access >= caller[c].pair.access
      <4>1. caller[c].fresh.access \in Int /\ caller[c].pair.access \in Int
        BY <3>3, PairFacts DEF NoPair
      <4>2. QED
        BY <3>1, <3>3, <4>1 DEF CallerOK
    <3>5. caller[c].fresh \in Pair /\ caller[c].fresh.access \in 1..issued
      BY <2>0, <3>3, <3>4, PairFacts DEF CallerOK, PairOK, NoPair
    <3>6. /\ caller' \in [Callers -> Copies]
          /\ caller'[c].pc = pc
          /\ caller'[c].pair = caller[c].pair /\ caller'[c].fresh = caller[c].fresh
          /\ \A d \in Callers : d # c => caller'[d] = caller[d]
      BY <3>1, BecomesFacts DEF RefreshInv, TypeOK, Busy, Ended
    <3>7. CallerOK(c)'
      BY <3>1, <3>2, <3>3, <3>4, <3>5, <3>6 DEF CallerOK, PairOK, Persisted
    <3>8. store' \in Pair /\ PairOK(store)' /\ Persisted(store)'
      BY <3>2, <3>3, <3>5 DEF CallerOK, PairOK, Persisted
    <3>9. QED
      <4>1. /\ issued <= issued' /\ issued' \in 1..MaxIssued
            /\ put \subseteq put' /\ put' \subseteq 1..issued'
            /\ policy = "same" => honoured \subseteq honoured'
            /\ honoured' \subseteq 1..issued'
        <5>1. put' \subseteq 1..issued
          BY <2>0, <3>2, <3>5
        <5>2. QED
          BY <2>0, <3>2, <5>1
      <4>2. caller'[c].pair # NoPair
        BY <3>3, <3>6, PairFacts
      <4>3. QED
        BY <3>2, <3>6, <3>7, <3>8, <4>1, <4>2, CallerMoves
  <2>8. CASE PutFails(c)
    <3>1. /\ UNCHANGED <<store, put, signIn, policy, issued, age, honoured, signIns, signOuts>>
          /\ caller[c].pc \in Busy /\ Becomes(c, "put_failed")
      BY <2>8 DEF PutFails, Putting, provider, Busy
    <3>2. QED
      BY <2>a, <3>1, CallerGoesOn
  <2>9. CASE Retry(c)
    <3>1. PICK pc \in {"ok", "retry_failed"} : Becomes(c, pc)
      BY <2>9 DEF Retry
    <3>2. /\ UNCHANGED <<store, put, signIn, policy, issued, age, honoured, signIns, signOuts>>
          /\ caller[c].pc \in Busy /\ caller[c].pc = "retry"
      BY <2>9 DEF Retry, provider, Busy
    <3>3. QED
      BY <2>a, <3>1, <3>2, CallerGoesOn
  <2>10. CASE Gone(c)
    <3>1. /\ UNCHANGED <<store, put, signIn, policy, issued, age, honoured, signIns, signOuts>>
          /\ caller[c].pc \in Busy /\ Becomes(c, "gone")
      BY <2>10 DEF Gone, provider
    <3>2. QED
      BY <2>a, <3>1, CallerGoesOn
  <2>11. QED
    BY <1>5, <2>1, <2>2, <2>3, <2>4, <2>5, <2>6, <2>7, <2>8, <2>9, <2>10 DEF CallerStep
<1>6. CASE UNCHANGED vars
  BY <1>6 DEF vars, RefreshInv, TypeOK, PairOK, CallerOK, Persisted
<1>7. QED
  BY <1>1, <1>2, <1>3, <1>4, <1>5, <1>6 DEF Next

\* The inductive invariant holds of every behaviour.
THEOREM RefreshInvariant == Spec => []RefreshInv
BY InitRefreshInv, StepRefreshInv, PTL DEF Spec

\* The variables keep their types, and no caller works on tokens it has not
\* loaded (flow.go:170-177, 260-263).
THEOREM TokensTypeCorrect == Spec => []TypeOK
<1>1. RefreshInv => TypeOK
  BY DEF RefreshInv
<1>2. QED
  BY <1>1, RefreshInvariant, PTL

\* Tokens are in the store before they are used or handed out, and a retry uses
\* newer ones than the call it repeats (flow.go:188-200, 250-251).
THEOREM UsedTokensAreStored == Spec => []UsedTokensWereStored
<1>1. RefreshInv => UsedTokensWereStored
  <2> SUFFICES ASSUME RefreshInv, NEW c \in Callers
               PROVE  /\ caller[c].pc \in {"call", "retry", "session", "retry_failed"} =>
                            Persisted(caller[c].pair)
                      /\ caller[c].pc \in {"retry", "session", "retry_failed"} =>
                            /\ Persisted(caller[c].fresh)
                            /\ caller[c].fresh.access >= caller[c].pair.access
                      /\ caller[c].pc \in {"retry", "retry_failed"} =>
                            caller[c].fresh.access > caller[c].pair.access
    BY DEF UsedTokensWereStored
  <2>1. CallerOK(c) /\ {caller[c].pair, caller[c].fresh} \subseteq Pair \cup {NoPair}
    BY DEF RefreshInv, TypeOK, Copies
  <2>2. caller[c].pair.access \in Int /\ caller[c].fresh.access \in Int
    BY <2>1, PairFacts DEF NoPair
  <2>3. QED
    BY <2>1, <2>2 DEF CallerOK, Unloaded
<1>2. QED
  BY <1>1, RefreshInvariant, PTL

-----------------------------------------------------------------------------
(* A provider that rotates *)

\* Without a reply to a refresh there are no new tokens.  New tokens that are about to
\* be stored are not stored yet, can be refreshed, and are nobody else's.
Holds(c) ==
    /\ caller[c].pair.refresh = caller[c].pair.access
    /\ caller[c].fresh.refresh = caller[c].fresh.access
    /\ caller[c].pc \in Unloaded \cup {"call", "refresh_call", "refresh_session"} =>
          caller[c].fresh = NoPair
    /\ Putting(c) => /\ caller[c].fresh # NoPair
                     /\ caller[c].fresh.access \in honoured \ put
                     /\ caller[c].fresh.access # signIn.access

\* A caller has spent the refresh token in the store and owes its successor.
Spent == \E c \in Callers : caller[c].pair.refresh = store.refresh /\ Owes(c)

RotationInv ==
    policy = "rotates" =>
        /\ store.refresh = store.access /\ signIn.refresh = signIn.access
        /\ signIn # NoPair => signIn.access \in honoured \ put
        /\ \A c \in Callers : Holds(c)
        /\ \A c, d \in Callers :
              c # d /\ Putting(c) /\ Putting(d) => caller[c].fresh.access # caller[d].fresh.access
        /\ store # NoPair /\ store.refresh \notin honoured => Spent

\* The identity has signed in, and the provider honours what it issued.
LEMMA InitRotationInv == Init => RotationInv
BY DEF Init, RotationInv, Holds, Putting, Idle, NoPair, Unloaded

\* A caller that goes on with the tokens it has.
LEMMA GoesOnRotating ==
    ASSUME RotationInv, policy = "rotates", NEW c \in Callers,
           caller[c].pc # "refresh_failed",
           caller'[c].pair = caller[c].pair, caller'[c].fresh = caller[c].fresh,
           ~Putting(c)',
           caller'[c].pc \in Unloaded \cup {"call", "refresh_call", "refresh_session"} =>
               caller[c].pc \in Unloaded \cup {"call", "refresh_call", "refresh_session"},
           \A d \in Callers : d # c => caller'[d] = caller[d],
           UNCHANGED <<store, put, signIn, policy, honoured>>
    PROVE  RotationInv'
<1>1. ASSUME NEW d \in Callers PROVE Holds(d)'
  <2>1. CASE d = c
    BY <2>1 DEF RotationInv, Holds
  <2>2. CASE d # c
    BY <2>2 DEF RotationInv, Holds, Putting
  <2>3. QED
    BY <2>1, <2>2
<1>2. ASSUME NEW d \in Callers, NEW e \in Callers, d # e, Putting(d)', Putting(e)'
      PROVE  caller'[d].fresh.access # caller'[e].fresh.access
  BY <1>2 DEF RotationInv, Putting
<1>3. ASSUME NEW d \in Callers, Owes(d) PROVE Owes(d)' /\ caller'[d].pair = caller[d].pair
  <2>1. CASE d = c
    BY <1>3, <2>1 DEF Owes, Persisted
  <2>2. CASE d # c
    BY <1>3, <2>2 DEF Owes, Persisted
  <2>3. QED
    BY <2>1, <2>2
<1>4. Spent => Spent'
  BY <1>3 DEF Spent
<1>5. QED
  BY <1>1, <1>2, <1>4 DEF RotationInv

\* Spending a refresh token leaves a caller that owes its successor.  The token spent is
\* one that was stored, so it is none of those on their way to the store.
LEMMA SpendsRotating ==
    ASSUME RefreshInv, RotationInv, policy = "rotates", NEW c \in Callers,
           Refreshing(c), Refreshes(caller[c].pair),
           caller'[c].pair = caller[c].pair, caller'[c].fresh.refresh = caller'[c].fresh.access,
           \/ /\ Putting(c)'
              /\ caller'[c].fresh.access = issued + 1
           \/ caller'[c].pc = "refresh_failed",
           \A d \in Callers : d # c => caller'[d] = caller[d],
           UNCHANGED <<store, put, signIn>>
    PROVE  RotationInv'
<1> DEFINE spent == caller[c].pair.access
<1>1. /\ honoured' = (honoured \ {spent}) \cup {issued + 1} /\ UNCHANGED policy
      /\ Holds(c)
  BY DEF Refreshes, RotationInv, Holds
<1>2. /\ issued \in Nat /\ issued + 1 \notin put /\ spent \in put
  BY PairFacts DEF RefreshInv, TypeOK, CallerOK, Persisted, Refreshing, Unloaded
<1>3. ASSUME NEW p \in Pair, PairOK(p) PROVE p.access # issued + 1
  BY <1>3, PairFacts DEF PairOK
<1>4. signIn.access # issued + 1
  BY <1>2, <1>3 DEF RefreshInv, TypeOK, NoPair
<1>5. ASSUME NEW d \in Callers PROVE caller[d].fresh.access # issued + 1
  <2>1. caller[d].fresh \in Pair \cup {NoPair} /\ PairOK(caller[d].fresh)
    BY DEF RefreshInv, TypeOK, Copies, CallerOK
  <2>2. QED
    BY <1>2, <1>3, <2>1 DEF NoPair
<1>6. Holds(c)'
  <2>1. CASE Putting(c)' /\ caller'[c].fresh.access = issued + 1
    <3>1. caller'[c].fresh # NoPair
      BY <1>2, <2>1 DEF NoPair
    <3>2. QED
      BY <1>1, <1>2, <1>4, <2>1, <3>1 DEF Holds, Putting, Unloaded
  <2>2. CASE caller'[c].pc = "refresh_failed"
    BY <1>1, <2>2 DEF Holds, Putting, Unloaded
  <2>3. QED
    BY <2>1, <2>2
<1>7. ASSUME NEW d \in Callers, d # c PROVE Holds(d)'
  BY <1>1, <1>2, <1>7 DEF RotationInv, Holds, Putting
<1>8. ASSUME NEW d \in Callers, NEW e \in Callers, d # e, Putting(d)', Putting(e)'
      PROVE  caller'[d].fresh.access # caller'[e].fresh.access
  <2>1. CASE d # c /\ e # c
    BY <1>8, <2>1 DEF RotationInv, Putting
  <2>2. CASE d = c
    BY <1>5, <1>8, <2>2 DEF Putting
  <2>3. CASE e = c
    BY <1>5, <1>8, <2>3 DEF Putting
  <2>4. QED
    BY <2>1, <2>2, <2>3
<1>9. signIn # NoPair => signIn.access \in honoured' \ put
  BY <1>1, <1>2 DEF RotationInv
<1>10. Owes(c)'
  <2>1. CASE Putting(c)' /\ caller'[c].fresh.access = issued + 1
    <3>1. caller'[c].fresh # NoPair
      BY <1>2, <2>1 DEF NoPair
    <3>2. QED
      BY <1>2, <2>1, <3>1 DEF Owes, Persisted
  <2>2. CASE caller'[c].pc = "refresh_failed"
    BY <2>2 DEF Owes
  <2>3. QED
    BY <2>1, <2>2
<1>11. store # NoPair /\ store.refresh \notin honoured' => Spent'
  <2>1. CASE store.refresh = spent
    BY <1>1, <1>10, <2>1 DEF Spent, Holds
  <2>2. CASE store.refresh # spent
    <3>1. ASSUME NEW d \in Callers, Owes(d)
          PROVE  Owes(d)' /\ caller'[d].pair = caller[d].pair
      <4>1. CASE d = c
        BY <1>10, <4>1
      <4>2. CASE d # c
        BY <3>1, <4>2 DEF Owes, Persisted
      <4>3. QED
        BY <4>1, <4>2
    <3>2. Spent => Spent'
      BY <3>1 DEF Spent
    <3>3. QED
      BY <1>1, <2>2, <3>2 DEF RotationInv
  <2>3. QED
    BY <2>1, <2>2
<1>12. QED
  BY <1>1, <1>6, <1>7, <1>8, <1>9, <1>11 DEF RotationInv

\* Whatever happens, a token in the store that is void has been spent by a caller that
\* owes its successor.
LEMMA StepRotationInv == RefreshInv /\ RotationInv /\ [Next]_vars => RotationInv'
<1> SUFFICES ASSUME RefreshInv, RotationInv, [Next]_vars, policy = "rotates" PROVE RotationInv'
  <2>1. ASSUME [Next]_vars PROVE policy' = policy
    BY <2>1 DEF Next, vars, Delete, SignInExchanges, SignInPuts, Ages, CallerStep, Load, LoadFails,
           Call, Refresh, RefreshRejected, RefreshFails, Refreshes, PutFresh, PutFails, Retry,
           Gone, provider
  <2>2. QED
    BY <2>1 DEF RotationInv
<1>1. CASE Delete
  BY <1>1 DEF Delete, RotationInv, Holds, Putting, NoPair, provider
<1>2. CASE SignInExchanges
  <2>1. /\ signIn'.access = issued + 1 /\ signIn'.refresh = issued + 1
        /\ honoured' = honoured \cup {issued + 1}
        /\ UNCHANGED <<store, put, caller, policy>>
    BY <1>2 DEF SignInExchanges
  <2>2. issued \in Nat /\ issued + 1 \notin put
    BY PairFacts DEF RefreshInv, TypeOK
  <2>3. ASSUME NEW d \in Callers PROVE Holds(d)'
    <3>1. caller[d].fresh \in Pair \cup {NoPair} /\ PairOK(caller[d].fresh)
      BY DEF RefreshInv, TypeOK, Copies, CallerOK
    <3>2. caller[d].fresh.access # issued + 1
      BY <2>2, <3>1, PairFacts DEF PairOK, NoPair
    <3>3. QED
      BY <2>1, <3>2 DEF RotationInv, Holds, Putting
  <2>4. Spent => Spent'
    BY <2>1 DEF Spent, Owes, Persisted
  <2>5. QED
    BY <2>1, <2>2, <2>3, <2>4 DEF RotationInv, Putting
<1>3. CASE SignInPuts
  <2>1. /\ store' = signIn /\ put' = put \cup {signIn.access} /\ signIn' = NoPair
        /\ signIn # NoPair /\ UNCHANGED <<caller, honoured, policy>>
    BY <1>3 DEF SignInPuts, Put, provider
  <2>2. ASSUME NEW d \in Callers PROVE Holds(d)'
    <3>1. caller[d].fresh \in Pair \cup {NoPair}
      BY DEF RefreshInv, TypeOK, Copies
    <3>2. Putting(d) => caller[d].fresh.access # 0
      BY <3>1, PairFacts DEF RotationInv, Holds
    <3>3. QED
      BY <2>1, <3>2 DEF RotationInv, Holds, Putting, NoPair
  <2>3. QED
    BY <2>1, <2>2 DEF RotationInv, Putting, NoPair
<1>4. CASE \E n \in 1..MaxIssued : Ages(n)
  BY <1>4 DEF Ages, RotationInv, Holds, Putting, Spent, Owes, Persisted
<1>5. ASSUME NEW c \in Callers, CallerStep(c) PROVE RotationInv'
  <2>1. CASE Load(c)
    <3>1. PICK r \in Copies : /\ caller' = [caller EXCEPT ![c] = r]
                              /\ r.pair = store
                              /\ \/ r.pc \in {"call", "refresh_session"} /\ r.fresh = NoPair
                                 \/ r.pc = "session" /\ r.fresh = store
      BY <2>1, LoadIs
    <3>2. /\ caller'[c] = r /\ \A d \in Callers : d # c => caller'[d] = caller[d]
          /\ caller[c].pc = "idle"
          /\ UNCHANGED <<store, put, signIn, policy, honoured>>
      BY <2>1, <3>1 DEF Load, provider, RefreshInv, TypeOK
    <3>3. Holds(c)'
      BY <3>1, <3>2 DEF RotationInv, Holds, Putting, NoPair, Unloaded
    <3>4. ASSUME NEW d \in Callers, d # c PROVE Holds(d)'
      BY <3>2, <3>4 DEF RotationInv, Holds, Putting
    <3>5. ~Putting(c)'
      BY <3>1, <3>2 DEF Putting
    <3>6. ~Owes(c)
      BY <3>2 DEF RotationInv, Holds, Owes, Unloaded
    <3>7. Spent => Spent'
      BY <3>2, <3>6 DEF Spent, Owes, Persisted
    <3>8. ASSUME NEW d \in Callers, NEW e \in Callers, d # e, Putting(d)', Putting(e)'
          PROVE  caller'[d].fresh.access # caller'[e].fresh.access
      BY <3>2, <3>5, <3>8 DEF RotationInv, Putting
    <3>9. QED
      BY <3>2, <3>3, <3>4, <3>7, <3>8 DEF RotationInv
  <2>2. CASE Refresh(c)
    <3> DEFINE fresh == Refreshed(caller[c].pair)
               pc == IF caller[c].pc = "refresh_call" THEN "put_call" ELSE "put_session"
    <3>1. /\ caller' = [caller EXCEPT ![c] = [caller[c] EXCEPT !.pc = pc, !.fresh = fresh]]
          /\ Refreshing(c) /\ Refreshes(caller[c].pair) /\ UNCHANGED <<store, put, signIn>>
          /\ caller \in [Callers -> Copies]
      BY <2>2 DEF Refresh, RefreshInv, TypeOK
    <3>2. fresh.access = issued + 1 /\ fresh.refresh = fresh.access /\ pc \in {"put_call", "put_session"}
      BY DEF Refreshed
    <3> HIDE DEF fresh, pc
    <3>3. /\ [caller[c] EXCEPT !.pc = pc, !.fresh = fresh].pc = pc
          /\ [caller[c] EXCEPT !.pc = pc, !.fresh = fresh].pair = caller[c].pair
          /\ [caller[c] EXCEPT !.pc = pc, !.fresh = fresh].fresh = fresh
      BY <3>1 DEF Copies
    <3>4. /\ caller'[c].pc = pc /\ caller'[c].pair = caller[c].pair /\ caller'[c].fresh = fresh
          /\ \A d \in Callers : d # c => caller'[d] = caller[d]
      BY <3>1, <3>3
    <3>5. Putting(c)' /\ caller'[c].fresh.access = issued + 1
          /\ caller'[c].fresh.refresh = caller'[c].fresh.access
      BY <3>2, <3>4 DEF Putting
    <3>6. QED
      BY <3>1, <3>4, <3>5, SpendsRotating
  <2>3. CASE RefreshFails(c)
    <3>1. /\ Becomes(c, "refresh_failed") /\ Refreshing(c)
          /\ UNCHANGED <<store, put, signIn>> /\ caller \in [Callers -> Copies]
          /\ UNCHANGED provider \/ Refreshes(caller[c].pair)
      BY <2>3 DEF RefreshFails, RefreshInv, TypeOK
    <3>2. /\ caller'[c].pc = "refresh_failed"
          /\ caller'[c].pair = caller[c].pair /\ caller'[c].fresh = caller[c].fresh
          /\ \A d \in Callers : d # c => caller'[d] = caller[d]
      BY <3>1, BecomesFacts DEF Ended
    <3>3. CASE Refreshes(caller[c].pair)
      <4>1. caller'[c].fresh.refresh = caller'[c].fresh.access
        BY <3>2 DEF RotationInv, Holds
      <4>2. QED
        BY <3>1, <3>2, <3>3, <4>1, SpendsRotating
    <3>4. CASE UNCHANGED provider
      BY <3>1, <3>2, <3>4, GoesOnRotating DEF Refreshing, Putting, Unloaded, provider
    <3>5. QED
      BY <3>1, <3>3, <3>4
  <2>4. CASE PutFresh(c)
    <3>1. PICK pc \in {"retry", "session"} : Becomes(c, pc)
      BY <2>4 DEF PutFresh
    <3>2. /\ store' = caller[c].fresh /\ put' = put \cup {caller[c].fresh.access}
          /\ UNCHANGED <<signIn, policy, honoured>> /\ Putting(c)
      BY <2>4 DEF PutFresh, Put, provider
    <3>3. /\ caller'[c].pc = pc
          /\ caller'[c].pair = caller[c].pair /\ caller'[c].fresh = caller[c].fresh
          /\ \A d \in Callers : d # c => caller'[d] = caller[d]
      BY <3>1, BecomesFacts DEF RefreshInv, TypeOK, Busy, Ended
    <3>4. ~Putting(c)'
      BY <3>1, <3>3 DEF Putting
    <3>5. Holds(c)'
      BY <3>1, <3>3, <3>4 DEF RotationInv, Holds, Unloaded
    <3>6. ASSUME NEW d \in Callers, d # c PROVE Holds(d)'
      <4>1. caller'[d] = caller[d] /\ Holds(d)
        BY <3>3, <3>6 DEF RotationInv
      <4>2. Putting(d) => caller[d].fresh.access # caller[c].fresh.access
        BY <3>2, <3>6 DEF RotationInv
      <4>3. QED
        BY <3>2, <4>1, <4>2 DEF Holds, Putting
    <3>7. ASSUME NEW d \in Callers, NEW e \in Callers, d # e, Putting(d)', Putting(e)'
          PROVE  caller'[d].fresh.access # caller'[e].fresh.access
      BY <3>3, <3>4, <3>7 DEF RotationInv, Putting
    <3>8. /\ store'.refresh = store'.access /\ store'.refresh \in honoured'
          /\ signIn # NoPair => signIn.access \in honoured' \ put'
      BY <3>2 DEF RotationInv, Holds
    <3>9. QED
      BY <3>2, <3>5, <3>6, <3>7, <3>8 DEF RotationInv
  <2>5. CASE LoadFails(c) \/ Call(c) \/ RefreshRejected(c) \/ PutFails(c) \/ Retry(c) \/ Gone(c)
    <3>1. PICK pc \in {"not_found", "load_failed", "ok", "refresh_call", "call_failed", "rejected",
                       "put_failed", "retry_failed", "gone"} :
             /\ Becomes(c, pc)
             /\ pc \in {"not_found", "load_failed"} => caller[c].pc = "idle"
             /\ pc = "refresh_call" => caller[c].pc = "call"
      BY <2>5 DEF LoadFails, Call, RefreshRejected, PutFails, Retry, Gone
    <3>2. UNCHANGED <<store, put, signIn, policy, honoured>> /\ caller[c].pc # "refresh_failed"
      BY <2>5 DEF LoadFails, Call, RefreshRejected, PutFails, Retry, Gone, provider, Refreshing,
                  Putting, Busy
    <3>3. /\ caller'[c].pc = pc
          /\ caller'[c].pair = caller[c].pair /\ caller'[c].fresh = caller[c].fresh
          /\ \A d \in Callers : d # c => caller'[d] = caller[d]
      BY <3>1, BecomesFacts DEF RefreshInv, TypeOK, Unloaded, Busy, Ended
    <3>4. ~Putting(c)'
      BY <3>1, <3>3 DEF Putting
    <3>5. pc \in Unloaded \cup {"call", "refresh_call", "refresh_session"} =>
            caller[c].pc \in Unloaded \cup {"call", "refresh_call", "refresh_session"}
      BY <3>1 DEF Unloaded
    <3>6. QED
      BY <3>2, <3>3, <3>4, <3>5, GoesOnRotating
  <2>6. QED
    BY <1>5, <2>1, <2>2, <2>3, <2>4, <2>5 DEF CallerStep
<1>6. CASE UNCHANGED vars
  BY <1>6 DEF vars, RotationInv, Holds, Putting, Spent, Owes, Persisted
<1>7. QED
  BY <1>1, <1>2, <1>3, <1>4, <1>5, <1>6 DEF Next

\* Where the provider repeats the refresh token, no interleaving of refreshes,
\* failures, sign-ins and sign-outs leaves a dead pair in the store; where it rotates,
\* only a caller does that has spent the stored token and owes the store its successor
\* (flow.go:188-195).
THEOREM StoredSignInLasts == Spec => []SignInLasts
<1>1. Spec => []RotationInv
  <2>1. Spec => [](RefreshInv /\ RotationInv)
    BY InitRefreshInv, StepRefreshInv, InitRotationInv, StepRotationInv, PTL DEF Spec
  <2>2. QED
    BY <2>1, PTL
<1>2. RefreshInv /\ RotationInv => SignInLasts
  BY RefreshAssumption DEF RefreshInv, TypeOK, PairOK, RotationInv, Spent, SignInLasts
<1>3. QED
  BY <1>1, <1>2, RefreshInvariant, PTL

=============================================================================
