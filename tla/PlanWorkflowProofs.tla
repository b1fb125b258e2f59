-------------------------- MODULE PlanWorkflowProofs --------------------------
(***************************************************************************)
(* For every set of plans, number of attempts and crashes: the invariants  *)
(* of PlanWorkflow, and that it implements DagRun.                         *)
(*                                                                         *)
(* A plan p has one layering, whoever computes it and however often.  The  *)
(* invariant says that there are layers F, as many as have been found so   *)
(* far, and a number m of those that were dispatched, such that the        *)
(* history holds exactly the commands of the first m layers of F, and      *)
(* whatever a worker has in memory is a part of F and of the history.      *)
(* What is said of F, of the history and of the memory are predicates of   *)
(* values, so that the lemmas about them mention no variable.              *)
(***************************************************************************)
EXTENDS PlanWorkflow, FiniteSetTheorems, SequenceTheorems, WellFoundedInduction, TLAPS

-----------------------------------------------------------------------------
(* A plan and its layers *)

IdsOf(p) == {n.id : n \in Range(p.nodes)}
NodeOf(p, id) == CHOOSE n \in Range(p.nodes) : n.id = id
Needs(p, id) == Range(NodeOf(p, id).requires)

\* How many of the entries of its requires are not in D.
Missing(p, id, D) ==
    Cardinality({j \in DOMAIN NodeOf(p, id).requires : NodeOf(p, id).requires[j] \notin D})

\* How many are in S.
Found(p, id, S) ==
    Cardinality({j \in DOMAIN NodeOf(p, id).requires : NodeOf(p, id).requires[j] \in S})

TriesOf(p, id) ==
    FirstSet(NodeOf(p, id).options.maxAttempts, p.defaults.maxAttempts, DefaultMaxAttempts)

PlanChecked(p) ==
    /\ p.nodes # <<>>
    /\ Checked(p.defaults)
    /\ \A i \in DOMAIN p.nodes : LET n == p.nodes[i] IN
        /\ n.id # EmptyID
        /\ \A j \in 1..(i - 1) : p.nodes[j].id # n.id
        /\ n.named
        /\ Checked(n.options)
        /\ \A r \in Required(n) : r # n.id /\ \E m \in Range(p.nodes) : m.id = r

\* What can run next once D is done.
Ready(p, D) == {id \in IdsOf(p) : Needs(p, id) \subseteq D} \ D

\* The nodes of the layers before the k-th.
Before(F, k) == UNION {Range(F[j]) : j \in 1..(k - 1)}

Layering(p, F) ==
    /\ F \in Seq(Seq(NodeIDs))
    /\ \A k \in 1..Len(F) : F[k] = SortIDs(Ready(p, Before(F, k))) /\ Ready(p, Before(F, k)) # {}
    /\ \A k \in 1..(Len(F) + 1) : k <= Cardinality(Before(F, k)) + 1
    /\ F # <<>> => PlanChecked(p)

Whole(p, F) == Before(F, Len(F) + 1) = IdsOf(p)

-----------------------------------------------------------------------------
(* The inductive invariant *)

Commands == [id : NodeIDs, upstream : UNION {[S -> Outcome] : S \in SUBSET NodeIDs}]

CommandFor(p, id, res) == [id |-> id, upstream |-> [r \in Needs(p, id) |-> res[r]]]

\* An attempt is left for what is scheduled.
Attempted(p, id, s, a) ==
    /\ s = "none" => a = 0
    /\ s # "none" => a <= TriesOf(p, id)
    /\ s = "scheduled" => a < TriesOf(p, id)

\* The first m layers were dispatched, the last of them perhaps unfinished.
HistoryTyped(cmds, st, att, res) ==
    /\ cmds \in Seq(Commands)
    /\ st \in [NodeIDs -> {"none", "scheduled", "running", "completed", "failed"}]
    /\ att \in [NodeIDs -> Nat]
    /\ res \in [NodeIDs -> Outcome]

CommandsOfLayers(p, F, m, cmds, res) ==
    /\ Len(cmds) = Cardinality(Before(F, m + 1))
    /\ \A k \in 1..m : \A i \in 1..Len(F[k]) :
           cmds[Cardinality(Before(F, k)) + i] = CommandFor(p, F[k][i], res)
    /\ \A i \in 1..Len(cmds) :
           cmds[i].id \in Before(F, m + 1) /\ cmds[i] = CommandFor(p, cmds[i].id, res)

ActivitiesInv(p, F, m, st, att, res) ==
    /\ \A id \in NodeIDs :
        /\ st[id] # "none" <=> id \in Before(F, m + 1)
        /\ st[id] = "completed" <=> res[id] # NoOutput
        /\ Attempted(p, id, st[id], att[id])
    /\ \A id \in Before(F, m) : st[id] = "completed"

HistoryInv(p, F, m, cmds, st, att, res) ==
    /\ m \in 0..Len(F)
    /\ m > 0 => Whole(p, F)
    /\ HistoryTyped(cmds, st, att, res)
    /\ CommandsOfLayers(p, F, m, cmds, res)
    /\ ActivitiesInv(p, F, m, st, att, res)

\* The layering loop has found the first layers of F.
Layered(p, F, ind, dn, ls, rem) ==
    /\ ls \in Seq(Seq(NodeIDs)) /\ Len(ls) <= Len(F)
    /\ \A k \in 1..Len(ls) : ls[k] = F[k]
    /\ dn = Before(F, Len(ls) + 1)
    /\ ind = [id \in IdsOf(p) |-> Missing(p, id, dn)]
    /\ rem = Cardinality(IdsOf(p) \ dn)

\* The worker has waited for S.
Fetched(S, out, st, res) ==
    /\ \A id \in S : st[id] = "completed"
    /\ out = [id \in NodeIDs |-> IF id \in S THEN res[id] ELSE NoOutput]

AtStart(l, f, out, iss) == l = 1 /\ f = 1 /\ out = [id \in NodeIDs |-> NoOutput] /\ iss = 0

AtDispatch(F, m, l, out, iss, st, res) ==
    /\ l \in 1..(m + 1)
    /\ iss = Cardinality(Before(F, l))
    /\ Fetched(Before(F, l), out, st, res)

AwaitedBefore(F, l, f) == Before(F, l) \cup {F[l][j] : j \in 1..(f - 1)}

AtAwait(F, m, l, f, out, iss, st, res) ==
    /\ l \in 1..m
    /\ f \in 1..Len(F[l])
    /\ iss = Cardinality(Before(F, l + 1))
    /\ Fetched(AwaitedBefore(F, l, f), out, st, res)

\* What the code's place says of the rest of its memory, mem, and of the history.
Place(p, F, m, x, ind, dn, ls, rem, l, f, out, iss, st, res, v) ==
    /\ x \in {"check", "layer"} => v = "open" /\ AtStart(l, f, out, iss)
    /\ x = "layer" => PlanChecked(p) /\ Layered(p, F, ind, dn, ls, rem)
    /\ x \in {"dispatch", "await"} \/ v \in {"completed", "failed"} =>
           PlanChecked(p) /\ Whole(p, F) /\ ls = F
    /\ x = "dispatch" => v = "open" /\ AtDispatch(F, m, l, out, iss, st, res)
    /\ x = "await" => v = "open" /\ AtAwait(F, m, l, f, out, iss, st, res)
    /\ x = "end" => v # "open"
    /\ v = "completed" => l = Len(F) + 1 /\ AtDispatch(F, m, l, out, iss, st, res)

MemoryTyped ==
    /\ caller \in {"submit", "workflow"}
    /\ pc \in {"check", "layer", "dispatch", "await", "end"}
    /\ \A id \in DOMAIN indegree : id \in NodeIDs /\ indegree[id] \in Nat
    /\ done \in SUBSET NodeIDs
    /\ layers \in Seq(Seq(NodeIDs))
    /\ remaining \in Nat
    /\ layer \in Nat /\ future \in Nat
    /\ outputs \in [NodeIDs -> Outcome]
    /\ issued \in Nat
    /\ verdict \in {"open", "completed", "failed", "rejected"}
    /\ crashes \in 0..MaxCrashes

Now(F, m) ==
    /\ Layering(plan, F)
    /\ HistoryInv(plan, F, m, commands, status, attempts, result)
    /\ Place(plan, F, m, pc, indegree, done, layers, remaining, layer, future, outputs,
             issued, status, result, verdict)

IInv == plan \in Plans /\ MemoryTyped /\ \E F \in Seq(Seq(NodeIDs)), m \in Nat : Now(F, m)

-----------------------------------------------------------------------------
(* Numbers, sets and sequences *)

LEMMA LeastNat ==
    ASSUME NEW S \in SUBSET Nat, S # {}
    PROVE  \E x \in S : \A y \in S : x <= y
<1>1. PICK x \in S : \A y \in S : <<y, x>> \notin OpToRel(<, Nat)
  BY NatLessThanWellFounded, WFMin, Zenon
<1>2. \A y \in S : ~(y < x)
  BY <1>1, Zenon DEF OpToRel
<1>3. \A y \in S : x <= y
  <2> TAKE y \in S
  <2>1. x \in Nat /\ y \in Nat
    OBVIOUS
  <2>2. ~(y < x)
    BY <1>2
  <2> QED
    BY <2>1, <2>2
<1> QED
  BY <1>3, Zenon

LEMMA SortedIs ==
    ASSUME NEW S \in SUBSET NodeIDs, IsFiniteSet(S)
    PROVE  /\ SortIDs(S) \in Seq(NodeIDs)
           /\ Len(SortIDs(S)) = Cardinality(S)
           /\ Range(SortIDs(S)) = S
<1>1. SortIDs(S) \in [1..Cardinality(S) -> S] /\ Range(SortIDs(S)) = S
  BY SortAssumption
<1>2. Cardinality(S) \in Nat
  BY FS_CardinalityType
<1> HIDE DEF Range
<1> DEFINE q == SortIDs(S) n == Cardinality(S)
<1>3. q \in [1..n -> NodeIDs]
  BY <1>1
<1>4. q \in Seq(NodeIDs) /\ Len(q) = n
  <2> HIDE DEF q, n
  <2> QED
    BY <1>2, <1>3 DEF n
<1> QED
  BY <1>1, <1>4

-----------------------------------------------------------------------------
(* Plans *)

LEMMA PlanShape ==
    ASSUME NEW p \in Plans
    PROVE  /\ p.nodes \in Seq([id : NodeIDs, named : BOOLEAN, requires : Seq(NodeIDs),
                               options : Options])
           /\ p.defaults \in Options
BY PlansAssumption

LEMMA NodeShape ==
    ASSUME NEW p \in Plans, NEW n \in Range(p.nodes)
    PROVE  /\ n.id \in NodeIDs /\ n.id \in IdsOf(p)
           /\ n.requires \in Seq(NodeIDs)
           /\ n.options.maxAttempts \in Int
<1>1. PICK i \in DOMAIN p.nodes : n = p.nodes[i]
  BY DEF Range
<1> DEFINE q == p.nodes
           T == [id : NodeIDs, named : BOOLEAN, requires : Seq(NodeIDs), options : Options]
<1>2. n \in T
  <2>1. q \in Seq(T)
    BY PlanShape
  <2> HIDE DEF q, T
  <2>2. \A j \in DOMAIN q : q[j] \in T
    BY <2>1
  <2> QED
    BY <1>1, <2>2 DEF q
<1>3. n.id \in IdsOf(p)
  BY DEF IdsOf
<1>4. n.options \in Options
  BY <1>2
<1>5. n.options.maxAttempts \in Int
  BY <1>4 DEF Options
<1> QED
  BY <1>2, <1>3, <1>5

LEMMA NodeIs ==
    ASSUME NEW p \in Plans, NEW id \in IdsOf(p)
    PROVE  NodeOf(p, id) \in Range(p.nodes) /\ NodeOf(p, id).id = id
<1>1. \E n \in Range(p.nodes) : n.id = id
  BY DEF IdsOf
<1> QED
  BY <1>1 DEF NodeOf

LEMMA NeedsShape ==
    ASSUME NEW p \in Plans, NEW id \in IdsOf(p)
    PROVE  /\ NodeOf(p, id).requires \in Seq(NodeIDs)
           /\ DOMAIN NodeOf(p, id).requires = 1..Len(NodeOf(p, id).requires)
           /\ Needs(p, id) \in SUBSET NodeIDs
<1>1. NodeOf(p, id).requires \in Seq(NodeIDs)
  BY NodeIs, NodeShape
<1> DEFINE q == NodeOf(p, id).requires
<1> HIDE DEF q
<1>2. q \in Seq(NodeIDs) => DOMAIN q = 1..Len(q) /\ Range(q) \in SUBSET NodeIDs
  BY DEF Range
<1> QED
  BY <1>1, <1>2 DEF Needs, q

LEMMA IdsShape ==
    ASSUME NEW p \in Plans
    PROVE  IdsOf(p) \in SUBSET NodeIDs /\ IsFiniteSet(IdsOf(p))
<1>1. IdsOf(p) \in SUBSET NodeIDs
  BY NodeShape DEF IdsOf
<1> DEFINE n == Len(p.nodes)  f == [i \in 1..n |-> p.nodes[i].id]
<1>2. n \in Nat /\ DOMAIN p.nodes = 1..n
  BY PlanShape
<1>3. IsFiniteSet(1..n)
  <2> HIDE DEF n
  <2> QED
    BY <1>2, FS_Interval
<1>4. f \in Surjection(1..n, IdsOf(p))
  <2>1. \A i \in 1..n : f[i] \in IdsOf(p)
    BY <1>2 DEF IdsOf, Range
  <2>2. \A id \in IdsOf(p) : \E i \in 1..n : f[i] = id
    BY <1>2 DEF IdsOf, Range
  <2> QED
    BY <2>1, <2>2 DEF Surjection
<1>5. IsFiniteSet(IdsOf(p))
  BY <1>3, <1>4, FS_Surjection
<1> QED
  BY <1>1, <1>5

\* What Validate gives: one node for an ID, whose requirements are nodes.
LEMMA CheckedPlan ==
    ASSUME NEW p \in Plans, PlanChecked(p)
    PROVE  /\ \A n \in Range(p.nodes) : NodeOf(p, n.id) = n
           /\ \A id \in IdsOf(p) : Needs(p, id) \subseteq IdsOf(p) \ {id}
           /\ Cardinality(IdsOf(p)) = Len(p.nodes)
           /\ \A id \in IdsOf(p) : TriesOf(p, id) \in Nat \ {0}
<1> DEFINE n == Len(p.nodes)  f == [i \in 1..n |-> p.nodes[i].id]
<1>1. n \in Nat /\ DOMAIN p.nodes = 1..n
  BY PlanShape
<1>2. \A i \in 1..n, j \in 1..n : j < i => p.nodes[j].id # p.nodes[i].id
  <2> SUFFICES ASSUME NEW i \in 1..n, NEW j \in 1..n, j < i
               PROVE  p.nodes[j].id # p.nodes[i].id
    OBVIOUS
  <2>1. j \in 1..(i - 1)
    BY <1>1
  <2> QED
    BY <1>1, <2>1 DEF PlanChecked
<1>3. \A i \in 1..n, j \in 1..n : p.nodes[i].id = p.nodes[j].id => i = j
  BY <1>1, <1>2
<1>4. \A a, b \in Range(p.nodes) : a.id = b.id => a = b
  BY <1>1, <1>3 DEF Range
<1>5. \A a \in Range(p.nodes) : NodeOf(p, a.id) = a
  BY <1>4, NodeIs, NodeShape
<1>6. \A a \in Range(p.nodes) : Checked(a.options) /\ Required(a) \subseteq IdsOf(p) \ {a.id}
  <2> SUFFICES ASSUME NEW a \in Range(p.nodes)
               PROVE  Checked(a.options) /\ Required(a) \subseteq IdsOf(p) \ {a.id}
    OBVIOUS
  <2>1. PICK i \in DOMAIN p.nodes : a = p.nodes[i]
    BY DEF Range
  <2>2. Checked(a.options) /\ \A r \in Required(a) : r # a.id /\ \E m \in Range(p.nodes) : m.id = r
    BY <2>1 DEF PlanChecked
  <2> QED
    BY <2>2 DEF IdsOf
<1>7. \A id \in IdsOf(p) : Needs(p, id) \subseteq IdsOf(p) \ {id}
  BY <1>6, NodeIs DEF Needs, Required
<1>8. Cardinality(IdsOf(p)) = n
  <2>1. \A i \in 1..n : f[i] \in IdsOf(p)
    BY <1>1 DEF IdsOf, Range
  <2>2. \A id \in IdsOf(p) : \E i \in 1..n : f[i] = id
    BY <1>1 DEF IdsOf, Range
  <2>3. f \in Bijection(1..n, IdsOf(p))
    BY <1>3, <2>1, <2>2 DEF Bijection, Injection, Surjection, IsInjective
  <2>4. ExistsBijection(1..n, IdsOf(p))
    BY <2>3 DEF ExistsBijection
  <2> HIDE DEF n, f
  <2> QED
    BY <1>1, <2>4, FS_CountingElements
<1>9. \A id \in IdsOf(p) : TriesOf(p, id) \in Nat \ {0}
  <2> SUFFICES ASSUME NEW id \in IdsOf(p) PROVE TriesOf(p, id) \in Nat \ {0}
    OBVIOUS
  <2>1. NodeOf(p, id).options.maxAttempts \in Int /\ Checked(NodeOf(p, id).options)
    BY <1>6, NodeIs, NodeShape
  <2>2. p.defaults.maxAttempts \in Int /\ Checked(p.defaults)
    BY PlanShape DEF Options, PlanChecked
  <2> QED
    BY <2>1, <2>2, BoundsAssumption DEF TriesOf, FirstSet, Checked
<1> QED
  BY <1>5, <1>7, <1>8, <1>9

LEMMA ReadyShape ==
    ASSUME NEW p \in Plans, NEW D
    PROVE  /\ Ready(p, D) \in SUBSET NodeIDs /\ IsFiniteSet(Ready(p, D))
           /\ SortIDs(Ready(p, D)) \in Seq(NodeIDs)
           /\ Len(SortIDs(Ready(p, D))) = Cardinality(Ready(p, D))
           /\ Range(SortIDs(Ready(p, D))) = Ready(p, D)
<1>1. Ready(p, D) \in SUBSET IdsOf(p)
  BY DEF Ready
<1>2. Ready(p, D) \in SUBSET NodeIDs /\ IsFiniteSet(Ready(p, D))
  BY <1>1, IdsShape, FS_Subset
<1> QED
  BY <1>2, SortedIs

-----------------------------------------------------------------------------
(* Layers *)

LEMMA BeforeFirst == \A F : Before(F, 1) = {} /\ Before(F, 0) = {}
BY DEF Before

LEMMA BeforeNext ==
    ASSUME NEW F, NEW k \in Nat \ {0}
    PROVE  Before(F, k + 1) = Before(F, k) \cup Range(F[k])
<1>1. 1..((k + 1) - 1) = 1..(k - 1) \cup {k}
  OBVIOUS
<1> QED
  BY <1>1 DEF Before

LEMMA BeforeGrows ==
    ASSUME NEW F, NEW j \in Nat, NEW k \in Nat, j <= k
    PROVE  Before(F, j) \subseteq Before(F, k)
<1>1. 1..(j - 1) \subseteq 1..(k - 1)
  OBVIOUS
<1> QED
  BY <1>1 DEF Before

LEMMA BeforeSame ==
    ASSUME NEW F, NEW G, NEW k \in Nat, \A j \in 1..(k - 1) : F[j] = G[j]
    PROVE  Before(F, k) = Before(G, k)
BY DEF Before

LEMMA BeforeHolds ==
    ASSUME NEW F, NEW k \in Nat, NEW id \in Before(F, k)
    PROVE  \E j \in 1..(k - 1) : id \in Range(F[j])
BY DEF Before

LEMMA LayerShape ==
    ASSUME NEW p \in Plans, NEW F, Layering(p, F), NEW k \in 1..Len(F)
    PROVE  /\ F[k] \in Seq(NodeIDs) /\ DOMAIN F[k] = 1..Len(F[k])
           /\ Range(F[k]) = Ready(p, Before(F, k))
           /\ Len(F[k]) = Cardinality(Ready(p, Before(F, k)))
           /\ Len(F[k]) \in Nat \ {0}
           /\ Range(F[k]) \cap Before(F, k) = {}
           /\ \A i \in 1..Len(F[k]) : F[k][i] \in Range(F[k])
           /\ Range(F[k]) \subseteq IdsOf(p) /\ IsFiniteSet(Range(F[k]))
<1> DEFINE R == Ready(p, Before(F, k))
<1>1. F[k] = SortIDs(R) /\ R # {}
  BY DEF Layering
<1>2. F[k] \in Seq(NodeIDs) /\ Range(F[k]) = R /\ Len(F[k]) = Cardinality(R) /\ IsFiniteSet(R)
  BY <1>1, ReadyShape
<1>3. Cardinality(R) \in Nat \ {0}
  <2> HIDE DEF R
  <2> QED
    BY <1>1, <1>2, FS_CardinalityType, FS_EmptySet
<1>4. R \cap Before(F, k) = {} /\ R \subseteq IdsOf(p)
  BY DEF Ready
<1>5. DOMAIN F[k] = 1..Len(F[k])
  BY <1>2
<1>6. \A i \in 1..Len(F[k]) : F[k][i] \in Range(F[k])
  BY <1>5 DEF Range
<1> QED
  BY <1>2, <1>3, <1>4, <1>5, <1>6

LEMMA BeforeShape ==
    ASSUME NEW p \in Plans, NEW F, Layering(p, F), NEW k \in 0..(Len(F) + 1)
    PROVE  /\ Before(F, k) \in SUBSET IdsOf(p) /\ IsFiniteSet(Before(F, k))
           /\ Cardinality(Before(F, k)) \in Nat
           /\ Cardinality(Before(F, k)) <= Cardinality(IdsOf(p))
<1>1. Len(F) \in Nat
  BY DEF Layering
<1>2. \A id \in Before(F, k) : id \in IdsOf(p)
  <2> SUFFICES ASSUME NEW id \in Before(F, k) PROVE id \in IdsOf(p)
    OBVIOUS
  <2>1. PICK j \in 1..(k - 1) : id \in Range(F[j])
    BY BeforeHolds
  <2>2. j \in 1..Len(F)
    BY <1>1
  <2>3. Range(F[j]) \subseteq IdsOf(p)
    BY <2>2, LayerShape
  <2> QED
    BY <2>1, <2>3
<1>3. Before(F, k) \in SUBSET IdsOf(p)
  BY <1>2
<1>4. IsFiniteSet(Before(F, k)) /\ Cardinality(Before(F, k)) <= Cardinality(IdsOf(p))
  BY <1>3, IdsShape, FS_Subset
<1> QED
  BY <1>3, <1>4, FS_CardinalityType

\* The commands of a layer come right after those of the layers before it.
LEMMA BlockSize ==
    ASSUME NEW p \in Plans, NEW F, Layering(p, F), NEW k \in 1..Len(F)
    PROVE  /\ Before(F, k + 1) = Before(F, k) \cup Range(F[k])
           /\ Cardinality(Before(F, k + 1)) = Cardinality(Before(F, k)) + Len(F[k])
<1> DEFINE B == Before(F, k)  R == Range(F[k])
<1>1. k \in Nat \ {0} /\ k \in 0..(Len(F) + 1)
  BY DEF Layering
<1>2. Before(F, k + 1) = B \cup R
  BY <1>1, BeforeNext
<1>3. IsFiniteSet(B) /\ Cardinality(B) \in Nat
  BY <1>1, BeforeShape
<1>4. IsFiniteSet(R) /\ Cardinality(R) = Len(F[k]) /\ R \cap B = {} /\ Len(F[k]) \in Nat
  BY LayerShape
<1>5. Cardinality(B \cup R) = Cardinality(B) + Cardinality(R) - Cardinality(B \cap R)
  <2> HIDE DEF B, R
  <2> QED
    BY <1>3, <1>4, FS_Union
<1>6. Cardinality(B \cap R) = 0
  <2>1. B \cap R = {}
    BY <1>4
  <2> QED
    BY <2>1, FS_EmptySet
<1> DEFINE b == Cardinality(B)  r == Cardinality(R)
<1>7. b + r - 0 = b + r
  <2>1. b \in Nat /\ r \in Nat
    BY <1>3, <1>4
  <2> HIDE DEF b, r
  <2> QED
    BY <2>1
<1> QED
  BY <1>2, <1>4, <1>5, <1>6, <1>7

LEMMA CountGrows ==
    ASSUME NEW p \in Plans, NEW F, Layering(p, F),
           NEW j \in 1..(Len(F) + 1), NEW k \in 1..(Len(F) + 1), j < k
    PROVE  /\ j \in 1..Len(F)
           /\ Cardinality(Before(F, j)) + Len(F[j]) <= Cardinality(Before(F, k))
           /\ Cardinality(Before(F, j)) < Cardinality(Before(F, k))
<1>1. Len(F) \in Nat
  BY DEF Layering
<1>2. j \in 1..Len(F) /\ j + 1 \in Nat /\ k \in Nat /\ j + 1 <= k
      /\ k \in 0..(Len(F) + 1) /\ j \in 0..(Len(F) + 1)
  BY <1>1
<1>3. Before(F, j + 1) \in SUBSET Before(F, k)
  BY <1>2, BeforeGrows
<1>4. IsFiniteSet(Before(F, k)) /\ Cardinality(Before(F, k)) \in Nat
      /\ Cardinality(Before(F, j)) \in Nat
  BY <1>2, BeforeShape
<1>5. Cardinality(Before(F, j + 1)) <= Cardinality(Before(F, k))
  BY <1>3, <1>4, FS_Subset
<1>6. Cardinality(Before(F, j + 1)) = Cardinality(Before(F, j)) + Len(F[j])
  BY <1>2, BlockSize
<1>7. Len(F[j]) \in Nat \ {0}
  BY <1>2, LayerShape
<1> QED
  BY <1>2, <1>4, <1>5, <1>6, <1>7

\* No node is in two layers, and what it requires is in earlier ones.
LEMMA InOneLayer ==
    ASSUME NEW p \in Plans, NEW F, Layering(p, F),
           NEW j \in 1..Len(F), NEW k \in 1..Len(F), NEW id \in Range(F[j]) \cap Range(F[k])
    PROVE  j = k
<1>1. ASSUME NEW a \in 1..Len(F), NEW b \in 1..Len(F), a < b, id \in Range(F[a]), id \in Range(F[b])
      PROVE  FALSE
  <2>1. a + 1 \in Nat /\ b \in Nat /\ a + 1 <= b /\ a \in Nat \ {0}
    BY <1>1 DEF Layering
  <2>2. Before(F, a + 1) = Before(F, a) \cup Range(F[a])
    BY <2>1, BeforeNext
  <2>3. Before(F, a + 1) \subseteq Before(F, b)
    BY <2>1, BeforeGrows
  <2> QED
    BY <1>1, <2>2, <2>3, LayerShape
<1>2. j \in Nat /\ k \in Nat
  BY DEF Layering
<1> QED
  BY <1>1, <1>2

LEMMA NeedsEarlier ==
    ASSUME NEW p \in Plans, NEW F, Layering(p, F), NEW k \in 1..Len(F), NEW id \in Range(F[k])
    PROVE  id \in IdsOf(p) /\ Needs(p, id) \subseteq Before(F, k)
<1>1. id \in Ready(p, Before(F, k))
  BY LayerShape
<1> QED
  BY <1>1 DEF Ready

LEMMA NoLayersYet ==
    ASSUME NEW p \in Plans
    PROVE  Layering(p, <<>>)
<1>1. Cardinality(Before(<<>>, 1)) = 0
  BY BeforeFirst, FS_EmptySet
<1> QED
  BY <1>1 DEF Layering

\* A round of the loop that finds more than was ever found.
LEMMA OneMoreLayer ==
    ASSUME NEW p \in Plans, NEW F, Layering(p, F), PlanChecked(p),
           NEW R, R = Ready(p, Before(F, Len(F) + 1)), R # {}
    PROVE  /\ Layering(p, Append(F, SortIDs(R)))
           /\ \A k \in 0..(Len(F) + 1) : Before(Append(F, SortIDs(R)), k) = Before(F, k)
<1> DEFINE n == Len(F)  q == SortIDs(R)  G == Append(F, q)
<1>1. n \in Nat /\ F \in Seq(Seq(NodeIDs))
  BY DEF Layering
<1>2. q \in Seq(NodeIDs) /\ Len(q) = Cardinality(R) /\ Range(q) = R /\ IsFiniteSet(R)
  BY ReadyShape
<1>3. /\ G \in Seq(Seq(NodeIDs)) /\ Len(G) = n + 1
      /\ \A k \in 1..n : G[k] = F[k]
      /\ G[n + 1] = q
  <2> HIDE DEF q
  <2> QED
    BY <1>1, <1>2, AppendProperties
<1> HIDE DEF G
<1>4. \A k \in 0..(n + 1) : Before(G, k) = Before(F, k)
  <2> SUFFICES ASSUME NEW k \in 0..(n + 1) PROVE Before(G, k) = Before(F, k)
    OBVIOUS
  <2>1. \A j \in 1..(k - 1) : j \in 1..n
    BY <1>1
  <2>2. \A j \in 1..(k - 1) : G[j] = F[j]
    BY <1>3, <2>1
  <2>3. k \in Nat
    BY <1>1
  <2> QED
    BY <2>2, <2>3, BeforeSame
<1>5. \A k \in 1..Len(G) : G[k] = SortIDs(Ready(p, Before(G, k))) /\ Ready(p, Before(G, k)) # {}
  <2> SUFFICES ASSUME NEW k \in 1..(n + 1)
               PROVE  G[k] = SortIDs(Ready(p, Before(G, k))) /\ Ready(p, Before(G, k)) # {}
    BY <1>3
  <2>1. Before(G, k) = Before(F, k)
    BY <1>1, <1>4
  <2>2. CASE k = n + 1
    BY <1>3, <2>1, <2>2
  <2>3. CASE k # n + 1
    <3>1. k \in 1..n
      BY <1>1, <2>3
    <3>2. F[k] = SortIDs(Ready(p, Before(F, k))) /\ Ready(p, Before(F, k)) # {}
      BY <3>1 DEF Layering
    <3> QED
      BY <1>3, <2>1, <3>1, <3>2
  <2> QED
    BY <2>2, <2>3
<1>6. \A k \in 1..(Len(G) + 1) : k <= Cardinality(Before(G, k)) + 1
  <2> SUFFICES ASSUME NEW k \in 1..(n + 2) PROVE k <= Cardinality(Before(G, k)) + 1
    BY <1>1, <1>3
  <2>1. CASE k \in 1..(n + 1)
    <3>1. Before(G, k) = Before(F, k)
      BY <1>1, <1>4, <2>1
    <3>2. k <= Cardinality(Before(F, k)) + 1
      BY <2>1 DEF Layering
    <3> QED
      BY <3>1, <3>2
  <2>2. CASE k = n + 2
    <3> DEFINE B == Before(F, n + 1)
    <3>1. IsFiniteSet(B) /\ Cardinality(B) \in Nat
      BY <1>1, BeforeShape
    <3>2. n + 1 <= Cardinality(B) + 1
      BY <1>1 DEF Layering
    <3>3. Before(G, n + 2) = B \cup R
      <4>1. Before(G, (n + 1) + 1) = Before(G, n + 1) \cup Range(G[n + 1])
        BY <1>1, BeforeNext
      <4>2. Before(G, n + 1) = B
        BY <1>1, <1>4
      <4>3. (n + 1) + 1 = n + 2
        BY <1>1
      <4> QED
        BY <1>2, <1>3, <4>1, <4>2, <4>3
    <3>4. Cardinality(B \cup R) > Cardinality(B)
      <4>1. PICK x \in R : x \notin B
        BY DEF Ready
      <4>2. IsFiniteSet(B \cup R)
        BY <1>2, <3>1, FS_Union
      <4>3. B \in SUBSET (B \cup R) /\ B # B \cup R
        BY <4>1
      <4>4. Cardinality(B \cup R) \in Nat
        BY <4>2, FS_CardinalityType
      <4>5. Cardinality(B) <= Cardinality(B \cup R) /\ Cardinality(B) # Cardinality(B \cup R)
        <5> DEFINE U == B \cup R
        <5> HIDE DEF U, B
        <5>1. Cardinality(B) <= Cardinality(U) /\ (Cardinality(U) = Cardinality(B) => U = B)
          <6>1. IsFiniteSet(U) /\ B \in SUBSET U
            BY <4>2, <4>3 DEF U
          <6> QED
            BY <6>1, FS_Subset
        <5> QED
          BY <4>3, <5>1 DEF U
      <4> DEFINE b == Cardinality(B)  c == Cardinality(B \cup R)
      <4>6. b \in Nat /\ c \in Nat /\ b <= c /\ b # c
        BY <3>1, <4>4, <4>5
      <4>7. c > b
        <5> HIDE DEF b, c
        <5> QED
          BY <4>6
      <4> QED
        BY <4>7
    <3>5. Cardinality(B \cup R) \in Nat
      BY <1>2, <3>1, FS_Union, FS_CardinalityType
    <3> DEFINE b == Cardinality(B)  c == Cardinality(B \cup R)
    <3>6. n + 2 <= c + 1
      <4>1. b \in Nat /\ c \in Nat /\ n \in Nat /\ n + 1 <= b + 1 /\ c > b
        BY <1>1, <3>1, <3>2, <3>4, <3>5
      <4> HIDE DEF b, c, n
      <4> QED
        BY <4>1
    <3>7. Before(G, k) = B \cup R
      BY <2>2, <3>3
    <3> QED
      BY <2>2, <3>6, <3>7
  <2> QED
    BY <1>1, <2>1, <2>2
<1>7. Layering(p, G)
  BY <1>3, <1>5, <1>6 DEF Layering
<1> QED
  BY <1>4, <1>7 DEF G

-----------------------------------------------------------------------------
(* The layering loop *)

LEMMA MissingShape ==
    ASSUME NEW p \in Plans, NEW id \in IdsOf(p), NEW D
    PROVE  /\ Missing(p, id, D) \in Nat
           /\ Missing(p, id, D) = 0 <=> Needs(p, id) \subseteq D
           /\ Missing(p, id, {}) = Len(NodeOf(p, id).requires)
<1> DEFINE q == NodeOf(p, id).requires
           n == Len(q)
           M(E) == {j \in DOMAIN q : q[j] \notin E}
<1>1. n \in Nat /\ DOMAIN q = 1..n
  <2>1. q \in Seq(NodeIDs)
    BY NeedsShape
  <2> HIDE DEF q
  <2> QED
    BY <2>1
<1>2. IsFiniteSet(1..n) /\ Cardinality(1..n) = n
  <2> HIDE DEF n
  <2>1. IsFiniteSet(1..n) /\ Cardinality(1..n) = IF 1 > n THEN 0 ELSE n - 1 + 1
    BY <1>1, FS_Interval
  <2> QED
    BY <1>1, <2>1
<1>3. IsFiniteSet(M(D)) /\ Cardinality(M(D)) \in Nat
  <2>1. M(D) \in SUBSET (1..n)
    BY <1>1
  <2> HIDE DEF M
  <2> QED
    BY <1>2, <2>1, FS_Subset, FS_CardinalityType
<1>4. Cardinality(M(D)) = 0 <=> M(D) = {}
  BY <1>3, FS_EmptySet
<1>5. M(D) = {} <=> Range(q) \subseteq D
  BY DEF Range
<1>6. M({}) = 1..n
  BY <1>1
<1> QED
  BY <1>2, <1>3, <1>4, <1>5, <1>6 DEF Missing, Needs

LEMMA MissingLess ==
    ASSUME NEW p \in Plans, NEW id \in IdsOf(p), NEW D, NEW R, D \cap R = {}
    PROVE  Missing(p, id, D \cup R) =
               Missing(p, id, D)
                 - Found(p, id, R)
<1> DEFINE q == NodeOf(p, id).requires
           n == Len(q)
           A == {j \in DOMAIN q : q[j] \notin D}
           B == {j \in DOMAIN q : q[j] \in R}
           C == {j \in DOMAIN q : q[j] \notin D \cup R}
<1>1. n \in Nat /\ DOMAIN q = 1..n
  <2>1. q \in Seq(NodeIDs)
    BY NeedsShape
  <2> HIDE DEF q
  <2> QED
    BY <2>1
<1>2. IsFiniteSet(1..n)
  <2> HIDE DEF n
  <2> QED
    BY <1>1, FS_Interval
<1>3. A = B \cup C /\ B \cap C = {} /\ B \in SUBSET (1..n) /\ C \in SUBSET (1..n)
  BY <1>1
<1>4. IsFiniteSet(B) /\ IsFiniteSet(C) /\ Cardinality(B) \in Nat /\ Cardinality(C) \in Nat
  <2> HIDE DEF B, C
  <2> QED
    BY <1>2, <1>3, FS_Subset, FS_CardinalityType
<1>5. Cardinality(A) = Cardinality(B) + Cardinality(C)
  <2> HIDE DEF A, B, C
  <2>1. Cardinality(B \cup C) = Cardinality(B) + Cardinality(C) - Cardinality(B \cap C)
    BY <1>4, FS_Union
  <2>2. Cardinality(B \cap C) = 0
    BY <1>3, FS_EmptySet
  <2>3. Cardinality(A) = Cardinality(B) + Cardinality(C) - 0
    BY <1>3, <2>1, <2>2
  <2> QED
    BY <1>4, <2>3
<1>6. Cardinality(C) = Cardinality(A) - Cardinality(B)
  <2> HIDE DEF A, B, C
  <2> QED
    BY <1>4, <1>5
<1> QED
  BY <1>6 DEF Missing, Found

LEMMA RunnableIsReady ==
    ASSUME NEW p \in Plans, NEW F, NEW ind, NEW dn, NEW ls, NEW rem,
           Layered(p, F, ind, dn, ls, rem)
    PROVE  {id \in DOMAIN ind : ind[id] = 0 /\ id \notin dn} = Ready(p, dn)
<1>1. DOMAIN ind = IdsOf(p) /\ \A id \in IdsOf(p) : ind[id] = Missing(p, id, dn)
  BY DEF Layered
<1>2. \A id \in IdsOf(p) : ind[id] = 0 <=> Needs(p, id) \subseteq dn
  BY <1>1, MissingShape
<1> QED
  BY <1>1, <1>2 DEF Ready

LEMMA LoopStarts ==
    ASSUME NEW p \in Plans, PlanChecked(p), NEW F, Layering(p, F)
    PROVE  Layered(p, F, [id \in IdsOf(p) |-> Len(NodeOf(p, id).requires)], {}, <<>>,
                   Len(p.nodes))
<1>1. \A id \in IdsOf(p) : Missing(p, id, {}) = Len(NodeOf(p, id).requires)
  BY MissingShape
<1>2. Len(F) \in Nat /\ Before(F, 1) = {}
  BY BeforeFirst DEF Layering
<1>3. Cardinality(IdsOf(p) \ {}) = Len(p.nodes)
  BY CheckedPlan
<1> QED
  BY <1>1, <1>2, <1>3 DEF Layered

\* A round that finds what was found before.
LEMMA LoopStep ==
    ASSUME NEW p \in Plans, NEW F, Layering(p, F),
           NEW ind, NEW dn, NEW ls, NEW rem, Layered(p, F, ind, dn, ls, rem),
           Len(ls) < Len(F),
           NEW R, R = Ready(p, dn),
           NEW after,
           after = [id \in DOMAIN ind |->
                       ind[id] - Found(p, id, R)]
    PROVE  Layered(p, F, after, dn \cup R, Append(ls, SortIDs(R)), rem - Cardinality(R))
<1> DEFINE n == Len(ls)  q == SortIDs(R)
<1>1. /\ ls \in Seq(Seq(NodeIDs)) /\ n \in Nat /\ Len(F) \in Nat
      /\ \A k \in 1..n : ls[k] = F[k]
      /\ dn = Before(F, n + 1)
      /\ rem = Cardinality(IdsOf(p) \ dn)
  BY DEF Layered, Layering
<1>2. q \in Seq(NodeIDs)
  BY ReadyShape
<1>3. n + 1 \in 1..Len(F) /\ n + 1 \in Nat \ {0}
  BY <1>1
<1>4. F[n + 1] = q
  BY <1>1, <1>3 DEF Layering
<1>5. Append(ls, q) \in Seq(Seq(NodeIDs)) /\ Len(Append(ls, q)) = n + 1
      /\ \A k \in 1..n : Append(ls, q)[k] = ls[k]
      /\ Append(ls, q)[n + 1] = q
  <2> HIDE DEF q
  <2> QED
    BY <1>1, <1>2, AppendProperties
<1>6. \A k \in 1..(n + 1) : Append(ls, q)[k] = F[k]
  <2> SUFFICES ASSUME NEW k \in 1..(n + 1) PROVE Append(ls, q)[k] = F[k]
    OBVIOUS
  <2>1. CASE k = n + 1
    BY <1>4, <1>5, <2>1
  <2>2. CASE k # n + 1
    <3>1. k \in 1..n
      BY <1>1, <2>2
    <3> QED
      BY <1>1, <1>5, <3>1
  <2> QED
    BY <2>1, <2>2
<1>7. dn \cup R = Before(F, (n + 1) + 1)
  <2>1. Range(F[n + 1]) = R
    BY <1>4, ReadyShape
  <2> QED
    BY <1>1, <1>3, <2>1, BeforeNext
<1>8. after = [id \in IdsOf(p) |-> Missing(p, id, dn \cup R)]
  <2>1. ind = [id \in IdsOf(p) |-> Missing(p, id, dn)]
    BY DEF Layered
  <2>2. dn \cap R = {}
    BY DEF Ready
  <2>3. \A id \in IdsOf(p) :
           Missing(p, id, dn \cup R) =
               ind[id] - Found(p, id, R)
    <3> TAKE id \in IdsOf(p)
    <3>1. ind[id] = Missing(p, id, dn)
      BY <2>1
    <3>2. Missing(p, id, dn \cup R) =
              Missing(p, id, dn) - Found(p, id, R)
      BY <2>2, MissingLess
    <3> QED
      BY <3>1, <3>2
  <2>4. DOMAIN ind = IdsOf(p)
    BY <2>1
  <2>5. after = [id \in IdsOf(p) |->
                    ind[id] - Found(p, id, R)]
    BY <2>4, Zenon
  <2> QED
    BY <2>3, <2>5, Zenon
<1>9. rem - Cardinality(R) = Cardinality(IdsOf(p) \ (dn \cup R))
  <2> DEFINE S == IdsOf(p) \ dn  T == IdsOf(p) \ (dn \cup R)
  <2>1. S = R \cup T /\ R \cap T = {} /\ R \in SUBSET IdsOf(p) /\ T \in SUBSET IdsOf(p)
    BY DEF Ready
  <2> HIDE DEF S, T
  <2>2. IsFiniteSet(R) /\ IsFiniteSet(T) /\ Cardinality(R) \in Nat /\ Cardinality(T) \in Nat
    BY <2>1, IdsShape, FS_Subset, FS_CardinalityType
  <2>3. Cardinality(R \cup T) = Cardinality(R) + Cardinality(T) - Cardinality(R \cap T)
    BY <2>2, FS_Union
  <2>4. Cardinality(R \cap T) = 0
    BY <2>1, FS_EmptySet
  <2>5. Cardinality(S) = Cardinality(R) + Cardinality(T) - 0
    BY <2>1, <2>3, <2>4
  <2>6. Cardinality(S) - Cardinality(R) = Cardinality(T)
    BY <2>2, <2>5
  <2> QED
    BY <1>1, <2>6 DEF S, T
<1>10. Len(Append(ls, q)) <= Len(F)
  BY <1>3, <1>5
<1> HIDE DEF q
<1>11. Layered(p, F, after, dn \cup R, Append(ls, q), rem - Cardinality(R))
  BY <1>5, <1>6, <1>7, <1>8, <1>9, <1>10 DEF Layered
<1> QED
  BY <1>11 DEF q

LEMMA LayeredIn ==
    ASSUME NEW p, NEW F, NEW G, NEW ind, NEW dn, NEW ls, NEW rem,
           Layered(p, F, ind, dn, ls, rem), Len(F) \in Nat, Len(G) = Len(F) + 1,
           \A k \in 1..Len(F) : G[k] = F[k],
           \A k \in 0..(Len(F) + 1) : Before(G, k) = Before(F, k)
    PROVE  Layered(p, G, ind, dn, ls, rem)
<1>1. ls \in Seq(Seq(NodeIDs)) /\ Len(ls) <= Len(F) /\ Len(ls) \in Nat
      /\ \A k \in 1..Len(ls) : ls[k] = F[k]
      /\ dn = Before(F, Len(ls) + 1)
      /\ ind = [id \in IdsOf(p) |-> Missing(p, id, dn)]
      /\ rem = Cardinality(IdsOf(p) \ dn)
  BY DEF Layered
<1>2. Len(ls) <= Len(G) /\ Len(ls) + 1 \in 0..(Len(F) + 1)
  BY <1>1
<1>3. \A k \in 1..Len(ls) : ls[k] = G[k]
  <2> TAKE k \in 1..Len(ls)
  <2>1. k \in 1..Len(F)
    BY <1>1
  <2> QED
    BY <1>1, <2>1
<1>4. dn = Before(G, Len(ls) + 1)
  <2> DEFINE k == Len(ls) + 1
  <2>1. dn = Before(F, k)
    BY DEF Layered
  <2>2. k \in 0..(Len(F) + 1)
    BY <1>2
  <2> HIDE DEF k
  <2>3. Before(G, k) = Before(F, k)
    BY <2>2
  <2> QED
    BY <2>1, <2>3 DEF k
<1> QED
  BY <1>1, <1>2, <1>3, <1>4 DEF Layered

\* From a loop's variables to those after one more round.
Round(p, R, ind, dn, ls, rem, i2, d2, l2, r2) ==
    /\ R = Ready(p, dn) /\ R # {}
    /\ i2 = [id \in DOMAIN ind |-> ind[id] - Found(p, id, R)]
    /\ d2 = dn \cup R
    /\ l2 = Append(ls, SortIDs(R))
    /\ r2 = rem - Cardinality(R)

\* A round of the loop either repeats what was found, or finds more.
LEMMA LoopTurn ==
    ASSUME NEW p \in Plans, PlanChecked(p), NEW F, Layering(p, F),
           NEW R, NEW ind, NEW dn, NEW ls, NEW rem, Layered(p, F, ind, dn, ls, rem),
           NEW i2, NEW d2, NEW l2, NEW r2, Round(p, R, ind, dn, ls, rem, i2, d2, l2, r2)
    PROVE  \E G : Layering(p, G) /\ Layered(p, G, i2, d2, l2, r2) /\ (G = F \/ ~Whole(p, F))
<1>0. /\ R = Ready(p, dn) /\ R # {}
      /\ i2 = [id \in DOMAIN ind |-> ind[id] - Found(p, id, R)]
      /\ d2 = dn \cup R /\ l2 = Append(ls, SortIDs(R)) /\ r2 = rem - Cardinality(R)
  BY DEF Round
<1>1. Len(F) \in Nat /\ F \in Seq(Seq(NodeIDs)) /\ Len(ls) \in Nat /\ Len(ls) <= Len(F)
      /\ dn = Before(F, Len(ls) + 1)
  BY DEF Layering, Layered
<1>2. CASE Len(ls) < Len(F)
  <2>1. Layered(p, F, i2, d2, l2, r2)
    BY <1>0, <1>2, LoopStep
  <2> QED
    BY <2>1
<1>3. CASE Len(ls) = Len(F)
  <2> DEFINE q == SortIDs(R)  G == Append(F, q)
  <2>1. R = Ready(p, Before(F, Len(F) + 1))
    BY <1>0, <1>1, <1>3
  <2>2. Layering(p, G) /\ \A k \in 0..(Len(F) + 1) : Before(G, k) = Before(F, k)
    BY <1>0, <2>1, OneMoreLayer
  <2>3. q \in Seq(NodeIDs)
    BY <1>0, ReadyShape
  <2>4. Len(G) = Len(F) + 1 /\ \A k \in 1..Len(F) : G[k] = F[k]
    <3> HIDE DEF q
    <3> QED
      BY <1>1, <2>3, AppendProperties
  <2> HIDE DEF G, q
  <2>5. Layered(p, G, ind, dn, ls, rem)
    BY <1>1, <2>2, <2>4, LayeredIn
  <2>6. Len(ls) < Len(G)
    BY <1>1, <1>3, <2>4
  <2>7. Layered(p, G, i2, d2, l2, r2)
    BY <1>0, <2>2, <2>5, <2>6, LoopStep
  <2>8. ~Whole(p, F)
    BY <1>0, <2>1 DEF Whole, Ready
  <2> QED
    BY <2>2, <2>7, <2>8
<1>4. Len(ls) < Len(F) \/ Len(ls) = Len(F)
  BY <1>1
<1> QED
  BY <1>2, <1>3, <1>4, Zenon

LEMMA LoopStops ==
    ASSUME NEW p \in Plans, NEW F, Layering(p, F),
           NEW ind, NEW dn, NEW ls, NEW rem, Layered(p, F, ind, dn, ls, rem), rem = 0
    PROVE  Whole(p, F) /\ ls = F
<1>1. Len(F) \in Nat /\ F \in Seq(Seq(NodeIDs)) /\ Len(ls) \in Nat /\ Len(ls) <= Len(F)
      /\ dn = Before(F, Len(ls) + 1) /\ ls \in Seq(Seq(NodeIDs))
      /\ \A k \in 1..Len(ls) : ls[k] = F[k]
  BY DEF Layering, Layered
<1>2. IdsOf(p) \subseteq dn
  <2>1. Cardinality(IdsOf(p) \ dn) = 0
    BY DEF Layered
  <2>2. IsFiniteSet(IdsOf(p) \ dn)
    BY IdsShape, FS_Subset
  <2>3. IdsOf(p) \ dn = {}
    BY <2>1, <2>2, FS_EmptySet
  <2> QED
    BY <2>3
<1>3. Len(ls) = Len(F)
  <2> SUFFICES ASSUME Len(ls) < Len(F) PROVE FALSE
    BY <1>1
  <2>1. Len(ls) + 1 \in 1..Len(F)
    BY <1>1
  <2>2. Ready(p, dn) # {}
    BY <1>1, <2>1 DEF Layering
  <2> QED
    BY <1>2, <2>2 DEF Ready
<1>4. ls = F
  BY <1>1, <1>3, SeqEqual
<1>5. dn \subseteq IdsOf(p)
  <2>1. Len(F) + 1 \in 0..(Len(F) + 1)
    BY <1>1
  <2>2. Before(F, Len(F) + 1) \in SUBSET IdsOf(p)
    BY <2>1, BeforeShape
  <2> QED
    BY <1>1, <1>3, <2>2
<1> QED
  BY <1>1, <1>2, <1>3, <1>4, <1>5 DEF Whole

LEMMA LoopStuck ==
    ASSUME NEW p \in Plans, PlanChecked(p), NEW F, Layering(p, F),
           NEW ind, NEW dn, NEW ls, NEW rem, Layered(p, F, ind, dn, ls, rem),
           rem > 0, Ready(p, dn) = {}
    PROVE  /\ ~Whole(p, F)
           /\ IdsOf(p) \ dn # {}
           /\ \A id \in IdsOf(p) \ dn : \E r \in Needs(p, id) : r \in IdsOf(p) \ dn
<1>1. Len(F) \in Nat /\ Len(ls) \in Nat /\ Len(ls) <= Len(F) /\ dn = Before(F, Len(ls) + 1)
  BY DEF Layering, Layered
<1>2. IdsOf(p) \ dn # {}
  <2> SUFFICES ASSUME IdsOf(p) \ dn = {} PROVE FALSE
    OBVIOUS
  <2>1. rem = Cardinality({})
    BY DEF Layered
  <2> QED
    BY <2>1, FS_EmptySet
<1>3. \A id \in IdsOf(p) \ dn : \E r \in Needs(p, id) : r \in IdsOf(p) \ dn
  BY CheckedPlan DEF Ready
<1>4. ~Whole(p, F)
  <2>1. CASE Len(ls) = Len(F)
    BY <1>1, <1>2, <2>1 DEF Whole
  <2>2. CASE Len(ls) # Len(F)
    <3>1. Len(ls) + 1 \in 1..Len(F)
      BY <1>1, <2>2
    <3> QED
      BY <1>1, <3>1 DEF Layering
  <2> QED
    BY <2>1, <2>2
<1> QED
  BY <1>2, <1>3, <1>4

-----------------------------------------------------------------------------
(* The history *)

\* What the dispatched nodes require was in the layers before the last.
LEMMA NeedsBefore ==
    ASSUME NEW p \in Plans, NEW F, Layering(p, F), NEW m \in 0..Len(F),
           NEW id \in Before(F, m + 1)
    PROVE  id \in IdsOf(p) /\ Needs(p, id) \subseteq Before(F, m)
<1>1. Len(F) \in Nat /\ m \in Nat /\ m + 1 \in Nat
  BY DEF Layering
<1>2. PICK k \in 1..((m + 1) - 1) : id \in Range(F[k])
  BY <1>1, BeforeHolds
<1>3. k \in 1..Len(F) /\ k \in Nat /\ k <= m
  BY <1>1
<1>4. id \in IdsOf(p) /\ Needs(p, id) \subseteq Before(F, k)
  BY <1>2, <1>3, NeedsEarlier
<1>5. Before(F, k) \subseteq Before(F, m)
  BY <1>1, <1>3, BeforeGrows
<1> QED
  BY <1>4, <1>5

LEMMA SameCommand ==
    ASSUME NEW p \in Plans, NEW id, NEW a, NEW b, \A r \in Needs(p, id) : a[r] = b[r]
    PROVE  CommandFor(p, id, a) = CommandFor(p, id, b)
<1>1. [r \in Needs(p, id) |-> a[r]] = [r \in Needs(p, id) |-> b[r]]
  BY Zenon
<1> QED
  BY <1>1 DEF CommandFor

LEMMA CommandShape ==
    ASSUME NEW p \in Plans, NEW id \in IdsOf(p), NEW a \in [NodeIDs -> Outcome]
    PROVE  CommandFor(p, id, a) \in Commands
<1> DEFINE S == Needs(p, id)  u == [r \in S |-> a[r]]
<1>1. S \in SUBSET NodeIDs /\ id \in NodeIDs
  BY NeedsShape, IdsShape
<1>2. u \in [S -> Outcome]
  <2> HIDE DEF S
  <2> QED
    BY <1>1
<1>3. u \in UNION {[T -> Outcome] : T \in SUBSET NodeIDs}
  <2> HIDE DEF S, u
  <2> QED
    BY <1>1, <1>2
<1>4. CommandFor(p, id, a) = [id |-> id, upstream |-> u]
  BY DEF CommandFor
<1> HIDE DEF S, u
<1> QED
  BY <1>1, <1>3, <1>4 DEF Commands

\* Nothing but activity id changes, which was scheduled or running.
Changes(p, id, st, att, res, s2, a2, r2) ==
    /\ id \in NodeIDs /\ st[id] \notin {"none", "completed"}
    /\ s2 \in [NodeIDs -> {"none", "scheduled", "running", "completed", "failed"}]
    /\ a2 \in [NodeIDs -> Nat]
    /\ r2 \in [NodeIDs -> Outcome]
    /\ \A i \in NodeIDs \ {id} : s2[i] = st[i] /\ a2[i] = att[i] /\ r2[i] = res[i]
    /\ s2[id] # "none"
    /\ s2[id] = "completed" <=> r2[id] # NoOutput
    /\ Attempted(p, id, s2[id], a2[id])

LEMMA HistoryChanges ==
    ASSUME NEW p \in Plans, NEW F, Layering(p, F), NEW m, NEW cmds,
           NEW st, NEW att, NEW res, HistoryInv(p, F, m, cmds, st, att, res),
           NEW id, NEW s2, NEW a2, NEW r2, Changes(p, id, st, att, res, s2, a2, r2)
    PROVE  HistoryInv(p, F, m, cmds, s2, a2, r2)
<1>1. m \in 0..Len(F) /\ Len(F) \in Nat /\ m \in Nat
  BY DEF HistoryInv, Layering
<1>2. id \in NodeIDs /\ st[id] \notin {"none", "completed"}
      /\ \A i \in NodeIDs \ {id} : s2[i] = st[i] /\ a2[i] = att[i] /\ r2[i] = res[i]
  BY DEF Changes
<1>3. HistoryTyped(cmds, s2, a2, r2)
  BY DEF HistoryInv, HistoryTyped, Changes
<1>4. id \notin Before(F, m)
  BY <1>2 DEF HistoryInv, ActivitiesInv
<1>5. \A i \in Before(F, m + 1) : CommandFor(p, i, r2) = CommandFor(p, i, res)
  <2> TAKE i \in Before(F, m + 1)
  <2>1. i \in IdsOf(p) /\ Needs(p, i) \subseteq Before(F, m)
    BY <1>1, NeedsBefore
  <2>2. Needs(p, i) \subseteq NodeIDs
    BY <2>1, NeedsShape
  <2>3. \A r \in Needs(p, i) : r2[r] = res[r]
    BY <1>2, <1>4, <2>1, <2>2
  <2> QED
    BY <2>3, SameCommand
<1>6. CommandsOfLayers(p, F, m, cmds, r2)
  <2>1. CommandsOfLayers(p, F, m, cmds, res)
    BY DEF HistoryInv
  <2>2. \A k \in 1..m : \A i \in 1..Len(F[k]) :
            cmds[Cardinality(Before(F, k)) + i] = CommandFor(p, F[k][i], r2)
    <3> TAKE k \in 1..m
    <3> TAKE i \in 1..Len(F[k])
    <3>1. cmds[Cardinality(Before(F, k)) + i] = CommandFor(p, F[k][i], res)
      BY <2>1 DEF CommandsOfLayers
    <3>2. k \in 1..Len(F) /\ k + 1 \in Nat /\ m + 1 \in Nat /\ k + 1 <= m + 1 /\ k \in Nat \ {0}
      BY <1>1
    <3>3. F[k][i] \in Range(F[k])
      BY <3>2, LayerShape
    <3>4. F[k][i] \in Before(F, k + 1)
      BY <3>2, <3>3, BeforeNext
    <3>5. F[k][i] \in Before(F, m + 1)
      BY <3>2, <3>4, BeforeGrows
    <3> QED
      BY <1>5, <3>1, <3>5
  <2>3. \A i \in 1..Len(cmds) :
            cmds[i].id \in Before(F, m + 1) /\ cmds[i] = CommandFor(p, cmds[i].id, r2)
    BY <1>5, <2>1 DEF CommandsOfLayers
  <2> QED
    BY <2>1, <2>2, <2>3 DEF CommandsOfLayers
<1>7. ActivitiesInv(p, F, m, s2, a2, r2)
  <2>1. ActivitiesInv(p, F, m, st, att, res)
    BY DEF HistoryInv
  <2>2. ASSUME NEW i \in NodeIDs
        PROVE  /\ s2[i] # "none" <=> i \in Before(F, m + 1)
               /\ s2[i] = "completed" <=> r2[i] # NoOutput
               /\ Attempted(p, i, s2[i], a2[i])
    <3>1. CASE i = id
      <4>1. id \in Before(F, m + 1)
        BY <1>2, <2>1 DEF ActivitiesInv
      <4> QED
        BY <3>1, <4>1 DEF Changes
    <3>2. CASE i # id
      BY <1>2, <2>1, <3>2 DEF ActivitiesInv
    <3> QED
      BY <3>1, <3>2
  <2>3. \A i \in Before(F, m) : s2[i] = "completed"
    <3> TAKE i \in Before(F, m)
    <3>1. i \in NodeIDs
      <4>1. m \in 0..(Len(F) + 1)
        BY <1>1
      <4> QED
        BY <4>1, BeforeShape, IdsShape
    <3> QED
      BY <1>2, <1>4, <2>1, <3>1 DEF ActivitiesInv
  <2> QED
    BY <2>2, <2>3 DEF ActivitiesInv
<1> QED
  BY <1>1, <1>3, <1>6, <1>7 DEF HistoryInv

\* What a worker has fetched does not change.
LEMMA FetchedLasts ==
    ASSUME NEW p, NEW S \in SUBSET NodeIDs, NEW out,
           NEW st, NEW att, NEW res, NEW id, NEW s2, NEW a2, NEW r2,
           Changes(p, id, st, att, res, s2, a2, r2), Fetched(S, out, st, res)
    PROVE  Fetched(S, out, s2, r2)
<1>1. id \notin S
  BY DEF Changes, Fetched
<1>2. \A i \in S : s2[i] = st[i] /\ r2[i] = res[i]
  BY <1>1 DEF Changes
<1>3. out = [i \in NodeIDs |-> IF i \in S THEN res[i] ELSE NoOutput]
  BY DEF Fetched
<1>4. \A i \in NodeIDs : (IF i \in S THEN res[i] ELSE NoOutput) = (IF i \in S THEN r2[i] ELSE NoOutput)
  BY <1>2
<1>5. out = [i \in NodeIDs |-> IF i \in S THEN r2[i] ELSE NoOutput]
  BY <1>3, <1>4
<1> QED
  BY <1>2, <1>5 DEF Fetched

-----------------------------------------------------------------------------
(* Dispatch *)

NewCommands(p, ids, out) == [i \in DOMAIN ids |-> CommandFor(p, ids[i], out)]

LEMMA NewCommandsShape ==
    ASSUME NEW p \in Plans, NEW F, Layering(p, F), NEW l \in 1..Len(F),
           NEW out \in [NodeIDs -> Outcome], NEW st, NEW res,
           Fetched(Before(F, l), out, st, res)
    PROVE  /\ NewCommands(p, F[l], out) \in Seq(Commands)
           /\ Len(NewCommands(p, F[l], out)) = Len(F[l])
           /\ \A i \in 1..Len(F[l]) :
                  NewCommands(p, F[l], out)[i] = CommandFor(p, F[l][i], res)
<1> DEFINE q == F[l]  n == Len(q)
<1>1. n \in Nat /\ DOMAIN q = 1..n /\ Len(F) \in Nat /\ l \in 0..(Len(F) + 1)
  BY LayerShape DEF Layering
<1>2. \A i \in 1..n : q[i] \in Range(q)
  BY LayerShape
<1>3. \A id \in Range(q) : id \in IdsOf(p) /\ Needs(p, id) \subseteq Before(F, l)
  BY NeedsEarlier
<1>4. Before(F, l) \subseteq NodeIDs
  BY <1>1, BeforeShape, IdsShape
<1>5. \A r \in Before(F, l) : out[r] = res[r]
  BY <1>4 DEF Fetched
<1>6. \A id \in Range(q) : CommandFor(p, id, out) = CommandFor(p, id, res)
  <2> TAKE id \in Range(q)
  <2>1. \A r \in Needs(p, id) : out[r] = res[r]
    BY <1>3, <1>5
  <2> QED
    BY <2>1, SameCommand
<1>7. \A i \in 1..n : CommandFor(p, q[i], out) \in Commands
  BY <1>2, <1>3, CommandShape
<1> HIDE DEF q, n
<1>8. NewCommands(p, q, out) = [i \in 1..n |-> CommandFor(p, q[i], out)]
  BY <1>1 DEF NewCommands
<1>9. NewCommands(p, q, out) \in [1..n -> Commands]
  BY <1>7, <1>8
<1>10. NewCommands(p, q, out) \in Seq(Commands) /\ Len(NewCommands(p, q, out)) = n
  <2> DEFINE c == NewCommands(p, q, out)
  <2> HIDE DEF c
  <2>1. c \in [1..n -> Commands]
    BY <1>9 DEF c
  <2>2. c \in Seq(Commands) /\ Len(c) = n
    BY <1>1, <2>1
  <2> QED
    BY <2>2 DEF c
<1>11. \A i \in 1..n : NewCommands(p, q, out)[i] = CommandFor(p, q[i], res)
  BY <1>2, <1>6, <1>8
<1> QED
  BY <1>10, <1>11 DEF q, n

\* How far the worker is in the history is how many layers it has dispatched.
LEMMA WhereIssued ==
    ASSUME NEW p \in Plans, NEW F, Layering(p, F), NEW m \in 0..Len(F),
           NEW l \in 1..(m + 1), l <= Len(F)
    PROVE  /\ Cardinality(Before(F, l)) = Cardinality(Before(F, m + 1)) => l = m + 1
           /\ Cardinality(Before(F, l)) < Cardinality(Before(F, m + 1)) =>
                  l <= m /\ Cardinality(Before(F, l)) + Len(F[l]) <= Cardinality(Before(F, m + 1))
<1>1. l \in 1..Len(F) /\ m \in Nat /\ l \in Nat /\ Len(F) \in Nat
      /\ l \in 1..(Len(F) + 1) /\ m + 1 \in 1..(Len(F) + 1)
      /\ l \in 0..(Len(F) + 1)
  BY DEF Layering
<1>2. CASE l = m + 1
  <2>1. Cardinality(Before(F, l)) \in Nat
    BY <1>1, BeforeShape
  <2> QED
    BY <1>2, <2>1
<1>3. CASE l < m + 1
  <2>1. /\ Cardinality(Before(F, l)) < Cardinality(Before(F, m + 1))
        /\ Cardinality(Before(F, l)) + Len(F[l]) <= Cardinality(Before(F, m + 1))
    BY <1>1, <1>3, CountGrows
  <2>2. Cardinality(Before(F, l)) \in Nat
    BY <1>1, BeforeShape
  <2>3. Cardinality(Before(F, m + 1)) \in Nat
    <3>1. m + 1 \in 0..(Len(F) + 1)
      BY <1>1
    <3> QED
      BY <3>1, BeforeShape
  <2>4. l <= m
    BY <1>1, <1>3
  <2> QED
    BY <2>1, <2>2, <2>3, <2>4
<1>4. l = m + 1 \/ l < m + 1
  BY <1>1
<1> QED
  BY <1>2, <1>3, <1>4, Zenon

\* After the first n commands of a history come those of c.
HoldsNext(cmds, n, c) == SubSeq(cmds, n + 1, n + Len(c)) = c

\* What a replaying worker is about to issue is what the history holds there.
LEMMA Replays ==
    ASSUME NEW p \in Plans, NEW F, Layering(p, F), NEW m, NEW cmds,
           NEW st, NEW att, NEW res, HistoryInv(p, F, m, cmds, st, att, res),
           NEW l, NEW out \in [NodeIDs -> Outcome], NEW iss,
           AtDispatch(F, m, l, out, iss, st, res), l <= Len(F), iss < Len(cmds)
    PROVE  l <= m /\ HoldsNext(cmds, iss, NewCommands(p, F[l], out))
<1> DEFINE q == F[l]  n == Len(q)  c == NewCommands(p, q, out)
<1>1. /\ m \in 0..Len(F) /\ l \in 1..(m + 1) /\ Len(F) \in Nat /\ m \in Nat
      /\ iss = Cardinality(Before(F, l)) /\ Len(cmds) = Cardinality(Before(F, m + 1))
      /\ Fetched(Before(F, l), out, st, res)
      /\ cmds \in Seq(Commands)
  BY DEF HistoryInv, HistoryTyped, AtDispatch, CommandsOfLayers, Layering
<1>2. l \in 1..Len(F) /\ l \in 0..(Len(F) + 1)
  BY <1>1
<1>3. l <= m /\ iss + n <= Len(cmds)
  BY <1>1, WhereIssued
<1>4. c \in Seq(Commands) /\ Len(c) = n /\ \A i \in 1..n : c[i] = CommandFor(p, q[i], res)
  BY <1>1, <1>2, NewCommandsShape
<1>5. \A i \in 1..n : cmds[iss + i] = CommandFor(p, q[i], res)
  <2>1. l \in 1..m
    BY <1>1, <1>3
  <2> QED
    BY <1>1, <2>1 DEF HistoryInv, CommandsOfLayers
<1>6. n \in Nat /\ iss \in Nat /\ Len(cmds) \in Nat
  BY <1>1, <1>2, LayerShape, BeforeShape
<1> HIDE DEF q, n, c
<1>7. SubSeq(cmds, iss + 1, iss + n) = c
  <2> DEFINE a == iss + 1  b == iss + n
  <2>1. a \in Int /\ b \in Int /\ \A i \in a..b : i \in 1..Len(cmds)
    BY <1>3, <1>6
  <2>2. \A i \in a..b : cmds[i] \in Commands
    BY <1>1, <2>1
  <2>3. /\ SubSeq(cmds, a, b) \in Seq(Commands)
        /\ Len(SubSeq(cmds, a, b)) = IF a <= b THEN b - a + 1 ELSE 0
        /\ \A i \in 1..(b - a + 1) : SubSeq(cmds, a, b)[i] = cmds[a + i - 1]
    <3> HIDE DEF a, b
    <3> QED
      BY <2>1, <2>2, SubSeqProperties
  <2>4. (IF a <= b THEN b - a + 1 ELSE 0) = n /\ b - a + 1 = n
    BY <1>6
  <2>5. \A i \in 1..n : SubSeq(cmds, a, b)[i] = cmds[iss + i]
    <3> TAKE i \in 1..n
    <3>1. SubSeq(cmds, a, b)[i] = cmds[a + i - 1]
      BY <2>3, <2>4
    <3>2. a + i - 1 = iss + i
      BY <1>6
    <3> QED
      BY <3>1, <3>2
  <2>6. Len(SubSeq(cmds, a, b)) = Len(c)
    BY <1>4, <2>3, <2>4
  <2>7. \A i \in 1..Len(SubSeq(cmds, a, b)) : SubSeq(cmds, a, b)[i] = c[i]
    BY <1>4, <1>5, <2>3, <2>4, <2>5
  <2> HIDE DEF a, b
  <2>8. SubSeq(cmds, a, b) = c
    BY <1>4, <2>3, <2>6, <2>7, SeqEqual
  <2> QED
    BY <2>8 DEF a, b
<1>8. HoldsNext(cmds, iss, c)
  BY <1>4, <1>7 DEF HoldsNext
<1> QED
  BY <1>3, <1>8 DEF q, n, c

\* The activities' states once the nodes of S are scheduled.
Scheduling(st, S) == [id \in NodeIDs |-> IF id \in S THEN "scheduled" ELSE st[id]]

\* A worker that has replayed the whole history, with a layer to go.
AtTheEnd(p, F, m, cmds, st, att, res, l, out, iss) ==
    /\ p \in Plans /\ PlanChecked(p) /\ Layering(p, F) /\ Whole(p, F)
    /\ HistoryInv(p, F, m, cmds, st, att, res)
    /\ AtDispatch(F, m, l, out, iss, st, res)
    /\ out \in [NodeIDs -> Outcome] /\ l <= Len(F) /\ iss = Len(cmds)

\* A worker that has replayed the history adds the commands of the next layer.
LEMMA DispatchesNext ==
    ASSUME NEW p, NEW F, NEW m, NEW cmds, NEW st, NEW att, NEW res, NEW l, NEW out, NEW iss,
           AtTheEnd(p, F, m, cmds, st, att, res, l, out, iss)
    PROVE  /\ l = m + 1
           /\ HistoryInv(p, F, m + 1, cmds \o NewCommands(p, F[l], out),
                         Scheduling(st, Range(F[l])), att, res)
           /\ Fetched(Before(F, l), out, Scheduling(st, Range(F[l])), res)
<1> /\ p \in Plans /\ PlanChecked(p) /\ Layering(p, F) /\ Whole(p, F)
    /\ HistoryInv(p, F, m, cmds, st, att, res)
    /\ AtDispatch(F, m, l, out, iss, st, res)
    /\ out \in [NodeIDs -> Outcome] /\ l <= Len(F) /\ iss = Len(cmds)
  BY DEF AtTheEnd
<1> PICK s2 : s2 = Scheduling(st, Range(F[l]))
  OBVIOUS
<1> DEFINE q == F[l]  n == Len(q)  c == NewCommands(p, q, out)  B == Before(F, l)
<1>1. /\ m \in 0..Len(F) /\ l \in 1..(m + 1) /\ Len(F) \in Nat /\ m \in Nat
      /\ iss = Cardinality(Before(F, l)) /\ Len(cmds) = Cardinality(Before(F, m + 1))
      /\ Fetched(Before(F, l), out, st, res)
      /\ cmds \in Seq(Commands)
  BY DEF HistoryInv, HistoryTyped, AtDispatch, CommandsOfLayers, Layering
<1>2. l = m + 1 /\ l \in 1..Len(F) /\ l \in 0..(Len(F) + 1) /\ l \in Nat \ {0}
  <2>1. Cardinality(Before(F, l)) = Cardinality(Before(F, m + 1))
    BY <1>1
  <2>2. l = m + 1
    BY <1>1, <2>1, WhereIssued
  <2> QED
    BY <1>1, <2>2
<1>3. c \in Seq(Commands) /\ Len(c) = n /\ \A i \in 1..n : c[i] = CommandFor(p, q[i], res)
  BY <1>1, <1>2, NewCommandsShape
<1>4. n \in Nat /\ iss \in Nat /\ Range(q) \cap B = {} /\ Range(q) \subseteq IdsOf(p)
      /\ \A i \in 1..n : q[i] \in Range(q)
  BY <1>1, <1>2, LayerShape, BeforeShape
<1>5. B \subseteq NodeIDs /\ Range(q) \subseteq NodeIDs
  BY <1>2, <1>4, BeforeShape, IdsShape
<1>6. /\ Before(F, l + 1) = B \cup Range(q)
      /\ Cardinality(Before(F, l + 1)) = iss + n
  BY <1>1, <1>2, BlockSize
<1>7. /\ \A i \in Range(q) : s2[i] = "scheduled"
      /\ \A i \in NodeIDs \ Range(q) : s2[i] = st[i]
  BY <1>5 DEF Scheduling
<1>8. Fetched(B, out, s2, res)
  BY <1>1, <1>4, <1>5, <1>7 DEF Fetched
<1>9. HistoryTyped(cmds \o c, s2, att, res)
  <2>1. cmds \o c \in Seq(Commands)
    <3> HIDE DEF c
    <3> QED
      BY <1>1, <1>3, ConcatProperties
  <2> HIDE DEF c
  <2> QED
    BY <2>1 DEF HistoryInv, HistoryTyped, Scheduling
<1>10. /\ Len(cmds \o c) = iss + n
       /\ \A i \in 1..iss : (cmds \o c)[i] = cmds[i]
       /\ \A i \in 1..n : (cmds \o c)[iss + i] = c[i]
  <2> HIDE DEF c, n
  <2>1. /\ Len(cmds \o c) = iss + n
        /\ \A i \in 1..(iss + n) : (cmds \o c)[i] = IF i <= iss THEN cmds[i] ELSE c[i - iss]
    <3>1. cmds \in Seq(Commands) /\ c \in Seq(Commands) /\ Len(cmds) = iss /\ Len(c) = n
      BY <1>1, <1>3
    <3> HIDE DEF Commands
    <3>2. /\ Len(cmds \o c) = Len(cmds) + Len(c)
          /\ \A i \in 1..(Len(cmds) + Len(c)) :
                 (cmds \o c)[i] = IF i <= Len(cmds) THEN cmds[i] ELSE c[i - Len(cmds)]
      BY <3>1, ConcatProperties
    <3> QED
      BY <3>1, <3>2
  <2>2. \A i \in 1..iss : (cmds \o c)[i] = cmds[i]
    BY <1>4, <2>1
  <2>3. ASSUME NEW i \in 1..n PROVE (cmds \o c)[iss + i] = c[i]
    <3>1. iss + i \in 1..(iss + n) /\ ~(iss + i <= iss) /\ (iss + i) - iss = i
      BY <1>4
    <3> QED
      BY <2>1, <3>1
  <2> QED
    BY <2>1, <2>2, <2>3
<1>11. CommandsOfLayers(p, F, m + 1, cmds \o c, res)
  <2>1. CommandsOfLayers(p, F, m, cmds, res)
    BY DEF HistoryInv
  <2>2. ASSUME NEW k \in 1..(m + 1), NEW i \in 1..Len(F[k])
        PROVE  (cmds \o c)[Cardinality(Before(F, k)) + i] = CommandFor(p, F[k][i], res)
    <3>1. CASE k = m + 1
      <4>1. k = l /\ F[k] = q /\ Cardinality(Before(F, k)) = iss /\ i \in 1..n
        BY <1>1, <1>2, <3>1
      <4> HIDE DEF c, n, q
      <4> QED
        BY <1>3, <1>10, <4>1
    <3>2. CASE k # m + 1
      <4>1. k \in 1..m /\ k \in 1..(Len(F) + 1) /\ m + 1 \in 1..(Len(F) + 1) /\ k < m + 1
            /\ k \in 1..Len(F) /\ k \in 0..(Len(F) + 1)
        BY <1>1, <3>2
      <4>2. Cardinality(Before(F, k)) + Len(F[k]) <= iss
        BY <1>1, <4>1, CountGrows
      <4>3. Cardinality(Before(F, k)) \in Nat /\ Len(F[k]) \in Nat
        BY <4>1, BeforeShape, LayerShape
      <4>4. Cardinality(Before(F, k)) + i \in 1..iss
        BY <1>4, <4>2, <4>3
      <4>5. cmds[Cardinality(Before(F, k)) + i] = CommandFor(p, F[k][i], res)
        BY <2>1, <4>1 DEF CommandsOfLayers
      <4> HIDE DEF c
      <4> QED
        BY <1>10, <4>4, <4>5
    <3> QED
      BY <3>1, <3>2
  <2>3. ASSUME NEW i \in 1..(iss + n)
        PROVE  /\ (cmds \o c)[i].id \in Before(F, l + 1)
               /\ (cmds \o c)[i] = CommandFor(p, (cmds \o c)[i].id, res)
    <3>1. CASE i \in 1..iss
      <4>1. cmds[i].id \in B /\ cmds[i] = CommandFor(p, cmds[i].id, res)
        BY <1>2, <2>1, <3>1 DEF CommandsOfLayers
      <4>2. (cmds \o c)[i] = cmds[i]
        BY <1>10, <3>1
      <4> HIDE DEF c, B, q
      <4> QED
        BY <1>6, <4>1, <4>2
    <3>2. CASE i \notin 1..iss
      <4> DEFINE j == i - iss
      <4>1. j \in 1..n /\ i = iss + j
        BY <1>4, <3>2
      <4> HIDE DEF j, c, n
      <4>2. (cmds \o c)[i] = CommandFor(p, q[j], res)
        BY <1>3, <1>10, <4>1
      <4>3. (cmds \o c)[i].id = q[j]
        BY <4>2 DEF CommandFor
      <4> QED
        BY <1>4, <1>6, <4>1, <4>2, <4>3
    <3> QED
      BY <3>1, <3>2
  <2>4. l + 1 = (m + 1) + 1 /\ Len(cmds \o c) = iss + n
    BY <1>2, <1>10
  <2> HIDE DEF c, n
  <2> QED
    BY <1>6, <2>2, <2>3, <2>4 DEF CommandsOfLayers
<1>12. ActivitiesInv(p, F, m + 1, s2, att, res)
  <2>1. ActivitiesInv(p, F, m, st, att, res)
    BY DEF HistoryInv
  <2>2. ASSUME NEW i \in NodeIDs
        PROVE  /\ s2[i] # "none" <=> i \in Before(F, (m + 1) + 1)
               /\ s2[i] = "completed" <=> res[i] # NoOutput
               /\ Attempted(p, i, s2[i], att[i])
    <3>1. CASE i \in Range(q)
      <4>1. st[i] = "none" /\ res[i] = NoOutput /\ att[i] = 0
        BY <1>2, <1>4, <2>1, <3>1 DEF ActivitiesInv, Attempted
      <4>2. TriesOf(p, i) \in Nat \ {0}
        BY <1>4, <3>1, CheckedPlan
      <4>3. s2[i] = "scheduled" /\ i \in Before(F, (m + 1) + 1)
        BY <1>2, <1>6, <1>7, <3>1
      <4> QED
        BY <4>1, <4>2, <4>3 DEF Attempted
    <3>2. CASE i \notin Range(q)
      <4>1. s2[i] = st[i]
        BY <1>7, <3>2
      <4>2. i \in Before(F, (m + 1) + 1) <=> i \in Before(F, m + 1)
        BY <1>2, <1>6, <3>2
      <4> QED
        BY <2>1, <4>1, <4>2 DEF ActivitiesInv
    <3> QED
      BY <3>1, <3>2
  <2>3. \A i \in Before(F, m + 1) : s2[i] = "completed"
    BY <1>2, <1>8 DEF Fetched
  <2> QED
    BY <2>2, <2>3 DEF ActivitiesInv
<1>13. m + 1 \in 0..Len(F)
  BY <1>1, <1>2
<1>14. HistoryInv(p, F, m + 1, cmds \o c, s2, att, res)
  <2> HIDE DEF c
  <2> QED
    BY <1>9, <1>11, <1>12, <1>13 DEF HistoryInv
<1> HIDE DEF q, n, c, B
<1> QED
  BY <1>2, <1>8, <1>14 DEF c, q, B

-----------------------------------------------------------------------------
(* Waiting *)

LEMMA AwaitsFirst ==
    ASSUME NEW p \in Plans, NEW F, Layering(p, F), NEW m \in 0..Len(F), NEW l \in 1..m,
           NEW out, NEW st, NEW res, Fetched(Before(F, l), out, st, res),
           NEW iss, iss = Cardinality(Before(F, l))
    PROVE  AtAwait(F, m, l, 1, out, iss + Len(F[l]), st, res)
<1>1. l \in 1..Len(F)
  BY DEF Layering
<1>2. AwaitedBefore(F, l, 1) = Before(F, l)
  BY DEF AwaitedBefore
<1>3. Len(F[l]) \in Nat \ {0} /\ Cardinality(Before(F, l + 1)) = iss + Len(F[l])
  BY <1>1, LayerShape, BlockSize
<1> QED
  BY <1>2, <1>3 DEF AtAwait

LEMMA FetchesOne ==
    ASSUME NEW S \in SUBSET NodeIDs, NEW out, NEW st, NEW res, Fetched(S, out, st, res),
           NEW id \in NodeIDs, st[id] = "completed"
    PROVE  Fetched(S \cup {id}, [out EXCEPT ![id] = res[id]], st, res)
<1>1. out = [i \in NodeIDs |-> IF i \in S THEN res[i] ELSE NoOutput]
  BY DEF Fetched
<1>2. \A i \in NodeIDs : [out EXCEPT ![id] = res[id]][i] =
                            IF i \in S \cup {id} THEN res[i] ELSE NoOutput
  BY <1>1
<1>3. [out EXCEPT ![id] = res[id]] =
          [i \in NodeIDs |-> IF i \in S \cup {id} THEN res[i] ELSE NoOutput]
  BY <1>1, <1>2
<1> QED
  BY <1>3 DEF Fetched

LEMMA Awaits ==
    ASSUME NEW p \in Plans, NEW F, Layering(p, F), NEW m \in 0..Len(F),
           NEW l, NEW f, NEW out, NEW iss, NEW st, NEW res,
           AtAwait(F, m, l, f, out, iss, st, res),
           st[F[l][f]] = "completed",
           NEW o2, o2 = [out EXCEPT ![F[l][f]] = res[F[l][f]]]
    PROVE  /\ F[l][f] \in NodeIDs
           /\ f < Len(F[l]) => AtAwait(F, m, l, f + 1, o2, iss, st, res)
           /\ ~(f < Len(F[l])) => AtDispatch(F, m, l + 1, o2, iss, st, res)
<1> DEFINE id == F[l][f]  A == AwaitedBefore(F, l, f)
<1>1. /\ l \in 1..m /\ f \in 1..Len(F[l]) /\ Len(F) \in Nat
      /\ iss = Cardinality(Before(F, l + 1)) /\ Fetched(A, out, st, res)
  BY DEF AtAwait, Layering
<1>2. l \in 1..Len(F) /\ l \in 0..(Len(F) + 1) /\ l \in Nat \ {0}
  BY <1>1
<1>3. /\ Range(F[l]) \subseteq NodeIDs /\ id \in Range(F[l]) /\ Len(F[l]) \in Nat
      /\ \A j \in 1..Len(F[l]) : F[l][j] \in Range(F[l])
      /\ DOMAIN F[l] = 1..Len(F[l])
  BY <1>1, <1>2, LayerShape, IdsShape
<1>4. Before(F, l) \subseteq NodeIDs
  BY <1>2, BeforeShape, IdsShape
<1>5. A \in SUBSET NodeIDs
  BY <1>1, <1>3, <1>4 DEF AwaitedBefore
<1>6. Fetched(A \cup {id}, o2, st, res)
  <2> HIDE DEF A, id
  <2>1. id \in NodeIDs /\ st[id] = "completed" /\ o2 = [out EXCEPT ![id] = res[id]]
    BY <1>3 DEF id
  <2>2. Fetched(A \cup {id}, [out EXCEPT ![id] = res[id]], st, res)
    BY <1>1, <1>5, <2>1, FetchesOne
  <2> QED
    BY <2>1, <2>2
<1>7. A \cup {id} = AwaitedBefore(F, l, f + 1)
  <2>1. 1..((f + 1) - 1) = 1..(f - 1) \cup {f}
    BY <1>1, <1>3
  <2> QED
    BY <2>1 DEF AwaitedBefore
<1>8. ASSUME f < Len(F[l]) PROVE AtAwait(F, m, l, f + 1, o2, iss, st, res)
  <2>1. f + 1 \in 1..Len(F[l])
    BY <1>1, <1>3, <1>8
  <2> QED
    BY <1>1, <1>6, <1>7, <2>1 DEF AtAwait
<1>9. ASSUME ~(f < Len(F[l])) PROVE AtDispatch(F, m, l + 1, o2, iss, st, res)
  <2>1. 1..((f + 1) - 1) = 1..Len(F[l])
    BY <1>1, <1>3, <1>9
  <2>2. AwaitedBefore(F, l, f + 1) = Before(F, l) \cup Range(F[l])
    BY <1>3, <2>1 DEF AwaitedBefore, Range
  <2>3. Before(F, l + 1) = Before(F, l) \cup Range(F[l])
    BY <1>2, BeforeNext
  <2>4. l + 1 \in 1..(m + 1)
    BY <1>1
  <2> QED
    BY <1>1, <1>6, <1>7, <2>2, <2>3, <2>4 DEF AtDispatch
<1> QED
  BY <1>3, <1>8, <1>9

-----------------------------------------------------------------------------
(* The steps of the workflow *)

\* The operators of the model are those above, for the plan that is run.
LEMMA OfThePlan ==
    /\ Nodes = Range(plan.nodes) /\ {n.id : n \in Nodes} = IdsOf(plan)
    /\ \A id : Node(id) = NodeOf(plan, id) /\ Required(Node(id)) = Needs(plan, id)
    /\ NodesChecked <=> PlanChecked(plan)
    /\ \A id, S : EntriesIn(id, S) = Found(plan, id, S)
    /\ \A ids : CommandsOf(ids) = NewCommands(plan, ids, outputs)
<1>1. Nodes = Range(plan.nodes) /\ {n.id : n \in Nodes} = IdsOf(plan)
  BY DEF Nodes, IdsOf
<1>2. \A id : Node(id) = NodeOf(plan, id)
  BY DEF Node, NodeOf, Nodes
<1>3. \A id : Required(Node(id)) = Needs(plan, id)
  BY <1>2 DEF Required, Needs
<1>4. NodesChecked <=> PlanChecked(plan)
  BY DEF NodesChecked, PlanChecked, Nodes
<1>5. \A id, S : EntriesIn(id, S) = Found(plan, id, S)
  BY <1>2 DEF EntriesIn, Found
<1>6. \A ids : CommandsOf(ids) = NewCommands(plan, ids, outputs)
  BY <1>3 DEF CommandsOf, NewCommands, CommandFor
<1> QED
  BY <1>1, <1>2, <1>3, <1>4, <1>5, <1>6

\* The merged options of a node say how often it is tried.
LEMMA MergedTries ==
    ASSUME NEW id
    PROVE  OptionsFor(Node(id)).maxAttempts = TriesOf(plan, id)
<1>1. DOMAIN Unset = {"taskQueue", "timeout", "heartbeat", "maxAttempts", "nonRetryable"}
      /\ Unset.maxAttempts = 0
  BY DEF Unset
<1>2. DOMAIN DefaultOptions = DOMAIN Unset /\ DefaultOptions.maxAttempts = DefaultMaxAttempts
  BY <1>1 DEF DefaultOptions, Unset
<1>3. ASSUME NEW o, NEW over, "maxAttempts" \in DOMAIN o
      PROVE  /\ DOMAIN Over(o, over) = DOMAIN o
             /\ Over(o, over).maxAttempts =
                    IF over.maxAttempts # 0 THEN over.maxAttempts ELSE o.maxAttempts
  BY <1>1, <1>3 DEF Over
<1> DEFINE o == Over(DefaultOptions, plan.defaults)
<1>4. "maxAttempts" \in DOMAIN DefaultOptions
  BY <1>1, <1>2
<1>5. /\ DOMAIN o = DOMAIN DefaultOptions
      /\ o.maxAttempts = IF plan.defaults.maxAttempts # 0 THEN plan.defaults.maxAttempts
                         ELSE DefaultMaxAttempts
  BY <1>2, <1>3, <1>4
<1> HIDE DEF o
<1>6. Over(o, Node(id).options).maxAttempts =
          IF Node(id).options.maxAttempts # 0 THEN Node(id).options.maxAttempts ELSE o.maxAttempts
  BY <1>3, <1>4, <1>5
<1>7. OptionsFor(Node(id)).maxAttempts = Over(o, Node(id).options).maxAttempts
  BY DEF OptionsFor, o
<1> QED
  BY <1>5, <1>6, <1>7, OfThePlan DEF TriesOf, FirstSet

LEMMA LayeredTyped ==
    ASSUME NEW p \in Plans, NEW F, Layering(p, F),
           NEW ind, NEW dn, NEW ls, NEW rem, Layered(p, F, ind, dn, ls, rem)
    PROVE  /\ \A id \in DOMAIN ind : id \in NodeIDs /\ ind[id] \in Nat
           /\ dn \in SUBSET NodeIDs
           /\ ls \in Seq(Seq(NodeIDs))
           /\ rem \in Nat
<1>1. ls \in Seq(Seq(NodeIDs)) /\ Len(ls) + 1 \in 0..(Len(F) + 1) /\ Len(F) \in Nat
  BY DEF Layered, Layering
<1>2. dn = Before(F, Len(ls) + 1) /\ rem = Cardinality(IdsOf(p) \ dn)
  BY DEF Layered
<1>3. dn \in SUBSET NodeIDs
  <2>1. Before(F, Len(ls) + 1) \in SUBSET NodeIDs
    BY <1>1, BeforeShape, IdsShape
  <2> QED
    BY <1>2, <2>1
<1>4. rem \in Nat
  <2>1. IsFiniteSet(IdsOf(p) \ dn)
    BY IdsShape, FS_Subset
  <2> QED
    BY <1>2, <2>1, FS_CardinalityType
<1>5. DOMAIN ind = IdsOf(p) /\ \A id \in IdsOf(p) : ind[id] = Missing(p, id, dn)
  BY DEF Layered
<1>6. \A id \in IdsOf(p) : id \in NodeIDs /\ ind[id] \in Nat
  BY <1>5, IdsShape, MissingShape
<1> QED
  BY <1>1, <1>3, <1>4, <1>5, <1>6

LEMMA InitInv == Init => IInv
<1> SUFFICES ASSUME Init PROVE IInv
  OBVIOUS
<1>1. plan \in Plans
  BY DEF Init
<1>2. MemoryTyped
  BY BoundsAssumption DEF Init, MemoryTyped, Outcome
<1>3. Layering(plan, <<>>)
  BY <1>1, NoLayersYet
<1>4. HistoryInv(plan, <<>>, 0, commands, status, attempts, result)
  <2>1. HistoryTyped(commands, status, attempts, result)
    BY DEF Init, HistoryTyped, Outcome
  <2>2. Before(<<>>, 0 + 1) = {} /\ Before(<<>>, 0) = {} /\ Cardinality({}) = 0
    BY BeforeFirst, FS_EmptySet
  <2>3. CommandsOfLayers(plan, <<>>, 0, commands, result)
    <3>1. commands = <<>> /\ Len(commands) = 0 /\ 1..0 = {}
      BY DEF Init
    <3>2. \A i \in 1..Len(commands) : FALSE
      BY <3>1
    <3>3. \A k \in 1..0 : FALSE
      OBVIOUS
    <3>4. Len(commands) = Cardinality(Before(<<>>, 0 + 1))
      BY <2>2, <3>1
    <3> QED
      BY <3>2, <3>3, <3>4 DEF CommandsOfLayers
  <2>4. ActivitiesInv(plan, <<>>, 0, status, attempts, result)
    BY <2>2 DEF Init, ActivitiesInv, Attempted
  <2> QED
    BY <2>1, <2>3, <2>4 DEF HistoryInv
<1>5. Place(plan, <<>>, 0, pc, indegree, done, layers, remaining, layer, future, outputs,
            issued, status, result, verdict)
  BY DEF Init, Place, AtStart
<1>6. Now(<<>>, 0)
  BY <1>3, <1>4, <1>5 DEF Now
<1>7. <<>> \in Seq(Seq(NodeIDs)) /\ 0 \in Nat
  OBVIOUS
<1> QED
  BY <1>1, <1>2, <1>6, <1>7 DEF IInv

LEMMA CheckInv == IInv /\ Check => IInv'
<1> SUFFICES ASSUME IInv, Check PROVE IInv'
  OBVIOUS
<1>1. PICK F \in Seq(Seq(NodeIDs)), m \in Nat : Now(F, m)
  BY DEF IInv
<1>2. plan \in Plans /\ plan' = plan /\ PlanChecked(plan)
  BY OfThePlan DEF IInv, Check
<1>3. pc = "check" /\ pc' = "layer" /\ UNCHANGED <<layer, future, outputs, issued, commands,
                                                  status, attempts, result, verdict, crashes, caller>>
  BY DEF Check, history
<1>4. Layering(plan, F) /\ HistoryInv(plan, F, m, commands, status, attempts, result)
  BY <1>1 DEF Now
<1>5. /\ indegree' = [id \in IdsOf(plan) |-> Len(NodeOf(plan, id).requires)]
      /\ done' = {} /\ layers' = <<>> /\ remaining' = Len(plan.nodes)
  BY OfThePlan DEF Check
<1>6. Layered(plan, F, indegree', done', layers', remaining')
  BY <1>2, <1>4, <1>5, LoopStarts
<1>7. Place(plan, F, m, pc', indegree', done', layers', remaining', layer, future, outputs,
            issued, status, result, verdict)
  BY <1>1, <1>2, <1>3, <1>6 DEF Now, Place
<1>8. Now(F, m)'
  BY <1>2, <1>3, <1>4, <1>7 DEF Now
<1>9. MemoryTyped'
  <2>1. MemoryTyped
    BY DEF IInv
  <2> QED
    BY <1>2, <1>3, <1>4, <1>6, <2>1, LayeredTyped DEF MemoryTyped
<1> QED
  BY <1>2, <1>8, <1>9 DEF IInv

LEMMA RejectInv == IInv /\ (CheckFails \/ CycleDetected) => IInv'
<1> SUFFICES ASSUME IInv, CheckFails \/ CycleDetected PROVE IInv'
  OBVIOUS
<1>1. PICK F \in Seq(Seq(NodeIDs)), m \in Nat : Now(F, m)
  BY DEF IInv
<1>2. /\ verdict' = "rejected" /\ pc' = "end"
      /\ UNCHANGED <<plan, caller, indegree, done, layers, remaining, layer, future, outputs,
                     issued, commands, status, attempts, result, crashes>>
  BY DEF CheckFails, CycleDetected, Reject
<1>3. Place(plan, F, m, pc', indegree, done, layers, remaining, layer, future, outputs,
            issued, status, result, verdict')
  BY <1>2 DEF Place
<1>4. Now(F, m)'
  BY <1>1, <1>2, <1>3 DEF Now
<1>5. MemoryTyped'
  BY <1>2 DEF IInv, MemoryTyped
<1> QED
  BY <1>2, <1>4, <1>5 DEF IInv

LEMMA NextLayerInv == IInv /\ NextLayer => IInv'
<1> SUFFICES ASSUME IInv, NextLayer PROVE IInv'
  OBVIOUS
<1>1. PICK F \in Seq(Seq(NodeIDs)), m \in Nat : Now(F, m)
  BY DEF IInv
<1>2. plan \in Plans
  BY DEF IInv
<1>3. UNCHANGED <<plan, caller, pc, layer, future, outputs, issued, commands, status, attempts,
                  result, verdict, crashes>>
  BY DEF NextLayer, history
<1>4. /\ pc = "layer" /\ verdict = "open" /\ Layering(plan, F)
      /\ HistoryInv(plan, F, m, commands, status, attempts, result)
      /\ PlanChecked(plan) /\ Layered(plan, F, indegree, done, layers, remaining)
      /\ AtStart(layer, future, outputs, issued)
  BY <1>1 DEF NextLayer, Now, Place
<1> DEFINE R == Ready(plan, done)
<1>5. Runnable = R
  BY <1>2, <1>4, RunnableIsReady DEF Runnable
<1>6. /\ R # {}
      /\ layers' = Append(layers, SortIDs(R))
      /\ done' = done \cup R
      /\ indegree' = [id \in DOMAIN indegree |-> indegree[id] - Found(plan, id, R)]
      /\ remaining' = remaining - Cardinality(R)
  BY <1>5, OfThePlan DEF NextLayer
<1>7. PICK G : /\ Layering(plan, G)
               /\ Layered(plan, G, indegree', done', layers', remaining')
               /\ G = F \/ ~Whole(plan, F)
  <2>1. Round(plan, R, indegree, done, layers, remaining, indegree', done', layers', remaining')
    BY <1>6 DEF Round
  <2> HIDE DEF R
  <2> QED
    BY <1>2, <1>4, <2>1, LoopTurn
<1>8. G \in Seq(Seq(NodeIDs))
  BY <1>7 DEF Layering
<1>9. HistoryInv(plan, G, m, commands, status, attempts, result)
  <2>1. CASE G = F
    BY <1>4, <2>1
  <2>2. CASE ~Whole(plan, F)
    <3>1. m = 0
      BY <1>4, <2>2 DEF HistoryInv
    <3>2. Before(F, 0 + 1) = {} /\ Before(G, 0 + 1) = {} /\ Before(F, 0) = {} /\ Before(G, 0) = {}
      BY BeforeFirst
    <3>3. Len(G) \in Nat
      BY <1>8
    <3>4. CommandsOfLayers(plan, G, 0, commands, result)
      <4>1. CommandsOfLayers(plan, F, 0, commands, result)
        BY <1>4, <3>1 DEF HistoryInv
      <4>2. \A k \in 1..0 : FALSE
        OBVIOUS
      <4> QED
        BY <3>2, <4>1, <4>2 DEF CommandsOfLayers
    <3>5. ActivitiesInv(plan, G, 0, status, attempts, result)
      BY <1>4, <3>1, <3>2 DEF HistoryInv, ActivitiesInv
    <3> QED
      BY <1>4, <3>1, <3>3, <3>4, <3>5 DEF HistoryInv
  <2> QED
    BY <1>7, <2>1, <2>2
<1>10. Place(plan, G, m, pc, indegree', done', layers', remaining', layer, future, outputs,
             issued, status, result, verdict)
  BY <1>4, <1>7 DEF Place
<1>11. Now(G, m)'
  BY <1>3, <1>7, <1>9, <1>10 DEF Now
<1>12. MemoryTyped'
  <2>1. MemoryTyped
    BY DEF IInv
  <2> QED
    BY <1>2, <1>3, <1>7, <2>1, LayeredTyped DEF MemoryTyped
<1> QED
  BY <1>2, <1>3, <1>8, <1>11, <1>12 DEF IInv

LEMMA LayersReturnInv == IInv /\ LayersReturn => IInv'
<1> SUFFICES ASSUME IInv, LayersReturn PROVE IInv'
  OBVIOUS
<1>1. PICK F \in Seq(Seq(NodeIDs)), m \in Nat : Now(F, m)
  BY DEF IInv
<1>2. plan \in Plans
  BY DEF IInv
<1>3. UNCHANGED <<plan, indegree, done, layers, remaining, layer, future, outputs, issued,
                  commands, status, attempts, result, verdict, crashes>>
  BY DEF LayersReturn, history
<1>4. /\ pc = "layer" /\ remaining = 0 /\ verdict = "open" /\ Layering(plan, F)
      /\ HistoryInv(plan, F, m, commands, status, attempts, result)
      /\ PlanChecked(plan) /\ Layered(plan, F, indegree, done, layers, remaining)
      /\ AtStart(layer, future, outputs, issued)
  BY <1>1 DEF LayersReturn, Now, Place
<1>5. Whole(plan, F) /\ layers = F
  BY <1>2, <1>4, LoopStops
<1>6. AtDispatch(F, m, layer, outputs, issued, status, result)
  <2>1. Before(F, 1) = {} /\ Cardinality({}) = 0
    BY BeforeFirst, FS_EmptySet
  <2>2. Fetched({}, outputs, status, result)
    BY <1>4 DEF AtStart, Fetched
  <2>3. 1 \in 1..(m + 1)
    OBVIOUS
  <2> QED
    BY <1>4, <2>1, <2>2, <2>3 DEF AtStart, AtDispatch
<1>7. pc' \in {"check", "dispatch"} /\ caller' \in {"submit", "workflow"}
  BY DEF LayersReturn, IInv, MemoryTyped
<1>8. Place(plan, F, m, pc', indegree, done, layers, remaining, layer, future, outputs,
            issued, status, result, verdict)
  BY <1>4, <1>5, <1>6, <1>7 DEF Place
<1>9. Now(F, m)'
  BY <1>1, <1>3, <1>8 DEF Now
<1>10. MemoryTyped'
  BY <1>3, <1>7 DEF IInv, MemoryTyped
<1> QED
  BY <1>2, <1>3, <1>9, <1>10 DEF IInv

LEMMA DispatchLayerInv == IInv /\ DispatchLayer => IInv'
<1> SUFFICES ASSUME IInv, DispatchLayer PROVE IInv'
  OBVIOUS
<1>1. PICK F \in Seq(Seq(NodeIDs)), m \in Nat : Now(F, m)
  BY DEF IInv
<1>2. plan \in Plans /\ MemoryTyped
  BY DEF IInv
<1>3. UNCHANGED <<plan, caller, indegree, done, layers, remaining, layer, outputs, attempts,
                  result, verdict, crashes>>
  BY DEF DispatchLayer
<1>4. /\ pc = "dispatch" /\ verdict = "open" /\ Layering(plan, F)
      /\ HistoryInv(plan, F, m, commands, status, attempts, result)
      /\ PlanChecked(plan) /\ Whole(plan, F) /\ layers = F
      /\ AtDispatch(F, m, layer, outputs, issued, status, result)
      /\ layer <= Len(F)
  BY <1>1 DEF DispatchLayer, Now, Place
<1>5. outputs \in [NodeIDs -> Outcome] /\ Len(F) \in Nat /\ m \in 0..Len(F)
  BY <1>2, <1>4 DEF MemoryTyped, HistoryInv, Layering
<1>6. /\ layer \in 1..(m + 1) /\ issued = Cardinality(Before(F, layer))
      /\ Fetched(Before(F, layer), outputs, status, result)
  BY <1>4 DEF AtDispatch
<1>7. layer \in 1..Len(F)
  BY <1>4, <1>5, <1>6
<1> DEFINE c == NewCommands(plan, F[layer], outputs)
<1>8. future' = 1 /\ issued' = issued + Len(F[layer])
  BY <1>4 DEF DispatchLayer
<1>9. \/ /\ issued = Len(commands)
         /\ commands' = commands \o c
         /\ status' = [id \in NodeIDs |-> IF id \in Range(F[layer]) THEN "scheduled" ELSE status[id]]
         /\ pc' = "await"
      \/ /\ issued < Len(commands)
         /\ SubSeq(commands, issued + 1, issued + Len(c)) = c => pc' = "await"
         /\ commands' = commands /\ status' = status
  BY <1>4, OfThePlan DEF DispatchLayer
<1>10. PICK k \in Nat : /\ pc' = "await" /\ layer \in 1..k /\ k \in 0..Len(F)
                       /\ HistoryInv(plan, F, k, commands', status', attempts, result)
                       /\ Fetched(Before(F, layer), outputs, status', result)
  <2>1. CASE issued < Len(commands)
    <3>1. commands' = commands /\ status' = status
      BY <1>5, <1>6, <1>9, <2>1
    <3>2. layer <= m /\ HoldsNext(commands, issued, c)
      <4>1. /\ plan \in Plans /\ Layering(plan, F)
            /\ HistoryInv(plan, F, m, commands, status, attempts, result)
            /\ AtDispatch(F, m, layer, outputs, issued, status, result)
            /\ outputs \in [NodeIDs -> Outcome] /\ layer <= Len(F) /\ issued < Len(commands)
        BY <1>2, <1>4, <1>5, <2>1
      <4> QED
        BY <4>1, Replays
    <3>3. pc' = "await"
      <4> HIDE DEF c
      <4> QED
        BY <1>9, <2>1, <3>2 DEF HoldsNext
    <3>4. layer \in 1..m
      BY <1>6, <3>2
    <3> QED
      BY <1>4, <1>5, <1>6, <3>1, <3>3, <3>4
  <2>2. CASE ~(issued < Len(commands))
    <3>1. /\ issued = Len(commands)
          /\ commands' = commands \o c
          /\ status' = Scheduling(status, Range(F[layer]))
          /\ pc' = "await"
      BY <1>9, <2>2 DEF Scheduling
    <3>2. /\ layer = m + 1
          /\ HistoryInv(plan, F, m + 1, commands \o c, status', attempts, result)
          /\ Fetched(Before(F, layer), outputs, status', result)
      <4>1. AtTheEnd(plan, F, m, commands, status, attempts, result, layer, outputs, issued)
        BY <1>2, <1>4, <1>5, <3>1 DEF AtTheEnd
      <4> HIDE DEF c
      <4> QED
        BY <3>1, <4>1, DispatchesNext DEF c
    <3>3. m + 1 \in Nat /\ layer \in 1..(m + 1) /\ m + 1 \in 0..Len(F)
      BY <1>5, <1>7, <3>2
    <3> HIDE DEF c
    <3>4. HistoryInv(plan, F, m + 1, commands', status', attempts, result)
      BY <3>1, <3>2
    <3> QED
      BY <3>1, <3>2, <3>3, <3>4
  <2> QED
    BY <2>1, <2>2
<1>11. AtAwait(F, k, layer, 1, outputs, issued + Len(F[layer]), status', result)
  BY <1>2, <1>4, <1>6, <1>10, AwaitsFirst
<1>12. Place(plan, F, k, pc', indegree, done, layers, remaining, layer, future', outputs,
             issued', status', result, verdict)
  BY <1>4, <1>8, <1>10, <1>11 DEF Place
<1>13. Now(F, k)'
  BY <1>3, <1>4, <1>10, <1>12 DEF Now
<1>14. MemoryTyped'
  <2>1. Len(F[layer]) \in Nat /\ issued' \in Nat
    BY <1>2, <1>4, <1>7, <1>8, LayerShape DEF MemoryTyped
  <2> QED
    BY <1>2, <1>3, <1>8, <1>10, <2>1 DEF MemoryTyped
<1> QED
  BY <1>2, <1>3, <1>13, <1>14 DEF IInv

LEMMA AwaitOutputInv == IInv /\ AwaitOutput => IInv'
<1> SUFFICES ASSUME IInv, AwaitOutput PROVE IInv'
  OBVIOUS
<1>1. PICK F \in Seq(Seq(NodeIDs)), m \in Nat : Now(F, m)
  BY DEF IInv
<1>2. plan \in Plans /\ MemoryTyped
  BY DEF IInv
<1>3. UNCHANGED <<plan, caller, indegree, done, layers, remaining, issued, commands, status,
                  attempts, result, verdict, crashes>>
  BY DEF AwaitOutput, history
<1>4. /\ pc = "await" /\ verdict = "open" /\ Layering(plan, F)
      /\ HistoryInv(plan, F, m, commands, status, attempts, result)
      /\ PlanChecked(plan) /\ Whole(plan, F) /\ layers = F
      /\ AtAwait(F, m, layer, future, outputs, issued, status, result)
  BY <1>1 DEF AwaitOutput, Now, Place
<1>5. /\ status[F[layer][future]] = "completed"
      /\ outputs' = [outputs EXCEPT ![F[layer][future]] = result[F[layer][future]]]
      /\ \/ future < Len(F[layer]) /\ future' = future + 1 /\ layer' = layer /\ pc' = pc
         \/ ~(future < Len(F[layer])) /\ layer' = layer + 1 /\ pc' = "dispatch" /\ future' = future
  BY <1>4 DEF AwaitOutput, Awaited
<1>6. m \in 0..Len(F)
  BY <1>4 DEF HistoryInv
<1>7. /\ F[layer][future] \in NodeIDs
      /\ future < Len(F[layer]) =>
             AtAwait(F, m, layer, future + 1, outputs', issued, status, result)
      /\ ~(future < Len(F[layer])) =>
             AtDispatch(F, m, layer + 1, outputs', issued, status, result)
  BY <1>2, <1>4, <1>5, <1>6, Awaits
<1>8. Place(plan, F, m, pc', indegree, done, layers, remaining, layer', future', outputs',
            issued, status, result, verdict)
  <2>1. CASE future < Len(F[layer])
    <3>1. AtAwait(F, m, layer', future', outputs', issued, status, result) /\ pc' = "await"
      BY <1>4, <1>5, <1>7, <2>1
    <3> QED
      BY <1>4, <3>1 DEF Place
  <2>2. CASE ~(future < Len(F[layer]))
    <3>1. AtDispatch(F, m, layer', outputs', issued, status, result) /\ pc' = "dispatch"
      BY <1>5, <1>7, <2>2
    <3> QED
      BY <1>4, <3>1 DEF Place
  <2> QED
    BY <2>1, <2>2
<1>9. Now(F, m)'
  BY <1>3, <1>4, <1>8 DEF Now
<1>10. MemoryTyped'
  <2>1. result \in [NodeIDs -> Outcome]
    BY <1>4 DEF HistoryInv, HistoryTyped
  <2>2. outputs' \in [NodeIDs -> Outcome]
    BY <1>2, <1>5, <1>7, <2>1 DEF MemoryTyped
  <2>3. layer \in Nat /\ future \in Nat
    BY <1>2 DEF MemoryTyped
  <2>4. layer' \in Nat /\ future' \in Nat /\ pc' \in {"await", "dispatch"}
    <3>1. \/ future' = future + 1 /\ layer' = layer /\ pc' = pc
          \/ layer' = layer + 1 /\ pc' = "dispatch" /\ future' = future
      BY <1>5
    <3> QED
      BY <1>4, <2>3, <3>1
  <2> QED
    BY <1>2, <1>3, <2>2, <2>4 DEF MemoryTyped
<1> QED
  BY <1>2, <1>3, <1>9, <1>10 DEF IInv

LEMMA ClosingInv == IInv /\ (AwaitError \/ Return) => IInv'
<1> SUFFICES ASSUME IInv, AwaitError \/ Return PROVE IInv'
  OBVIOUS
<1>1. PICK F \in Seq(Seq(NodeIDs)), m \in Nat : Now(F, m)
  BY DEF IInv
<1>2. plan \in Plans /\ MemoryTyped
  BY DEF IInv
<1>3. UNCHANGED <<plan, caller, indegree, done, layers, remaining, layer, future, outputs, issued,
                  commands, status, attempts, result, crashes>>
  BY DEF AwaitError, Return
<1>4. /\ Layering(plan, F) /\ HistoryInv(plan, F, m, commands, status, attempts, result)
      /\ PlanChecked(plan) /\ Whole(plan, F) /\ layers = F
      /\ pc' = "end" /\ verdict' \in {"failed", "completed"}
      /\ verdict' = "completed" =>
             layer > Len(F) /\ AtDispatch(F, m, layer, outputs, issued, status, result)
  BY <1>1 DEF AwaitError, Return, Now, Place
<1>5. verdict' = "completed" =>
          layer = Len(F) + 1 /\ AtDispatch(F, m, layer, outputs, issued, status, result)
  <2>1. m \in 0..Len(F) /\ Len(F) \in Nat
    BY <1>4 DEF HistoryInv, Layering
  <2> QED
    BY <1>4, <2>1 DEF AtDispatch
<1>6. Place(plan, F, m, pc', indegree, done, layers, remaining, layer, future, outputs,
            issued, status, result, verdict')
  BY <1>4, <1>5 DEF Place
<1>7. Now(F, m)'
  BY <1>3, <1>4, <1>6 DEF Now
<1>8. MemoryTyped'
  BY <1>2, <1>3, <1>4 DEF MemoryTyped
<1> QED
  BY <1>2, <1>3, <1>7, <1>8 DEF IInv

LEMMA CrashInv == IInv /\ Crash => IInv'
<1> SUFFICES ASSUME IInv, Crash PROVE IInv'
  OBVIOUS
<1>1. PICK F \in Seq(Seq(NodeIDs)), m \in Nat : Now(F, m)
  BY DEF IInv
<1>2. plan \in Plans /\ MemoryTyped
  BY DEF IInv
<1>3. UNCHANGED <<plan, caller, commands, status, attempts, result, verdict>>
  BY DEF Crash, history
<1>4. /\ pc' = "check" /\ crashes' = crashes + 1 /\ crashes < MaxCrashes
      /\ indegree' = <<>> /\ done' = {} /\ layers' = <<>> /\ remaining' = 0
      /\ AtStart(layer', future', outputs', issued')
  BY DEF Crash, AtStart
<1>5. verdict = "open"
  BY <1>1, <1>2 DEF Crash, Now, Place, MemoryTyped
<1>6. Place(plan, F, m, pc', indegree', done', layers', remaining', layer', future', outputs',
            issued', status, result, verdict)
  BY <1>4, <1>5 DEF Place
<1>7. Now(F, m)'
  BY <1>1, <1>3, <1>6 DEF Now
<1>8. MemoryTyped'
  <2>1. outputs' \in [NodeIDs -> Outcome] /\ layer' \in Nat /\ future' \in Nat /\ issued' \in Nat
    BY <1>4 DEF AtStart, Outcome
  <2>2. crashes' \in 0..MaxCrashes
    BY <1>2, <1>4, BoundsAssumption DEF MemoryTyped
  <2>3. DOMAIN <<>> = {} /\ <<>> \in Seq(Seq(NodeIDs))
    OBVIOUS
  <2> QED
    BY <1>2, <1>3, <1>4, <2>1, <2>2, <2>3 DEF MemoryTyped
<1> QED
  BY <1>2, <1>3, <1>7, <1>8 DEF IInv

-----------------------------------------------------------------------------
(* The steps of the activities *)

LEMMA ActivityChanges ==
    ASSUME IInv, verdict = "open", NEW id,
           Changes(plan, id, status, attempts, result, status', attempts', result'),
           UNCHANGED <<plan, memory, commands, verdict, crashes>>
    PROVE  IInv'
<1>1. PICK F \in Seq(Seq(NodeIDs)), m \in Nat : Now(F, m)
  BY DEF IInv
<1>2. plan \in Plans /\ MemoryTyped
  BY DEF IInv
<1>3. UNCHANGED <<plan, caller, pc, indegree, done, layers, remaining, layer, future, outputs,
                  issued, commands, verdict, crashes>>
  BY DEF memory
<1>4. Layering(plan, F) /\ HistoryInv(plan, F, m, commands, status, attempts, result)
  BY <1>1 DEF Now
<1>5. HistoryInv(plan, F, m, commands, status', attempts', result')
  BY <1>2, <1>4, HistoryChanges
<1>6. m \in 0..Len(F) /\ Len(F) \in Nat
  BY <1>4 DEF HistoryInv, Layering
<1>7. AtDispatch(F, m, layer, outputs, issued, status, result) =>
          AtDispatch(F, m, layer, outputs, issued, status', result')
  <2> SUFFICES ASSUME AtDispatch(F, m, layer, outputs, issued, status, result)
               PROVE  AtDispatch(F, m, layer, outputs, issued, status', result')
    OBVIOUS
  <2>1. layer \in 1..(m + 1) /\ issued = Cardinality(Before(F, layer))
        /\ Fetched(Before(F, layer), outputs, status, result)
    BY DEF AtDispatch
  <2>2. layer \in 0..(Len(F) + 1)
    BY <1>6, <2>1
  <2>3. Before(F, layer) \in SUBSET NodeIDs
    BY <1>2, <1>4, <2>2, BeforeShape, IdsShape
  <2>4. Fetched(Before(F, layer), outputs, status', result')
    BY <2>1, <2>3, FetchedLasts
  <2> QED
    BY <2>1, <2>4 DEF AtDispatch
<1>8. AtAwait(F, m, layer, future, outputs, issued, status, result) =>
          AtAwait(F, m, layer, future, outputs, issued, status', result')
  <2> SUFFICES ASSUME AtAwait(F, m, layer, future, outputs, issued, status, result)
               PROVE  AtAwait(F, m, layer, future, outputs, issued, status', result')
    OBVIOUS
  <2> DEFINE A == AwaitedBefore(F, layer, future)
  <2>1. layer \in 1..m /\ future \in 1..Len(F[layer])
        /\ issued = Cardinality(Before(F, layer + 1)) /\ Fetched(A, outputs, status, result)
    BY DEF AtAwait
  <2>2. layer \in 1..Len(F) /\ layer \in 0..(Len(F) + 1)
    BY <1>6, <2>1
  <2>3. Before(F, layer) \in SUBSET NodeIDs
    BY <1>2, <1>4, <2>2, BeforeShape, IdsShape
  <2>4. /\ Range(F[layer]) \subseteq NodeIDs /\ Len(F[layer]) \in Nat
        /\ \A j \in 1..Len(F[layer]) : F[layer][j] \in Range(F[layer])
    BY <1>2, <1>4, <2>2, LayerShape, IdsShape
  <2>5. A \in SUBSET NodeIDs
    BY <2>1, <2>3, <2>4 DEF AwaitedBefore
  <2> HIDE DEF A
  <2>6. Fetched(A, outputs, status', result')
    BY <2>1, <2>5, FetchedLasts
  <2> QED
    BY <2>1, <2>6 DEF AtAwait, A
<1>9. Place(plan, F, m, pc, indegree, done, layers, remaining, layer, future, outputs,
            issued, status', result', verdict)
  BY <1>1, <1>7, <1>8 DEF Now, Place
<1>10. Now(F, m)'
  BY <1>3, <1>4, <1>5, <1>9 DEF Now
<1>11. MemoryTyped'
  BY <1>2, <1>3 DEF MemoryTyped
<1> QED
  BY <1>2, <1>3, <1>10, <1>11 DEF IInv

\* What the invariant says of one activity.
LEMMA OneActivity ==
    ASSUME IInv, NEW id \in NodeIDs
    PROVE  /\ HistoryTyped(commands, status, attempts, result)
           /\ status[id] = "completed" <=> result[id] # NoOutput
           /\ Attempted(plan, id, status[id], attempts[id])
           /\ status[id] # "none" => TriesOf(plan, id) \in Nat
<1>1. PICK F \in Seq(Seq(NodeIDs)), m \in Nat : Now(F, m)
  BY DEF IInv
<1>2. plan \in Plans /\ Layering(plan, F)
      /\ HistoryInv(plan, F, m, commands, status, attempts, result)
  BY <1>1 DEF IInv, Now
<1>3. ActivitiesInv(plan, F, m, status, attempts, result) /\ m \in 0..Len(F)
      /\ HistoryTyped(commands, status, attempts, result) /\ Len(F) \in Nat
  BY <1>2 DEF HistoryInv, Layering
<1>4. ASSUME status[id] # "none" PROVE TriesOf(plan, id) \in Nat
  <2>1. id \in Before(F, m + 1)
    BY <1>3, <1>4 DEF ActivitiesInv
  <2>2. id \in IdsOf(plan)
    BY <1>2, <1>3, <2>1, NeedsBefore
  <2>3. F # <<>>
    <3> SUFFICES ASSUME F = <<>> PROVE FALSE
      OBVIOUS
    <3>1. m = 0
      BY <1>3
    <3> QED
      BY <2>1, <3>1, BeforeFirst
  <2>4. PlanChecked(plan)
    BY <1>2, <2>3 DEF Layering
  <2> QED
    BY <1>2, <2>2, <2>4, CheckedPlan
<1> QED
  BY <1>3, <1>4 DEF ActivitiesInv

LEMMA StartAttemptInv ==
    ASSUME IInv, NEW id \in NodeIDs, StartAttempt(id)
    PROVE  IInv'
<1>1. /\ verdict = "open" /\ status[id] = "scheduled"
      /\ status' = [status EXCEPT ![id] = "running"]
      /\ attempts' = [attempts EXCEPT ![id] = attempts[id] + 1]
      /\ UNCHANGED <<plan, memory, commands, result, verdict, crashes>>
  BY DEF StartAttempt
<1>2. /\ HistoryTyped(commands, status, attempts, result)
      /\ result[id] = NoOutput
      /\ attempts[id] < TriesOf(plan, id) /\ TriesOf(plan, id) \in Nat
  BY <1>1, OneActivity DEF Attempted
<1>3. Changes(plan, id, status, attempts, result, status', attempts', result')
  <2>1. status \in [NodeIDs -> {"none", "scheduled", "running", "completed", "failed"}]
        /\ attempts \in [NodeIDs -> Nat] /\ result \in [NodeIDs -> Outcome]
    BY <1>2 DEF HistoryTyped
  <2>2. /\ status' \in [NodeIDs -> {"none", "scheduled", "running", "completed", "failed"}]
        /\ attempts' \in [NodeIDs -> Nat] /\ result' = result
        /\ \A i \in NodeIDs \ {id} : status'[i] = status[i] /\ attempts'[i] = attempts[i]
        /\ status'[id] = "running" /\ attempts'[id] = attempts[id] + 1
    BY <1>1, <2>1
  <2>3. attempts[id] + 1 <= TriesOf(plan, id)
    BY <1>2, <2>1
  <2> QED
    BY <1>1, <1>2, <2>1, <2>2, <2>3 DEF Changes, Attempted
<1> QED
  BY <1>1, <1>3, ActivityChanges

LEMMA AttemptSucceedsInv ==
    ASSUME IInv, NEW id \in NodeIDs, AttemptSucceeds(id)
    PROVE  IInv'
<1>1. /\ verdict = "open" /\ status[id] = "running"
      /\ status' = [status EXCEPT ![id] = "completed"]
      /\ result' = [result EXCEPT ![id] = attempts[id]]
      /\ UNCHANGED <<plan, memory, commands, attempts, verdict, crashes>>
  BY DEF AttemptSucceeds
<1>2. /\ HistoryTyped(commands, status, attempts, result)
      /\ attempts[id] <= TriesOf(plan, id)
  BY <1>1, OneActivity DEF Attempted
<1>3. Changes(plan, id, status, attempts, result, status', attempts', result')
  <2>1. status \in [NodeIDs -> {"none", "scheduled", "running", "completed", "failed"}]
        /\ attempts \in [NodeIDs -> Nat] /\ result \in [NodeIDs -> Outcome]
    BY <1>2 DEF HistoryTyped
  <2>2. attempts[id] \in Outcome /\ attempts[id] # NoOutput
    BY <2>1, BoundsAssumption DEF Outcome
  <2>3. /\ status' \in [NodeIDs -> {"none", "scheduled", "running", "completed", "failed"}]
        /\ result' \in [NodeIDs -> Outcome] /\ attempts' = attempts
        /\ \A i \in NodeIDs \ {id} : status'[i] = status[i] /\ result'[i] = result[i]
        /\ status'[id] = "completed" /\ result'[id] = attempts[id]
    BY <1>1, <2>1, <2>2
  <2> QED
    BY <1>1, <1>2, <2>1, <2>2, <2>3 DEF Changes, Attempted
<1> QED
  BY <1>1, <1>3, ActivityChanges

LEMMA AttemptEndsInv ==
    ASSUME IInv, NEW id \in NodeIDs,
           AttemptTimesOut(id) \/ \E type \in ErrorTypes : AttemptFails(id, type)
    PROVE  IInv'
<1>1. PICK retryable \in BOOLEAN :
          /\ verdict = "open" /\ status[id] = "running"
          /\ status' = [status EXCEPT ![id] = AfterFailure(id, retryable)]
          /\ UNCHANGED <<plan, memory, commands, attempts, result, verdict, crashes>>
  BY DEF AttemptTimesOut, AttemptFails
<1>2. /\ HistoryTyped(commands, status, attempts, result)
      /\ result[id] = NoOutput
      /\ attempts[id] <= TriesOf(plan, id)
  BY <1>1, OneActivity DEF Attempted
<1>3. \/ AfterFailure(id, retryable) = "scheduled" /\ attempts[id] < TriesOf(plan, id)
      \/ AfterFailure(id, retryable) = "failed"
  BY MergedTries DEF AfterFailure
<1>4. Changes(plan, id, status, attempts, result, status', attempts', result')
  <2>1. status \in [NodeIDs -> {"none", "scheduled", "running", "completed", "failed"}]
        /\ attempts \in [NodeIDs -> Nat] /\ result \in [NodeIDs -> Outcome]
    BY <1>2 DEF HistoryTyped
  <2>2. /\ status' \in [NodeIDs -> {"none", "scheduled", "running", "completed", "failed"}]
        /\ result' = result /\ attempts' = attempts
        /\ \A i \in NodeIDs \ {id} : status'[i] = status[i]
        /\ status'[id] = AfterFailure(id, retryable)
    BY <1>1, <1>3, <2>1
  <2> QED
    BY <1>1, <1>2, <1>3, <2>1, <2>2 DEF Changes, Attempted
<1> QED
  BY <1>1, <1>4, ActivityChanges

LEMMA StutterInv == IInv /\ UNCHANGED vars => IInv'
<1> SUFFICES ASSUME IInv, UNCHANGED vars PROVE IInv'
  OBVIOUS
<1>1. PICK F \in Seq(Seq(NodeIDs)), m \in Nat : Now(F, m)
  BY DEF IInv
<1>2. UNCHANGED <<plan, caller, pc, indegree, done, layers, remaining, layer, future, outputs,
                  issued, commands, status, attempts, result, verdict, crashes>>
  BY DEF vars, memory, history
<1>3. Now(F, m)' /\ MemoryTyped'
  BY <1>1, <1>2 DEF IInv, Now, MemoryTyped
<1> QED
  BY <1>2, <1>3 DEF IInv

\* Every step keeps the invariant.
LEMMA NextInv == IInv /\ [Next]_vars => IInv'
<1> SUFFICES ASSUME IInv, [Next]_vars PROVE IInv'
  OBVIOUS
<1>1. CASE WorkflowStep
  BY <1>1, CheckInv, RejectInv, NextLayerInv, LayersReturnInv, DispatchLayerInv,
     AwaitOutputInv, ClosingInv DEF WorkflowStep
<1>2. CASE Crash
  BY <1>2, CrashInv
<1>3. CASE \E id \in NodeIDs : StartAttempt(id) \/ ActivityEnds(id)
  <2>1. PICK id \in NodeIDs : StartAttempt(id) \/ ActivityEnds(id)
    BY <1>3
  <2>2. CASE StartAttempt(id)
    BY <2>2, StartAttemptInv
  <2>3. CASE ActivityEnds(id)
    BY <2>3, AttemptSucceedsInv, AttemptEndsInv DEF ActivityEnds
  <2> QED
    BY <2>1, <2>2, <2>3
<1>4. CASE UNCHANGED vars
  BY <1>4, StutterInv
<1> QED
  BY <1>1, <1>2, <1>3, <1>4 DEF Next

\* The inductive invariant (workflow.go:43-100 and what Temporal keeps of a run).
THEOREM Inductive == Spec => []IInv
<1>1. Init => IInv
  BY InitInv
<1>2. IInv /\ [Next]_vars => IInv'
  BY NextInv
<1> QED
  BY <1>1, <1>2, PTL DEF Spec

-----------------------------------------------------------------------------
(* The invariants of the run *)

\* What a history with commands says of its plan.
LEMMA OneCommand ==
    ASSUME IInv, NEW i \in 1..Len(commands)
    PROVE  /\ PlanChecked(plan) /\ plan \in Plans
           /\ commands[i] \in Commands
           /\ commands[i].id \in IdsOf(plan)
           /\ commands[i] = CommandFor(plan, commands[i].id, result)
           /\ \A r \in Needs(plan, commands[i].id) : r \in NodeIDs /\ result[r] # NoOutput
           /\ status[commands[i].id] # "none"
<1>1. PICK F \in Seq(Seq(NodeIDs)), m \in Nat : Now(F, m)
  BY DEF IInv
<1>2. plan \in Plans /\ Layering(plan, F)
      /\ HistoryInv(plan, F, m, commands, status, attempts, result)
  BY <1>1 DEF IInv, Now
<1>3. /\ ActivitiesInv(plan, F, m, status, attempts, result) /\ m \in 0..Len(F)
      /\ CommandsOfLayers(plan, F, m, commands, result)
      /\ commands \in Seq(Commands) /\ Len(F) \in Nat
  BY <1>2 DEF HistoryInv, HistoryTyped, Layering
<1> DEFINE id == commands[i].id
<1>4. id \in Before(F, m + 1) /\ commands[i] = CommandFor(plan, id, result)
  BY <1>3 DEF CommandsOfLayers
<1>5. id \in IdsOf(plan) /\ Needs(plan, id) \subseteq Before(F, m)
  BY <1>2, <1>3, <1>4, NeedsBefore
<1>6. F # <<>>
  <2> SUFFICES ASSUME F = <<>> PROVE FALSE
    OBVIOUS
  <2>1. m = 0
    BY <1>3
  <2> QED
    BY <1>4, <2>1, BeforeFirst
<1>7. PlanChecked(plan)
  BY <1>2, <1>6 DEF Layering
<1>8. Needs(plan, id) \subseteq NodeIDs /\ id \in NodeIDs
  BY <1>2, <1>5, NeedsShape, IdsShape
<1>9. \A r \in Needs(plan, id) : r \in NodeIDs /\ result[r] # NoOutput
  <2> TAKE r \in Needs(plan, id)
  <2>1. r \in NodeIDs /\ r \in Before(F, m)
    BY <1>5, <1>8
  <2> QED
    BY <1>3, <2>1 DEF ActivitiesInv
<1>10. status[id] # "none"
  BY <1>3, <1>4, <1>8 DEF ActivitiesInv
<1>11. commands[i] \in Commands
  BY <1>3
<1> QED
  BY <1>2, <1>4, <1>5, <1>7, <1>9, <1>10, <1>11

LEMMA Typed == IInv => TypeOK
<1> SUFFICES ASSUME IInv PROVE TypeOK
  OBVIOUS
<1>1. plan \in Plans /\ MemoryTyped
  BY DEF IInv
<1>2. HistoryTyped(commands, status, attempts, result)
  BY DEF IInv, Now, HistoryInv
<1>3. \A i \in 1..Len(commands) :
        /\ commands[i].id \in NodeIDs
        /\ \A r \in DOMAIN commands[i].upstream :
               r \in NodeIDs /\ commands[i].upstream[r] \in Outcome
  <2> TAKE i \in 1..Len(commands)
  <2>1. commands[i] \in Commands
    BY OneCommand
  <2>2. commands[i].id \in NodeIDs
        /\ \E S \in SUBSET NodeIDs : commands[i].upstream \in [S -> Outcome]
    BY <2>1 DEF Commands
  <2> QED
    BY <2>2
<1>4. \A i \in 1..Len(commands) : \A n \in Range(plan.nodes) :
          n.id = commands[i].id => attempts[n.id] <= Tries(n)
  <2> SUFFICES ASSUME NEW i \in 1..Len(commands), NEW n \in Range(plan.nodes),
                      n.id = commands[i].id
               PROVE  attempts[n.id] <= Tries(n)
    OBVIOUS
  <2>1. PlanChecked(plan) /\ status[n.id] # "none" /\ n.id \in NodeIDs
    BY <1>1, OneCommand, NodeShape
  <2>2. attempts[n.id] <= TriesOf(plan, n.id)
    BY <2>1, OneActivity DEF Attempted
  <2>3. NodeOf(plan, n.id) = n
    BY <1>1, <2>1, CheckedPlan
  <2> QED
    BY <2>2, <2>3 DEF TriesOf, Tries
<1> QED
  BY <1>1, <1>2, <1>3, <1>4 DEF TypeOK, MemoryTyped, HistoryTyped

\* Layers iterates over a map but sorts (plan.go:231-240) and the outputs are
\* refilled from the history: however often the worker is lost, the code that
\* runs again issues the commands the history holds.  And no activity is given
\* more attempts than its merged options allow.
THEOREM ReplayIsDeterministicHolds == Spec => []ReplayIsDeterministic
<1>1. IInv => ReplayIsDeterministic
  BY Typed DEF ReplayIsDeterministic, IInv, MemoryTyped
<1> QED
  BY <1>1, Inductive, PTL

\* A node is given, for exactly the nodes it requires, the outputs on record
\* (workflow.go:66-74, 84).
THEOREM UpstreamIsRecordedHolds == Spec => []UpstreamIsRecorded
<1>1. ASSUME IInv PROVE UpstreamIsRecorded
  <2> SUFFICES ASSUME NEW i \in DOMAIN commands
               PROVE  LET c == commands[i]
                      IN  /\ DOMAIN c.upstream = Required(Node(c.id))
                          /\ \A r \in DOMAIN c.upstream :
                                 c.upstream[r] = result[r] /\ result[r] # NoOutput
    BY DEF UpstreamIsRecorded
  <2> DEFINE c == commands[i]
  <2>1. i \in 1..Len(commands)
    <3>1. commands \in Seq(Commands)
      BY <1>1 DEF IInv, Now, HistoryInv, HistoryTyped
    <3> QED
      BY <3>1
  <2>2. c = CommandFor(plan, c.id, result)
        /\ \A r \in Needs(plan, c.id) : result[r] # NoOutput
    BY <1>1, <2>1, OneCommand
  <2> HIDE DEF c
  <2>3. c.upstream = [r \in Needs(plan, c.id) |-> result[r]]
    BY <2>2 DEF CommandFor
  <2>4. /\ DOMAIN c.upstream = Needs(plan, c.id)
        /\ \A r \in Needs(plan, c.id) : c.upstream[r] = result[r]
    BY <2>3
  <2> QED
    BY <2>2, <2>4, OfThePlan DEF c
<1> QED
  BY <1>1, Inductive, PTL

\* Once a run has its layers they are all of F.
LEMMA LayersFound ==
    ASSUME IInv, pc \in {"dispatch", "await", "end"}, verdict # "rejected"
    PROVE  plan \in Plans /\ PlanChecked(plan) /\ Layering(plan, layers) /\ Whole(plan, layers)
<1>1. PICK F \in Seq(Seq(NodeIDs)), m \in Nat : Now(F, m)
  BY DEF IInv
<1>2. pc \in {"dispatch", "await"} \/ verdict \in {"completed", "failed"}
  BY <1>1 DEF IInv, MemoryTyped, Now, Place
<1> QED
  BY <1>1, <1>2 DEF IInv, Now, Place

LEMMA InSomeLayer ==
    ASSUME NEW p \in Plans, NEW F, Layering(p, F), Whole(p, F), NEW id \in IdsOf(p)
    PROVE  \E k \in 1..Len(F) : id \in Range(F[k])
<1>1. Len(F) \in Nat /\ id \in Before(F, Len(F) + 1)
  BY DEF Layering, Whole
<1>2. PICK k \in 1..((Len(F) + 1) - 1) : id \in Range(F[k])
  BY <1>1, BeforeHolds
<1> QED
  BY <1>1, <1>2

LayersOf(F, id) == {k \in 1..Len(F) : id \in Range(F[k])}

LEMMA LayerIsDepth ==
    ASSUME NEW p \in Plans, PlanChecked(p), NEW F, Layering(p, F), Whole(p, F),
           NEW id \in IdsOf(p)
    PROVE  LayersOf(F, id) = {1 + Max({0} \cup UNION {LayersOf(F, r) : r \in Needs(p, id)})}
<1> DEFINE U == {0} \cup UNION {LayersOf(F, r) : r \in Needs(p, id)}
<1>1. PICK k \in 1..Len(F) : id \in Range(F[k])
  BY InSomeLayer
<1>2. Len(F) \in Nat /\ k \in Nat \ {0}
  BY DEF Layering
<1>3. LayersOf(F, id) = {k}
  BY <1>1, InOneLayer, ZenonT(40) DEF LayersOf
<1>4. \A j \in U : j \in Nat /\ j <= k - 1
  <2> SUFFICES ASSUME NEW j \in U, j # 0 PROVE j \in Nat /\ j <= k - 1
    BY <1>2
  <2>1. PICK r \in Needs(p, id) : j \in LayersOf(F, r)
    OBVIOUS
  <2>2. r \in Before(F, k)
    BY <1>1, NeedsEarlier
  <2>3. PICK i \in 1..(k - 1) : r \in Range(F[i])
    BY <1>2, <2>2, BeforeHolds
  <2>4. i \in 1..Len(F) /\ j \in 1..Len(F) /\ r \in Range(F[j])
    BY <1>2, <2>1, <2>3 DEF LayersOf
  <2>5. i = j
    BY <2>3, <2>4, InOneLayer
  <2> QED
    BY <1>2, <2>3, <2>5
<1>5. k - 1 \in U
  <2> SUFFICES ASSUME k # 1 PROVE k - 1 \in U
    BY <1>2
  <2>1. k - 1 \in 1..Len(F) /\ (k - 1) + 1 = k /\ k - 1 \in Nat \ {0}
    BY <1>2
  <2>2. Before(F, k) = Before(F, k - 1) \cup Range(F[k - 1])
    BY <2>1, BeforeNext
  <2>3. id \notin Before(F, k) /\ Needs(p, id) \subseteq Before(F, k)
    BY <1>1, LayerShape, NeedsEarlier
  <2>4. Range(F[k - 1]) = Ready(p, Before(F, k - 1))
    BY <2>1, LayerShape
  <2>5. ~(Needs(p, id) \subseteq Before(F, k - 1))
    BY <2>2, <2>3, <2>4 DEF Ready
  <2>6. PICK r \in Needs(p, id) : r \in Range(F[k - 1])
    BY <2>2, <2>3, <2>5
  <2>7. k - 1 \in LayersOf(F, r)
    BY <2>1, <2>6 DEF LayersOf
  <2> QED
    BY <2>7
<1>6. Max(U) = k - 1
  <2> HIDE DEF U
  <2>1. \E x \in U : \A y \in U : x >= y
    BY <1>2, <1>4, <1>5
  <2>2. Max(U) \in U /\ \A y \in U : Max(U) >= y
    BY <2>1 DEF Max
  <2> QED
    BY <1>2, <1>4, <1>5, <2>2
<1> HIDE DEF U
<1>7. LayersOf(F, id) = {1 + Max(U)}
  BY <1>2, <1>3, <1>6
<1> QED
  BY <1>7 DEF U

\* Layers puts every node into one layer, the one after the last that holds a
\* node it requires (plan.go:211-215).
THEOREM LayersAreDepthsHolds == Spec => []LayersAreDepths
<1>1. ASSUME IInv PROVE LayersAreDepths
  <2> SUFFICES ASSUME pc \in {"dispatch", "await", "end"}, verdict # "rejected",
                      NEW n \in Nodes
               PROVE  {k \in DOMAIN layers : n.id \in Range(layers[k])} =
                      {1 + Max({0} \cup UNION {{k \in DOMAIN layers : r \in Range(layers[k])} :
                                                   r \in Required(n)})}
    BY DEF LayersAreDepths
  <2>1. plan \in Plans /\ PlanChecked(plan) /\ Layering(plan, layers) /\ Whole(plan, layers)
    BY <1>1, LayersFound
  <2>2. n \in Range(plan.nodes)
    BY OfThePlan
  <2>3. NodeOf(plan, n.id) = n /\ n.id \in IdsOf(plan)
    BY <2>1, <2>2, CheckedPlan, NodeShape
  <2>4. Required(n) = Needs(plan, n.id)
    BY <2>3 DEF Required, Needs
  <2>5. DOMAIN layers = 1..Len(layers)
    BY <2>1 DEF Layering
  <2>6. \A r : {k \in DOMAIN layers : r \in Range(layers[k])} = LayersOf(layers, r)
    BY <2>5 DEF LayersOf
  <2>7. LayersOf(layers, n.id) =
            {1 + Max({0} \cup UNION {LayersOf(layers, r) : r \in Needs(plan, n.id)})}
    BY <2>1, <2>3, LayerIsDepth
  <2>8. {LayersOf(layers, r) : r \in Needs(plan, n.id)} =
            {{k \in DOMAIN layers : r \in Range(layers[k])} : r \in Required(n)}
    BY <2>4, <2>6, Zenon
  <2> QED
    BY <2>6, <2>7, <2>8, Zenon
<1> QED
  BY <1>1, Inductive, PTL

LEMMA CompletedHas ==
    ASSUME IInv, verdict = "completed" \/ (pc = "dispatch" /\ layer > Len(layers))
    PROVE  \A id \in IdsOf(plan) : outputs[id] = result[id] /\ result[id] # NoOutput
<1>1. PICK F \in Seq(Seq(NodeIDs)), m \in Nat : Now(F, m)
  BY DEF IInv
<1>2. /\ plan \in Plans /\ Layering(plan, F) /\ Whole(plan, F) /\ layers = F
      /\ HistoryInv(plan, F, m, commands, status, attempts, result)
      /\ AtDispatch(F, m, layer, outputs, issued, status, result)
      /\ layer > Len(F)
  BY <1>1 DEF IInv, Now, Place, Layering
<1>3. /\ layer \in 1..(m + 1) /\ m \in 0..Len(F) /\ Len(F) \in Nat
      /\ Fetched(Before(F, layer), outputs, status, result)
      /\ ActivitiesInv(plan, F, m, status, attempts, result)
  BY <1>2 DEF AtDispatch, HistoryInv, Layering
<1>4. layer = Len(F) + 1
  BY <1>2, <1>3
<1>5. Fetched(IdsOf(plan), outputs, status, result)
  BY <1>2, <1>3, <1>4 DEF Whole
<1>6. IdsOf(plan) \subseteq NodeIDs
  BY <1>2, IdsShape
<1> QED
  BY <1>3, <1>5, <1>6 DEF Fetched, ActivitiesInv

\* Whatever one starts from, what depends on it ends in a leaf.
LEMMA EndsInLeaf ==
    ASSUME NEW p \in Plans, PlanChecked(p), NEW F, Layering(p, F), Whole(p, F),
           NEW S \in SUBSET Range(p.nodes), S # {},
           \A n \in Range(p.nodes) : (\E m \in S : m.id \in Required(n)) => n \in S
    PROVE  \E n \in S : \A x \in Range(p.nodes) : n.id \notin Required(x)
<1> DEFINE T == {Len(F) - k : k \in {j \in 1..Len(F) : \E n \in S : n.id \in Range(F[j])}}
<1>1. Len(F) \in Nat
  BY DEF Layering
<1>2. \A n \in Range(p.nodes) :
          n.id \in IdsOf(p) /\ Needs(p, n.id) = Required(n)
          /\ \E k \in 1..Len(F) : n.id \in Range(F[k])
  <2> TAKE n \in Range(p.nodes)
  <2>1. n.id \in IdsOf(p) /\ NodeOf(p, n.id) = n
    BY NodeShape, CheckedPlan
  <2> QED
    BY <2>1, InSomeLayer DEF Needs, Required
<1>3. T \in SUBSET Nat /\ T # {}
  <2>1. PICK n \in S : TRUE
    OBVIOUS
  <2>2. PICK k \in 1..Len(F) : n.id \in Range(F[k])
    BY <1>2, <2>1
  <2>3. Len(F) - k \in T
    BY <2>1, <2>2
  <2> QED
    BY <1>1, <2>3
<1>4. PICK t \in T : \A u \in T : t <= u
  <2> HIDE DEF T
  <2> QED
    BY <1>3, LeastNat
<1>5. PICK k \in 1..Len(F) : t = Len(F) - k /\ \E n \in S : n.id \in Range(F[k])
  BY <1>4
<1>6. PICK n \in S : n.id \in Range(F[k])
  BY <1>5
<1>7. ASSUME NEW x \in Range(p.nodes), n.id \in Required(x) PROVE FALSE
  <2>1. x \in S
    BY <1>6, <1>7
  <2>2. PICK j \in 1..Len(F) : x.id \in Range(F[j])
    BY <1>2, <1>7
  <2>3. j \in Nat /\ k \in Nat
    BY <1>1
  <2>4. n.id \in Before(F, j)
    BY <1>2, <1>7, <2>2, NeedsEarlier
  <2>5. PICK i \in 1..(j - 1) : n.id \in Range(F[i])
    BY <2>3, <2>4, BeforeHolds
  <2>6. i \in 1..Len(F)
    BY <1>1, <2>5
  <2>7. i = k
    BY <1>6, <2>5, <2>6, InOneLayer
  <2>8. Len(F) - j \in T
    BY <2>1, <2>2
  <2>9. t <= Len(F) - j
    BY <1>4, <2>8
  <2> QED
    BY <1>1, <1>5, <2>3, <2>5, <2>7, <2>9
<1> QED
  BY <1>6, <1>7

\* A result has every node's output on record; no leaf is required, and whatever
\* depends on a node ends in a leaf (workflow.go:88-97, plan.go:263-281).
THEOREM ResultIsWholeHolds == Spec => []ResultIsWhole
<1>1. ASSUME IInv, verdict = "completed"
      PROVE  /\ \A n \in Nodes : outputs[n.id] = result[n.id] /\ result[n.id] # NoOutput
             /\ \A n \in Nodes : Required(n) \cap Range(Leaves) = {}
             /\ \A S \in (SUBSET Nodes) \ {{}} :
                    (\A n \in Nodes : (\E m \in S : m.id \in Required(n)) => n \in S)
                        => \E n \in S : n.id \in Range(Leaves)
  <2> DEFINE L == {n.id : n \in Nodes} \ UNION {Required(n) : n \in Nodes}
  <2>1. plan \in Plans /\ PlanChecked(plan) /\ Layering(plan, layers) /\ Whole(plan, layers)
    <3>1. pc = "end" /\ verdict # "rejected"
      BY <1>1 DEF IInv, MemoryTyped, Now, Place
    <3> QED
      BY <1>1, <3>1, LayersFound
  <2>2. \A n \in Nodes : outputs[n.id] = result[n.id] /\ result[n.id] # NoOutput
    BY <1>1, CompletedHas, OfThePlan DEF IdsOf
  <2>3. Range(Leaves) = L
    <3>1. L \in SUBSET IdsOf(plan)
      BY OfThePlan
    <3> HIDE DEF L
    <3>2. L \in SUBSET NodeIDs /\ IsFiniteSet(L)
      BY <2>1, <3>1, IdsShape, FS_Subset
    <3>3. Range(SortIDs(L)) = L
      BY <3>2, SortedIs
    <3> QED
      BY <3>3 DEF L, Leaves
  <2>4. \A n \in Nodes : Required(n) \cap Range(Leaves) = {}
    BY <2>3
  <2>5. ASSUME NEW S \in (SUBSET Nodes) \ {{}},
               \A n \in Nodes : (\E m \in S : m.id \in Required(n)) => n \in S
        PROVE  \E n \in S : n.id \in Range(Leaves)
    <3>1. S \in SUBSET Range(plan.nodes) /\ S # {}
      BY OfThePlan
    <3>2. \A n \in Range(plan.nodes) : (\E m \in S : m.id \in Required(n)) => n \in S
      BY <2>5, OfThePlan
    <3>3. PICK n \in S : \A x \in Range(plan.nodes) : n.id \notin Required(x)
      BY <2>1, <3>1, <3>2, EndsInLeaf
    <3>4. n.id \in L
      BY <3>1, <3>3, OfThePlan
    <3> QED
      BY <2>3, <3>4
  <2> QED
    BY <2>2, <2>4, <2>5
<1>2. IInv => ResultIsWhole
  BY <1>1 DEF ResultIsWhole
<1> QED
  BY <1>2, Inductive, PTL

-----------------------------------------------------------------------------
(* The run as a DAG *)

HasOrder(p) ==
    \E rank \in [IdsOf(p) -> 1..Len(p.nodes)] :
        \A n \in Range(p.nodes) : \A r \in Required(n) : rank[r] < rank[n.id]

\* A node's layer is its place in an order.
LEMMA WholeHasOrder ==
    ASSUME NEW p \in Plans, PlanChecked(p), NEW F, Layering(p, F), Whole(p, F)
    PROVE  HasOrder(p)
<1> DEFINE rank == [id \in IdsOf(p) |-> CHOOSE k \in 1..Len(F) : id \in Range(F[k])]
<1>1. \A id \in IdsOf(p) : rank[id] \in 1..Len(F) /\ id \in Range(F[rank[id]])
  <2> TAKE id \in IdsOf(p)
  <2>1. \E k \in 1..Len(F) : id \in Range(F[k])
    BY InSomeLayer
  <2> QED
    BY <2>1
<1>2. Len(F) \in Nat /\ Len(F) <= Len(p.nodes) /\ Len(p.nodes) \in Nat
  <2>1. Len(F) \in Nat /\ Len(F) + 1 <= Cardinality(Before(F, Len(F) + 1)) + 1
    BY DEF Layering
  <2>2. Cardinality(Before(F, Len(F) + 1)) = Len(p.nodes)
    BY CheckedPlan DEF Whole
  <2>3. Len(p.nodes) \in Nat
    BY PlanShape
  <2> QED
    BY <2>1, <2>2, <2>3
<1>3. rank \in [IdsOf(p) -> 1..Len(p.nodes)]
  <2>1. \A id \in IdsOf(p) : rank[id] \in 1..Len(p.nodes)
    BY <1>1, <1>2
  <2> QED
    BY <2>1
<1> HIDE DEF rank
<1>4. ASSUME NEW n \in Range(p.nodes), NEW r \in Required(n)
      PROVE  rank[r] < rank[n.id]
  <2>1. n.id \in IdsOf(p) /\ Required(n) = Needs(p, n.id) /\ r \in IdsOf(p)
    BY CheckedPlan, NodeShape DEF Needs, Required
  <2> DEFINE k == rank[n.id]
  <2>2. k \in 1..Len(F) /\ n.id \in Range(F[k])
    BY <1>1, <2>1
  <2> HIDE DEF k
  <2>3. k \in Nat /\ r \in Before(F, k)
    BY <1>2, <1>4, <2>1, <2>2, NeedsEarlier
  <2>4. PICK i \in 1..(k - 1) : r \in Range(F[i])
    BY <2>3, BeforeHolds
  <2>5. i \in 1..Len(F)
    BY <1>2, <2>2, <2>4
  <2>6. rank[r] = i
    BY <1>1, <2>1, <2>4, <2>5, InOneLayer
  <2>7. i < k
    BY <2>3, <2>4
  <2> QED
    BY <2>6, <2>7 DEF k
<1> QED
  BY <1>3, <1>4 DEF HasOrder

\* No order has room for nodes each of which requires another of them.
LEMMA StuckHasNone ==
    ASSUME NEW p \in Plans, PlanChecked(p), NEW S \in SUBSET IdsOf(p), S # {},
           \A id \in S : \E r \in Needs(p, id) : r \in S
    PROVE  ~HasOrder(p)
<1> SUFFICES ASSUME HasOrder(p) PROVE FALSE
  OBVIOUS
<1>1. PICK rank \in [IdsOf(p) -> 1..Len(p.nodes)] :
          \A n \in Range(p.nodes) : \A r \in Required(n) : rank[r] < rank[n.id]
  BY DEF HasOrder
<1> DEFINE T == {rank[id] : id \in S}
<1>2. T \in SUBSET Nat /\ T # {}
  OBVIOUS
<1>3. PICK t \in T : \A u \in T : t <= u
  <2> HIDE DEF T
  <2> QED
    BY <1>2, LeastNat
<1>4. PICK id \in S : t = rank[id]
  OBVIOUS
<1>5. PICK r \in Needs(p, id) : r \in S
  OBVIOUS
<1>6. NodeOf(p, id) \in Range(p.nodes) /\ NodeOf(p, id).id = id
  BY NodeIs
<1>7. rank[r] < rank[id]
  BY <1>1, <1>5, <1>6 DEF Needs, Required
<1>8. rank[r] \in T /\ rank[r] \in Nat /\ rank[id] \in Nat
  BY <1>2, <1>5
<1>9. t <= rank[r]
  BY <1>3, <1>8
<1> QED
  BY <1>4, <1>7, <1>8, <1>9, SMTT(30)

LEMMA DagIds == Dag!Ids = IdsOf(plan)
BY DEF Dag!Ids, IdsOf, Range

\* The plan is well formed as a DAG when Validate passes it, its last check, the
\* layering, included.
LEMMA DagWellFormed ==
    ASSUME plan \in Plans
    PROVE  Dag!WellFormed <=> PlanChecked(plan) /\ HasOrder(plan)
<1> DEFINE q == plan.nodes
           d == [i \in DOMAIN q |-> LET n == q[i] IN
                    [id |-> n.id, requires |-> n.requires,
                     acceptable |-> n.id # EmptyID /\ n.named /\ Checked(n.options)]]
<1>1. Len(q) \in Nat /\ DOMAIN q = 1..Len(q) /\ (q = <<>> <=> Len(q) = 0)
  BY PlanShape
<1>2. /\ DOMAIN d = DOMAIN q
      /\ \A i \in DOMAIN q : /\ d[i].id = q[i].id
                             /\ Dag!RequiredBy(d[i]) = Required(q[i])
                             /\ d[i].acceptable <=> q[i].id # EmptyID /\ q[i].named
                                                    /\ Checked(q[i].options)
  BY DEF Dag!RequiredBy, Required, Range
<1>3. d = <<>> <=> q = <<>>
  <2>1. q = <<>> => DOMAIN q = {}
    OBVIOUS
  <2>2. d = <<>> => DOMAIN q = {}
    BY <1>2
  <2>3. DOMAIN q = {} => d = <<>>
    OBVIOUS
  <2>4. DOMAIN q = {} => q = <<>>
    <3> HIDE DEF q
    <3>1. DOMAIN q = {} => 1..Len(q) = {}
      BY <1>1
    <3>2. 1..Len(q) = {} => Len(q) = 0
      BY <1>1
    <3> QED
      BY <1>1, <3>1, <3>2
  <2> QED
    BY <2>1, <2>2, <2>3, <2>4
<1>4. Len(d) = Len(q)
  <2> HIDE DEF q
  <2> QED
    BY <1>1
<1>5. Dag!Acyclic <=> HasOrder(plan)
  <2>1. Dag!Acyclic <=>
            \E rank \in [IdsOf(plan) -> 1..Len(d)] :
                \A i \in DOMAIN d : \A r \in Dag!RequiredBy(d[i]) : rank[r] < rank[d[i].id]
    BY DagIds DEF Dag!Acyclic
  <2>2. HasOrder(plan) <=>
            \E rank \in [IdsOf(plan) -> 1..Len(q)] :
                \A i \in DOMAIN q : \A r \in Required(q[i]) : rank[r] < rank[q[i].id]
    BY DEF HasOrder, Range
  <2> HIDE DEF d, q
  <2> QED
    BY <1>2, <1>4, <2>1, <2>2
<1>6. Dag!WellFormed <=>
          /\ d # <<>>
          /\ Checked(plan.defaults)
          /\ \A i \in DOMAIN d :
              /\ d[i].acceptable
              /\ Dag!RequiredBy(d[i]) \subseteq IdsOf(plan)
              /\ \A j \in DOMAIN d : d[i].id = d[j].id => i = j
          /\ HasOrder(plan)
  BY <1>5, DagIds, ZenonT(40) DEF Dag!WellFormed
<1>7. PlanChecked(plan) <=>
          /\ q # <<>>
          /\ Checked(plan.defaults)
          /\ \A i \in DOMAIN q :
              /\ q[i].id # EmptyID
              /\ \A j \in 1..(i - 1) : q[j].id # q[i].id
              /\ q[i].named
              /\ Checked(q[i].options)
              /\ \A r \in Required(q[i]) : r # q[i].id /\ r \in IdsOf(plan)
  <2>1. \A r : r \in IdsOf(plan) <=> \E m \in Range(plan.nodes) : m.id = r
    BY DEF IdsOf
  <2>2. PlanChecked(plan) <=>
            /\ q # <<>>
            /\ Checked(plan.defaults)
            /\ \A i \in DOMAIN q :
                /\ q[i].id # EmptyID
                /\ \A j \in 1..(i - 1) : q[j].id # q[i].id
                /\ q[i].named
                /\ Checked(q[i].options)
                /\ \A r \in Required(q[i]) :
                        r # q[i].id /\ \E m \in Range(plan.nodes) : m.id = r
    BY Zenon DEF PlanChecked
  <2> QED
    BY <2>1, <2>2, Zenon
<1>8. HasOrder(plan) => \A i \in DOMAIN q : \A r \in Required(q[i]) : r # q[i].id
  <2> SUFFICES ASSUME HasOrder(plan), NEW i \in DOMAIN q, q[i].id \in Required(q[i])
               PROVE  FALSE
    OBVIOUS
  <2>1. PICK rank \in [IdsOf(plan) -> 1..Len(plan.nodes)] :
            \A n \in Range(plan.nodes) : \A r \in Required(n) : rank[r] < rank[n.id]
    BY DEF HasOrder
  <2>2. q[i] \in Range(plan.nodes) /\ q[i].id \in IdsOf(plan)
    BY DEF Range, IdsOf
  <2>3. rank[q[i].id] < rank[q[i].id] /\ rank[q[i].id] \in 1..Len(plan.nodes)
    BY <2>1, <2>2
  <2> QED
    BY <1>1, <2>3
<1>9. (\A i \in DOMAIN q : \A j \in DOMAIN q : q[i].id = q[j].id => i = j)
          <=> (\A i \in DOMAIN q : \A j \in 1..(i - 1) : q[j].id # q[i].id)
  <2> HIDE DEF q
  <2>1. ASSUME \A i \in DOMAIN q : \A j \in DOMAIN q : q[i].id = q[j].id => i = j,
               NEW i \in DOMAIN q, NEW j \in 1..(i - 1)
        PROVE  q[j].id # q[i].id
    <3>1. j \in DOMAIN q /\ i # j
      BY <1>1
    <3> QED
      BY <2>1, <3>1
  <2>2. ASSUME \A i \in DOMAIN q : \A j \in 1..(i - 1) : q[j].id # q[i].id,
               NEW i \in DOMAIN q, NEW j \in DOMAIN q, q[i].id = q[j].id
        PROVE  i = j
    <3>1. i \in Nat /\ j \in Nat /\ i >= 1 /\ j >= 1
      BY <1>1
    <3>2. CASE i < j
      <4>1. i \in 1..(j - 1)
        BY <3>1, <3>2
      <4> QED
        BY <2>2, <4>1
    <3>3. CASE j < i
      <4>1. j \in 1..(i - 1)
        BY <3>1, <3>3
      <4> QED
        BY <2>2, <4>1
    <3> QED
      BY <3>1, <3>2, <3>3
  <2> QED
    BY <2>1, <2>2
<1> HIDE DEF d, q
<1> QED
  BY <1>2, <1>3, <1>6, <1>7, <1>8, <1>9

IssuedIn(cmds) == {cmds[i].id : i \in DOMAIN cmds}

\* Every node of the layers dispatched was started, and nothing else.
LEMMA StartedAre ==
    ASSUME NEW p \in Plans, NEW F, Layering(p, F), NEW m, NEW cmds,
           NEW st, NEW att, NEW res, HistoryInv(p, F, m, cmds, st, att, res)
    PROVE  IssuedIn(cmds) = Before(F, m + 1)
<1>1. /\ m \in 0..Len(F) /\ Len(F) \in Nat /\ cmds \in Seq(Commands)
      /\ CommandsOfLayers(p, F, m, cmds, res)
  BY DEF HistoryInv, HistoryTyped, Layering
<1>2. DOMAIN cmds = 1..Len(cmds) /\ Len(cmds) \in Nat
      /\ Len(cmds) = Cardinality(Before(F, m + 1))
  BY <1>1 DEF CommandsOfLayers
<1>3. ASSUME NEW i \in DOMAIN cmds PROVE cmds[i].id \in Before(F, m + 1)
  BY <1>1, <1>2 DEF CommandsOfLayers
<1>4. ASSUME NEW id \in Before(F, m + 1) PROVE \E i \in DOMAIN cmds : cmds[i].id = id
  <2>1. PICK k \in 1..m : id \in Range(F[k])
    BY <1>1, <1>4, BeforeHolds
  <2>2. k \in 1..Len(F) /\ k \in 1..(Len(F) + 1) /\ m + 1 \in 1..(Len(F) + 1) /\ k < m + 1
        /\ k \in 0..(Len(F) + 1)
    BY <1>1, <2>1
  <2>3. DOMAIN F[k] = 1..Len(F[k]) /\ Len(F[k]) \in Nat
    BY <2>2, LayerShape
  <2>4. PICK i \in 1..Len(F[k]) : F[k][i] = id
    BY <2>1, <2>3 DEF Range
  <2> DEFINE n == Cardinality(Before(F, k))
  <2>5. n \in Nat /\ n + Len(F[k]) <= Len(cmds)
    BY <1>2, <2>2, BeforeShape, CountGrows
  <2>6. cmds[n + i] = CommandFor(p, id, res)
    BY <1>1, <2>1, <2>4 DEF CommandsOfLayers
  <2> HIDE DEF n
  <2>7. n + i \in DOMAIN cmds
    BY <1>2, <2>3, <2>5
  <2> QED
    BY <2>6, <2>7 DEF CommandFor
<1> QED
  BY <1>3, <1>4 DEF IssuedIn

\* What a step leaves as it was, seen as a run of the DAG.
LEMMA DagSame ==
    ASSUME UNCHANGED plan
    PROVE  /\ Dag!WellFormed' = Dag!WellFormed
           /\ UNCHANGED commands =>
                  {commands[i].id : i \in DOMAIN commands}' = {commands[i].id : i \in DOMAIN commands}
           /\ UNCHANGED <<commands, result, verdict>>
                  /\ UNCHANGED {id \in NodeIDs : status[id] = "failed"} => UNCHANGED Dag!vars
BY DEF Dag!vars, Dag!WellFormed, Dag!Ids, Dag!RequiredBy, Dag!Acyclic

LEMMA DagInit == Init => Dag!Init
BY DEF Init, Dag!Init

StartedNow == IssuedIn(commands)
FailedNow == {id \in NodeIDs : status[id] = "failed"}

\* A step that schedules, awaits or forgets is none of the run's.
LEMMA DagStutters ==
    ASSUME UNCHANGED <<plan, commands, result, verdict>>, UNCHANGED FailedNow
    PROVE  UNCHANGED Dag!vars
BY DagSame DEF FailedNow

LEMMA DagRejects ==
    ASSUME IInv, verdict = "open", commands = <<>>, ~(PlanChecked(plan) /\ HasOrder(plan)),
           verdict' = "rejected", UNCHANGED <<plan, commands, status, result>>
    PROVE  Dag!Reject
<1>1. ~Dag!WellFormed
  BY DagWellFormed DEF IInv
<1>2. {commands[i].id : i \in DOMAIN commands} = {}
  OBVIOUS
<1> QED
  BY <1>1, <1>2 DEF Dag!Reject

\* Nothing of a plan runs before it is known to be well formed (workflow.go:47-50).
LEMMA NothingYet ==
    ASSUME NEW p \in Plans, NEW F, Layering(p, F), NEW m, NEW cmds, NEW st, NEW att, NEW res,
           HistoryInv(p, F, m, cmds, st, att, res), ~PlanChecked(p) \/ ~Whole(p, F)
    PROVE  cmds = <<>>
<1>1. m \in 0..Len(F) /\ Len(F) \in Nat /\ cmds \in Seq(Commands)
      /\ Len(cmds) = Cardinality(Before(F, m + 1)) /\ (m > 0 => Whole(p, F))
  BY DEF HistoryInv, HistoryTyped, CommandsOfLayers, Layering
<1>2. m = 0
  <2>1. CASE ~Whole(p, F)
    BY <1>1, <2>1
  <2>2. CASE ~PlanChecked(p)
    <3>1. F = <<>>
      BY <2>2 DEF Layering
    <3> QED
      BY <1>1, <3>1
  <2> QED
    BY <2>1, <2>2
<1>3. Len(cmds) = 0
  <2>1. Before(F, m + 1) = {}
    BY <1>2, BeforeFirst
  <2> QED
    BY <1>1, <2>1, FS_EmptySet
<1> QED
  BY <1>1, <1>3, EmptySeq

LEMMA RejectsInDag == IInv /\ (CheckFails \/ CycleDetected) => Dag!Reject
<1> SUFFICES ASSUME IInv, CheckFails \/ CycleDetected PROVE Dag!Reject
  OBVIOUS
<1>1. PICK F \in Seq(Seq(NodeIDs)), m \in Nat : Now(F, m)
  BY DEF IInv
<1>2. /\ plan \in Plans /\ Layering(plan, F) /\ verdict = "open"
      /\ HistoryInv(plan, F, m, commands, status, attempts, result)
      /\ verdict' = "rejected" /\ UNCHANGED <<plan, commands, status, result>>
  BY <1>1 DEF IInv, Now, Place, CheckFails, CycleDetected, Reject
<1>3. CASE CheckFails
  <2>1. ~PlanChecked(plan)
    BY <1>3, OfThePlan DEF CheckFails
  <2>2. commands = <<>>
    BY <1>2, <2>1, NothingYet
  <2> QED
    BY <1>2, <2>1, <2>2, DagRejects
<1>4. CASE CycleDetected
  <2>1. /\ PlanChecked(plan) /\ Layered(plan, F, indegree, done, layers, remaining)
        /\ remaining > 0 /\ Runnable = {}
    BY <1>1, <1>4 DEF CycleDetected, Now, Place
  <2>2. Ready(plan, done) = {}
    BY <1>2, <2>1, RunnableIsReady DEF Runnable
  <2> DEFINE S == IdsOf(plan) \ done
  <2>3. ~Whole(plan, F) /\ S # {} /\ \A id \in S : \E r \in Needs(plan, id) : r \in S
    BY <1>2, <2>1, <2>2, LoopStuck
  <2>4. S \in SUBSET IdsOf(plan)
    OBVIOUS
  <2> HIDE DEF S
  <2>5. ~HasOrder(plan)
    BY <1>2, <2>1, <2>3, <2>4, StuckHasNone
  <2>6. commands = <<>>
    BY <1>2, <2>3, NothingYet
  <2> QED
    BY <1>2, <2>5, <2>6, DagRejects
<1> QED
  BY <1>3, <1>4

\* The plan of a worker that has the layers is well formed.
LEMMA FoundWellFormed ==
    ASSUME IInv, pc \in {"dispatch", "await"}
    PROVE  /\ plan \in Plans /\ PlanChecked(plan) /\ HasOrder(plan) /\ Dag!WellFormed
           /\ verdict = "open"
<1>1. plan \in Plans /\ PlanChecked(plan) /\ Layering(plan, layers) /\ Whole(plan, layers)
      /\ verdict = "open"
  <2>1. verdict = "open"
    BY DEF IInv, Now, Place
  <2> QED
    BY <2>1, LayersFound
<1>2. HasOrder(plan)
  BY <1>1, WholeHasOrder
<1> QED
  BY <1>1, <1>2, DagWellFormed

LEMMA DagStarts ==
    ASSUME plan \in Plans, PlanChecked(plan), Dag!WellFormed, verdict = "open",
           NEW S, S \subseteq IdsOf(plan) \ StartedNow,
           \A id \in S : \A r \in Needs(plan, id) : result[r] # NoOutput,
           StartedNow' = StartedNow \cup S,
           UNCHANGED <<plan, result, verdict, FailedNow>>
    PROVE  Dag!Start(S)
<1> DEFINE d == [i \in DOMAIN plan.nodes |-> LET n == plan.nodes[i] IN
                   [id |-> n.id, requires |-> n.requires,
                    acceptable |-> n.id # EmptyID /\ n.named /\ Checked(n.options)]]
<1>1. ASSUME NEW i \in DOMAIN d, d[i].id \in S
      PROVE  \A r \in Dag!RequiredBy(d[i]) : result[r] # NoOutput
  <2>1. plan.nodes[i] \in Range(plan.nodes) /\ d[i].id = plan.nodes[i].id
        /\ Dag!RequiredBy(d[i]) = Required(plan.nodes[i])
    BY <1>1 DEF Range, Dag!RequiredBy, Required
  <2>2. NodeOf(plan, plan.nodes[i].id) = plan.nodes[i]
    BY <2>1, CheckedPlan
  <2> HIDE DEF d
  <2>3. Dag!RequiredBy(d[i]) = Needs(plan, d[i].id)
    BY <2>1, <2>2 DEF Needs, Required
  <2> QED
    BY <1>1, <2>3
<1>2. UNCHANGED d
  OBVIOUS
<1>3. S \subseteq Dag!Ids \ StartedNow
  BY DagIds
<1> QED
  BY <1>1, <1>2, <1>3 DEF Dag!Start, StartedNow, IssuedIn, FailedNow

\* A layer starts when all it requires, the layers before, has its outputs
\* (workflow.go:60-78); a replayed one was started before.
LEMMA DispatchesInDag ==
    IInv /\ DispatchLayer => UNCHANGED Dag!vars \/ \E S \in SUBSET NodeIDs : Dag!Start(S)
<1> SUFFICES ASSUME IInv, DispatchLayer
             PROVE  UNCHANGED Dag!vars \/ \E S \in SUBSET NodeIDs : Dag!Start(S)
  OBVIOUS
<1>1. PICK F \in Seq(Seq(NodeIDs)), m \in Nat : Now(F, m)
  BY DEF IInv
<1>2. plan \in Plans /\ MemoryTyped
  BY DEF IInv
<1>3. UNCHANGED <<plan, attempts, result, verdict>>
  BY DEF DispatchLayer
<1>4. /\ pc = "dispatch" /\ Layering(plan, F)
      /\ HistoryInv(plan, F, m, commands, status, attempts, result)
      /\ PlanChecked(plan) /\ Whole(plan, F) /\ layers = F
      /\ AtDispatch(F, m, layer, outputs, issued, status, result)
      /\ layer <= Len(F)
  BY <1>1 DEF DispatchLayer, Now, Place
<1>5. /\ outputs \in [NodeIDs -> Outcome] /\ Len(F) \in Nat /\ m \in 0..Len(F)
      /\ layer \in 1..(m + 1) /\ Fetched(Before(F, layer), outputs, status, result)
      /\ status \in [NodeIDs -> {"none", "scheduled", "running", "completed", "failed"}]
      /\ ActivitiesInv(plan, F, m, status, attempts, result)
  BY <1>2, <1>4 DEF MemoryTyped, HistoryInv, HistoryTyped, Layering, AtDispatch
<1>6. layer \in 1..Len(F)
  BY <1>4, <1>5
<1>7. CASE commands' = commands /\ status' = status
  <2>1. UNCHANGED FailedNow
    BY <1>7 DEF FailedNow
  <2> QED
    BY <1>3, <1>7, <2>1, DagStutters
<1>8. CASE /\ issued = Len(commands)
           /\ commands' = commands \o NewCommands(plan, F[layer], outputs)
           /\ status' = [id \in NodeIDs |->
                            IF id \in Range(F[layer]) THEN "scheduled" ELSE status[id]]
  <2> DEFINE S == Range(F[layer])
             c == commands \o NewCommands(plan, F[layer], outputs)
  <2>1. layer = m + 1 /\ HistoryInv(plan, F, m + 1, c, status', attempts, result)
    <3>1. AtTheEnd(plan, F, m, commands, status, attempts, result, layer, outputs, issued)
      BY <1>2, <1>4, <1>5, <1>8 DEF AtTheEnd
    <3>2. status' = Scheduling(status, Range(F[layer]))
      BY <1>8 DEF Scheduling
    <3> QED
      BY <3>1, <3>2, DispatchesNext
  <2>2. /\ S \in SUBSET IdsOf(plan) /\ S \in SUBSET NodeIDs /\ S \cap Before(F, layer) = {}
        /\ \A id \in S : Needs(plan, id) \subseteq Before(F, layer)
    BY <1>2, <1>4, <1>6, LayerShape, NeedsEarlier, IdsShape
  <2>3. Before(F, layer) \in SUBSET NodeIDs
    <3>1. layer \in 0..(Len(F) + 1)
      BY <1>6
    <3> QED
      BY <1>2, <1>4, <3>1, BeforeShape, IdsShape
  <2>4. Before(F, (m + 1) + 1) = Before(F, layer) \cup S
    BY <1>6, <2>1, BeforeNext
  <2> HIDE DEF S
  <2>5. StartedNow = Before(F, layer) /\ StartedNow' = Before(F, layer) \cup S
    <3>1. StartedNow = Before(F, layer)
      BY <1>2, <1>4, <2>1, StartedAre DEF StartedNow
    <3> HIDE DEF c
    <3>2. IssuedIn(c) = Before(F, (m + 1) + 1)
      BY <1>2, <1>4, <2>1, StartedAre
    <3>3. commands' = c
      BY <1>8 DEF c
    <3> QED
      BY <2>4, <3>1, <3>2, <3>3 DEF StartedNow
  <2>6. \A id \in S : \A r \in Needs(plan, id) : result[r] # NoOutput
    BY <1>5, <2>2, <2>3 DEF Fetched, ActivitiesInv
  <2>7. UNCHANGED FailedNow
    <3>1. \A id \in S : status[id] = "none"
      BY <1>5, <2>1, <2>2 DEF ActivitiesInv
    <3>2. \A id \in NodeIDs : status'[id] = IF id \in S THEN "scheduled" ELSE status[id]
      BY <1>8 DEF S
    <3> QED
      BY <3>1, <3>2 DEF FailedNow
  <2>8. Dag!WellFormed /\ verdict = "open"
    BY <1>4, FoundWellFormed
  <2>9. S \subseteq IdsOf(plan) \ StartedNow
    BY <2>2, <2>5
  <2>10. PICK T \in SUBSET NodeIDs : T = S
    BY <2>2
  <2>11. /\ T \subseteq IdsOf(plan) \ StartedNow
         /\ \A id \in T : \A r \in Needs(plan, id) : result[r] # NoOutput
         /\ StartedNow' = StartedNow \cup T
    BY <2>5, <2>6, <2>9, <2>10
  <2>12. Dag!Start(T)
    BY <1>2, <1>3, <1>4, <2>7, <2>8, <2>11, DagStarts
  <2> QED
    BY <2>12
<1>9. \/ commands' = commands /\ status' = status
      \/ /\ issued = Len(commands)
         /\ commands' = commands \o NewCommands(plan, F[layer], outputs)
         /\ status' = [id \in NodeIDs |->
                          IF id \in Range(F[layer]) THEN "scheduled" ELSE status[id]]
  BY <1>4, OfThePlan DEF DispatchLayer
<1> QED
  BY <1>7, <1>8, <1>9

\* What the server records of an activity is of one that was started.
LEMMA RunningWasStarted ==
    ASSUME IInv, NEW id \in NodeIDs, status[id] = "running"
    PROVE  id \in StartedNow \ FailedNow /\ result[id] = NoOutput
<1>1. PICK F \in Seq(Seq(NodeIDs)), m \in Nat : Now(F, m)
  BY DEF IInv
<1>2. /\ plan \in Plans /\ Layering(plan, F)
      /\ HistoryInv(plan, F, m, commands, status, attempts, result)
      /\ ActivitiesInv(plan, F, m, status, attempts, result)
  BY <1>1 DEF IInv, Now, HistoryInv
<1>3. id \in Before(F, m + 1) /\ result[id] = NoOutput
  BY <1>2 DEF ActivitiesInv
<1>4. StartedNow = Before(F, m + 1)
  BY <1>2, StartedAre DEF StartedNow
<1> QED
  BY <1>3, <1>4 DEF FailedNow

LEMMA FinishesInDag ==
    ASSUME IInv, NEW id \in NodeIDs, AttemptSucceeds(id)
    PROVE  Dag!Finish(id)
<1>1. /\ verdict = "open" /\ status[id] = "running"
      /\ status' = [status EXCEPT ![id] = "completed"]
      /\ result' = [result EXCEPT ![id] = attempts[id]]
      /\ UNCHANGED <<plan, commands, verdict>>
  BY DEF AttemptSucceeds
<1>2. /\ status \in [NodeIDs -> {"none", "scheduled", "running", "completed", "failed"}]
      /\ attempts[id] \in Nat /\ result \in [NodeIDs -> Outcome]
  BY OneActivity DEF HistoryTyped
<1>3. id \in StartedNow \ FailedNow /\ result[id] = NoOutput
  BY <1>1, RunningWasStarted
<1>4. UNCHANGED FailedNow
  BY <1>1, <1>2 DEF FailedNow
<1>5. result'[id] \in Nat /\ result' = [result EXCEPT ![id] = result'[id]]
  BY <1>1, <1>2
<1>6. UNCHANGED [i \in DOMAIN plan.nodes |-> LET n == plan.nodes[i] IN
                    [id |-> n.id, requires |-> n.requires,
                     acceptable |-> n.id # EmptyID /\ n.named /\ Checked(n.options)]]
  BY <1>1
<1> QED
  BY <1>1, <1>3, <1>4, <1>5, <1>6 DEF Dag!Finish, StartedNow, IssuedIn, FailedNow

\* An attempt that is tried again is nothing to the run; the last one breaks it.
LEMMA EndsInDag ==
    ASSUME IInv, NEW id \in NodeIDs,
           AttemptTimesOut(id) \/ \E type \in ErrorTypes : AttemptFails(id, type)
    PROVE  UNCHANGED Dag!vars \/ Dag!Break(id)
<1>1. PICK retryable \in BOOLEAN :
          /\ verdict = "open" /\ status[id] = "running"
          /\ status' = [status EXCEPT ![id] = AfterFailure(id, retryable)]
          /\ UNCHANGED <<plan, commands, result, verdict>>
  BY DEF AttemptTimesOut, AttemptFails
<1>2. status \in [NodeIDs -> {"none", "scheduled", "running", "completed", "failed"}]
  BY OneActivity DEF HistoryTyped
<1>3. id \in StartedNow \ FailedNow /\ result[id] = NoOutput
  BY <1>1, RunningWasStarted
<1>4. CASE AfterFailure(id, retryable) = "scheduled"
  <2>1. UNCHANGED FailedNow
    BY <1>1, <1>2, <1>4 DEF FailedNow
  <2> QED
    BY <1>1, <2>1, DagStutters
<1>5. CASE AfterFailure(id, retryable) = "failed"
  <2>1. FailedNow' = FailedNow \cup {id}
    BY <1>1, <1>2, <1>5 DEF FailedNow
  <2>2. UNCHANGED [i \in DOMAIN plan.nodes |-> LET n == plan.nodes[i] IN
                      [id |-> n.id, requires |-> n.requires,
                       acceptable |-> n.id # EmptyID /\ n.named /\ Checked(n.options)]]
    BY <1>1
  <2> QED
    BY <1>1, <1>3, <2>1, <2>2 DEF Dag!Break, StartedNow, IssuedIn, FailedNow
<1>6. AfterFailure(id, retryable) \in {"scheduled", "failed"}
  BY DEF AfterFailure
<1> QED
  BY <1>4, <1>5, <1>6

\* The result is returned when every node has its output, an error because a
\* node failed (workflow.go:79-97).
LEMMA ClosesInDag == IInv /\ (AwaitError \/ Return) => Dag!Complete \/ Dag!Fail
<1> SUFFICES ASSUME IInv, AwaitError \/ Return PROVE Dag!Complete \/ Dag!Fail
  OBVIOUS
<1>1. /\ pc \in {"dispatch", "await"}
      /\ UNCHANGED <<plan, commands, status, result>>
  BY DEF AwaitError, Return
<1>2. UNCHANGED [i \in DOMAIN plan.nodes |-> LET n == plan.nodes[i] IN
                    [id |-> n.id, requires |-> n.requires,
                     acceptable |-> n.id # EmptyID /\ n.named /\ Checked(n.options)]]
  BY <1>1
<1>3. Dag!WellFormed /\ verdict = "open" /\ plan \in Plans
  BY <1>1, FoundWellFormed
<1>4. CASE Return
  <2>1. \A id \in IdsOf(plan) : result[id] # NoOutput
    BY <1>4, CompletedHas DEF Return
  <2> QED
    BY <1>1, <1>2, <1>3, <1>4, <2>1, DagIds DEF Dag!Complete, Return
<1>5. CASE AwaitError
  <2>1. PICK F \in Seq(Seq(NodeIDs)), m \in Nat : Now(F, m)
    BY DEF IInv
  <2>2. /\ Layering(plan, F) /\ HistoryInv(plan, F, m, commands, status, attempts, result)
        /\ layers = F /\ AtAwait(F, m, layer, future, outputs, issued, status, result)
    BY <1>5, <2>1 DEF AwaitError, Now, Place
  <2>3. layer \in 1..Len(F) /\ future \in 1..Len(F[layer])
    BY <2>2 DEF AtAwait, HistoryInv, Layering
  <2>4. Awaited \in NodeIDs
    BY <1>3, <2>2, <2>3, LayerShape, IdsShape DEF Awaited
  <2>5. Awaited \in FailedNow
    BY <1>5, <2>4 DEF AwaitError, FailedNow
  <2> QED
    BY <1>1, <1>2, <1>3, <1>5, <2>5 DEF Dag!Fail, AwaitError, FailedNow
<1> QED
  BY <1>4, <1>5

LEMMA StepsInDag == IInv /\ [Next]_vars => [Dag!Next]_(Dag!vars)
<1> SUFFICES ASSUME IInv, [Next]_vars PROVE Dag!Next \/ UNCHANGED Dag!vars
  OBVIOUS
<1>1. CASE Check \/ NextLayer \/ LayersReturn \/ AwaitOutput \/ Crash \/ UNCHANGED vars
  <2>1. UNCHANGED <<plan, commands, status, result, verdict>>
    BY <1>1 DEF Check, NextLayer, LayersReturn, AwaitOutput, Crash, vars, history
  <2>2. UNCHANGED FailedNow
    BY <2>1 DEF FailedNow
  <2> QED
    BY <2>1, <2>2, DagStutters
<1>2. CASE CheckFails \/ CycleDetected
  BY <1>2, RejectsInDag DEF Dag!Next
<1>3. CASE DispatchLayer
  BY <1>3, DispatchesInDag DEF Dag!Next
<1>4. CASE AwaitError \/ Return
  BY <1>4, ClosesInDag DEF Dag!Next
<1>5. CASE \E id \in NodeIDs : StartAttempt(id) \/ ActivityEnds(id)
  <2>1. PICK id \in NodeIDs : StartAttempt(id) \/ ActivityEnds(id)
    BY <1>5
  <2>2. CASE StartAttempt(id)
    <3>1. status \in [NodeIDs -> {"none", "scheduled", "running", "completed", "failed"}]
      BY OneActivity DEF HistoryTyped
    <3>2. /\ UNCHANGED <<plan, commands, result, verdict>>
          /\ status[id] = "scheduled" /\ status' = [status EXCEPT ![id] = "running"]
      BY <2>2 DEF StartAttempt
    <3>3. UNCHANGED FailedNow
      BY <3>1, <3>2 DEF FailedNow
    <3> QED
      BY <3>2, <3>3, DagStutters
  <2>3. CASE ActivityEnds(id)
    <3>1. Dag!Finish(id) \/ Dag!Break(id) \/ UNCHANGED Dag!vars
      BY <2>3, FinishesInDag, EndsInDag DEF ActivityEnds
    <3> QED
      BY <3>1 DEF Dag!Next
  <2> QED
    BY <2>1, <2>2, <2>3
<1> QED
  BY <1>1, <1>2, <1>3, <1>4, <1>5 DEF Next, WorkflowStep

\* Layers, crashes, replays and retries run the plan as the DAG it is: exactly
\* the ill-formed plans are rejected, no node starts twice or before what it
\* requires, and only a failed node fails the run (workflow.go:34-100).
THEOREM RunsAsDagHolds == Spec => RunsAsDag
<1>1. Init => Dag!Init
  BY DagInit
<1>2. IInv /\ [Next]_vars => [Dag!Next]_(Dag!vars)
  BY StepsInDag
<1> QED
  BY <1>1, <1>2, Inductive, PTL DEF Spec, RunsAsDag, Dag!Spec
=============================================================================
