-------------------------- MODULE HumanVerdictProofs --------------------------
(***************************************************************************)
(* For every registry, route, number of channels, messages and reactions:  *)
(* the invariants of HumanVerdict.                                         *)
(*                                                                         *)
(* The parts of the invariant are predicates of values: ms is the messages *)
(* posted, rs the receipts the caller holds, g what humans have given, rg  *)
(* the registry, w a waiter or all of them, o the buffered channel of the  *)
(* race and a the caller.  A step that leaves these values alone leaves    *)
(* the part alone.                                                         *)
(***************************************************************************)
EXTENDS HumanVerdict, FiniteSetTheorems, SequenceTheorems, TLAPS

-----------------------------------------------------------------------------
(* The values *)

Choice == Offered \cup Ignored

Message == [channel : Channels, reactions : Seq(Choice)]

Verdict == [choice : Choice, message : Nat] \cup {NoVerdict}

Ends == {"none", "verdict", "timeout", "cancelled", "no_receipts", "unknown_channel",
         "not_supported", "all_failed", "lost"}

Outcomes == {"none", "inner_error", "not_required", "passed", "zeroed", "snoozed",
             "post_failed", "await_failed", "returned"}

Asking ==
    [pc : Busy \cup {"start", "orphaned", "done"}, attempt : 1..MaxPostAttempts, next : Nat,
     receipts : Seq(Nat), launched : SUBSET Channels, taken : Nat, timeouts : Nat,
     ended : Ends, verdict : Verdict, outcome : Outcomes]

Waiter ==
    [pc : {"off", "polling", "asleep", "sending", "ended"}, next : Nat, due : BOOLEAN,
     verdict : Verdict, err : {"none", "timeout", "cancelled"}, standing : SUBSET Nat]

\* The channels of the receipts, those of them that can wait, and the places of a
\* channel's receipts from place n on.
GroupsOf(ms, rs) == {ms[m].channel : m \in Range(rs)}
AbleOf(ms, rs, rg) ==
    {ch \in GroupsOf(ms, rs) : ch \in DOMAIN rg /\ "await" \in rg[ch]}
PlacesFrom(ms, rs, ch, n) == {i \in DOMAIN rs : ms[rs[i]].channel = ch /\ i >= n}

MessagesAt(rs, S) == {rs[i] : i \in S}

\* The messages with a reaction that counts.
Answered(ms) == {m \in DOMAIN ms : \E i \in DOMAIN ms[m].reactions : ms[m].reactions[i] \in Offered}

-----------------------------------------------------------------------------
(* The inductive invariant *)

Typed ==
    /\ mode \in {"behaviour", "workflow"} /\ route \in Seq(Channels)
    /\ messages \in Seq(Message)
    /\ ask \in Asking /\ ask.next \in 1..(Len(route) + 1)
    /\ waiter \in [Channels -> Waiter] /\ out \in Seq(Channels)

\* What stands on a message was given, and a receipt is of a message posted.
Recorded(ms, rs, g) ==
    /\ g \subseteq (DOMAIN ms) \X Choice
    /\ \A m \in DOMAIN ms : \A i \in DOMAIN ms[m].reactions : <<m, ms[m].reactions[i]>> \in g
    /\ Range(rs) \subseteq DOMAIN ms

\* A verdict is a choice offered, given on a message of a receipt.
Genuine(v, rs, g) ==
    v # NoVerdict => /\ v.choice \in Offered
                     /\ <<v.message, v.choice>> \in g
                     /\ v.message \in Range(rs)

\* The waiter of channel ch: it can wait, answers with what was given, and in a
\* round of polling what stands is yet to be read.
Waits(ch, w, ms, rs, rg, g) ==
    /\ Genuine(w.verdict, rs, g)
    /\ w.pc = "off" => w.verdict = NoVerdict
    /\ w.pc # "off" => ch \in AbleOf(ms, rs, rg)
    /\ w.pc = "polling" =>
          w.standing \subseteq MessagesAt(rs, PlacesFrom(ms, rs, ch, w.next)) \cap Answered(ms)
    /\ w.err = "timeout" => w.standing = {}
    /\ w.err # "none" => w.pc \in {"sending", "ended"}

\* Whatever is in the buffer was put there by a waiter that has ended, once.
Buffered(o, w) ==
    /\ \A i, j \in DOMAIN o : o[i] = o[j] => i = j
    /\ \A i \in DOMAIN o : w[o[i]].pc = "ended"

Idle(o, w, a) ==
    /\ o = <<>> /\ \A ch \in Channels : w[ch].pc = "off"
    /\ a.launched = {} /\ a.taken = 0 /\ a.timeouts = 0

Undecided(a) == a.ended = "none" /\ a.verdict = NoVerdict

\* Where the caller stands.
Phase(a, o, w, ms, rg) ==
    /\ a.pc \in {"start", "post", "posted", "await"} => Idle(o, w, a) /\ Undecided(a)
    /\ a.pc = "single" => /\ Undecided(a)
                          /\ \A ch \in Channels : w[ch].pc # "off" => GroupsOf(ms, a.receipts) = {ch}
    /\ a.pc \in {"race", "orphaned"} => Undecided(a)
    /\ a.pc = "judge" => a.ended \in {"none", "verdict", "timeout"}
    /\ a.pc # "done" => a.outcome = "none"
    /\ a.outcome = "zeroed" => a.verdict.choice = "reject"
    /\ a.outcome \in {"passed", "zeroed", "snoozed"} => a.ended \in {"none", "verdict", "timeout"}
    /\ a.launched \subseteq GroupsOf(ms, a.receipts)
    /\ a.timeouts <= a.taken /\ a.taken <= Cardinality(AbleOf(ms, a.receipts, rg))
    /\ a.ended = "timeout" => \A ch \in AbleOf(ms, a.receipts, rg) : w[ch].err = "timeout"
    /\ a.ended = "all_failed" => \E ch \in AbleOf(ms, a.receipts, rg) : w[ch].err = "cancelled"

\* The waiters whose answers the race has taken.
TakenOf(o, w) == {ch \in Channels : w[ch].pc = "ended" /\ ch \notin Range(o)}
TimedOutOf(o, w) == {ch \in TakenOf(o, w) : w[ch].err = "timeout"}

Counted(a, o, w) ==
    a.pc = "race" =>
        /\ \A ch \in Channels : w[ch].pc # "off" => ch \in a.launched
        /\ a.taken = Cardinality(TakenOf(o, w))
        /\ a.timeouts = Cardinality(TimedOutOf(o, w))
        /\ \A ch \in TakenOf(o, w) : w[ch].err # "none"

IInv ==
    /\ Typed
    /\ Recorded(messages, ask.receipts, given)
    /\ \A ch \in Channels : Waits(ch, waiter[ch], messages, ask.receipts, registry, given)
    /\ Genuine(ask.verdict, ask.receipts, given)
    /\ Buffered(out, waiter)
    /\ Phase(ask, out, waiter, messages, registry)
    /\ Counted(ask, out, waiter)

-----------------------------------------------------------------------------
(* Sequences and the operators of the model *)

LEMMA RangeIs ==
    ASSUME NEW s, NEW x
    PROVE  x \in Range(s) <=> \E i \in DOMAIN s : s[i] = x
BY DEF Range

LEMMA AppendIs ==
    ASSUME NEW S, NEW s \in Seq(S), NEW x \in S
    PROVE  /\ Append(s, x) \in Seq(S)
           /\ Len(s) \in Nat /\ DOMAIN s = 1..Len(s)
           /\ DOMAIN Append(s, x) = 1..(Len(s) + 1)
           /\ \A i \in DOMAIN s : Append(s, x)[i] = s[i]
           /\ Append(s, x)[Len(s) + 1] = x
OBVIOUS

LEMMA RangeOfAppend ==
    ASSUME NEW S, NEW s \in Seq(S), NEW x \in S
    PROVE  Range(Append(s, x)) = Range(s) \cup {x}
<1>1. ASSUME NEW y \in Range(Append(s, x)) PROVE y \in Range(s) \cup {x}
  <2>1. PICK i \in DOMAIN Append(s, x) : Append(s, x)[i] = y
    BY <1>1, RangeIs
  <2>2. i \in DOMAIN s \/ i = Len(s) + 1
    BY AppendIs
  <2>. QED BY <2>1, <2>2, AppendIs, RangeIs
<1>2. ASSUME NEW y \in Range(s) PROVE y \in Range(Append(s, x))
  <2>1. PICK i \in DOMAIN s : s[i] = y
    BY <1>2, RangeIs
  <2>2. i \in DOMAIN Append(s, x) /\ Append(s, x)[i] = y
    BY <2>1, AppendIs
  <2>. QED BY <2>2, RangeIs
<1>3. x \in Range(Append(s, x))
  <2>1. Len(s) + 1 \in DOMAIN Append(s, x) /\ Append(s, x)[Len(s) + 1] = x
    BY AppendIs
  <2>. QED BY <2>1, RangeIs
<1>. QED BY <1>1, <1>2, <1>3

LEMMA TailIs ==
    ASSUME NEW S, NEW s \in Seq(S), s # <<>>
    PROVE  /\ Len(s) \in Nat \ {0} /\ DOMAIN s = 1..Len(s)
           /\ Head(s) = s[1] /\ Head(s) \in S
           /\ Tail(s) \in Seq(S) /\ DOMAIN Tail(s) = 1..(Len(s) - 1)
           /\ \A i \in 1..(Len(s) - 1) : Tail(s)[i] = s[i + 1]
OBVIOUS

\* A sequence without its element at place i.
Without(s, i) == SubSeq(s, 1, i - 1) \o SubSeq(s, i + 1, Len(s))

LEMMA WithoutIs ==
    ASSUME NEW S, NEW s \in Seq(S), NEW i \in DOMAIN s
    PROVE  /\ Without(s, i) \in Seq(S)
           /\ \A j \in DOMAIN Without(s, i) : \E k \in DOMAIN s : Without(s, i)[j] = s[k]
<1> DEFINE a == SubSeq(s, 1, i - 1)
           b == SubSeq(s, i + 1, Len(s))
<1>1. /\ Len(s) \in Nat /\ DOMAIN s = 1..Len(s) /\ i \in 1..Len(s)
      /\ \A j \in 1..Len(s) : s[j] \in S
  OBVIOUS
<1>2. /\ 1 \in Int /\ i - 1 \in Int /\ i + 1 \in Int /\ Len(s) \in Int
      /\ \A j \in 1..(i - 1) : s[j] \in S
      /\ \A j \in (i + 1)..Len(s) : s[j] \in S
  BY <1>1
<1>3. a \in Seq(S) /\ Len(a) = i - 1 /\ \A j \in 1..(i - 1) : a[j] = s[j]
  <2>1. /\ a \in Seq(S) /\ Len(a) = IF 1 <= i - 1 THEN i - 1 - 1 + 1 ELSE 0
        /\ \A j \in 1..(i - 1 - 1 + 1) : a[j] = s[1 + j - 1]
    BY <1>2, SubSeqProperties
  <2> HIDE DEF a
  <2>. QED BY <1>1, <2>1
<1>4. b \in Seq(S) /\ Len(b) = Len(s) - i /\ \A j \in 1..(Len(s) - i) : b[j] = s[i + j]
  <2>1. /\ b \in Seq(S)
        /\ Len(b) = IF i + 1 <= Len(s) THEN Len(s) - (i + 1) + 1 ELSE 0
        /\ \A j \in 1..(Len(s) - (i + 1) + 1) : b[j] = s[i + 1 + j - 1]
    BY <1>2, SubSeqProperties
  <2> HIDE DEF b
  <2>2. Len(b) = Len(s) - i
    BY <1>1, <2>1
  <2>3. ASSUME NEW j \in 1..(Len(s) - i) PROVE b[j] = s[i + j]
    <3>1. j \in 1..(Len(s) - (i + 1) + 1) /\ i + 1 + j - 1 = i + j
      BY <1>1
    <3>2. b[j] = s[i + 1 + j - 1]
      BY <2>1, <3>1
    <3>. QED BY <3>1, <3>2
  <2>. QED BY <2>1, <2>2, <2>3
<1> HIDE DEF a, b
<1>5. Without(s, i) = a \o b
  BY DEF Without, a, b
<1>6. /\ a \o b \in Seq(S) /\ Len(a \o b) = Len(a) + Len(b)
      /\ \A j \in 1..(Len(a) + Len(b)) :
            (a \o b)[j] = IF j <= Len(a) THEN a[j] ELSE b[j - Len(a)]
  BY <1>3, <1>4, ConcatProperties
<1> DEFINE c == a \o b
<1> HIDE DEF c
<1>7. /\ c \in Seq(S) /\ DOMAIN c = 1..(Len(s) - 1)
      /\ \A j \in 1..(Len(s) - 1) : c[j] = IF j <= i - 1 THEN s[j] ELSE s[i + (j - (i - 1))]
  <2>1. c \in Seq(S) /\ Len(c) = Len(a) + Len(b)
    BY <1>6 DEF c
  <2>2. DOMAIN c = 1..(Len(s) - 1)
    BY <2>1, <1>1, <1>3, <1>4
  <2>3. ASSUME NEW j \in 1..(Len(s) - 1)
        PROVE  c[j] = IF j <= i - 1 THEN s[j] ELSE s[i + (j - (i - 1))]
    <3>1. c[j] = IF j <= i - 1 THEN a[j] ELSE b[j - (i - 1)]
      <4>1. j \in 1..(Len(a) + Len(b))
        BY <1>1, <1>3, <1>4
      <4>2. (a \o b)[j] = IF j <= Len(a) THEN a[j] ELSE b[j - Len(a)]
        BY <4>1, <1>6
      <4>. QED BY <4>2, <1>3 DEF c
    <3>2. j > i - 1 => j - (i - 1) \in 1..(Len(s) - i)
      BY <1>1
    <3>3. j <= i - 1 => j \in 1..(i - 1)
      BY <1>1
    <3>. QED BY <3>1, <3>2, <3>3, <1>1, <1>3, <1>4
  <2>. QED BY <2>1, <2>2, <2>3
<1>8. ASSUME NEW j \in 1..(Len(s) - 1) PROVE \E k \in DOMAIN s : c[j] = s[k]
  <2>1. j <= i - 1 => j \in DOMAIN s
    BY <1>1
  <2>2. j > i - 1 => i + (j - (i - 1)) \in DOMAIN s
    BY <1>1
  <2>. QED BY <2>1, <2>2, <1>1, <1>7
<1>. QED BY <1>5, <1>7, <1>8 DEF c

LEMMA OperatorsAre ==
    /\ Groups = GroupsOf(messages, ask.receipts)
    /\ Able = AbleOf(messages, ask.receipts, registry)
    /\ \A ch \in Channels :
          Left(ch) = PlacesFrom(messages, ask.receipts, ch, waiter[ch].next)
<1>1. Groups = GroupsOf(messages, ask.receipts)
  BY DEF Groups, GroupsOf
<1>2. Able = AbleOf(messages, ask.receipts, registry)
  BY <1>1 DEF Able, AbleOf, Has
<1>3. ASSUME NEW ch \in Channels
      PROVE  Left(ch) = PlacesFrom(messages, ask.receipts, ch, waiter[ch].next)
  BY DEF Left, Group, PlacesFrom
<1>. QED BY <1>1, <1>2, <1>3

LEMMA ValidIs ==
    ASSUME NEW m \in DOMAIN messages
    PROVE  /\ Valid(m) # {} <=> m \in Answered(messages)
           /\ Candidates(m) = Valid(m)
BY DEF Valid, Answered, Candidates

\* There are finitely many channels to wait for.
LEMMA GroupsFinite ==
    ASSUME NEW ms, NEW rs \in Seq(Nat), NEW rg
    PROVE  /\ IsFiniteSet(AbleOf(ms, rs, rg))
           /\ Cardinality(AbleOf(ms, rs, rg)) \in Nat
<1> DEFINE f == [i \in 1..Len(rs) |-> ms[rs[i]].channel]
<1>1. Len(rs) \in Nat /\ DOMAIN rs = 1..Len(rs)
  OBVIOUS
<1>2. GroupsOf(ms, rs) = {f[i] : i \in 1..Len(rs)}
  BY <1>1 DEF GroupsOf, Range
<1>3. f \in Surjection(1..Len(rs), GroupsOf(ms, rs))
  BY <1>2 DEF Surjection
<1>4. IsFiniteSet(1..Len(rs))
  <2>1. 1 \in Int /\ Len(rs) \in Int
    BY <1>1
  <2>. QED BY <2>1, FS_Interval
<1>5. IsFiniteSet(GroupsOf(ms, rs))
  BY <1>3, <1>4, FS_Surjection
<1>6. AbleOf(ms, rs, rg) \in SUBSET GroupsOf(ms, rs)
  BY DEF AbleOf
<1>. QED BY <1>5, <1>6, FS_Subset, FS_CardinalityType

-----------------------------------------------------------------------------
(* What the parts of the invariant need not be shown again for *)

\* Messages are only added, and stay in their channels.
Keeps(ms, ms2) ==
    DOMAIN ms \subseteq DOMAIN ms2 /\ \A m \in DOMAIN ms : ms2[m].channel = ms[m].channel

LEMMA GroupsKept ==
    ASSUME NEW ms, NEW ms2, NEW rs, NEW rg, Keeps(ms, ms2), Range(rs) \subseteq DOMAIN ms
    PROVE  /\ GroupsOf(ms2, rs) = GroupsOf(ms, rs)
           /\ AbleOf(ms2, rs, rg) = AbleOf(ms, rs, rg)
           /\ \A ch, n : PlacesFrom(ms2, rs, ch, n) = PlacesFrom(ms, rs, ch, n)
<1>1. \A m \in Range(rs) : ms2[m].channel = ms[m].channel
  BY DEF Keeps
<1>2. GroupsOf(ms2, rs) = GroupsOf(ms, rs)
  BY <1>1 DEF GroupsOf
<1>3. AbleOf(ms2, rs, rg) = AbleOf(ms, rs, rg)
  BY <1>2 DEF AbleOf
<1>4. \A i \in DOMAIN rs : ms2[rs[i]].channel = ms[rs[i]].channel
  BY <1>1 DEF Range
<1>5. ASSUME NEW ch, NEW n PROVE PlacesFrom(ms2, rs, ch, n) = PlacesFrom(ms, rs, ch, n)
  BY <1>4 DEF PlacesFrom
<1>. QED BY <1>2, <1>3, <1>5

\* A waiter that has not started waits, whatever the caller has.
LEMMA OffWaits ==
    ASSUME NEW ch, NEW w, NEW ms, NEW rs, NEW rg, NEW g,
           w.pc = "off", w.verdict = NoVerdict, w.err = "none"
    PROVE  Waits(ch, w, ms, rs, rg, g)
BY DEF Waits, Genuine

LEMMA WaitsOff ==
    ASSUME NEW ch, NEW w, NEW ms, NEW rs, NEW rg, NEW g,
           Waits(ch, w, ms, rs, rg, g), w.pc = "off"
    PROVE  w.verdict = NoVerdict /\ w.err = "none"
BY DEF Waits

\* A waiter waits on when more is posted and given.
LEMMA WaitsAsMoreIsGiven ==
    ASSUME NEW ch, NEW w, NEW ms, NEW ms2, NEW rs, NEW rg, NEW g, NEW g2,
           Waits(ch, w, ms, rs, rg, g), Keeps(ms, ms2), Range(rs) \subseteq DOMAIN ms,
           g \subseteq g2, Answered(ms) \subseteq Answered(ms2)
    PROVE  Waits(ch, w, ms2, rs, rg, g2)
<1>1. Genuine(w.verdict, rs, g2)
  BY DEF Waits, Genuine
<1>2. /\ AbleOf(ms2, rs, rg) = AbleOf(ms, rs, rg)
      /\ PlacesFrom(ms2, rs, ch, w.next) = PlacesFrom(ms, rs, ch, w.next)
  BY GroupsKept, SMTT(30)
<1>3. /\ w.pc = "off" => w.verdict = NoVerdict
      /\ w.pc # "off" => ch \in AbleOf(ms2, rs, rg)
      /\ w.err = "timeout" => w.standing = {}
      /\ w.err # "none" => w.pc \in {"sending", "ended"}
  BY <1>2 DEF Waits
<1>4. w.pc = "polling" =>
        w.standing \subseteq MessagesAt(rs, PlacesFrom(ms2, rs, ch, w.next)) \cap Answered(ms2)
  BY <1>2 DEF Waits
<1>. QED BY <1>1, <1>3, <1>4 DEF Waits

\* Nor do reactions, posts and retractions move the caller.
LEMMA PhaseKept ==
    ASSUME NEW a, NEW o, NEW w, NEW w2, NEW ms, NEW ms2, NEW rg,
           Phase(a, o, w, ms, rg), Keeps(ms, ms2), Range(a.receipts) \subseteq DOMAIN ms,
           \A ch \in Channels : w2[ch].pc = w[ch].pc /\ w2[ch].err = w[ch].err,
           AbleOf(ms, a.receipts, rg) \subseteq Channels
    PROVE  Phase(a, o, w2, ms2, rg)
<1>1. /\ GroupsOf(ms2, a.receipts) = GroupsOf(ms, a.receipts)
      /\ AbleOf(ms2, a.receipts, rg) = AbleOf(ms, a.receipts, rg)
  BY GroupsKept
<1>2. Idle(o, w, a) => Idle(o, w2, a)
  BY DEF Idle
<1>3. /\ a.ended = "timeout" => \A ch \in AbleOf(ms, a.receipts, rg) : w2[ch].err = "timeout"
      /\ a.ended = "all_failed" => \E ch \in AbleOf(ms, a.receipts, rg) : w2[ch].err = "cancelled"
  BY DEF Phase
<1>4. a.pc = "single" =>
        \A ch \in Channels : w2[ch].pc # "off" => GroupsOf(ms, a.receipts) = {ch}
  BY DEF Phase
<1>. QED BY <1>1, <1>2, <1>3, <1>4 DEF Phase

LEMMA CountedKept ==
    ASSUME NEW a, NEW o, NEW w, NEW w2, Counted(a, o, w),
           \A ch \in Channels : /\ w2[ch].pc = "ended" <=> w[ch].pc = "ended"
                                /\ w2[ch].pc = "off" <=> w[ch].pc = "off"
                                /\ w[ch].pc = "ended" => w2[ch].err = w[ch].err
    PROVE  Counted(a, o, w2)
<1>1. TakenOf(o, w2) = TakenOf(o, w)
  BY DEF TakenOf
<1>2. \A ch \in TakenOf(o, w) : w2[ch].err = w[ch].err
  BY DEF TakenOf
<1>3. TimedOutOf(o, w2) = TimedOutOf(o, w)
  BY <1>1, <1>2 DEF TimedOutOf
<1>. QED BY <1>1, <1>2, <1>3 DEF Counted

\* The channels the caller waits for are channels.
LEMMA GroupsAreChannels ==
    ASSUME NEW ms \in Seq(Message), NEW rs, NEW rg, Range(rs) \subseteq DOMAIN ms
    PROVE  GroupsOf(ms, rs) \subseteq Channels /\ AbleOf(ms, rs, rg) \subseteq Channels
<1>1. ASSUME NEW m \in Range(rs) PROVE ms[m].channel \in Channels
  <2>1. m \in DOMAIN ms
    OBVIOUS
  <2>2. ms[m] \in Message
    BY <2>1
  <2>. QED BY <2>2 DEF Message
<1>. QED BY <1>1 DEF GroupsOf, AbleOf

\* Only one who is neither counted nor ended stands before his answer.
LEMMA ReturnedIs ==
    ASSUME NEW end \in Ends, NEW v \in Verdict, ask \in Asking
    PROVE  LET a == Returned(end, v) IN
           /\ a \in Asking
           /\ a.receipts = ask.receipts /\ a.next = ask.next /\ a.launched = ask.launched
           /\ a.taken = ask.taken /\ a.timeouts = ask.timeouts
           /\ a.ended = end /\ a.verdict = v
           /\ a.pc \in {"judge", "done"} /\ a.outcome \in {"none", "await_failed", "returned"}
           /\ a.pc = "judge" => end \in {"verdict", "timeout"} /\ a.outcome = "none"
BY DEF Returned, Asking, Outcomes, Busy

LEMMA ReturnedStands ==
    ASSUME NEW end \in Ends, NEW v \in Verdict, ask \in Asking,
           NEW o, NEW w, NEW o2, NEW w2, NEW ms, NEW rg,
           Phase(ask, o, w, ms, rg),
           end = "timeout" => \A ch \in AbleOf(ms, ask.receipts, rg) : w2[ch].err = "timeout",
           end = "all_failed" => \E ch \in AbleOf(ms, ask.receipts, rg) : w2[ch].err = "cancelled"
    PROVE  Phase(Returned(end, v), o2, w2, ms, rg) /\ Counted(Returned(end, v), o2, w2)
<1> SUFFICES ASSUME NEW a, a = Returned(end, v)
             PROVE  Phase(a, o2, w2, ms, rg) /\ Counted(a, o2, w2)
  OBVIOUS
<1>1. /\ a.receipts = ask.receipts /\ a.launched = ask.launched
      /\ a.taken = ask.taken /\ a.timeouts = ask.timeouts
      /\ a.ended = end /\ a.verdict = v
      /\ a.pc \in {"judge", "done"} /\ a.outcome \in {"none", "await_failed", "returned"}
      /\ a.pc = "judge" => end \in {"verdict", "timeout"} /\ a.outcome = "none"
  BY ReturnedIs
<1>2. Counted(a, o2, w2)
  BY <1>1 DEF Counted
<1>3. /\ a.launched \subseteq GroupsOf(ms, a.receipts)
      /\ a.timeouts <= a.taken /\ a.taken <= Cardinality(AbleOf(ms, a.receipts, rg))
      /\ a.ended = "timeout" => \A ch \in AbleOf(ms, a.receipts, rg) : w2[ch].err = "timeout"
      /\ a.ended = "all_failed" => \E ch \in AbleOf(ms, a.receipts, rg) : w2[ch].err = "cancelled"
  BY <1>1 DEF Phase
<1>4. /\ a.pc \notin {"start", "post", "posted", "await", "single", "race", "orphaned"}
      /\ a.pc = "judge" => a.ended \in {"none", "verdict", "timeout"}
      /\ a.pc # "done" => a.outcome = "none"
      /\ a.outcome \notin {"passed", "zeroed", "snoozed"}
  BY <1>1
<1>5. Phase(a, o2, w2, ms, rg)
  BY <1>3, <1>4, Zenon DEF Phase
<1>. QED BY <1>2, <1>5

-----------------------------------------------------------------------------
(* Before the wait *)

LEMMA NoVerdictIs ==
    NoVerdict \in Verdict /\ \A rs, g : Genuine(NoVerdict, rs, g)
BY DEF Verdict, Genuine

LEMMA InitHolds == Init => IInv
<1> SUFFICES ASSUME Init PROVE IInv
  OBVIOUS
<1>1. Typed
  <2>1. mode \in {"behaviour", "workflow"} /\ route \in Seq(Channels)
    BY VerdictAssumption DEF Init
  <2>2. Len(route) \in Nat
    BY <2>1
  <2>3. ask \in Asking /\ ask.next \in 1..(Len(route) + 1)
    BY <2>2, VerdictAssumption, NoVerdictIs DEF Init, Asking, Busy, Ends, Outcomes
  <2>4. waiter \in [Channels -> Waiter]
    <3>1. Off \in Waiter
      BY NoVerdictIs DEF Off, Waiter
    <3>. QED BY <3>1 DEF Init
  <2>5. messages \in Seq(Message) /\ out \in Seq(Channels)
    BY DEF Init
  <2>. QED BY <2>1, <2>3, <2>4, <2>5 DEF Typed
<1>2. \A ch \in Channels : waiter[ch] = Off
  BY DEF Init
<1>3. \A ch \in Channels : Waits(ch, waiter[ch], messages, ask.receipts, registry, given)
  BY <1>2, OffWaits DEF Off
<1>4. Recorded(messages, ask.receipts, given)
  BY DEF Init, Recorded, Range
<1>5. Genuine(ask.verdict, ask.receipts, given)
  BY NoVerdictIs DEF Init
<1>6. Buffered(out, waiter)
  BY DEF Init, Buffered
<1>7. Phase(ask, out, waiter, messages, registry)
  <2>1. Cardinality(AbleOf(messages, ask.receipts, registry)) \in Nat
    BY <1>1, GroupsFinite DEF Typed, Asking
  <2>2. Idle(out, waiter, ask) /\ Undecided(ask)
    BY <1>2 DEF Idle, Undecided, Init, Off
  <2>3. ask.pc = "start" /\ ask.outcome = "none"
    BY DEF Init
  <2>4. /\ ask.launched = {} /\ ask.timeouts = 0 /\ ask.taken = 0 /\ ask.ended = "none"
    BY <2>2 DEF Idle, Undecided
  <2>. QED BY <2>1, <2>2, <2>3, <2>4 DEF Phase
<1>8. Counted(ask, out, waiter)
  BY DEF Init, Counted
<1>. QED BY <1>1, <1>3, <1>4, <1>5, <1>6, <1>7, <1>8 DEF IInv

\* Until the wait only what has been posted matters.
LEMMA BeforeTheWait ==
    ASSUME IInv, Typed', Recorded(messages', ask'.receipts, given),
           waiter' = waiter, out' = out, given' = given,
           ask.pc \in {"start", "post", "posted"},
           ask'.launched = ask.launched, ask'.taken = ask.taken, ask'.timeouts = ask.timeouts,
           ask'.ended = ask.ended, ask'.verdict = ask.verdict,
           ask'.pc \in {"start", "post", "posted", "await", "judge", "done"},
           ask'.pc # "done" => ask'.outcome = "none",
           ask'.outcome \notin {"passed", "zeroed", "snoozed"}
    PROVE  IInv'
<1>1. Idle(out, waiter, ask) /\ Undecided(ask)
  BY DEF IInv, Phase
<1>2. \A ch \in Channels : Waits(ch, waiter[ch], messages, ask.receipts, registry, given)
  BY DEF IInv
<1>3. ASSUME NEW ch \in Channels
      PROVE  Waits(ch, waiter[ch], messages', ask'.receipts, registry', given)
  <2>1. waiter[ch].pc = "off"
    BY <1>1 DEF Idle
  <2>2. waiter[ch].verdict = NoVerdict /\ waiter[ch].err = "none"
    BY <2>1, <1>2, WaitsOff
  <2>. QED BY <2>1, <2>2, OffWaits
<1>4. Genuine(ask'.verdict, ask'.receipts, given)
  BY <1>1, NoVerdictIs DEF Undecided
<1>5. Buffered(out, waiter)
  BY DEF IInv
<1>6. Phase(ask', out, waiter, messages', registry')
  <2>1. ask'.receipts \in Seq(Nat)
    BY DEF Typed, Asking
  <2>2. Cardinality(AbleOf(messages', ask'.receipts, registry')) \in Nat
    BY <2>1, GroupsFinite
  <2>3. Idle(out, waiter, ask') /\ Undecided(ask')
    BY <1>1 DEF Idle, Undecided
  <2>4. ask'.launched = {} /\ ask'.timeouts = 0 /\ ask'.taken = 0 /\ ask'.ended = "none"
    BY <2>3 DEF Idle, Undecided
  <2>. QED BY <2>2, <2>3, <2>4 DEF Phase
<1>7. Counted(ask', out, waiter)
  BY DEF Counted
<1>. QED BY <1>3, <1>4, <1>5, <1>6, <1>7 DEF IInv

\* A message that is posted, and perhaps a receipt of it.
LEMMA PostedIs ==
    ASSUME NEW ms \in Seq(Message), NEW rs \in Seq(Nat), NEW g, Recorded(ms, rs, g),
           NEW ch \in Channels, NEW received \in BOOLEAN
    PROVE  LET ms2 == Append(ms, [channel |-> ch, reactions |-> <<>>])
               rs2 == IF received THEN Append(rs, Len(ms) + 1) ELSE rs
           IN  ms2 \in Seq(Message) /\ rs2 \in Seq(Nat) /\ Recorded(ms2, rs2, g)
<1> DEFINE m == [channel |-> ch, reactions |-> <<>>]
           ms2 == Append(ms, m)
           rs2 == IF received THEN Append(rs, Len(ms) + 1) ELSE rs
<1>1. m \in Message /\ m.reactions = <<>> /\ DOMAIN m.reactions = {}
  BY DEF Message
<1> HIDE DEF m
<1>2. /\ ms2 \in Seq(Message) /\ Len(ms) \in Nat /\ DOMAIN ms = 1..Len(ms)
      /\ DOMAIN ms2 = 1..(Len(ms) + 1)
      /\ \A i \in DOMAIN ms : ms2[i] = ms[i]
      /\ ms2[Len(ms) + 1] = m
  BY <1>1, AppendIs
<1>3. rs2 \in Seq(Nat)
  BY <1>2
<1>4. Range(rs2) \subseteq Range(rs) \cup {Len(ms) + 1}
  <2>1. Len(ms) + 1 \in Nat
    BY <1>2
  <2>2. Range(Append(rs, Len(ms) + 1)) = Range(rs) \cup {Len(ms) + 1}
    BY <2>1, RangeOfAppend
  <2>. QED BY <2>2
<1> HIDE DEF ms2, rs2
<1>5. DOMAIN ms \subseteq DOMAIN ms2 /\ Len(ms) + 1 \in DOMAIN ms2
  BY <1>2
<1>6. Range(rs2) \subseteq DOMAIN ms2 /\ g \subseteq (DOMAIN ms2) \X Choice
  BY <1>4, <1>5 DEF Recorded
<1>7. ASSUME NEW n \in DOMAIN ms2, NEW i \in DOMAIN ms2[n].reactions
      PROVE  <<n, ms2[n].reactions[i]>> \in g
  <2>1. n \in DOMAIN ms
    BY <1>1, <1>2
  <2>. QED BY <2>1, <1>2 DEF Recorded
<1>. QED BY <1>2, <1>3, <1>6, <1>7 DEF Recorded, ms2, rs2, m

\* The caller's own steps before the wait leave what he has posted alone, or lose
\* the receipts.
AsksOn ==
    /\ ask' \in Asking /\ ask'.next \in 1..(Len(route) + 1)
    /\ ask'.receipts \in {ask.receipts, <<>>}
    /\ ask'.launched = ask.launched /\ ask'.taken = ask.taken /\ ask'.timeouts = ask.timeouts
    /\ ask'.ended = ask.ended /\ ask'.verdict = ask.verdict
    /\ ask.pc \in {"start", "post", "posted"}
    /\ ask'.pc \in {"start", "post", "posted", "await", "judge", "done"}
    /\ ask'.pc # "done" => ask'.outcome = "none"
    /\ ask'.outcome \notin {"passed", "zeroed", "snoozed"}

LEMMA AskingOn ==
    ASSUME IInv, AsksOn, UNCHANGED <<mode, route, messages, given, waiter, out>>
    PROVE  IInv'
<1>1. Typed'
  BY DEF IInv, Typed, AsksOn
<1>2. Recorded(messages, ask.receipts, given)
  BY DEF IInv
<1>3. Recorded(messages, ask'.receipts, given)
  <2>1. Range(<<>>) = {}
    BY DEF Range
  <2>. QED BY <1>2, <2>1 DEF Recorded, AsksOn
<1>. QED BY <1>1, <1>3, BeforeTheWait DEF AsksOn

\* A caller who only comes to another place.
LEMMA AskBecomesIs ==
    ASSUME ask \in Asking, NEW pc \in Busy \cup {"start", "orphaned", "done"}, AskBecomes(pc)
    PROVE  /\ ask' \in Asking /\ ask'.pc = pc
           /\ ask'.receipts = ask.receipts /\ ask'.next = ask.next
           /\ ask'.launched = ask.launched /\ ask'.taken = ask.taken
           /\ ask'.timeouts = ask.timeouts /\ ask'.ended = ask.ended
           /\ ask'.verdict = ask.verdict /\ ask'.outcome = ask.outcome
BY DEF AskBecomes, Asking

LEMMA AskingBecomes ==
    ASSUME IInv, NEW pc \in {"post", "posted", "await", "judge"}, AskBecomes(pc),
           ask.pc \in {"start", "post", "posted"}
    PROVE  AsksOn
<1>1. ask \in Asking /\ ask.next \in 1..(Len(route) + 1) /\ ask.outcome = "none"
  BY DEF IInv, Typed, Phase
<1>2. pc \in Busy \cup {"start", "orphaned", "done"}
  BY DEF Busy
<1>. QED BY <1>1, <1>2, AskBecomesIs DEF AsksOn

LEMMA RetryPostAsks ==
    ASSUME IInv, RetryPost, ask.pc = "post"
    PROVE  AsksOn
<1>1. /\ ask \in Asking /\ ask.outcome = "none" /\ MaxPostAttempts \in Nat \ {0}
      /\ 1 \in 1..(Len(route) + 1)
  <2>1. Len(route) \in Nat
    BY DEF IInv, Typed
  <2>. QED BY <2>1, VerdictAssumption DEF IInv, Typed, Phase
<1>2. ask.attempt \in 1..MaxPostAttempts /\ ask.next \in 1..(Len(route) + 1)
  BY DEF IInv, Typed, Asking
<1>3. CASE ask.attempt < MaxPostAttempts
  <2>1. ask' = [ask EXCEPT !.attempt = ask.attempt + 1, !.next = 1, !.receipts = <<>>]
    BY <1>3 DEF RetryPost
  <2>2. ask.attempt + 1 \in 1..MaxPostAttempts
    BY <1>1, <1>2, <1>3
  <2>3. 1 \in Nat /\ <<>> \in Seq(Nat)
    OBVIOUS
  <2>4. ask' \in Asking
    BY <2>1, <2>2, <2>3, <1>1 DEF Asking
  <2>. QED BY <2>1, <2>4, <1>1 DEF AsksOn, Asking
<1>4. CASE ~(ask.attempt < MaxPostAttempts)
  <2>1. ask' = [ask EXCEPT !.pc = "done", !.receipts = <<>>, !.outcome = "post_failed"]
    BY <1>4 DEF RetryPost
  <2>2. <<>> \in Seq(Nat) /\ "post_failed" \in Outcomes
    BY DEF Outcomes
  <2>3. ask' \in Asking
    BY <2>1, <2>2, <1>1 DEF Asking
  <2>. QED BY <2>1, <2>3, <1>1, <1>2 DEF AsksOn, Asking
<1>. QED BY <1>3, <1>4

LEMMA NoQuestionHolds ==
    ASSUME IInv, NEW outcome \in {"inner_error", "not_required"}, NoQuestion(outcome)
    PROVE  IInv'
<1>1. ask \in Asking /\ ask.next \in 1..(Len(route) + 1)
  BY DEF IInv, Typed
<1>2. ask' = [ask EXCEPT !.pc = "done", !.outcome = outcome] /\ ask.pc = "start"
  BY DEF NoQuestion, Done
<1>3. ask' \in Asking
  BY <1>1, <1>2 DEF Asking, Outcomes
<1>4. AsksOn
  BY <1>1, <1>2, <1>3 DEF AsksOn, Asking
<1>. QED BY <1>4, AskingOn DEF NoQuestion

LEMMA AskHolds == ASSUME IInv, Ask PROVE IInv'
BY AskingBecomes, AskingOn DEF Ask

LEMMA NoTargetHolds == ASSUME IInv, NoTarget PROVE IInv'
<1>1. AsksOn
  BY AskingBecomes, RetryPostAsks DEF NoTarget
<1>. QED BY <1>1, AskingOn DEF NoTarget

LEMMA PostingIs ==
    ASSUME IInv, NEW ch, Posting(ch)
    PROVE  /\ ask \in Asking /\ ask.pc = "post" /\ ask.outcome = "none"
           /\ ask.next + 1 \in Nat /\ ask.next + 1 \in 1..(Len(route) + 1)
<1>1. ask \in Asking /\ ask.outcome = "none" /\ ask.pc = "post"
  BY DEF IInv, Typed, Phase, Posting
<1>2. ask.next \in 1..Len(route) /\ Len(route) \in Nat
  <2>1. route \in Seq(Channels) /\ ask.next \in DOMAIN route
    BY DEF IInv, Typed, Posting
  <2>. QED BY <2>1
<1>. QED BY <1>1, <1>2

LEMMA PostFailsHolds ==
    ASSUME IInv, NEW ch \in Channels, PostFails(ch)
    PROVE  IInv'
<1>1. /\ ask \in Asking /\ ask.pc = "post" /\ ask.outcome = "none"
      /\ ask.next + 1 \in Nat /\ ask.next + 1 \in 1..(Len(route) + 1)
  BY PostingIs DEF PostFails
<1>2. ask' = [ask EXCEPT !.next = ask.next + 1]
  BY DEF PostFails
<1>3. ask' \in Asking
  BY <1>1, <1>2 DEF Asking
<1>4. AsksOn
  BY <1>1, <1>2, <1>3 DEF AsksOn, Asking
<1>. QED BY <1>4, AskingOn DEF PostFails

LEMMA PostHolds ==
    ASSUME IInv, NEW ch \in Channels, NEW received \in BOOLEAN, Post(ch, received)
    PROVE  IInv'
<1> DEFINE ms2 == Append(messages, [channel |-> ch, reactions |-> <<>>])
           rs2 == IF received THEN Append(ask.receipts, Len(messages) + 1) ELSE ask.receipts
<1>1. /\ ask \in Asking /\ ask.pc = "post" /\ ask.outcome = "none"
      /\ ask.next + 1 \in Nat /\ ask.next + 1 \in 1..(Len(route) + 1)
  BY PostingIs DEF Post
<1>2. ms2 \in Seq(Message) /\ rs2 \in Seq(Nat) /\ Recorded(ms2, rs2, given)
  <2>1. messages \in Seq(Message) /\ ask.receipts \in Seq(Nat)
    BY DEF IInv, Typed, Asking
  <2>2. Recorded(messages, ask.receipts, given)
    BY DEF IInv
  <2>. QED BY <2>1, <2>2, PostedIs
<1>3. messages' = ms2 /\ ask' = [ask EXCEPT !.next = ask.next + 1, !.receipts = rs2]
  BY DEF Post
<1> HIDE DEF ms2, rs2
<1>4. ask' \in Asking
  BY <1>1, <1>2, <1>3 DEF Asking
<1>5. /\ ask'.next = ask.next + 1 /\ ask'.receipts = rs2
      /\ ask'.launched = ask.launched /\ ask'.taken = ask.taken /\ ask'.timeouts = ask.timeouts
      /\ ask'.ended = ask.ended /\ ask'.verdict = ask.verdict
      /\ ask'.pc = "post" /\ ask'.outcome = "none"
  BY <1>1, <1>3 DEF Asking
<1>6. Typed'
  BY <1>1, <1>2, <1>3, <1>4, <1>5 DEF IInv, Typed, Post
<1>7. Recorded(messages', ask'.receipts, given)
  BY <1>2, <1>3, <1>5
<1>. QED BY <1>1, <1>5, <1>6, <1>7, BeforeTheWait DEF Post

LEMMA PostedHolds == ASSUME IInv, Posted PROVE IInv'
<1>1. AsksOn
  BY AskingBecomes DEF Posted
<1>. QED BY <1>1, AskingOn DEF Posted

LEMMA StartAwaitHolds == ASSUME IInv, StartAwait PROVE IInv'
BY AskingBecomes, AskingOn DEF StartAwait

LEMMA PostTimesOutHolds == ASSUME IInv, PostTimesOut PROVE IInv'
BY RetryPostAsks, AskingOn DEF PostTimesOut

LEMMA RedeployHolds == ASSUME IInv, NEW ch \in Channels, Redeploy(ch) PROVE IInv'
BY AskingBecomes, AskingOn DEF Redeploy

-----------------------------------------------------------------------------
(* Humans *)

\* ms with the reactions r on message m.
WithReactions(ms, m, r) == [ms EXCEPT ![m].reactions = r]

LEMMA ReactionsAre ==
    ASSUME NEW ms \in Seq(Message), NEW m \in DOMAIN ms, NEW r \in Seq(Choice)
    PROVE  LET ms2 == WithReactions(ms, m, r) IN
           /\ ms2 \in Seq(Message) /\ DOMAIN ms2 = DOMAIN ms /\ Keeps(ms, ms2)
           /\ ms2[m].reactions = r
           /\ \A n \in DOMAIN ms \ {m} : ms2[n] = ms[n]
<1> DEFINE x == [ms[m] EXCEPT !.reactions = r]
<1>1. Len(ms) \in Nat /\ DOMAIN ms = 1..Len(ms) /\ ms[m] \in Message
  OBVIOUS
<1>2. x \in Message /\ x.channel = ms[m].channel /\ x.reactions = r
  BY <1>1 DEF Message
<1>3. WithReactions(ms, m, r) = [ms EXCEPT ![m] = x]
  BY DEF WithReactions
<1> HIDE DEF x
<1> SUFFICES ASSUME NEW ms2, ms2 = [ms EXCEPT ![m] = x]
             PROVE  /\ ms2 \in Seq(Message) /\ DOMAIN ms2 = DOMAIN ms /\ Keeps(ms, ms2)
                    /\ ms2[m].reactions = r
                    /\ \A n \in DOMAIN ms \ {m} : ms2[n] = ms[n]
  BY <1>3
<1>4. ms2 \in Seq(Message)
  BY <1>2
<1>5. DOMAIN ms2 = DOMAIN ms /\ ms2[m] = x /\ \A n \in DOMAIN ms \ {m} : ms2[n] = ms[n]
  OBVIOUS
<1>6. Keeps(ms, ms2)
  BY <1>2, <1>5 DEF Keeps
<1>. QED BY <1>2, <1>4, <1>5, <1>6

LEMMA ReactHolds ==
    ASSUME IInv, NEW m \in DOMAIN messages, NEW choice \in Choice, React(m, choice)
    PROVE  IInv'
<1> DEFINE r == Append(messages[m].reactions, choice)
           g2 == given \cup {<<m, choice>>}
<1>1. /\ messages \in Seq(Message) /\ messages[m].reactions \in Seq(Choice)
      /\ ask.receipts \in Seq(Nat)
  <2>1. messages \in Seq(Message) /\ messages[m] \in Message /\ ask \in Asking
    BY DEF IInv, Typed
  <2>. QED BY <2>1 DEF Message, Asking
<1>2. /\ r \in Seq(Choice)
      /\ DOMAIN messages[m].reactions \subseteq DOMAIN r
      /\ \A i \in DOMAIN messages[m].reactions : r[i] = messages[m].reactions[i]
      /\ \A i \in DOMAIN r : i \in DOMAIN messages[m].reactions \/ r[i] = choice
  <2>1. /\ r \in Seq(Choice)
        /\ Len(messages[m].reactions) \in Nat
        /\ DOMAIN messages[m].reactions = 1..Len(messages[m].reactions)
        /\ DOMAIN r = 1..(Len(messages[m].reactions) + 1)
        /\ \A i \in DOMAIN messages[m].reactions : r[i] = messages[m].reactions[i]
        /\ r[Len(messages[m].reactions) + 1] = choice
    BY <1>1, AppendIs
  <2> HIDE DEF r
  <2>. QED BY <2>1
<1>3. messages' = WithReactions(messages, m, r)
  BY DEF React, WithReactions
<1> HIDE DEF r
<1>4. /\ messages' \in Seq(Message) /\ DOMAIN messages' = DOMAIN messages
      /\ Keeps(messages, messages') /\ messages'[m].reactions = r
      /\ \A n \in DOMAIN messages \ {m} : messages'[n] = messages[n]
  BY <1>1, <1>2, <1>3, ReactionsAre
<1>5. /\ given' = g2 /\ given \subseteq g2 /\ <<m, choice>> \in g2
      /\ UNCHANGED <<mode, route, registry, ask, waiter, out>>
  BY DEF React
<1>6. g2 \subseteq (DOMAIN messages) \X Choice
  BY DEF IInv, Recorded
<1> HIDE DEF g2
<1>7. Typed'
  BY <1>4, <1>5 DEF IInv, Typed
<1>8. Recorded(messages, ask.receipts, given) /\ Range(ask.receipts) \subseteq DOMAIN messages
  BY DEF IInv, Recorded
<1>9. Recorded(messages', ask.receipts, g2)
  <2>1. ASSUME NEW n \in DOMAIN messages', NEW i \in DOMAIN messages'[n].reactions
        PROVE  <<n, messages'[n].reactions[i]>> \in g2
    <3>1. CASE n = m
      BY <3>1, <1>2, <1>4, <1>5, <1>8 DEF Recorded
    <3>2. CASE n # m
      BY <3>2, <1>4, <1>5, <1>8 DEF Recorded
    <3>. QED BY <3>1, <3>2
  <2>. QED BY <2>1, <1>4, <1>6, <1>8 DEF Recorded
<1>10. Answered(messages) \subseteq Answered(messages')
  <2>1. ASSUME NEW n \in Answered(messages) PROVE n \in Answered(messages')
    <3>1. PICK i \in DOMAIN messages[n].reactions : messages[n].reactions[i] \in Offered
      BY DEF Answered
    <3>2. n \in DOMAIN messages
      BY DEF Answered
    <3>3. i \in DOMAIN messages'[n].reactions /\ messages'[n].reactions[i] \in Offered
      BY <3>1, <3>2, <1>2, <1>4
    <3>. QED BY <3>2, <3>3, <1>4 DEF Answered
  <2>. QED BY <2>1
<1>11. \A ch \in Channels : Waits(ch, waiter[ch], messages', ask.receipts, registry, g2)
  BY <1>4, <1>5, <1>8, <1>10, WaitsAsMoreIsGiven DEF IInv
<1>12. Genuine(ask.verdict, ask.receipts, g2)
  BY <1>5 DEF IInv, Genuine
<1>13. Phase(ask, out, waiter, messages', registry)
  <2>1. AbleOf(messages, ask.receipts, registry) \subseteq Channels
    BY <1>1, <1>8, GroupsAreChannels
  <2>2. Phase(ask, out, waiter, messages, registry)
    BY DEF IInv
  <2>. QED BY <2>1, <2>2, <1>4, <1>8, PhaseKept
<1>14. Buffered(out, waiter) /\ Counted(ask, out, waiter)
  BY DEF IInv
<1>. QED BY <1>5, <1>7, <1>9, <1>11, <1>12, <1>13, <1>14 DEF IInv

LEMMA RetractHolds ==
    ASSUME IInv, NEW m \in DOMAIN messages, NEW k \in DOMAIN messages[m].reactions, Retract(m, k)
    PROVE  IInv'
<1> DEFINE r == Without(messages[m].reactions, k)
           Left2(ch) == {n \in waiter[ch].standing : n # m \/ Valid(n)' # {}}
<1>1. /\ messages \in Seq(Message) /\ messages[m].reactions \in Seq(Choice)
      /\ ask.receipts \in Seq(Nat) /\ waiter \in [Channels -> Waiter]
  <2>1. messages \in Seq(Message) /\ messages[m] \in Message /\ ask \in Asking
    BY DEF IInv, Typed
  <2>. QED BY <2>1 DEF Message, Asking, IInv, Typed
<1>2. /\ r \in Seq(Choice)
      /\ \A j \in DOMAIN r : \E i \in DOMAIN messages[m].reactions : r[j] = messages[m].reactions[i]
  BY <1>1, WithoutIs
<1>3. messages' = WithReactions(messages, m, r)
  BY DEF Retract, WithReactions, Without
<1> HIDE DEF r
<1>4. /\ messages' \in Seq(Message) /\ DOMAIN messages' = DOMAIN messages
      /\ Keeps(messages, messages') /\ messages'[m].reactions = r
      /\ \A n \in DOMAIN messages \ {m} : messages'[n] = messages[n]
  BY <1>1, <1>2, <1>3, ReactionsAre
<1>5. /\ UNCHANGED <<mode, route, registry, given, ask, out>>
      /\ waiter' = [ch \in Channels |-> [waiter[ch] EXCEPT !.standing = Left2(ch)]]
  BY DEF Retract
<1>6. ASSUME NEW ch \in Channels
      PROVE  /\ waiter'[ch] \in Waiter
             /\ waiter'[ch].pc = waiter[ch].pc /\ waiter'[ch].err = waiter[ch].err
             /\ waiter'[ch].verdict = waiter[ch].verdict /\ waiter'[ch].next = waiter[ch].next
             /\ waiter'[ch].standing = Left2(ch)
  <2>1. waiter'[ch] = [waiter[ch] EXCEPT !.standing = Left2(ch)] /\ waiter[ch] \in Waiter
    BY <1>1, <1>5
  <2>2. Left2(ch) \in SUBSET Nat
    <3>1. waiter[ch].standing \in SUBSET Nat
      BY <2>1 DEF Waiter
    <3>. QED BY <3>1
  <2> HIDE DEF Left2
  <2>. QED BY <2>1, <2>2 DEF Waiter
<1>7. Typed'
  <2>1. waiter' \in [Channels -> Waiter]
    <3>1. waiter' = [ch \in Channels |-> waiter'[ch]]
      BY <1>5
    <3>. QED BY <3>1, <1>6
  <2>. QED BY <2>1, <1>4, <1>5 DEF IInv, Typed
<1>8. Recorded(messages, ask.receipts, given) /\ Range(ask.receipts) \subseteq DOMAIN messages
  BY DEF IInv, Recorded
<1>9. Recorded(messages', ask.receipts, given)
  <2>1. ASSUME NEW n \in DOMAIN messages', NEW i \in DOMAIN messages'[n].reactions
        PROVE  <<n, messages'[n].reactions[i]>> \in given
    <3>1. CASE n = m
      BY <3>1, <1>2, <1>4, <1>8 DEF Recorded
    <3>2. CASE n # m
      BY <3>2, <1>4, <1>8 DEF Recorded
    <3>. QED BY <3>1, <3>2
  <2>. QED BY <2>1, <1>4, <1>8 DEF Recorded
<1>10. ASSUME NEW ch \in Channels
       PROVE  Waits(ch, waiter'[ch], messages', ask.receipts, registry, given)
  <2>1. Waits(ch, waiter[ch], messages, ask.receipts, registry, given)
    BY DEF IInv
  <2>2. /\ AbleOf(messages', ask.receipts, registry) = AbleOf(messages, ask.receipts, registry)
        /\ PlacesFrom(messages', ask.receipts, ch, waiter[ch].next)
              = PlacesFrom(messages, ask.receipts, ch, waiter[ch].next)
    <3>1. Keeps(messages, messages') /\ Range(ask.receipts) \subseteq DOMAIN messages
      BY <1>4, <1>8
    <3>2. /\ AbleOf(messages', ask.receipts, registry) = AbleOf(messages, ask.receipts, registry)
          /\ \A c, n : PlacesFrom(messages', ask.receipts, c, n)
                        = PlacesFrom(messages, ask.receipts, c, n)
      BY <3>1, GroupsKept, SMTT(30)
    <3>. QED BY <3>2
  <2>3. Left2(ch) \subseteq waiter[ch].standing
    OBVIOUS
  <2>4. Left2(ch) \cap Answered(messages) \subseteq Answered(messages')
    <3>1. ASSUME NEW n \in Left2(ch) \cap Answered(messages) PROVE n \in Answered(messages')
      <4>1. n \in DOMAIN messages'
        BY <1>4 DEF Answered
      <4>2. CASE n # m
        BY <4>1, <4>2, <1>4 DEF Answered
      <4>3. CASE Valid(n)' # {}
        BY <4>1, <4>3 DEF Answered, Valid
      <4>. QED BY <4>2, <4>3
    <3>. QED BY <3>1
  <2> HIDE DEF Left2
  <2>5. Genuine(waiter'[ch].verdict, ask.receipts, given)
    BY <2>1, <1>6 DEF Waits
  <2>6. waiter'[ch].pc = "polling" =>
          waiter'[ch].standing
             \subseteq MessagesAt(ask.receipts,
                                  PlacesFrom(messages', ask.receipts, ch, waiter'[ch].next))
                         \cap Answered(messages')
    BY <2>1, <2>2, <2>3, <2>4, <1>6 DEF Waits
  <2>7. /\ waiter'[ch].pc = "off" => waiter'[ch].verdict = NoVerdict
        /\ waiter'[ch].pc # "off" => ch \in AbleOf(messages', ask.receipts, registry)
        /\ waiter'[ch].err = "timeout" => waiter'[ch].standing = {}
        /\ waiter'[ch].err # "none" => waiter'[ch].pc \in {"sending", "ended"}
    BY <2>1, <2>2, <2>3, <1>6 DEF Waits
  <2>. QED BY <2>5, <2>6, <2>7 DEF Waits
<1> HIDE DEF Left2
<1>11. Phase(ask, out, waiter', messages', registry)
  <2>1. AbleOf(messages, ask.receipts, registry) \subseteq Channels
    BY <1>1, <1>8, GroupsAreChannels
  <2>2. Phase(ask, out, waiter, messages, registry)
    BY DEF IInv
  <2>. QED BY <2>1, <2>2, <1>4, <1>6, <1>8, PhaseKept
<1>12. Counted(ask, out, waiter')
  <2>1. Counted(ask, out, waiter)
    BY DEF IInv
  <2>. QED BY <2>1, <1>6, CountedKept
<1>13. Buffered(out, waiter')
  <2>1. \A i \in DOMAIN out : out[i] \in Channels
    BY DEF IInv, Typed
  <2>. QED BY <2>1, <1>6 DEF IInv, Buffered
<1>14. Genuine(ask.verdict, ask.receipts, given)
  BY DEF IInv
<1>. QED BY <1>5, <1>7, <1>9, <1>10, <1>11, <1>12, <1>13, <1>14 DEF IInv

-----------------------------------------------------------------------------
(* A channel's Await *)

\* A waiter that goes on is a matter of its own.
LEMMA WaiterGoesOn ==
    ASSUME IInv, NEW ch \in Channels, NEW w2 \in Waiter, waiter' = [waiter EXCEPT ![ch] = w2],
           UNCHANGED <<mode, route, registry, messages, given, ask, out>>,
           waiter[ch].pc \in {"polling", "asleep"}, w2.pc \in {"polling", "asleep", "sending"},
           Waits(ch, w2, messages, ask.receipts, registry, given)
    PROVE  IInv'
<1>1. waiter \in [Channels -> Waiter] /\ \A i \in DOMAIN out : out[i] \in Channels
  BY DEF IInv, Typed
<1>2. waiter'[ch] = w2 /\ \A c \in Channels \ {ch} : waiter'[c] = waiter[c]
  BY <1>1
<1>3. Typed'
  BY <1>1 DEF IInv, Typed
<1>4. \A c \in Channels : Waits(c, waiter'[c], messages, ask.receipts, registry, given)
  BY <1>2 DEF IInv
<1>5. Buffered(out, waiter')
  <2>1. ASSUME NEW i \in DOMAIN out PROVE waiter'[out[i]].pc = "ended"
    <3>1. waiter[out[i]].pc = "ended" /\ out[i] # ch
      BY DEF IInv, Buffered
    <3>. QED BY <3>1, <1>1, <1>2
  <2>. QED BY <2>1 DEF IInv, Buffered
<1>6. waiter[ch].err = "none"
  BY DEF IInv, Waits
<1>7. Phase(ask, out, waiter', messages, registry)
  <2>1. Phase(ask, out, waiter, messages, registry)
    BY DEF IInv
  <2>2. ~Idle(out, waiter, ask)
    BY DEF Idle
  <2>3. ask.pc \notin {"start", "post", "posted", "await"}
    BY <2>1, <2>2 DEF Phase
  <2>4. AbleOf(messages, ask.receipts, registry) \subseteq Channels
    BY GroupsAreChannels DEF IInv, Typed, Recorded
  <2>5. /\ ask.ended = "timeout" =>
             \A c \in AbleOf(messages, ask.receipts, registry) : waiter'[c].err = "timeout"
        /\ ask.ended = "all_failed" =>
             \E c \in AbleOf(messages, ask.receipts, registry) : waiter'[c].err = "cancelled"
    BY <2>1, <2>4, <1>2, <1>6 DEF Phase
  <2>6. ask.pc = "single" =>
          \A c \in Channels : waiter'[c].pc # "off" => GroupsOf(messages, ask.receipts) = {c}
    BY <2>1, <1>2 DEF Phase
  <2>. QED BY <2>1, <2>3, <2>5, <2>6 DEF Phase
<1>8. Counted(ask, out, waiter')
  <2>1. Counted(ask, out, waiter)
    BY DEF IInv
  <2>2. \A c \in Channels : /\ waiter'[c].pc = "ended" <=> waiter[c].pc = "ended"
                            /\ waiter'[c].pc = "off" <=> waiter[c].pc = "off"
                            /\ waiter[c].pc = "ended" => waiter'[c].err = waiter[c].err
    BY <1>2
  <2>. QED BY <2>1, <2>2, CountedKept
<1>. QED BY <1>3, <1>4, <1>5, <1>7, <1>8 DEF IInv

\* A round looks at every receipt of the channel.
LEMMA RoundIs ==
    ASSUME Typed, Recorded(messages, ask.receipts, given), NEW ch \in Channels,
           Genuine(waiter[ch].verdict, ask.receipts, given), waiter[ch].err = "none",
           ch \in AbleOf(messages, ask.receipts, registry)
    PROVE  /\ Round(ch) \in Waiter /\ Round(ch).pc = "polling"
           /\ Waits(ch, Round(ch), messages, ask.receipts, registry, given)
<1>1. waiter[ch] \in Waiter /\ ask.receipts \in Seq(Nat) /\ 1 \in Nat
  BY DEF Typed, Asking
<1>2. Range(ask.receipts) \subseteq DOMAIN messages
  BY DEF Recorded
<1>3. Standing(ch) \in SUBSET Nat
  BY <1>1 DEF Standing, Group
<1>4. Standing(ch) \subseteq Answered(messages)
  <2>1. \A i \in Group(ch) : ask.receipts[i] \in DOMAIN messages
    BY <1>2 DEF Group, Range
  <2>. QED BY <2>1, ValidIs DEF Standing
<1>5. Standing(ch) \subseteq MessagesAt(ask.receipts, PlacesFrom(messages, ask.receipts, ch, 1))
  <2>1. \A i \in DOMAIN ask.receipts : i >= 1
    BY <1>1
  <2>. QED BY <2>1 DEF Standing, Group, MessagesAt, PlacesFrom
<1> DEFINE s == Standing(ch)
<1> HIDE DEF s
<1>6. Round(ch) = [waiter[ch] EXCEPT !.pc = "polling", !.next = 1, !.standing = s]
  BY DEF Round, s
<1>7. /\ Round(ch) \in Waiter /\ Round(ch).pc = "polling" /\ Round(ch).next = 1
      /\ Round(ch).standing = s /\ Round(ch).err = "none"
      /\ Round(ch).verdict = waiter[ch].verdict
  BY <1>1, <1>3, <1>6 DEF Waiter, s
<1>8. s \subseteq MessagesAt(ask.receipts, PlacesFrom(messages, ask.receipts, ch, 1))
                     \cap Answered(messages)
  BY <1>4, <1>5 DEF s
<1>. QED BY <1>7, <1>8 DEF Waits

\* The waiter that answers, as what and with what.
Answering(w, v, e) == [w EXCEPT !.pc = "sending", !.verdict = v, !.err = e]

LEMMA AnsweringIs ==
    ASSUME NEW w \in Waiter, NEW v \in Verdict, NEW e \in {"none", "timeout", "cancelled"}
    PROVE  LET w2 == Answering(w, v, e) IN
           /\ w2 \in Waiter /\ w2.pc = "sending" /\ w2.verdict = v /\ w2.err = e
           /\ w2.standing = w.standing
BY DEF Answering, Waiter

LEMMA AnswersHolds ==
    ASSUME IInv, NEW ch \in Channels, NEW v \in Verdict, NEW e \in {"none", "timeout", "cancelled"},
           Answers(ch, v, e), UNCHANGED <<mode, route, registry, messages, given, ask, out>>,
           waiter[ch].pc \in {"polling", "asleep"},
           Genuine(v, ask.receipts, given), e = "timeout" => waiter[ch].standing = {}
    PROVE  IInv'
<1>1. /\ waiter[ch] \in Waiter
      /\ Waits(ch, waiter[ch], messages, ask.receipts, registry, given)
  BY DEF IInv, Typed
<1> DEFINE w2 == Answering(waiter[ch], v, e)
<1>2. /\ w2 \in Waiter /\ w2.pc = "sending" /\ w2.verdict = v /\ w2.err = e
      /\ w2.standing = waiter[ch].standing
  BY <1>1, AnsweringIs, SMTT(30)
<1>3. waiter' = [waiter EXCEPT ![ch] = w2]
  BY DEF Answers, Answering
<1> HIDE DEF w2
<1>4. Waits(ch, w2, messages, ask.receipts, registry, given)
  BY <1>1, <1>2 DEF Waits
<1>. QED BY <1>2, <1>3, <1>4, WaiterGoesOn

\* The waiter that goes on to place n, with the messages S still standing.
Onwards(w, n, S) == [w EXCEPT !.next = n, !.standing = S]

LEMMA OnwardsHolds ==
    ASSUME IInv, NEW ch \in Channels, NEW i \in DOMAIN ask.receipts, NEW S, Reading(ch, i),
           waiter' = [waiter EXCEPT ![ch] = Onwards(waiter[ch], i + 1, S)],
           UNCHANGED <<mode, route, registry, messages, given, ask, out>>,
           S \subseteq waiter[ch].standing, ask.receipts[i] \notin S
    PROVE  IInv'
<1>1. /\ waiter[ch] \in Waiter /\ waiter[ch].pc = "polling" /\ waiter[ch].next \in Nat
      /\ Waits(ch, waiter[ch], messages, ask.receipts, registry, given)
      /\ ask.receipts \in Seq(Nat)
  BY DEF IInv, Typed, Reading, Waiter, Asking
<1>2. i \in Nat /\ i + 1 \in Nat /\ S \in SUBSET Nat
  BY <1>1 DEF Waiter
<1> DEFINE w2 == Onwards(waiter[ch], i + 1, S)
<1>3. /\ w2 \in Waiter /\ w2.pc = "polling" /\ w2.next = i + 1 /\ w2.standing = S
      /\ w2.verdict = waiter[ch].verdict /\ w2.err = waiter[ch].err
  BY <1>1, <1>2 DEF Onwards, Waiter
<1> DEFINE P == PlacesFrom(messages, ask.receipts, ch, waiter[ch].next)
           Q == PlacesFrom(messages, ask.receipts, ch, i + 1)
<1>4. P \subseteq Q \cup {i}
  <2>1. \A j \in P : i <= j /\ j \in DOMAIN ask.receipts
                     /\ messages[ask.receipts[j]].channel = ch
    BY OperatorsAre DEF Reading, PlacesFrom
  <2>2. \A j \in DOMAIN ask.receipts : j \in Nat
    BY <1>1
  <2> HIDE DEF P
  <2>3. \A j \in P : j = i \/ j >= i + 1
    BY <2>1, <2>2, <1>2
  <2>. QED BY <2>1, <2>3 DEF PlacesFrom
<1>5. waiter[ch].standing \subseteq MessagesAt(ask.receipts, P) \cap Answered(messages)
  BY <1>1 DEF Waits
<1> HIDE DEF w2, P, Q
<1>6. S \subseteq MessagesAt(ask.receipts, Q) \cap Answered(messages)
  BY <1>4, <1>5 DEF MessagesAt
<1>7. Waits(ch, w2, messages, ask.receipts, registry, given)
  BY <1>1, <1>3, <1>6 DEF Waits, Q
<1>8. waiter' = [waiter EXCEPT ![ch] = w2]
  BY DEF w2
<1>. QED BY <1>1, <1>3, <1>7, <1>8, WaiterGoesOn

LEMMA ReadFailsHolds ==
    ASSUME IInv, NEW ch \in Channels, NEW i \in DOMAIN ask.receipts, ReadFails(ch, i)
    PROVE  IInv'
<1> DEFINE S == waiter[ch].standing \ {ask.receipts[i]}
<1>1. waiter' = [waiter EXCEPT ![ch] = Onwards(waiter[ch], i + 1, S)] /\ Reading(ch, i)
  <2>1. waiter \in [Channels -> Waiter]
    BY DEF IInv, Typed
  <2>2. waiter' = [waiter EXCEPT ![ch] = [waiter[ch] EXCEPT !.next = i + 1, !.standing = S]]
    BY <2>1 DEF ReadFails
  <2>. QED BY <2>2 DEF ReadFails, Onwards
<1>2. S \subseteq waiter[ch].standing /\ ask.receipts[i] \notin S
  OBVIOUS
<1> HIDE DEF S
<1>. QED BY <1>1, <1>2, OnwardsHolds DEF ReadFails

LEMMA ReadHolds ==
    ASSUME IInv, NEW ch \in Channels, NEW i \in DOMAIN ask.receipts, Read(ch, i)
    PROVE  IInv'
<1> DEFINE m == ask.receipts[i]
<1>1. /\ waiter \in [Channels -> Waiter] /\ waiter[ch].pc = "polling"
      /\ Waits(ch, waiter[ch], messages, ask.receipts, registry, given)
      /\ Recorded(messages, ask.receipts, given) /\ messages \in Seq(Message)
      /\ UNCHANGED <<mode, route, registry, messages, given, ask, out>>
  BY DEF IInv, Typed, Read, Reading
<1>2. m \in Range(ask.receipts) /\ m \in DOMAIN messages
  BY <1>1 DEF Recorded, Range
<1>3. ASSUME NEW k \in DOMAIN messages[m].reactions, First(m, k),
             Answers(ch, [choice |-> messages[m].reactions[k], message |-> m], "none")
      PROVE  IInv'
  <2> DEFINE v == [choice |-> messages[m].reactions[k], message |-> m]
  <2>1. messages[m].reactions[k] \in Offered
    BY <1>3, <1>2, ValidIs DEF First, Valid
  <2>2. <<m, messages[m].reactions[k]>> \in given
    BY <1>1, <1>2 DEF Recorded
  <2>3. m \in Nat
    BY <1>1, <1>2
  <2>4. v \in Verdict
    BY <2>1, <2>3 DEF Verdict, Choice
  <2>5. Genuine(v, ask.receipts, given)
    BY <2>1, <2>2, <1>2 DEF Genuine
  <2> HIDE DEF v
  <2>6. Answers(ch, v, "none")
    BY <1>3 DEF v
  <2>. QED BY <2>4, <2>5, <2>6, <1>1, AnswersHolds
<1>4. ASSUME Candidates(m) = {}, waiter' = [waiter EXCEPT ![ch].next = i + 1]
      PROVE  IInv'
  <2>1. m \notin Answered(messages)
    BY <1>2, <1>4, ValidIs
  <2>2. m \notin waiter[ch].standing
    BY <1>1, <2>1 DEF Waits
  <2> DEFINE S == waiter[ch].standing
             w2 == [waiter[ch] EXCEPT !.next = i + 1]
  <2>3. w2 = Onwards(waiter[ch], i + 1, S)
    <3>1. waiter[ch] \in Waiter
      BY <1>1
    <3>. QED BY <3>1 DEF Onwards, Waiter
  <2>4. waiter' = [waiter EXCEPT ![ch] = w2]
    BY <1>4
  <2>5. waiter' = [waiter EXCEPT ![ch] = Onwards(waiter[ch], i + 1, S)]
    BY <2>3, <2>4
  <2> HIDE DEF w2
  <2>. QED BY <2>2, <2>5, <1>1, OnwardsHolds DEF Read
<1>. QED BY <1>3, <1>4 DEF Read

LEMMA EndRoundHolds ==
    ASSUME IInv, NEW ch \in Channels, EndRound(ch)
    PROVE  IInv'
<1>1. /\ waiter \in [Channels -> Waiter] /\ waiter[ch] \in Waiter /\ waiter[ch].pc = "polling"
      /\ Waits(ch, waiter[ch], messages, ask.receipts, registry, given)
      /\ UNCHANGED <<mode, route, registry, messages, given, ask, out>>
  BY DEF IInv, Typed, EndRound
<1>2. PlacesFrom(messages, ask.receipts, ch, waiter[ch].next) = {}
  BY OperatorsAre DEF EndRound
<1>3. waiter[ch].standing = {}
  BY <1>1, <1>2 DEF Waits, MessagesAt
<1>4. CASE waiter[ch].due
  <2>1. Answers(ch, NoVerdict, "timeout")
    BY <1>4 DEF EndRound
  <2>2. Genuine(NoVerdict, ask.receipts, given) /\ NoVerdict \in Verdict
    BY NoVerdictIs
  <2>. QED BY <1>1, <1>3, <2>1, <2>2, AnswersHolds
<1>5. CASE ~waiter[ch].due
  <2> DEFINE w2 == [waiter[ch] EXCEPT !.pc = "asleep"]
  <2>1. waiter' = [waiter EXCEPT ![ch] = w2]
    BY <1>5 DEF EndRound
  <2>2. /\ w2 \in Waiter /\ w2.pc = "asleep" /\ w2.verdict = waiter[ch].verdict
        /\ w2.err = waiter[ch].err /\ w2.standing = waiter[ch].standing
    BY <1>1 DEF Waiter
  <2> HIDE DEF w2
  <2>3. Waits(ch, w2, messages, ask.receipts, registry, given)
    BY <1>1, <2>2 DEF Waits
  <2>. QED BY <1>1, <2>1, <2>2, <2>3, WaiterGoesOn
<1>. QED BY <1>4, <1>5

LEMMA TickHolds ==
    ASSUME IInv, NEW ch \in Channels, Tick(ch)
    PROVE  IInv'
<1>1. /\ Typed /\ Recorded(messages, ask.receipts, given)
      /\ Waits(ch, waiter[ch], messages, ask.receipts, registry, given)
      /\ UNCHANGED <<mode, route, registry, messages, given, ask, out>>
      /\ waiter[ch].pc = "asleep"
  BY DEF IInv, Tick
<1>2. /\ Genuine(waiter[ch].verdict, ask.receipts, given) /\ waiter[ch].err = "none"
      /\ ch \in AbleOf(messages, ask.receipts, registry)
  BY <1>1 DEF Waits
<1>3. /\ Round(ch) \in Waiter /\ Round(ch).pc = "polling"
      /\ Waits(ch, Round(ch), messages, ask.receipts, registry, given)
  BY <1>1, <1>2, RoundIs
<1>4. waiter' = [waiter EXCEPT ![ch] = Round(ch)]
  BY DEF Tick
<1>. QED BY <1>1, <1>3, <1>4, WaiterGoesOn

LEMMA WaitCancelledHolds ==
    ASSUME IInv, NEW ch \in Channels, WaitCancelled(ch)
    PROVE  IInv'
<1>1. Genuine(NoVerdict, ask.receipts, given) /\ NoVerdict \in Verdict
  BY NoVerdictIs
<1>. QED BY <1>1, AnswersHolds DEF WaitCancelled

LEMMA DeadlineHolds ==
    ASSUME IInv, NEW ch \in Channels, Deadline(ch)
    PROVE  IInv'
<1> DEFINE w2 == [waiter[ch] EXCEPT !.due = TRUE]
<1>1. /\ waiter[ch] \in Waiter
      /\ Waits(ch, waiter[ch], messages, ask.receipts, registry, given)
  BY DEF IInv, Typed
<1>2. waiter' = [waiter EXCEPT ![ch] = w2]
  BY DEF Deadline
<1>3. /\ w2 \in Waiter /\ w2.pc = waiter[ch].pc /\ w2.verdict = waiter[ch].verdict
      /\ w2.err = waiter[ch].err /\ w2.standing = waiter[ch].standing
      /\ w2.next = waiter[ch].next
  BY <1>1 DEF Waiter
<1> HIDE DEF w2
<1>4. Waits(ch, w2, messages, ask.receipts, registry, given)
  BY <1>1, <1>3 DEF Waits
<1>. QED BY <1>2, <1>3, <1>4, WaiterGoesOn DEF Deadline

\* Who ends by sending is not yet counted.
LEMMA SendHolds ==
    ASSUME IInv, NEW ch \in Channels, Send(ch)
    PROVE  IInv'
<1> DEFINE w2 == [waiter[ch] EXCEPT !.pc = "ended"]
           o2 == Append(out, ch)
<1>1. /\ waiter \in [Channels -> Waiter] /\ waiter[ch] \in Waiter /\ waiter[ch].pc = "sending"
      /\ Waits(ch, waiter[ch], messages, ask.receipts, registry, given)
      /\ out \in Seq(Channels) /\ \A i \in DOMAIN out : out[i] \in Channels
      /\ UNCHANGED <<mode, route, registry, messages, given, ask>> /\ ask.pc # "single"
  BY DEF IInv, Typed, Send
<1>2. waiter' = [waiter EXCEPT ![ch] = w2] /\ out' = o2
  BY DEF Send
<1>3. /\ w2 \in Waiter /\ w2.pc = "ended" /\ w2.verdict = waiter[ch].verdict
      /\ w2.err = waiter[ch].err /\ w2.standing = waiter[ch].standing
  BY <1>1 DEF Waiter
<1> HIDE DEF w2
<1>4. waiter'[ch] = w2 /\ \A c \in Channels \ {ch} : waiter'[c] = waiter[c]
  BY <1>1, <1>2
<1>5. /\ o2 \in Seq(Channels) /\ Len(out) \in Nat /\ DOMAIN out = 1..Len(out)
      /\ DOMAIN o2 = 1..(Len(out) + 1)
      /\ \A i \in DOMAIN out : o2[i] = out[i]
      /\ o2[Len(out) + 1] = ch
  BY <1>1, AppendIs
<1>6. Range(o2) = Range(out) \cup {ch}
  BY <1>1, RangeOfAppend
<1> HIDE DEF o2
<1>7. Typed'
  BY <1>1, <1>2, <1>3, <1>5 DEF IInv, Typed
<1>8. Waits(ch, w2, messages, ask.receipts, registry, given)
  BY <1>1, <1>3 DEF Waits
<1>9. \A c \in Channels : Waits(c, waiter'[c], messages, ask.receipts, registry, given)
  BY <1>4, <1>8 DEF IInv
<1>10. Buffered(o2, waiter')
  <2>1. \A i \in DOMAIN out : waiter[out[i]].pc = "ended" /\ out[i] # ch
    BY <1>1 DEF IInv, Buffered
  <2>2. \A i \in DOMAIN o2 : i \in DOMAIN out \/ i = Len(out) + 1
    BY <1>5
  <2>3. \A i \in DOMAIN o2 : waiter'[o2[i]].pc = "ended"
    BY <2>1, <2>2, <1>1, <1>3, <1>4, <1>5
  <2>4. ASSUME NEW i \in DOMAIN o2, NEW j \in DOMAIN o2, o2[i] = o2[j] PROVE i = j
    BY <2>1, <2>2, <2>4, <1>5 DEF IInv, Buffered
  <2>. QED BY <2>3, <2>4 DEF Buffered
<1>11. Phase(ask, o2, waiter', messages, registry)
  <2>1. Phase(ask, out, waiter, messages, registry)
    BY DEF IInv
  <2>2. ~Idle(out, waiter, ask)
    BY <1>1 DEF Idle
  <2>3. ask.pc \notin {"start", "post", "posted", "await", "single"}
    BY <1>1, <2>1, <2>2 DEF Phase
  <2>4. AbleOf(messages, ask.receipts, registry) \subseteq Channels
    BY GroupsAreChannels DEF IInv, Typed, Recorded
  <2>5. /\ ask.ended = "timeout" =>
             \A c \in AbleOf(messages, ask.receipts, registry) : waiter'[c].err = "timeout"
        /\ ask.ended = "all_failed" =>
             \E c \in AbleOf(messages, ask.receipts, registry) : waiter'[c].err = "cancelled"
    BY <2>1, <2>4, <1>3, <1>4 DEF Phase
  <2>. QED BY <2>1, <2>3, <2>5 DEF Phase
<1>12. Counted(ask, o2, waiter')
  <2>1. Counted(ask, out, waiter)
    BY DEF IInv
  <2>2. ch \notin TakenOf(out, waiter) /\ ch \notin TakenOf(o2, waiter')
    BY <1>1, <1>6 DEF TakenOf
  <2>3. ASSUME NEW c \in Channels \ {ch}
        PROVE  c \in TakenOf(o2, waiter') <=> c \in TakenOf(out, waiter)
    BY <1>4, <1>6 DEF TakenOf
  <2>4. TakenOf(o2, waiter') = TakenOf(out, waiter)
    <3>1. TakenOf(o2, waiter') \subseteq Channels /\ TakenOf(out, waiter) \subseteq Channels
      BY DEF TakenOf
    <3>. QED BY <2>2, <2>3, <3>1
  <2>5. \A c \in TakenOf(out, waiter) : waiter'[c] = waiter[c]
    BY <2>2, <1>4 DEF TakenOf
  <2>6. TimedOutOf(o2, waiter') = TimedOutOf(out, waiter)
    BY <2>4, <2>5 DEF TimedOutOf
  <2>7. ask.pc = "race" => \A c \in Channels : waiter'[c].pc # "off" => c \in ask.launched
    BY <2>1, <1>1, <1>4 DEF Counted
  <2>. QED BY <2>1, <2>4, <2>5, <2>6, <2>7 DEF Counted
<1>13. Recorded(messages, ask.receipts, given) /\ Genuine(ask.verdict, ask.receipts, given)
  BY DEF IInv
<1>. QED BY <1>1, <1>2, <1>7, <1>9, <1>10, <1>11, <1>12, <1>13 DEF IInv

-----------------------------------------------------------------------------
(* Dispatcher.Await *)

\* A caller whose wait is over has nothing left to count.
LEMMA CallerReturns ==
    ASSUME IInv, NEW end \in Ends, NEW v \in Verdict, ask' = Returned(end, v),
           UNCHANGED <<mode, route, registry, messages, given>>,
           waiter' \in [Channels -> Waiter], out' \in Seq(Channels),
           \A ch \in Channels : Waits(ch, waiter'[ch], messages, ask.receipts, registry, given),
           Buffered(out', waiter'), Genuine(v, ask.receipts, given),
           end = "timeout" =>
              \A ch \in AbleOf(messages, ask.receipts, registry) : waiter'[ch].err = "timeout",
           end = "all_failed" =>
              \E ch \in AbleOf(messages, ask.receipts, registry) : waiter'[ch].err = "cancelled"
    PROVE  IInv'
<1>1. ask \in Asking /\ ask.next \in 1..(Len(route) + 1)
  BY DEF IInv, Typed
<1>2. /\ ask' \in Asking /\ ask'.receipts = ask.receipts /\ ask'.next = ask.next
      /\ ask'.verdict = v
  BY <1>1, ReturnedIs
<1>3. Typed'
  BY <1>1, <1>2 DEF IInv, Typed
<1>4. Phase(ask', out', waiter', messages, registry) /\ Counted(ask', out', waiter')
  <2>1. Phase(ask, out, waiter, messages, registry)
    BY DEF IInv
  <2>. QED BY <2>1, <1>1, ReturnedStands
<1>5. Recorded(messages, ask.receipts, given)
  BY DEF IInv
<1>. QED BY <1>2, <1>3, <1>4, <1>5 DEF IInv

\* The wait ends without a verdict and before its time.
LEMMA CallerGivesUp ==
    ASSUME IInv, NEW end \in Ends \ {"timeout", "all_failed"}, ask' = Returned(end, NoVerdict),
           UNCHANGED <<mode, route, registry, messages, given, waiter, out>>
    PROVE  IInv'
<1>1. waiter \in [Channels -> Waiter] /\ out \in Seq(Channels) /\ Buffered(out, waiter)
  BY DEF IInv, Typed
<1>2. \A ch \in Channels : Waits(ch, waiter[ch], messages, ask.receipts, registry, given)
  BY DEF IInv
<1>3. NoVerdict \in Verdict /\ Genuine(NoVerdict, ask.receipts, given)
  BY NoVerdictIs
<1>. QED BY <1>1, <1>2, <1>3, CallerReturns

LEMMA AwaitRefusedHolds == ASSUME IInv, AwaitRefused PROVE IInv'
<1>1. CASE ask' = Returned("no_receipts", NoVerdict)
  <2>1. "no_receipts" \in Ends \ {"timeout", "all_failed"}
    BY DEF Ends
  <2>. QED BY <1>1, <2>1, CallerGivesUp DEF AwaitRefused
<1>2. CASE ask' = Returned("not_supported", NoVerdict)
  <2>1. "not_supported" \in Ends \ {"timeout", "all_failed"}
    BY DEF Ends
  <2>. QED BY <1>2, <2>1, CallerGivesUp DEF AwaitRefused
<1>3. CASE ask' = Returned("unknown_channel", NoVerdict)
  <2>1. "unknown_channel" \in Ends \ {"timeout", "all_failed"}
    BY DEF Ends
  <2>. QED BY <1>3, <2>1, CallerGivesUp DEF AwaitRefused
<1>. QED BY <1>1, <1>2, <1>3 DEF AwaitRefused

\* Before the wait nobody has answered.
LEMMA AwaitingIs ==
    ASSUME IInv, ask.pc = "await"
    PROVE  /\ Idle(out, waiter, ask) /\ Undecided(ask) /\ ask \in Asking
           /\ out = <<>> /\ ask.launched = {} /\ ask.taken = 0 /\ ask.timeouts = 0
           /\ \A ch \in Channels : /\ waiter[ch].pc = "off" /\ waiter[ch].err = "none"
                                   /\ waiter[ch].verdict = NoVerdict
<1>1. Idle(out, waiter, ask) /\ Undecided(ask) /\ ask \in Asking
  BY DEF IInv, Phase, Typed
<1>2. \A ch \in Channels : waiter[ch].pc = "off"
  BY <1>1 DEF Idle
<1>3. \A ch \in Channels : waiter[ch].err = "none" /\ waiter[ch].verdict = NoVerdict
  BY <1>2 DEF IInv, Waits
<1>. QED BY <1>1, <1>2, <1>3 DEF Idle

\* A waiter that starts.
LEMMA StartsWaiting ==
    ASSUME IInv, NEW ch \in Channels, waiter[ch].pc = "off",
           ch \in AbleOf(messages, ask.receipts, registry)
    PROVE  /\ Round(ch) \in Waiter /\ Round(ch).pc = "polling"
           /\ Waits(ch, Round(ch), messages, ask.receipts, registry, given)
<1>1. Typed /\ Recorded(messages, ask.receipts, given)
  BY DEF IInv
<1>2. waiter[ch].verdict = NoVerdict /\ waiter[ch].err = "none"
  BY DEF IInv, Waits
<1>3. Genuine(waiter[ch].verdict, ask.receipts, given)
  BY <1>2, NoVerdictIs
<1>. QED BY <1>1, <1>2, <1>3, RoundIs

LEMMA AwaitSingleHolds ==
    ASSUME IInv, NEW ch \in Channels, AwaitSingle(ch)
    PROVE  IInv'
<1>1. /\ ask.pc = "await" /\ Groups = {ch} /\ Has(ch, "await") /\ AskBecomes("single")
      /\ waiter' = [waiter EXCEPT ![ch] = Round(ch)]
      /\ UNCHANGED <<mode, route, registry, messages, given, out>>
  BY DEF AwaitSingle
<1>2. /\ Idle(out, waiter, ask) /\ Undecided(ask) /\ ask \in Asking
      /\ out = <<>> /\ ask.launched = {} /\ ask.taken = 0 /\ ask.timeouts = 0
      /\ \A c \in Channels : waiter[c].pc = "off"
  BY <1>1, AwaitingIs
<1>3. /\ ask' \in Asking /\ ask'.pc = "single"
      /\ ask'.receipts = ask.receipts /\ ask'.next = ask.next
      /\ ask'.launched = {} /\ ask'.taken = 0 /\ ask'.timeouts = 0
      /\ ask'.ended = ask.ended /\ ask'.verdict = ask.verdict /\ ask'.outcome = ask.outcome
  BY <1>1, <1>2, AskBecomesIs DEF Busy
<1>4. GroupsOf(messages, ask.receipts) = {ch} /\ ch \in AbleOf(messages, ask.receipts, registry)
  BY <1>1, OperatorsAre DEF AbleOf, Has
<1>5. /\ Round(ch) \in Waiter /\ Round(ch).pc = "polling"
      /\ Waits(ch, Round(ch), messages, ask.receipts, registry, given)
  BY <1>2, <1>4, StartsWaiting
<1>6. /\ waiter \in [Channels -> Waiter]
      /\ waiter'[ch] = Round(ch) /\ \A c \in Channels \ {ch} : waiter'[c] = waiter[c]
  BY <1>1 DEF IInv, Typed
<1>7. Typed'
  BY <1>1, <1>3, <1>5, <1>6 DEF IInv, Typed
<1>8. \A c \in Channels : Waits(c, waiter'[c], messages, ask.receipts, registry, given)
  BY <1>5, <1>6 DEF IInv
<1>9. Buffered(out, waiter')
  BY <1>2 DEF Buffered
<1>10. Phase(ask', out, waiter', messages, registry)
  <2>1. Undecided(ask') /\ ask'.outcome = "none" /\ ask'.ended = "none"
    BY <1>1, <1>2, <1>3 DEF Undecided, IInv, Phase
  <2>2. \A c \in Channels : waiter'[c].pc # "off" => GroupsOf(messages, ask'.receipts) = {c}
    BY <1>2, <1>3, <1>4, <1>6
  <2>3. Cardinality(AbleOf(messages, ask'.receipts, registry)) \in Nat
    BY <1>3, GroupsFinite DEF Asking
  <2>. QED BY <1>3, <2>1, <2>2, <2>3 DEF Phase
<1>11. Counted(ask', out, waiter')
  BY <1>3 DEF Counted
<1>12. Recorded(messages, ask.receipts, given) /\ Genuine(ask.verdict, ask.receipts, given)
  BY DEF IInv
<1>. QED BY <1>1, <1>3, <1>7, <1>8, <1>9, <1>10, <1>11, <1>12 DEF IInv

LEMMA SingleReturnsHolds ==
    ASSUME IInv, NEW ch \in Channels, SingleReturns(ch)
    PROVE  IInv'
<1> DEFINE w2 == [waiter[ch] EXCEPT !.pc = "ended"]
           end == IF waiter[ch].err = "none" THEN "verdict" ELSE waiter[ch].err
<1>1. /\ waiter \in [Channels -> Waiter] /\ waiter[ch] \in Waiter /\ waiter[ch].pc = "sending"
      /\ Waits(ch, waiter[ch], messages, ask.receipts, registry, given)
      /\ out \in Seq(Channels) /\ \A i \in DOMAIN out : out[i] \in Channels
      /\ UNCHANGED <<mode, route, registry, messages, given, out>> /\ ask.pc = "single"
  BY DEF IInv, Typed, SingleReturns
<1>2. waiter' = [waiter EXCEPT ![ch] = w2] /\ ask' = Returned(end, waiter[ch].verdict)
  BY DEF SingleReturns
<1>3. /\ w2 \in Waiter /\ w2.pc = "ended" /\ w2.verdict = waiter[ch].verdict
      /\ w2.err = waiter[ch].err /\ w2.standing = waiter[ch].standing
  BY <1>1 DEF Waiter
<1>4. end \in Ends \ {"all_failed"} /\ (end = "timeout" => waiter[ch].err = "timeout")
  BY <1>1 DEF Waiter, Ends
<1> HIDE DEF w2, end
<1>5. waiter' \in [Channels -> Waiter]
      /\ waiter'[ch] = w2 /\ \A c \in Channels \ {ch} : waiter'[c] = waiter[c]
  BY <1>1, <1>2, <1>3
<1>6. Waits(ch, w2, messages, ask.receipts, registry, given)
  BY <1>1, <1>3 DEF Waits
<1>7. \A c \in Channels : Waits(c, waiter'[c], messages, ask.receipts, registry, given)
  BY <1>5, <1>6 DEF IInv
<1>8. Buffered(out, waiter')
  <2>1. \A i \in DOMAIN out : waiter[out[i]].pc = "ended" /\ out[i] # ch
    BY <1>1 DEF IInv, Buffered
  <2>. QED BY <2>1, <1>1, <1>5 DEF IInv, Buffered
<1>9. waiter[ch].verdict \in Verdict /\ Genuine(waiter[ch].verdict, ask.receipts, given)
  BY <1>1 DEF Waiter, Waits
<1>10. ASSUME end = "timeout", NEW c \in AbleOf(messages, ask.receipts, registry)
       PROVE  waiter'[c].err = "timeout"
  <2>1. GroupsOf(messages, ask.receipts) = {ch}
    BY <1>1 DEF IInv, Phase
  <2>2. c = ch
    BY <2>1 DEF AbleOf
  <2>. QED BY <2>2, <1>3, <1>4, <1>5, <1>10
<1>. QED BY <1>1, <1>2, <1>4, <1>5, <1>7, <1>8, <1>9, <1>10, CallerReturns

LEMMA AwaitRaceHolds == ASSUME IInv, AwaitRace PROVE IInv'
<1>1. /\ ask.pc = "await" /\ AskBecomes("race")
      /\ UNCHANGED <<mode, route, registry, messages, given, waiter, out>>
  BY DEF AwaitRace
<1>2. /\ Idle(out, waiter, ask) /\ Undecided(ask) /\ ask \in Asking
      /\ out = <<>> /\ ask.launched = {} /\ ask.taken = 0 /\ ask.timeouts = 0
      /\ \A c \in Channels : waiter[c].pc = "off"
  BY <1>1, AwaitingIs
<1>3. /\ ask' \in Asking /\ ask'.pc = "race"
      /\ ask'.receipts = ask.receipts /\ ask'.next = ask.next
      /\ ask'.launched = {} /\ ask'.taken = 0 /\ ask'.timeouts = 0
      /\ ask'.ended = ask.ended /\ ask'.verdict = ask.verdict /\ ask'.outcome = ask.outcome
  BY <1>1, <1>2, AskBecomesIs DEF Busy
<1>4. Typed'
  BY <1>1, <1>3 DEF IInv, Typed
<1>5. Phase(ask', out, waiter, messages, registry)
  <2>1. Undecided(ask') /\ ask'.outcome = "none" /\ ask'.ended = "none"
    BY <1>1, <1>2, <1>3 DEF Undecided, IInv, Phase
  <2>2. Cardinality(AbleOf(messages, ask'.receipts, registry)) \in Nat
    BY <1>3, GroupsFinite DEF Asking
  <2>. QED BY <1>3, <2>1, <2>2 DEF Phase
<1>6. Counted(ask', out, waiter)
  <2>1. TakenOf(out, waiter) = {} /\ TimedOutOf(out, waiter) = {}
    BY <1>2 DEF TakenOf, TimedOutOf
  <2>2. Cardinality({}) = 0
    BY FS_EmptySet
  <2>. QED BY <1>2, <1>3, <2>1, <2>2 DEF Counted
<1>7. /\ Recorded(messages, ask.receipts, given) /\ Genuine(ask.verdict, ask.receipts, given)
      /\ \A c \in Channels : Waits(c, waiter[c], messages, ask.receipts, registry, given)
      /\ Buffered(out, waiter)
  BY DEF IInv
<1>. QED BY <1>1, <1>3, <1>4, <1>5, <1>6, <1>7 DEF IInv

\* A group whose waiter is started, or who cannot wait.
LEMMA LaunchedHolds ==
    ASSUME IInv, NEW ch \in Channels, ask.pc = "race", ch \in Groups \ ask.launched,
           ask' = [ask EXCEPT !.launched = ask.launched \cup {ch}],
           waiter' = IF Has(ch, "await") THEN [waiter EXCEPT ![ch] = Round(ch)] ELSE waiter,
           UNCHANGED <<mode, route, registry, messages, given, out>>
    PROVE  IInv'
<1>1. /\ ask \in Asking /\ waiter \in [Channels -> Waiter] /\ Counted(ask, out, waiter)
      /\ Phase(ask, out, waiter, messages, registry)
      /\ \A i \in DOMAIN out : out[i] \in Channels
  BY DEF IInv, Typed
<1>2. waiter[ch].pc = "off"
  BY <1>1 DEF Counted
<1>3. /\ ask' \in Asking /\ ask'.pc = "race" /\ ask'.launched = ask.launched \cup {ch}
      /\ ask'.receipts = ask.receipts /\ ask'.next = ask.next
      /\ ask'.taken = ask.taken /\ ask'.timeouts = ask.timeouts
      /\ ask'.ended = ask.ended /\ ask'.verdict = ask.verdict /\ ask'.outcome = ask.outcome
  BY <1>1 DEF Asking
<1>4. /\ waiter' \in [Channels -> Waiter]
      /\ waiter'[ch].pc \in {"off", "polling"}
      /\ Waits(ch, waiter'[ch], messages, ask.receipts, registry, given)
      /\ \A c \in Channels \ {ch} : waiter'[c] = waiter[c]
  <2>1. CASE Has(ch, "await")
    <3>1. ch \in AbleOf(messages, ask.receipts, registry)
      BY <2>1, OperatorsAre DEF Able
    <3>2. /\ Round(ch) \in Waiter /\ Round(ch).pc = "polling"
          /\ Waits(ch, Round(ch), messages, ask.receipts, registry, given)
      BY <1>2, <3>1, StartsWaiting
    <3>3. waiter' = [waiter EXCEPT ![ch] = Round(ch)]
      BY <2>1
    <3>. QED BY <3>2, <3>3, <1>1
  <2>2. CASE ~Has(ch, "await")
    BY <2>2, <1>1, <1>2 DEF IInv
  <2>. QED BY <2>1, <2>2
<1>5. Typed'
  BY <1>3, <1>4 DEF IInv, Typed
<1>6. \A c \in Channels : Waits(c, waiter'[c], messages, ask.receipts, registry, given)
  BY <1>4 DEF IInv
<1>7. Buffered(out, waiter')
  <2>1. \A i \in DOMAIN out : waiter[out[i]].pc = "ended" /\ out[i] # ch
    BY <1>2 DEF IInv, Buffered
  <2>. QED BY <2>1, <1>1, <1>4 DEF IInv, Buffered
<1>8. Phase(ask', out, waiter', messages, registry)
  <2>1. ask'.launched \subseteq GroupsOf(messages, ask'.receipts)
    BY <1>1, <1>3, OperatorsAre DEF Phase
  <2>2. Undecided(ask') /\ ask'.ended = "none" /\ ask'.outcome = "none"
    BY <1>1, <1>3 DEF Phase, Undecided
  <2>3. /\ ask'.timeouts <= ask'.taken
        /\ ask'.taken <= Cardinality(AbleOf(messages, ask'.receipts, registry))
    BY <1>1, <1>3 DEF Phase
  <2>. QED BY <1>3, <2>1, <2>2, <2>3 DEF Phase
<1>9. Counted(ask', out, waiter')
  <2>1. TakenOf(out, waiter') = TakenOf(out, waiter)
    BY <1>2, <1>4 DEF TakenOf
  <2>2. \A c \in TakenOf(out, waiter) : waiter'[c] = waiter[c]
    BY <1>2, <1>4 DEF TakenOf
  <2>3. TimedOutOf(out, waiter') = TimedOutOf(out, waiter)
    BY <2>1, <2>2 DEF TimedOutOf
  <2>4. \A c \in Channels : waiter'[c].pc # "off" => c \in ask'.launched
    BY <1>1, <1>3, <1>4 DEF Counted
  <2>. QED BY <1>1, <1>3, <2>1, <2>2, <2>3, <2>4 DEF Counted
<1>10. Recorded(messages, ask.receipts, given) /\ Genuine(ask.verdict, ask.receipts, given)
  BY DEF IInv
<1>. QED BY <1>3, <1>5, <1>6, <1>7, <1>8, <1>9, <1>10 DEF IInv

LEMMA LaunchHolds ==
    ASSUME IInv, NEW ch \in Channels, Launch(ch)
    PROVE  IInv'
<1>1. CASE ch \in DOMAIN registry
  BY <1>1, LaunchedHolds DEF Launch
<1>2. CASE ch \notin DOMAIN registry
  <2>1. "unknown_channel" \in Ends \ {"timeout", "all_failed"}
    BY DEF Ends
  <2>. QED BY <1>2, <2>1, CallerGivesUp DEF Launch
<1>. QED BY <1>1, <1>2

\* Who has been counted can wait, and so they are finitely many.
LEMMA TakenAreAble ==
    ASSUME IInv
    PROVE  /\ TakenOf(out, waiter) \subseteq Able /\ TimedOutOf(out, waiter) \subseteq Able
           /\ IsFiniteSet(Able) /\ Cardinality(Able) \in Nat
           /\ IsFiniteSet(TakenOf(out, waiter)) /\ IsFiniteSet(TimedOutOf(out, waiter))
<1>1. Able = AbleOf(messages, ask.receipts, registry)
  BY OperatorsAre
<1>2. TakenOf(out, waiter) \in SUBSET Able
  BY <1>1 DEF TakenOf, IInv, Waits
<1>3. TimedOutOf(out, waiter) \in SUBSET Able
  BY <1>2 DEF TimedOutOf
<1>4. IsFiniteSet(Able) /\ Cardinality(Able) \in Nat
  <2>1. ask.receipts \in Seq(Nat)
    BY DEF IInv, Typed, Asking
  <2>. QED BY <1>1, <2>1, GroupsFinite
<1>. QED BY <1>2, <1>3, <1>4, FS_Subset

\* The first of the buffer, and the rest.
LEMMA TakingIs ==
    ASSUME IInv, out # <<>>
    PROVE  /\ Head(out) \in Channels /\ waiter[Head(out)].pc = "ended"
           /\ Tail(out) \in Seq(Channels) /\ Buffered(Tail(out), waiter)
           /\ Head(out) \notin TakenOf(out, waiter)
           /\ TakenOf(Tail(out), waiter) = TakenOf(out, waiter) \cup {Head(out)}
<1> DEFINE o2 == Tail(out)
           h == Head(out)
<1>1. /\ Len(out) \in Nat \ {0} /\ DOMAIN out = 1..Len(out)
      /\ h = out[1] /\ h \in Channels
      /\ o2 \in Seq(Channels) /\ DOMAIN o2 = 1..(Len(out) - 1)
      /\ \A i \in 1..(Len(out) - 1) : o2[i] = out[i + 1]
  BY TailIs DEF IInv, Typed
<1> HIDE DEF o2, h
<1>2. /\ \A i, j \in DOMAIN out : out[i] = out[j] => i = j
      /\ \A i \in DOMAIN out : waiter[out[i]].pc = "ended"
  BY DEF IInv, Buffered
<1>3. 1 \in DOMAIN out /\ \A i \in DOMAIN o2 : i + 1 \in DOMAIN out /\ i + 1 # 1 /\ i \in Nat
  BY <1>1
<1>4. waiter[h].pc = "ended"
  BY <1>1, <1>2, <1>3
<1>5. Buffered(o2, waiter)
  <2>1. ASSUME NEW i \in DOMAIN o2, NEW j \in DOMAIN o2, o2[i] = o2[j] PROVE i = j
    <3>1. out[i + 1] = out[j + 1]
      BY <2>1, <1>1
    <3>2. i + 1 = j + 1
      BY <3>1, <1>2, <1>3
    <3>. QED BY <3>2, <1>3
  <2>2. \A i \in DOMAIN o2 : waiter[o2[i]].pc = "ended"
    BY <1>1, <1>2, <1>3
  <2>. QED BY <2>1, <2>2 DEF Buffered
<1>6. h \in Range(out) /\ h \notin Range(o2)
  <2>1. h \in Range(out)
    BY <1>1, <1>3, RangeIs
  <2>2. ASSUME NEW i \in DOMAIN o2, o2[i] = h PROVE FALSE
    <3>1. out[i + 1] = out[1]
      BY <2>2, <1>1
    <3>. QED BY <3>1, <1>2, <1>3
  <2>. QED BY <2>1, <2>2, RangeIs
<1>7. Range(out) = Range(o2) \cup {h}
  <2>1. ASSUME NEW x \in Range(out) PROVE x \in Range(o2) \cup {h}
    <3>1. PICK i \in DOMAIN out : out[i] = x
      BY <2>1, RangeIs
    <3>2. CASE i = 1
      BY <3>1, <3>2, <1>1
    <3>3. CASE i # 1
      <4>1. i - 1 \in DOMAIN o2 /\ i - 1 \in 1..(Len(out) - 1) /\ (i - 1) + 1 = i
        BY <3>3, <1>1
      <4>2. o2[i - 1] = x
        BY <4>1, <3>1, <1>1
      <4>. QED BY <4>1, <4>2, RangeIs
    <3>. QED BY <3>2, <3>3
  <2>2. ASSUME NEW x \in Range(o2) PROVE x \in Range(out)
    <3>1. PICK i \in DOMAIN o2 : o2[i] = x
      BY <2>2, RangeIs
    <3>2. i + 1 \in DOMAIN out /\ out[i + 1] = x
      BY <3>1, <1>1, <1>3
    <3>. QED BY <3>2, RangeIs
  <2>. QED BY <2>1, <2>2, <1>6
<1>8. h \notin TakenOf(out, waiter)
  BY <1>6 DEF TakenOf
<1>9. TakenOf(o2, waiter) = TakenOf(out, waiter) \cup {h}
  BY <1>1, <1>4, <1>6, <1>7 DEF TakenOf
<1>. QED BY <1>1, <1>4, <1>5, <1>8, <1>9 DEF o2, h

\* One more has answered without a verdict.
LEMMA TakenHolds ==
    ASSUME IInv, Take, waiter[Head(out)].err # "none"
    PROVE  IInv'
<1> DEFINE h == Head(out)
           o2 == Tail(out)
           late == waiter[h].err = "timeout"
           more == IF late THEN 1 ELSE 0
<1>1. /\ ask.pc = "race" /\ ask.taken < Cardinality(Able) /\ out # <<>>
      /\ ask' = [ask EXCEPT !.taken = ask.taken + 1, !.timeouts = ask.timeouts + more]
      /\ out' = o2 /\ UNCHANGED <<mode, route, registry, messages, given, waiter>>
  BY DEF Take, Collecting, Expected
<1>2. /\ h \in Channels /\ waiter[h].pc = "ended"
      /\ o2 \in Seq(Channels) /\ Buffered(o2, waiter)
      /\ h \notin TakenOf(out, waiter)
      /\ TakenOf(o2, waiter) = TakenOf(out, waiter) \cup {h}
  BY <1>1, TakingIs
<1>3. waiter[h].err # "none"
  OBVIOUS
<1> HIDE DEF h, o2
<1>4. /\ ask \in Asking /\ ask.taken \in Nat /\ ask.timeouts \in Nat /\ more \in {0, 1}
      /\ ask.next \in 1..(Len(route) + 1)
      /\ Phase(ask, out, waiter, messages, registry) /\ Counted(ask, out, waiter)
  BY DEF IInv, Typed, Asking
<1>5. more = IF waiter[h].err = "timeout" THEN 1 ELSE 0
  OBVIOUS
<1> HIDE DEF more
<1>6. ask.taken + 1 \in Nat /\ ask.timeouts + more \in Nat
  BY <1>4
<1>7. /\ ask' \in Asking /\ ask'.pc = "race"
      /\ ask'.taken = ask.taken + 1 /\ ask'.timeouts = ask.timeouts + more
      /\ ask'.receipts = ask.receipts /\ ask'.next = ask.next /\ ask'.launched = ask.launched
      /\ ask'.ended = ask.ended /\ ask'.verdict = ask.verdict /\ ask'.outcome = ask.outcome
  BY <1>1, <1>4, <1>6 DEF Asking
<1>8. Typed'
  BY <1>1, <1>2, <1>4, <1>7 DEF IInv, Typed
<1>9. Phase(ask', o2, waiter, messages, registry)
  <2>1. /\ ask'.launched \subseteq GroupsOf(messages, ask'.receipts)
        /\ Undecided(ask') /\ ask'.ended = "none" /\ ask'.outcome = "none"
    BY <1>1, <1>4, <1>7 DEF Phase, Undecided
  <2>2. ask'.timeouts <= ask'.taken
    BY <1>4, <1>7 DEF Phase
  <2>3. ask'.taken <= Cardinality(AbleOf(messages, ask'.receipts, registry))
    <3>1. Able = AbleOf(messages, ask.receipts, registry) /\ Cardinality(Able) \in Nat
      BY OperatorsAre, TakenAreAble
    <3>2. ask.taken + 1 <= Cardinality(Able)
      BY <1>1, <1>4, <3>1
    <3>. QED BY <3>1, <3>2, <1>7
  <2>. QED BY <1>7, <2>1, <2>2, <2>3 DEF Phase
<1>10. Counted(ask', o2, waiter)
  <2>1. /\ ask.taken = Cardinality(TakenOf(out, waiter))
        /\ ask.timeouts = Cardinality(TimedOutOf(out, waiter))
        /\ \A c \in Channels : waiter[c].pc # "off" => c \in ask.launched
        /\ \A c \in TakenOf(out, waiter) : waiter[c].err # "none"
    BY <1>1, <1>4 DEF Counted
  <2>2. IsFiniteSet(TakenOf(out, waiter)) /\ IsFiniteSet(TimedOutOf(out, waiter))
    BY TakenAreAble
  <2>3. Cardinality(TakenOf(o2, waiter)) = ask.taken + 1
    BY <1>2, <2>1, <2>2, FS_AddElement
  <2>4. Cardinality(TimedOutOf(o2, waiter)) = ask.timeouts + more
    <3>1. CASE waiter[h].err = "timeout"
      <4>1. TimedOutOf(o2, waiter) = TimedOutOf(out, waiter) \cup {h}
        BY <3>1, <1>2 DEF TimedOutOf
      <4>2. h \notin TimedOutOf(out, waiter)
        BY <1>2 DEF TimedOutOf
      <4>3. Cardinality(TimedOutOf(o2, waiter)) = ask.timeouts + 1
        BY <4>1, <4>2, <2>1, <2>2, FS_AddElement
      <4>. QED BY <3>1, <4>3, <1>5
    <3>2. CASE waiter[h].err # "timeout"
      <4>1. TimedOutOf(o2, waiter) = TimedOutOf(out, waiter)
        BY <3>2, <1>2 DEF TimedOutOf
      <4>2. more = 0
        BY <3>2, <1>5
      <4>. QED BY <4>1, <4>2, <2>1, <1>4
    <3>. QED BY <3>1, <3>2
  <2>5. \A c \in TakenOf(o2, waiter) : waiter[c].err # "none"
    BY <2>1, <1>2, <1>3
  <2>. QED BY <1>7, <2>1, <2>3, <2>4, <2>5 DEF Counted
<1>11. /\ Recorded(messages, ask.receipts, given) /\ Genuine(ask.verdict, ask.receipts, given)
       /\ \A c \in Channels : Waits(c, waiter[c], messages, ask.receipts, registry, given)
  BY DEF IInv
<1>. QED BY <1>1, <1>2, <1>7, <1>8, <1>9, <1>10, <1>11 DEF IInv

LEMMA TakeHolds == ASSUME IInv, Take PROVE IInv'
<1>1. CASE waiter[Head(out)].err = "none"
  <2> DEFINE v == waiter[Head(out)].verdict
  <2>1. /\ ask' = Returned("verdict", v) /\ out # <<>> /\ out' = Tail(out)
        /\ UNCHANGED <<mode, route, registry, messages, given, waiter>>
    BY <1>1 DEF Take
  <2>2. Head(out) \in Channels /\ Tail(out) \in Seq(Channels) /\ Buffered(Tail(out), waiter)
    BY <2>1, TakingIs
  <2>3. waiter \in [Channels -> Waiter]
    BY DEF IInv, Typed
  <2>4. \A c \in Channels : Waits(c, waiter[c], messages, ask.receipts, registry, given)
    BY DEF IInv
  <2>5. v \in Verdict /\ Genuine(v, ask.receipts, given)
    BY <2>2, <2>3, <2>4 DEF Waiter, Waits
  <2>6. "verdict" \in Ends
    BY DEF Ends
  <2> HIDE DEF v
  <2>. QED BY <2>1, <2>2, <2>3, <2>4, <2>5, <2>6, CallerReturns
<1>2. CASE waiter[Head(out)].err # "none"
  BY <1>2, TakenHolds
<1>. QED BY <1>1, <1>2

LEMMA RaceCancelledHolds == ASSUME IInv, RaceCancelled PROVE IInv'
<1>1. "cancelled" \in Ends \ {"timeout", "all_failed"}
  BY DEF Ends
<1>. QED BY <1>1, CallerGivesUp DEF RaceCancelled

\* As many timeouts as channels able to wait: they are the channels able to wait.  Fewer,
\* when all have answered: one of them was cancelled.
LEMMA RaceEndsHolds == ASSUME IInv, RaceEnds PROVE IInv'
<1>1. CASE AllTimedOut
  <2>1. ask' = Returned("timeout", NoVerdict)
        /\ UNCHANGED <<mode, route, registry, messages, given, waiter, out>>
    BY <1>1 DEF RaceEnds
  <2>2. Cardinality(TimedOutOf(out, waiter)) = Cardinality(Able)
    BY <1>1 DEF RaceEnds, Collecting, AllTimedOut, Expected, IInv, Counted
  <2>3. TimedOutOf(out, waiter) \in SUBSET Able /\ IsFiniteSet(Able)
    BY TakenAreAble
  <2>4. TimedOutOf(out, waiter) = Able
    BY <2>2, <2>3, FS_Subset
  <2>5. \A ch \in AbleOf(messages, ask.receipts, registry) : waiter[ch].err = "timeout"
    BY <2>4, OperatorsAre DEF TimedOutOf
  <2>6. /\ waiter \in [Channels -> Waiter] /\ out \in Seq(Channels) /\ Buffered(out, waiter)
        /\ \A ch \in Channels : Waits(ch, waiter[ch], messages, ask.receipts, registry, given)
    BY DEF IInv, Typed
  <2>7. NoVerdict \in Verdict /\ Genuine(NoVerdict, ask.receipts, given) /\ "timeout" \in Ends
    BY NoVerdictIs DEF Ends
  <2>. QED BY <2>1, <2>5, <2>6, <2>7, CallerReturns
<1>2. CASE ~AllTimedOut
  <2>1. ask' = Returned("all_failed", NoVerdict)
        /\ UNCHANGED <<mode, route, registry, messages, given, waiter, out>>
    BY <1>2 DEF RaceEnds
  <2>2. /\ Cardinality(TakenOf(out, waiter)) = Cardinality(Able)
        /\ Cardinality(TimedOutOf(out, waiter)) # Cardinality(Able)
        /\ \A ch \in TakenOf(out, waiter) : waiter[ch].err # "none"
    BY <1>2 DEF RaceEnds, Collecting, AllTimedOut, Expected, IInv, Counted
  <2>3. TakenOf(out, waiter) \in SUBSET Able /\ IsFiniteSet(Able)
    BY TakenAreAble
  <2>4. TakenOf(out, waiter) = Able
    BY <2>2, <2>3, FS_Subset
  <2>5. PICK ch \in TakenOf(out, waiter) : waiter[ch].err # "timeout"
    <3>1. CASE \A ch \in TakenOf(out, waiter) : waiter[ch].err = "timeout"
      <4>1. TimedOutOf(out, waiter) = TakenOf(out, waiter)
        BY <3>1 DEF TimedOutOf
      <4>. QED BY <4>1, <2>2
    <3>. QED BY <3>1
  <2>6. /\ waiter \in [Channels -> Waiter] /\ out \in Seq(Channels) /\ Buffered(out, waiter)
        /\ \A c \in Channels : Waits(c, waiter[c], messages, ask.receipts, registry, given)
    BY DEF IInv, Typed
  <2>7. waiter[ch].err = "cancelled" /\ ch \in AbleOf(messages, ask.receipts, registry)
    <3>1. waiter[ch] \in Waiter
      BY <2>5, <2>6 DEF TakenOf
    <3>. QED BY <3>1, <2>2, <2>4, <2>5, OperatorsAre DEF Waiter
  <2>8. NoVerdict \in Verdict /\ Genuine(NoVerdict, ask.receipts, given) /\ "all_failed" \in Ends
    BY NoVerdictIs DEF Ends
  <2>. QED BY <2>1, <2>6, <2>7, <2>8, CallerReturns
<1>. QED BY <1>1, <1>2

-----------------------------------------------------------------------------
(* After the wait *)

LEMMA OnVerdictHolds == ASSUME IInv, OnVerdict PROVE IInv'
<1> DEFINE outcome == CASE ask.verdict.choice = "reject" -> "zeroed"
                        [] ask.verdict.choice = "snooze" -> "snoozed"
                        [] OTHER -> "passed"
<1>1. /\ ask.pc = "judge" /\ ask' = [ask EXCEPT !.pc = "done", !.outcome = outcome]
      /\ UNCHANGED <<mode, route, registry, messages, given, waiter, out>>
  BY DEF OnVerdict, Done
<1>2. outcome \in {"zeroed", "snoozed", "passed"}
      /\ (outcome = "zeroed" => ask.verdict.choice = "reject")
  OBVIOUS
<1> HIDE DEF outcome
<1>3. ask \in Asking /\ Phase(ask, out, waiter, messages, registry)
  BY DEF IInv, Typed
<1>4. /\ ask' \in Asking /\ ask'.pc = "done" /\ ask'.outcome = outcome
      /\ ask'.receipts = ask.receipts /\ ask'.next = ask.next /\ ask'.launched = ask.launched
      /\ ask'.taken = ask.taken /\ ask'.timeouts = ask.timeouts
      /\ ask'.ended = ask.ended /\ ask'.verdict = ask.verdict
  BY <1>1, <1>2, <1>3 DEF Asking, Outcomes
<1>5. Typed'
  BY <1>1, <1>4 DEF IInv, Typed
<1>6. Phase(ask', out, waiter, messages, registry)
  <2>1. ask.ended \in {"none", "verdict", "timeout"}
    BY <1>1, <1>3 DEF Phase
  <2>2. /\ ask.ended = "timeout" =>
             \A ch \in AbleOf(messages, ask.receipts, registry) : waiter[ch].err = "timeout"
        /\ ask.ended # "all_failed"
    BY <1>3, <2>1 DEF Phase
  <2>3. /\ ask.launched \subseteq GroupsOf(messages, ask.receipts)
        /\ ask.timeouts <= ask.taken
        /\ ask.taken <= Cardinality(AbleOf(messages, ask.receipts, registry))
    BY <1>3 DEF Phase
  <2>. QED BY <2>1, <2>2, <2>3, <1>2, <1>4 DEF Phase
<1>7. Counted(ask', out, waiter)
  BY <1>4 DEF Counted
<1>8. /\ Recorded(messages, ask.receipts, given) /\ Genuine(ask.verdict, ask.receipts, given)
      /\ \A c \in Channels : Waits(c, waiter[c], messages, ask.receipts, registry, given)
      /\ Buffered(out, waiter)
  BY DEF IInv
<1>. QED BY <1>1, <1>4, <1>5, <1>6, <1>7, <1>8 DEF IInv

LEMMA WorkerLostHolds == ASSUME IInv, WorkerLost PROVE IInv'
<1>1. /\ ask.pc \in Waiting /\ AskBecomes("orphaned")
      /\ waiter' = [ch \in Channels |-> Off] /\ out' = <<>>
      /\ UNCHANGED <<mode, route, registry, messages, given>>
  BY DEF WorkerLost
<1>2. ask \in Asking /\ Phase(ask, out, waiter, messages, registry)
  BY DEF IInv, Typed
<1>3. /\ ask' \in Asking /\ ask'.pc = "orphaned"
      /\ ask'.receipts = ask.receipts /\ ask'.next = ask.next /\ ask'.launched = ask.launched
      /\ ask'.taken = ask.taken /\ ask'.timeouts = ask.timeouts
      /\ ask'.ended = ask.ended /\ ask'.verdict = ask.verdict /\ ask'.outcome = ask.outcome
  BY <1>1, <1>2, AskBecomesIs
<1>4. /\ Off \in Waiter /\ Off.pc = "off" /\ Off.verdict = NoVerdict /\ Off.err = "none"
  BY NoVerdictIs DEF Off, Waiter
<1>5. Typed'
  <2>1. waiter' \in [Channels -> Waiter] /\ out' \in Seq(Channels)
    BY <1>1, <1>4
  <2>. QED BY <2>1, <1>1, <1>3 DEF IInv, Typed
<1>6. \A c \in Channels : Waits(c, waiter'[c], messages, ask.receipts, registry, given)
  BY <1>1, <1>4, OffWaits
<1>7. Buffered(out', waiter')
  BY <1>1 DEF Buffered
<1>8. Phase(ask', out', waiter', messages, registry)
  <2>1. Undecided(ask) /\ ask.outcome = "none"
    BY <1>1, <1>2 DEF Phase, Waiting
  <2>2. Undecided(ask') /\ ask'.outcome = "none" /\ ask'.ended = "none"
    BY <2>1, <1>3 DEF Undecided
  <2>3. /\ ask.launched \subseteq GroupsOf(messages, ask.receipts)
        /\ ask.timeouts <= ask.taken
        /\ ask.taken <= Cardinality(AbleOf(messages, ask.receipts, registry))
    BY <1>2 DEF Phase
  <2>. QED BY <2>2, <2>3, <1>3 DEF Phase
<1>9. Counted(ask', out', waiter')
  BY <1>3 DEF Counted
<1>10. Recorded(messages, ask.receipts, given) /\ Genuine(ask.verdict, ask.receipts, given)
  BY DEF IInv
<1>. QED BY <1>1, <1>3, <1>5, <1>6, <1>7, <1>8, <1>9, <1>10 DEF IInv

LEMMA HeartbeatTimesOutHolds == ASSUME IInv, HeartbeatTimesOut PROVE IInv'
<1>1. "lost" \in Ends \ {"timeout", "all_failed"}
  BY DEF Ends
<1>. QED BY <1>1, CallerGivesUp DEF HeartbeatTimesOut

LEMMA NothingMoves ==
    ASSUME IInv, UNCHANGED <<mode, route, registry, messages, given, ask, waiter, out>>
    PROVE  IInv'
<1>1. Typed'
  BY DEF IInv, Typed
<1>. QED BY <1>1 DEF IInv

-----------------------------------------------------------------------------
(* The theorems *)

LEMMA NextHolds == ASSUME IInv, [Next]_vars PROVE IInv'
<1>1. ASSUME NEW outcome \in {"inner_error", "not_required"}, NoQuestion(outcome) PROVE IInv'
  BY <1>1, NoQuestionHolds
<1>2. CASE AskStep
  <2>1. CASE Ask \/ OnVerdict \/ HeartbeatTimesOut
    BY <2>1, AskHolds, OnVerdictHolds, HeartbeatTimesOutHolds
  <2>2. CASE Notify
    BY <2>2, NoTargetHolds, PostFailsHolds, PostHolds, PostedHolds, StartAwaitHolds DEF Notify
  <2>3. CASE Await
    BY <2>3, AwaitRefusedHolds, AwaitRaceHolds, TakeHolds, RaceCancelledHolds, RaceEndsHolds,
       AwaitSingleHolds, SingleReturnsHolds, LaunchHolds DEF Await
  <2>. QED BY <1>2, <2>1, <2>2, <2>3 DEF AskStep
<1>3. ASSUME NEW ch \in Channels, WaiterStep(ch) \/ Deadline(ch) \/ Redeploy(ch) PROVE IInv'
  <2>1. CASE WaiterStep(ch)
    BY <2>1, ReadHolds, ReadFailsHolds, EndRoundHolds, TickHolds, WaitCancelledHolds, SendHolds
    DEF WaiterStep
  <2>. QED BY <1>3, <2>1, DeadlineHolds, RedeployHolds
<1>4. ASSUME NEW m \in DOMAIN messages, NEW choice \in Offered \cup Ignored, React(m, choice)
      PROVE  IInv'
  BY <1>4, ReactHolds DEF Choice
<1>5. ASSUME NEW m \in DOMAIN messages, NEW i \in DOMAIN messages[m].reactions, Retract(m, i)
      PROVE  IInv'
  BY <1>5, RetractHolds
<1>6. CASE PostTimesOut \/ WorkerLost
  BY <1>6, PostTimesOutHolds, WorkerLostHolds
<1>7. CASE Cancel
  BY <1>7, NothingMoves DEF Cancel
<1>8. CASE UNCHANGED vars
  BY <1>8, NothingMoves DEF vars
<1>. QED BY <1>1, <1>2, <1>3, <1>4, <1>5, <1>6, <1>7, <1>8 DEF Next

\* However the channels race, humans change their minds and workers stop, a waiter's
\* answer is what it read, and the race has counted who has answered
\* (channels.go:124-203, slack.go:169-231).
THEOREM Inductive == Spec => []IInv
<1>1. Init => IInv
  BY InitHolds
<1>2. IInv /\ [Next]_vars => IInv'
  BY NextHolds
<1>. QED BY <1>1, <1>2, PTL DEF Spec

LEMMA TypesHold == ASSUME IInv PROVE TypeOK
<1>1. /\ messages \in Seq(Message) /\ Len(messages) \in Nat /\ DOMAIN messages = 1..Len(messages)
      /\ ask \in Asking /\ ask.next \in 1..(Len(route) + 1) /\ waiter \in [Channels -> Waiter]
      /\ out \in Seq(Channels)
  BY DEF IInv, Typed
<1>2. \A m \in 1..Len(messages) : /\ messages[m].channel \in Channels
                                  /\ Range(messages[m].reactions) \subseteq Offered \cup Ignored
  <2>1. ASSUME NEW m \in 1..Len(messages)
        PROVE  /\ messages[m].channel \in Channels
               /\ Range(messages[m].reactions) \subseteq Offered \cup Ignored
    <3>1. messages[m] \in Message
      BY <1>1
    <3>2. messages[m].channel \in Channels /\ messages[m].reactions \in Seq(Choice)
      BY <3>1 DEF Message
    <3>. QED BY <3>2 DEF Range, Choice
  <2>. QED BY <2>1
<1>3. /\ given \subseteq (1..Len(messages)) \X (Offered \cup Ignored)
      /\ Range(ask.receipts) \subseteq 1..Len(messages)
  BY <1>1 DEF IInv, Recorded, Choice
<1>4. ASSUME NEW v, Genuine(v, ask.receipts, given), v \in Verdict PROVE v \in Verdicts
  <2>1. CASE v = NoVerdict
    BY <2>1 DEF Verdicts
  <2>2. CASE v # NoVerdict
    <3>1. v \in [choice : Choice, message : Nat] /\ v.message \in 1..Len(messages)
      BY <2>2, <1>3, <1>4 DEF Verdict, Genuine
    <3>. QED BY <3>1 DEF Verdicts, Choice
  <2>. QED BY <2>1, <2>2
<1>5. ask.verdict \in Verdicts
  BY <1>1, <1>4 DEF IInv, Asking
<1>6. /\ ask.launched \subseteq Groups
      /\ 0 <= ask.timeouts /\ ask.timeouts <= ask.taken /\ ask.taken <= Cardinality(Able)
  BY <1>1, OperatorsAre DEF IInv, Phase, Asking
<1>7. /\ ask.pc \in Busy \cup {"start", "orphaned", "done"}
      /\ ask.attempt \in 1..MaxPostAttempts /\ ask.ended \in Ends /\ ask.outcome \in Outcomes
  BY <1>1 DEF Asking
<1>8. ASSUME NEW ch \in Channels
      PROVE  /\ waiter[ch].pc \in {"off", "polling", "asleep", "sending", "ended"}
             /\ waiter[ch].verdict \in Verdicts
             /\ waiter[ch].err \in {"none", "timeout", "cancelled"}
  <2>1. waiter[ch] \in Waiter /\ Genuine(waiter[ch].verdict, ask.receipts, given)
    BY <1>1 DEF IInv, Waits
  <2>2. waiter[ch].verdict \in Verdict
    BY <2>1 DEF Waiter
  <2>. QED BY <2>1, <2>2, <1>4 DEF Waiter
<1>9. Range(out) \subseteq Groups
  <2>1. ASSUME NEW i \in DOMAIN out PROVE out[i] \in Groups
    <3>1. out[i] \in Channels /\ waiter[out[i]].pc = "ended"
      BY <1>1 DEF IInv, Buffered
    <3>2. out[i] \in AbleOf(messages, ask.receipts, registry)
      BY <3>1 DEF IInv, Waits
    <3>. QED BY <3>2, OperatorsAre DEF AbleOf
  <2>. QED BY <2>1 DEF Range
<1>. QED BY <1>1, <1>2, <1>3, <1>5, <1>6, <1>7, <1>8, <1>9 DEF TypeOK, Ends, Outcomes

\* A verdict that is acted upon is a choice offered, given by a human on a message of
\* this ask, and what becomes of the output follows it, for any channels, reactions
\* and their order (slack.go:193-219, channels.go:190-193, verdict.go:111-121).
THEOREM VerdictWasGivenHolds == Spec => []VerdictWasGiven
<1>1. IInv => VerdictWasGiven
  BY TypesHold DEF IInv, Genuine, Phase, VerdictWasGiven
<1>. QED BY <1>1, Inductive, PTL

\* Where a channel is able to wait, the end of a race without a verdict is a timeout
\* exactly when every such channel has waited to its deadline, however many there are
\* (channels.go:177-202).
THEOREM SilenceIsUnanimousHolds == Spec => []SilenceIsUnanimous
<1>1. IInv => SilenceIsUnanimous
  BY OperatorsAre DEF IInv, Phase, SilenceIsUnanimous
<1>. QED BY <1>1, Inductive, PTL

\* No reaction that stood from the beginning of a round is missed for the deadline,
\* however many messages the round looks at (slack.go:181-231).
THEOREM ReactionIsNotMissedHolds == Spec => []ReactionIsNotMissed
<1>1. IInv => ReactionIsNotMissed
  BY DEF IInv, Waits, ReactionIsNotMissed
<1>. QED BY <1>1, Inductive, PTL

=============================================================================
