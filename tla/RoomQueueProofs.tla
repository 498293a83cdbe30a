-------------------------- MODULE RoomQueueProofs --------------------------
(***************************************************************************)
(* Proofs about RoomQueue, for any number of senders, subscriptions,       *)
(* messages, retries and breaks, any size of the channel, and both         *)
(* implementations of the queue.                                           *)
(***************************************************************************)
EXTENDS RoomQueue, FiniteSetTheorems, SequenceTheorems, TLAPS

Sorted(q) == \A j, k \in DOMAIN q : j < k => q[j] < q[k]
Before(A, B) == \A i \in A, j \in B : i < j

\* The place a goroutine holds, if it holds one.
InHand(i) == {i} \ {Nothing}

-----------------------------------------------------------------------------
(* Sequences: where things are before and after a step                     *)

LEMMA RangeIn ==
    ASSUME NEW S, NEW q \in Seq(S)
    PROVE  /\ Range(q) \subseteq S
           /\ DOMAIN q = 1 .. Len(q) /\ Len(q) \in Nat
           /\ \A k \in 1 .. Len(q) : q[k] \in Range(q)
           /\ \A x \in Range(q) : \E k \in 1 .. Len(q) : x = q[k]
BY LenProperties DEF Range

LEMMA EmptyRange == Range(<<>>) = {} /\ Sorted(<<>>)
BY DEF Range, Sorted

LEMMA RangeConcat ==
    ASSUME NEW q \in Seq(Nat), NEW r \in Seq(Nat)
    PROVE  /\ q \o r \in Seq(Nat)
           /\ Range(q \o r) = Range(q) \cup Range(r)
<1>1. /\ q \o r \in Seq(Nat) /\ Len(q \o r) = Len(q) + Len(r)
      /\ \A i \in 1 .. Len(q) + Len(r) :
            (q \o r)[i] = IF i <= Len(q) THEN q[i] ELSE r[i - Len(q)]
      BY ConcatProperties
<1>2. Range(q \o r) \subseteq Range(q) \cup Range(r)
  <2>1. ASSUME NEW x \in Range(q \o r) PROVE x \in Range(q) \cup Range(r)
    <3>1. PICK k \in 1 .. Len(q) + Len(r) : x = (q \o r)[k]
          BY <1>1, RangeIn
    <3>2. CASE k <= Len(q)
          BY <1>1, <3>1, <3>2, RangeIn
    <3>3. CASE k > Len(q)
      <4>1. k - Len(q) \in 1 .. Len(r)
            BY <3>1, <3>3, RangeIn
      <4> QED BY <1>1, <3>1, <3>3, <4>1, RangeIn
    <3> QED BY <3>1, <3>2, <3>3, RangeIn
  <2> QED BY <2>1
<1>3. Range(q) \subseteq Range(q \o r)
  <2>1. ASSUME NEW k \in 1 .. Len(q) PROVE q[k] \in Range(q \o r)
    <3>1. k \in 1 .. Len(q \o r) /\ (q \o r)[k] = q[k]
          BY <1>1, <2>1, RangeIn
    <3> QED BY <1>1, <3>1, RangeIn
  <2> QED BY <2>1, RangeIn
<1>4. Range(r) \subseteq Range(q \o r)
  <2>1. ASSUME NEW k \in 1 .. Len(r) PROVE r[k] \in Range(q \o r)
    <3>1. Len(q) + k \in 1 .. Len(q \o r) /\ (q \o r)[Len(q) + k] = r[k]
          BY <1>1, <2>1, RangeIn
    <3> QED BY <1>1, <3>1, RangeIn
  <2> QED BY <2>1, RangeIn
<1> QED BY <1>1, <1>2, <1>3, <1>4

LEMMA SortedConcat ==
    ASSUME NEW q \in Seq(Nat), NEW r \in Seq(Nat),
           Sorted(q), Sorted(r), Before(Range(q), Range(r))
    PROVE  Sorted(q \o r)
<1>1. /\ q \o r \in Seq(Nat) /\ Len(q \o r) = Len(q) + Len(r)
      /\ \A i \in 1 .. Len(q) + Len(r) :
            (q \o r)[i] = IF i <= Len(q) THEN q[i] ELSE r[i - Len(q)]
      BY ConcatProperties
<1>2. /\ DOMAIN (q \o r) = 1 .. Len(q) + Len(r)
      /\ DOMAIN q = 1 .. Len(q) /\ DOMAIN r = 1 .. Len(r)
      /\ Len(q) \in Nat /\ Len(r) \in Nat
      BY <1>1, RangeIn
<1>3. ASSUME NEW j \in 1 .. Len(q) + Len(r), NEW k \in 1 .. Len(q) + Len(r), j < k
      PROVE  (q \o r)[j] < (q \o r)[k]
  <2>1. CASE k <= Len(q)
    <3>1. j \in 1 .. Len(q) /\ k \in 1 .. Len(q)
          BY <1>2, <1>3, <2>1
    <3>2. (q \o r)[j] = q[j] /\ (q \o r)[k] = q[k]
          BY <1>1, <1>2, <3>1
    <3>3. q[j] < q[k]
          BY <1>2, <1>3, <3>1 DEF Sorted
    <3> QED BY <3>2, <3>3
  <2>2. CASE j > Len(q)
    <3>1. j - Len(q) \in 1 .. Len(r) /\ k - Len(q) \in 1 .. Len(r) /\ j - Len(q) < k - Len(q)
          BY <1>2, <1>3, <2>2
    <3>2. (q \o r)[j] = r[j - Len(q)] /\ (q \o r)[k] = r[k - Len(q)]
          BY <1>1, <1>2, <1>3, <2>2
    <3>3. r[j - Len(q)] < r[k - Len(q)]
          BY <1>2, <3>1 DEF Sorted
    <3> QED BY <3>2, <3>3
  <2>3. CASE j <= Len(q) /\ k > Len(q)
    <3>1. k - Len(q) \in 1 .. Len(r) /\ j \in 1 .. Len(q)
          BY <1>2, <1>3, <2>3
    <3>2. q[j] \in Range(q) /\ r[k - Len(q)] \in Range(r)
          BY <3>1, RangeIn
    <3>3. (q \o r)[j] = q[j] /\ (q \o r)[k] = r[k - Len(q)]
          BY <1>1, <1>2, <1>3, <2>3
    <3> QED BY <3>2, <3>3 DEF Before
  <2> QED BY <1>2, <2>1, <2>2, <2>3
<1> QED BY <1>2, <1>3 DEF Sorted

LEMMA AppendLast ==
    ASSUME NEW S, NEW q \in Seq(S), NEW x \in S
    PROVE  /\ Append(q, x) \in Seq(S)
           /\ Range(Append(q, x)) = Range(q) \cup {x}
           /\ Len(Append(q, x)) = Len(q) + 1
           /\ DOMAIN Append(q, x) = 1 .. Len(q) + 1
           /\ Append(q, x)[Len(q) + 1] = x
           /\ \A k \in 1 .. Len(q) : Append(q, x)[k] = q[k]
<1>1. /\ Append(q, x) \in Seq(S)
      /\ Len(Append(q, x)) = Len(q) + 1
      /\ Append(q, x)[Len(q) + 1] = x
      /\ \A k \in 1 .. Len(q) : Append(q, x)[k] = q[k]
      BY AppendProperties
<1>2. DOMAIN Append(q, x) = 1 .. Len(q) + 1 /\ Len(q) \in Nat
      BY <1>1, RangeIn
<1>3. Range(Append(q, x)) = Range(q) \cup {x}
  <2>1. ASSUME NEW y \in Range(Append(q, x)) PROVE y \in Range(q) \cup {x}
    <3>1. PICK k \in 1 .. Len(q) + 1 : y = Append(q, x)[k]
          BY <1>2 DEF Range
    <3>2. k = Len(q) + 1 \/ k \in 1 .. Len(q)
          BY <1>2, <3>1
    <3> QED BY <1>1, <3>1, <3>2, RangeIn
  <2>2. \A k \in 1 .. Len(q) + 1 : Append(q, x)[k] \in Range(Append(q, x))
        BY <1>2 DEF Range
  <2>3. Len(q) + 1 \in 1 .. Len(q) + 1 /\ \A k \in 1 .. Len(q) : k \in 1 .. Len(q) + 1
        BY <1>2
  <2>4. Range(q) \cup {x} \subseteq Range(Append(q, x))
        BY <1>1, <2>2, <2>3, RangeIn
  <2> QED BY <2>1, <2>4
<1> QED BY <1>1, <1>2, <1>3

LEMMA SortedAppend ==
    ASSUME NEW q \in Seq(Nat), NEW x \in Nat, Sorted(q), Before(Range(q), {x})
    PROVE  Sorted(Append(q, x))
<1>1. /\ DOMAIN Append(q, x) = 1 .. Len(q) + 1 /\ DOMAIN q = 1 .. Len(q) /\ Len(q) \in Nat
      /\ Append(q, x)[Len(q) + 1] = x
      /\ \A k \in 1 .. Len(q) : Append(q, x)[k] = q[k] /\ q[k] \in Range(q)
      BY AppendLast, RangeIn
<1>2. ASSUME NEW j \in 1 .. Len(q) + 1, NEW k \in 1 .. Len(q) + 1, j < k
      PROVE  Append(q, x)[j] < Append(q, x)[k]
  <2>1. CASE k = Len(q) + 1
    <3>1. j \in 1 .. Len(q)
          BY <1>1, <1>2, <2>1
    <3> QED BY <1>1, <2>1, <3>1 DEF Before
  <2>2. CASE k # Len(q) + 1
    <3>1. j \in 1 .. Len(q) /\ k \in 1 .. Len(q)
          BY <1>1, <1>2, <2>2
    <3> QED BY <1>1, <1>2, <3>1 DEF Sorted
  <2> QED BY <2>1, <2>2
<1> QED BY <1>1, <1>2 DEF Sorted

\* The first of a sorted sequence is smaller than the others.
LEMMA FirstOut ==
    ASSUME NEW S \in SUBSET Nat, NEW q \in Seq(S), q # <<>>
    PROVE  /\ Head(q) \in S /\ Tail(q) \in Seq(S) /\ Len(Tail(q)) < Len(q)
           /\ Range(q) = {Head(q)} \cup Range(Tail(q))
           /\ Sorted(q) => Sorted(Tail(q)) /\ Before({Head(q)}, Range(Tail(q)))
<1>1. /\ Head(q) \in S /\ Tail(q) \in Seq(S) /\ Len(Tail(q)) = Len(q) - 1
      /\ \A i \in 1 .. Len(Tail(q)) : Tail(q)[i] = q[i + 1]
      /\ Head(q) = q[1]
      BY HeadTailProperties
<1>2. /\ Len(q) \in Nat /\ Len(q) > 0
      /\ DOMAIN q = 1 .. Len(q) /\ DOMAIN Tail(q) = 1 .. Len(q) - 1
      BY <1>1, RangeIn, EmptySeq
<1>3. Range(q) = {Head(q)} \cup Range(Tail(q))
  <2>1. ASSUME NEW x \in Range(q) PROVE x = Head(q) \/ x \in Range(Tail(q))
    <3>1. PICK k \in 1 .. Len(q) : x = q[k]
          BY RangeIn
    <3>2. CASE k = 1
          BY <1>1, <3>1, <3>2
    <3>3. CASE k # 1
      <4>1. k - 1 \in 1 .. Len(Tail(q)) /\ (k - 1) + 1 = k
            BY <1>1, <1>2, <3>1, <3>3
      <4>2. Tail(q)[k - 1] = x
            BY <1>1, <3>1, <4>1
      <4> QED BY <1>1, <4>1, <4>2, RangeIn
    <3> QED BY <3>2, <3>3
  <2>2. Head(q) \in Range(q)
        BY <1>1, <1>2 DEF Range
  <2>3. ASSUME NEW x \in Range(Tail(q)) PROVE x \in Range(q)
    <3>1. PICK k \in 1 .. Len(Tail(q)) : x = Tail(q)[k]
          BY <1>1, RangeIn
    <3>2. k + 1 \in 1 .. Len(q) /\ x = q[k + 1]
          BY <1>1, <1>2, <3>1
    <3> QED BY <3>2, RangeIn
  <2> QED BY <2>1, <2>2, <2>3
<1>4. ASSUME Sorted(q) PROVE Sorted(Tail(q)) /\ Before({Head(q)}, Range(Tail(q)))
  <2>1. Sorted(Tail(q))
        BY <1>1, <1>2, <1>4 DEF Sorted
  <2>2. ASSUME NEW x \in Range(Tail(q)) PROVE Head(q) < x
    <3>1. PICK k \in 1 .. Len(Tail(q)) : x = Tail(q)[k]
          BY <1>1, RangeIn
    <3>2. k + 1 \in 1 .. Len(q) /\ 1 \in 1 .. Len(q) /\ 1 < k + 1 /\ x = q[k + 1]
          BY <1>1, <1>2, <3>1
    <3> QED BY <1>1, <1>2, <1>4, <3>2 DEF Sorted
  <2> QED BY <2>1, <2>2 DEF Before
<1> QED BY <1>1, <1>2, <1>3, <1>4

\* What a broken connection leaves in the reader's hand, and what it loses.
LEMMA FirstKept ==
    ASSUME NEW S \in SUBSET Nat, NEW q \in Seq(S), NEW h \in 0 .. 1, h <= Len(q)
    PROVE  LET kept == SubSeq(q, 1, h)
               lost == {q[k] : k \in h + 1 .. Len(q)}
           IN  /\ kept \in Seq(S) /\ Range(q) = Range(kept) \cup lost
               /\ lost \subseteq Range(q)
               /\ Sorted(q) => Sorted(kept)
<1> DEFINE kept == SubSeq(q, 1, h)
<1>1. DOMAIN q = 1 .. Len(q) /\ Len(q) \in Nat /\ \A k \in 1 .. Len(q) : q[k] \in S
      BY RangeIn, ElementOfSeq
<1>2. /\ kept \in Seq(S) /\ Len(kept) = h
      /\ \A i \in 1 .. h : kept[i] = q[i]
  <2>1. \A i \in 1 .. h : q[i] \in S
        BY <1>1
  <2>2. /\ SubSeq(q, 1, h) \in Seq(S)
        /\ Len(SubSeq(q, 1, h)) = IF 1 <= h THEN h - 1 + 1 ELSE 0
        /\ \A i \in 1 .. h - 1 + 1 : SubSeq(q, 1, h)[i] = q[1 + i - 1]
        BY <2>1, SubSeqProperties
  <2> QED BY <2>2
<1>3. DOMAIN kept = 1 .. h
      BY <1>2, RangeIn
<1>4. Range(kept) = {q[k] : k \in 1 .. h}
      BY <1>2, <1>3 DEF Range
<1>5. Range(q) = {q[k] : k \in 1 .. Len(q)}
      BY <1>1 DEF Range
<1>6. 1 .. Len(q) = (1 .. h) \cup (h + 1 .. Len(q))
      BY <1>1
<1>7. Sorted(q) => Sorted(kept)
      BY <1>1, <1>2, <1>3 DEF Sorted
<1> QED BY <1>2, <1>4, <1>5, <1>6, <1>7

-----------------------------------------------------------------------------
(* The invariant                                                           *)

\* What is on its way to the room of s, as a set.
PipeSet(s) == InHand(relay[s]) \cup InHand(funnel[s]) \cup Range(channel[s]) \cup Range(socket[s])

\* Everything a goroutine or a buffer holds is behind what is nearer to the room.
Ordered(s) ==
    /\ Sorted(channel[s]) /\ Sorted(socket[s])
    /\ Before(Range(channel[s]), Range(socket[s]))
    /\ Before(InHand(funnel[s]), Range(channel[s]) \cup Range(socket[s]))
    /\ Before(InHand(relay[s]), InHand(funnel[s]) \cup Range(channel[s]) \cup Range(socket[s]))
    /\ Before(got[s], PipeSet(s))

PipeInv == \A s \in Subs : Ordered(s)

\* Who waits has sent something.
CallInv == \A p \in Senders : call[p] = "waiting" => sent[p] > 0

\* The memory queue has no connections.
MemoryInv ==
    backend = "memory" =>
        wire = {} /\ \A s \in Subs : channel[s] = <<>> /\ socket[s] = <<>>

\* Conserved, without counting.
PlaceInv ==
    /\ backend = "redis" =>
         \A s \in Subs : \A i \in DOMAIN log :
           room[log[i].from] = room[s] <=> i \in got[s] \cup PipeSet(s) \cup missed[s]
    /\ backend = "memory" =>
         \A i \in DOMAIN log :
           \E t \in Subs : \A s \in Subs : i \in got[s] \cup PipeSet(s) <=> s = t

\* An attempt on the wire is the one its sender waits for, or was given up.
WireInv ==
    \A a \in wire :
        /\ a.n <= sent[a.from]
        /\ \/ [from |-> a.from, n |-> a.n] \in gaveUp
           \/ call[a.from] = "waiting" /\ ~answer[a.from] /\ a = Current(a.from)

\* Nobody's message is in the log before it was sent.
LogInv == \A i \in DOMAIN log : log[i].n <= sent[log[i].from]

\* Whoever waits for its first attempt has the answer if and only if the message
\* is in the log; the memory queue has no answers.
AnswerInv ==
    \A p \in Senders : call[p] = "waiting" =>
        /\ Msg(p) \notin gaveUp => (answer[p] <=> \E i \in DOMAIN log : log[i] = Msg(p))
        /\ backend = "memory" => ~answer[p]

\* A call of Publish that has returned, and gave up nothing, left its message in
\* the log.
ReturnedIsAccepted ==
    \A p \in Senders : \A n \in 1 .. sent[p] :
        /\ n = sent[p] => call[p] = "idle"
        /\ [from |-> p, n |-> n] \notin gaveUp
        => \E i \in DOMAIN log : log[i] = [from |-> p, n |-> n]

QueueInv ==
    TypeOK /\ CallInv /\ PipeInv /\ MemoryInv /\ PlaceInv /\ WireInv /\ LogInv
    /\ AnswerInv /\ ReturnedIsAccepted /\ LateOnlyAfterGivingUp

-----------------------------------------------------------------------------
(* What the invariant says of Pipe                                         *)

LEMMA HeldIs ==
    ASSUME NEW i \in Nat
    PROVE  Held(i) \in Seq(Nat) /\ Range(Held(i)) = InHand(i) /\ Sorted(Held(i))
<1>1. CASE i = Nothing
      BY <1>1, EmptyRange, EmptySeq DEF Held, InHand
<1>2. CASE i # Nothing
  <2>1. Held(i) = <<i>> /\ <<i>> \in Seq(Nat) /\ Len(<<i>>) = 1 /\ <<i>>[1] = i
        BY <1>2 DEF Held
  <2>2. DOMAIN <<i>> = {1}
        OBVIOUS
  <2> QED BY <1>2, <2>1, <2>2 DEF Range, Sorted, InHand
<1> QED BY <1>1, <1>2

LEMMA PipeRange ==
    ASSUME NEW r \in Nat, NEW f \in Nat, NEW c \in Seq(Nat), NEW q \in Seq(Nat)
    PROVE  Range(Held(r) \o Held(f) \o c \o q)
             = InHand(r) \cup InHand(f) \cup Range(c) \cup Range(q)
<1>1. Held(r) \in Seq(Nat) /\ Held(f) \in Seq(Nat)
      BY HeldIs
<1>2. /\ Held(r) \o Held(f) \in Seq(Nat)
      /\ Range(Held(r) \o Held(f)) = Range(Held(r)) \cup Range(Held(f))
      BY <1>1, RangeConcat
<1>3. /\ Held(r) \o Held(f) \o c \in Seq(Nat)
      /\ Range(Held(r) \o Held(f) \o c) = Range(Held(r) \o Held(f)) \cup Range(c)
      BY <1>2, RangeConcat
<1>4. Range(Held(r) \o Held(f) \o c \o q) = Range(Held(r) \o Held(f) \o c) \cup Range(q)
      BY <1>3, RangeConcat
<1>5. Range(Held(r)) = InHand(r) /\ Range(Held(f)) = InHand(f)
      BY HeldIs
<1> QED BY <1>2, <1>3, <1>4, <1>5

LEMMA PipeSorted ==
    ASSUME NEW r \in Nat, NEW f \in Nat, NEW c \in Seq(Nat), NEW q \in Seq(Nat),
           Sorted(c), Sorted(q), Before(Range(c), Range(q)),
           Before(InHand(f), Range(c) \cup Range(q)),
           Before(InHand(r), InHand(f) \cup Range(c) \cup Range(q))
    PROVE  Sorted(Held(r) \o Held(f) \o c \o q)
<1>1. /\ Held(r) \in Seq(Nat) /\ Range(Held(r)) = InHand(r) /\ Sorted(Held(r))
      /\ Held(f) \in Seq(Nat) /\ Range(Held(f)) = InHand(f) /\ Sorted(Held(f))
      BY HeldIs
<1>2. /\ Held(r) \o Held(f) \in Seq(Nat)
      /\ Range(Held(r) \o Held(f)) = InHand(r) \cup InHand(f)
      BY <1>1, RangeConcat
<1>3. /\ Held(r) \o Held(f) \o c \in Seq(Nat)
      /\ Range(Held(r) \o Held(f) \o c) = InHand(r) \cup InHand(f) \cup Range(c)
      BY <1>2, RangeConcat
<1>4. Sorted(Held(r) \o Held(f))
  <2>1. Before(Range(Held(r)), Range(Held(f)))
        BY <1>1 DEF Before
  <2> QED BY <1>1, <2>1, SortedConcat
<1>5. Sorted(Held(r) \o Held(f) \o c)
  <2>1. Before(Range(Held(r) \o Held(f)), Range(c))
        BY <1>2 DEF Before
  <2> QED BY <1>2, <1>4, <2>1, SortedConcat
<1>6. Before(Range(Held(r) \o Held(f) \o c), Range(q))
      BY <1>3 DEF Before
<1> QED BY <1>3, <1>5, <1>6, SortedConcat

\* The types that matter for a subscription, in a form the solvers like.
SubTypes(s) ==
    /\ relay[s] \in Nat /\ funnel[s] \in Nat
    /\ channel[s] \in Seq(Nat) /\ socket[s] \in Seq(Nat)
    /\ Len(log) \in Nat /\ DOMAIN log = 1 .. Len(log)
    /\ PipeSet(s) \subseteq DOMAIN log /\ got[s] \subseteq DOMAIN log
    /\ missed[s] \subseteq DOMAIN log

LEMMA SubTypesHold == TypeOK => \A s \in Subs : SubTypes(s)
<1> SUFFICES ASSUME TypeOK, NEW s \in Subs PROVE SubTypes(s)
    OBVIOUS
<1>1. Len(log) \in Nat /\ DOMAIN log = 1 .. Len(log) /\ DOMAIN log \subseteq Nat
      BY RangeIn DEF TypeOK
<1>2. /\ relay[s] \in {Nothing} \cup DOMAIN log /\ funnel[s] \in {Nothing} \cup DOMAIN log
      /\ socket[s] \in Seq(DOMAIN log) /\ channel[s] \in Seq(DOMAIN log)
      /\ got[s] \subseteq DOMAIN log /\ missed[s] \subseteq DOMAIN log
      BY DEF TypeOK
<1>3. socket[s] \in Seq(Nat) /\ channel[s] \in Seq(Nat)
      BY <1>1, <1>2, SeqMonotonic
<1>4. Range(socket[s]) \subseteq DOMAIN log /\ Range(channel[s]) \subseteq DOMAIN log
      BY <1>2, RangeIn
<1> QED BY <1>1, <1>2, <1>3, <1>4 DEF SubTypes, PipeSet, InHand, Nothing

LEMMA InPipeIs == TypeOK => \A s \in Subs : InPipe(s) = PipeSet(s)
<1> SUFFICES ASSUME TypeOK, NEW s \in Subs PROVE Range(Pipe(s)) = PipeSet(s)
    BY DEF InPipe
<1>1. /\ relay[s] \in Nat /\ funnel[s] \in Nat
      /\ channel[s] \in Seq(Nat) /\ socket[s] \in Seq(Nat)
      BY SubTypesHold DEF SubTypes
<1> QED BY <1>1, PipeRange DEF Pipe, PipeSet

LEMMA InOrderHolds == TypeOK /\ PipeInv => InOrder
<1> SUFFICES ASSUME TypeOK, PipeInv PROVE InOrder
    OBVIOUS
<1>1. \A s \in Subs : Sorted(Pipe(s))
  <2> SUFFICES ASSUME NEW s \in Subs PROVE Sorted(Pipe(s))
      OBVIOUS
  <2>1. /\ relay[s] \in Nat /\ funnel[s] \in Nat
        /\ channel[s] \in Seq(Nat) /\ socket[s] \in Seq(Nat)
        BY SubTypesHold DEF SubTypes
  <2> QED BY <2>1, PipeSorted DEF Pipe, PipeInv, Ordered
<1>2. \A s \in Subs : Before(got[s], InPipe(s))
      BY InPipeIs DEF PipeInv, Ordered
<1> QED BY <1>1, <1>2 DEF InOrder, Sorted, Before

LEMMA ConservedHolds == TypeOK /\ PlaceInv => Conserved
<1> SUFFICES ASSUME TypeOK, PlaceInv PROVE Conserved
    OBVIOUS
<1>1. \A s \in Subs : InPipe(s) = PipeSet(s)
      BY InPipeIs
<1>2. ASSUME backend = "memory", NEW i \in DOMAIN log
      PROVE  Cardinality({s \in Subs : i \in got[s] \cup InPipe(s)}) = 1
  <2>1. PICK t \in Subs : \A s \in Subs : i \in got[s] \cup PipeSet(s) <=> s = t
        BY <1>2 DEF PlaceInv
  <2>2. {s \in Subs : i \in got[s] \cup InPipe(s)} = {t}
        BY <1>1, <2>1
  <2> QED BY <2>2, FS_Singleton
<1> QED BY <1>1, <1>2 DEF PlaceInv, Conserved

-----------------------------------------------------------------------------
(* Types                                                                   *)

LEMMA SettingIs ==
    TypeOK => /\ setting.backend \in {"redis", "memory"} /\ MaxRetries \in Nat
              /\ setting.budget \in [Senders -> 0 .. MaxSent]
              /\ setting.breaks \in [Subs -> Nat]
              /\ setting \in Setting
BY SettingsAssumption DEF TypeOK, Setting, MaxRetries

LEMMA LogIs ==
    TypeOK => /\ DOMAIN log = 1 .. Len(log) /\ Len(log) \in Nat
              /\ \A i \in DOMAIN log : log[i].from \in Senders /\ log[i].n \in 1 .. MaxSent
<1> SUFFICES ASSUME TypeOK PROVE /\ DOMAIN log = 1 .. Len(log) /\ Len(log) \in Nat
                                 /\ \A i \in DOMAIN log : log[i] \in Message
    BY DEF Message
<1>1. log \in Seq(Message)
      BY DEF TypeOK
<1> QED BY <1>1, RangeIn, ElementOfSeq

\* The log grows at its end; what refers to a place goes on doing so.
LEMMA LogGrows ==
    ASSUME TypeOK, NEW msg \in Message, log' = Append(log, msg)
    PROVE  /\ log' \in Seq(Message)
           /\ Len(log) \in Nat /\ DOMAIN log = 1 .. Len(log)
           /\ DOMAIN log' = 1 .. Len(log) + 1
           /\ DOMAIN log \subseteq DOMAIN log'
           /\ Len(log) + 1 \in DOMAIN log' /\ Len(log) + 1 \notin DOMAIN log
           /\ DOMAIN log' = DOMAIN log \cup {Len(log) + 1}
           /\ log'[Len(log) + 1] = msg
           /\ \A i \in DOMAIN log : log'[i] = log[i]
           /\ \A q \in Seq(DOMAIN log) : q \in Seq(DOMAIN log')
<1>1. log \in Seq(Message)
      BY DEF TypeOK
<1>2. Len(log) \in Nat /\ DOMAIN log = 1 .. Len(log)
      BY <1>1, RangeIn
<1>3. /\ log' \in Seq(Message) /\ DOMAIN log' = 1 .. Len(log) + 1
      /\ log'[Len(log) + 1] = msg /\ \A i \in 1 .. Len(log) : log'[i] = log[i]
      BY <1>1, AppendLast
<1>4. DOMAIN log \subseteq DOMAIN log'
      BY <1>2, <1>3
<1>5. \A q \in Seq(DOMAIN log) : q \in Seq(DOMAIN log')
      BY <1>4, SeqMonotonic
<1> QED BY <1>2, <1>3, <1>4, <1>5

\* What the callers change, for their types.
LEMMA SameSetting ==
    ASSUME TypeOK, UNCHANGED <<setting, log, linkVars, pipeVars>>,
           call' \in [Senders -> {"idle", "waiting"}], sent' \in [Senders -> 0 .. MaxSent],
           \A q \in Senders : sent'[q] <= setting.budget[q],
           try' \in [Senders -> 0 .. MaxRetries], answer' \in [Senders -> BOOLEAN],
           wire' \subseteq Attempt, gaveUp' \subseteq Message,
           \A q \in Senders : call'[q] = "waiting" => sent'[q] > 0
    PROVE  TypeOK' /\ CallInv'
BY DEF TypeOK, CallInv, linkVars, pipeVars, Attempt, MaxRetries

LEMMA CallerTypes ==
    ASSUME TypeOK, CallInv, NEW p \in Senders,
           Publish(p) \/ Return(p) \/ GiveUp(p) \/ PublishFails(p)
    PROVE  TypeOK' /\ CallInv'
<1>1. /\ call \in [Senders -> {"idle", "waiting"}] /\ sent \in [Senders -> 0 .. MaxSent]
      /\ \A q \in Senders : sent[q] <= setting.budget[q]
      /\ try \in [Senders -> 0 .. MaxRetries] /\ answer \in [Senders -> BOOLEAN]
      /\ wire \subseteq Attempt /\ gaveUp \subseteq Message
      /\ MaxRetries \in Nat /\ MaxSent \in Nat
      /\ setting.budget \in [Senders -> 0 .. MaxSent]
      /\ \A q \in Senders : call[q] = "waiting" => sent[q] > 0
      BY SettingIs, SizesAssumption DEF TypeOK, CallInv
<1>2. UNCHANGED <<setting, log, linkVars, pipeVars>>
      BY DEF Publish, Return, GiveUp, PublishFails
<1>3. CASE Publish(p)
  <2>1. sent[p] + 1 \in 1 .. MaxSent /\ sent[p] + 1 <= setting.budget[p]
        BY <1>1, <1>3 DEF Publish
  <2>2. wire' \subseteq Attempt
        BY <1>1, <1>3, <2>1 DEF Publish, Attempt
  <2>3. /\ call' \in [Senders -> {"idle", "waiting"}] /\ sent' \in [Senders -> 0 .. MaxSent]
        /\ try' \in [Senders -> 0 .. MaxRetries] /\ answer' \in [Senders -> BOOLEAN]
        /\ gaveUp' \subseteq Message
        BY <1>1, <1>3, <2>1 DEF Publish
  <2>4. /\ \A q \in Senders : sent'[q] <= setting.budget[q]
        /\ \A q \in Senders : call'[q] = "waiting" => sent'[q] > 0
        BY <1>1, <1>3, <2>1 DEF Publish
  <2> QED BY <1>2, <2>2, <2>3, <2>4, SameSetting
<1>4. ASSUME sent' = sent, wire' \subseteq Attempt, gaveUp' \subseteq Message,
             call' \in [Senders -> {"idle", "waiting"}], try' \in [Senders -> 0 .. MaxRetries],
             answer' \in [Senders -> BOOLEAN],
             \A q \in Senders : call'[q] = "waiting" => call[q] = "waiting"
      PROVE  TypeOK' /\ CallInv'
      BY <1>1, <1>2, <1>4, SameSetting
<1>5. CASE Return(p)
      BY <1>1, <1>4, <1>5 DEF Return
<1>6. CASE GiveUp(p)
  <2>1. sent[p] \in 1 .. MaxSent /\ try[p] + 1 \in 0 .. MaxRetries
        BY <1>1, <1>6 DEF GiveUp
  <2>2. wire' \subseteq Attempt
        BY <1>1, <1>6, <2>1 DEF GiveUp, Attempt, Current
  <2>3. gaveUp' \subseteq Message
        BY <1>1, <1>6, <2>1 DEF GiveUp, Msg, Message
  <2>4. try' \in [Senders -> 0 .. MaxRetries] /\ answer' \in [Senders -> BOOLEAN]
        BY <1>1, <1>6, <2>1 DEF GiveUp
  <2> QED BY <1>1, <1>4, <1>6, <2>2, <2>3, <2>4 DEF GiveUp
<1>7. CASE PublishFails(p)
  <2>1. gaveUp' \subseteq Message
        BY <1>1, <1>7 DEF PublishFails, Msg, Message
  <2> QED BY <1>1, <1>4, <1>7, <2>1 DEF PublishFails
<1> QED BY <1>3, <1>5, <1>6, <1>7

LEMMA LinkTypes ==
    ASSUME TypeOK, CallInv, NEW s \in Subs,
           Subscribe(s) \/ Break(s) \/ Resubscribe(s) \/ Fill(s) \/ Drop(s)
    PROVE  TypeOK' /\ CallInv'
<1>1. /\ DOMAIN log \subseteq Nat /\ socket[s] \in Seq(DOMAIN log) /\ channel[s] \in Seq(DOMAIN log)
      /\ link \in [Subs -> {"none", "up", "down"}] /\ socket \in [Subs -> Seq(DOMAIN log)]
      /\ channel \in [Subs -> Seq(DOMAIN log)] /\ \A t \in Subs : Len(channel[t]) <= ChanSize
      /\ missed \in [Subs -> SUBSET DOMAIN log] /\ breaks \in [Subs -> Nat]
      /\ \A t \in Subs : breaks[t] <= setting.breaks[t]
      /\ setting.breaks \in [Subs -> Nat] /\ ChanSize \in Nat
      BY RangeIn, SettingIs, SizesAssumption DEF TypeOK
<1>2. UNCHANGED <<setting, callVars, wire, log, funnel, relay, got>>
      BY DEF Subscribe, Break, Resubscribe, Fill, Drop, pipeVars
<1>3. ASSUME link' \in [Subs -> {"none", "up", "down"}], socket' \in [Subs -> Seq(DOMAIN log)],
             channel' \in [Subs -> Seq(DOMAIN log)], \A t \in Subs : Len(channel'[t]) <= ChanSize,
             missed' \in [Subs -> SUBSET DOMAIN log], breaks' \in [Subs -> Nat],
             \A t \in Subs : breaks'[t] <= setting.breaks[t]
      PROVE  TypeOK' /\ CallInv'
      BY <1>2, <1>3 DEF TypeOK, CallInv, callVars, Attempt, MaxRetries
<1>4. CASE Subscribe(s) \/ Resubscribe(s)
      BY <1>1, <1>3, <1>4 DEF Subscribe, Resubscribe, pipeVars
<1>5. CASE Break(s)
  <2>1. PICK h \in 0 .. 1 :
          /\ h <= Len(socket[s])
          /\ socket' = [socket EXCEPT ![s] = SubSeq(@, 1, h)]
          /\ missed' = [missed EXCEPT ![s] = @ \cup {socket[s][k] : k \in h + 1 .. Len(socket[s])}]
        BY <1>5 DEF Break
  <2>2. SubSeq(socket[s], 1, h) \in Seq(DOMAIN log)
        BY <1>1, <2>1, FirstKept
  <2>3. {socket[s][k] : k \in h + 1 .. Len(socket[s])} \subseteq DOMAIN log
    <3>1. \A k \in h + 1 .. Len(socket[s]) : k \in 1 .. Len(socket[s])
          BY <1>1, RangeIn
    <3> QED BY <1>1, <3>1, ElementOfSeq
  <2>4. socket' \in [Subs -> Seq(DOMAIN log)] /\ missed' \in [Subs -> SUBSET DOMAIN log]
        BY <1>1, <2>1, <2>2, <2>3
  <2>5. breaks' \in [Subs -> Nat] /\ \A t \in Subs : breaks'[t] <= setting.breaks[t]
    <3>1. breaks' = [breaks EXCEPT ![s] = @ + 1] /\ breaks[s] < setting.breaks[s]
          BY <1>5 DEF Break
    <3>2. breaks[s] + 1 <= setting.breaks[s]
          BY <1>1, <3>1
    <3> QED BY <1>1, <3>1, <3>2
  <2>6. link' \in [Subs -> {"none", "up", "down"}] /\ channel' = channel
        BY <1>1, <1>5 DEF Break, pipeVars
  <2> QED BY <1>1, <1>3, <2>4, <2>5, <2>6
<1>6. CASE Fill(s)
  <2>1. /\ Head(socket[s]) \in DOMAIN log /\ Tail(socket[s]) \in Seq(DOMAIN log)
        BY <1>1, <1>6, FirstOut DEF Fill
  <2>2. /\ Append(channel[s], Head(socket[s])) \in Seq(DOMAIN log)
        /\ Len(Append(channel[s], Head(socket[s]))) <= ChanSize
        BY <1>1, <1>6, <2>1, AppendLast, RangeIn DEF Fill
  <2>3. /\ socket' \in [Subs -> Seq(DOMAIN log)] /\ channel' \in [Subs -> Seq(DOMAIN log)]
        /\ \A t \in Subs : Len(channel'[t]) <= ChanSize
        BY <1>1, <1>6, <2>1, <2>2 DEF Fill
  <2>4. link' = link /\ missed' = missed /\ breaks' = breaks
        BY <1>6 DEF Fill
  <2> QED BY <1>1, <1>3, <2>3, <2>4
<1>7. CASE Drop(s)
  <2>1. /\ Head(socket[s]) \in DOMAIN log /\ Tail(socket[s]) \in Seq(DOMAIN log)
        BY <1>1, <1>7, FirstOut DEF Drop
  <2>2. socket' \in [Subs -> Seq(DOMAIN log)] /\ missed' \in [Subs -> SUBSET DOMAIN log]
        BY <1>1, <1>7, <2>1 DEF Drop
  <2>3. link' = link /\ channel' = channel /\ breaks' = breaks
        BY <1>7 DEF Drop, pipeVars
  <2> QED BY <1>1, <1>3, <2>2, <2>3
<1> QED BY <1>4, <1>5, <1>6, <1>7

LEMMA FunnelTypes ==
    ASSUME TypeOK, CallInv, NEW s \in Subs,
           FunnelTake(s) \/ RelayTake(s) \/ Inbound(s)
    PROVE  TypeOK' /\ CallInv'
<1>1. /\ DOMAIN log \subseteq Nat /\ channel[s] \in Seq(DOMAIN log)
      /\ channel \in [Subs -> Seq(DOMAIN log)] /\ \A t \in Subs : Len(channel[t]) <= ChanSize
      /\ funnel \in [Subs -> {Nothing} \cup DOMAIN log]
      /\ relay \in [Subs -> {Nothing} \cup DOMAIN log]
      /\ got \in [Subs -> SUBSET DOMAIN log]
      BY RangeIn DEF TypeOK
<1>2. UNCHANGED <<setting, callVars, wire, log, linkVars>>
      BY DEF FunnelTake, RelayTake, Inbound
<1>3. /\ channel' \in [Subs -> Seq(DOMAIN log)] /\ \A t \in Subs : Len(channel'[t]) <= ChanSize
      /\ funnel' \in [Subs -> {Nothing} \cup DOMAIN log]
      /\ relay' \in [Subs -> {Nothing} \cup DOMAIN log]
      /\ got' \in [Subs -> SUBSET DOMAIN log]
  <2>1. CASE FunnelTake(s)
    <3>1. /\ Head(channel[s]) \in DOMAIN log /\ Tail(channel[s]) \in Seq(DOMAIN log)
          /\ Len(Tail(channel[s])) < Len(channel[s])
          /\ Len(Tail(channel[s])) \in Nat /\ Len(channel[s]) \in Nat
          BY <1>1, <2>1, FirstOut, RangeIn DEF FunnelTake
    <3>2. Len(Tail(channel[s])) <= ChanSize
          BY <1>1, <3>1, SizesAssumption
    <3> QED BY <1>1, <2>1, <3>1, <3>2 DEF FunnelTake
  <2>2. CASE RelayTake(s)
        BY <1>1, <2>2 DEF RelayTake
  <2>3. CASE Inbound(s)
        BY <1>1, <2>3 DEF Inbound
  <2> QED BY <2>1, <2>2, <2>3
<1> QED BY <1>2, <1>3 DEF TypeOK, CallInv, linkVars, callVars, Attempt, MaxRetries

LEMMA AcceptTypes ==
    ASSUME TypeOK, CallInv,
           \/ \E a \in wire : Execute(a)
           \/ \E p \in Senders, s \in Subs : HandOver(p, s)
    PROVE  TypeOK' /\ CallInv'
<1> USE SettingIs, SizesAssumption
    DEF TypeOK, CallInv, pipeVars, linkVars, callVars, backend, MaxRetries
<1>1. ASSUME NEW a \in wire, Execute(a) PROVE TypeOK' /\ CallInv'
  <2> DEFINE msg == [from |-> a.from, n |-> a.n]
             place == Len(log) + 1
  <2>1. a \in Attempt /\ a.from \in Senders /\ msg \in Message
        BY <1>1 DEF Attempt, Message
  <2>2. log' = Append(log, msg)
        BY <1>1 DEF Execute
  <2>3. /\ log' \in Seq(Message) /\ DOMAIN log \subseteq DOMAIN log' /\ place \in DOMAIN log'
        /\ \A q \in Seq(DOMAIN log) : q \in Seq(DOMAIN log')
        BY <2>1, <2>2, LogGrows
  <2>4. socket' \in [Subs -> Seq(DOMAIN log')]
    <3>1. \A s \in Subs : /\ socket[s] \in Seq(DOMAIN log')
                         /\ Append(socket[s], place) \in Seq(DOMAIN log')
          BY <2>3, AppendLast
    <3> QED BY <1>1, <3>1 DEF Execute
  <2>5. missed' \in [Subs -> SUBSET DOMAIN log']
        BY <1>1, <2>3 DEF Execute
  <2>6. wire' \subseteq Attempt' /\ answer' \in [Senders -> BOOLEAN]
        BY <1>1, <2>1 DEF Execute, Attempt
  <2> QED BY <1>1, <2>3, <2>4, <2>5, <2>6 DEF Execute
<1>2. ASSUME NEW p \in Senders, NEW s \in Subs, HandOver(p, s) PROVE TypeOK' /\ CallInv'
  <2>1. Msg(p) \in Message
        BY <1>2 DEF HandOver, Msg, Message
  <2>2. log' = Append(log, Msg(p))
        BY <1>2 DEF HandOver
  <2>3. /\ log' \in Seq(Message) /\ DOMAIN log \subseteq DOMAIN log' /\ Len(log) + 1 \in DOMAIN log'
        /\ \A q \in Seq(DOMAIN log) : q \in Seq(DOMAIN log')
        BY <2>1, <2>2, LogGrows
  <2> QED BY <1>2, <2>3 DEF HandOver, Attempt
<1> QED BY <1>1, <1>2

-----------------------------------------------------------------------------
(* Attempts and the log                                                    *)

\* What a caller does sends nothing behind its back but what it has given up.
LEMMA CallerWire ==
    ASSUME TypeOK, CallInv, WireInv, LogInv, LateOnlyAfterGivingUp, NEW p \in Senders,
           Publish(p) \/ Return(p) \/ GiveUp(p) \/ PublishFails(p)
    PROVE  WireInv' /\ LogInv' /\ LateOnlyAfterGivingUp'
<1>1. /\ call \in [Senders -> {"idle", "waiting"}] /\ sent \in [Senders -> 0 .. MaxSent]
      /\ try \in [Senders -> 0 .. MaxRetries] /\ answer \in [Senders -> BOOLEAN]
      /\ wire \subseteq Attempt /\ MaxSent \in Nat /\ MaxRetries \in Nat
      BY SettingIs, SizesAssumption DEF TypeOK
<1>2. \A i \in DOMAIN log : log[i].from \in Senders /\ log[i].n \in 1 .. MaxSent
      BY LogIs
<1>3. log' = log /\ gaveUp \subseteq gaveUp' /\ \A q \in Senders : sent[q] <= sent'[q]
  <2>1. CASE Publish(p)
        BY <1>1, <2>1 DEF Publish
  <2>2. CASE Return(p) \/ GiveUp(p) \/ PublishFails(p)
        BY <1>1, <2>2 DEF Return, GiveUp, PublishFails
  <2> QED BY <2>1, <2>2
<1>4. LogInv' /\ LateOnlyAfterGivingUp'
  <2>1. \A q \in Senders : sent[q] \in Nat /\ sent'[q] \in Nat
        BY <1>1 DEF Publish, Return, GiveUp, PublishFails
  <2> QED BY <1>1, <1>2, <1>3, <2>1 DEF LogInv, LateOnlyAfterGivingUp
<1>5. WireInv'
  <2> SUFFICES ASSUME NEW a \in wire'
               PROVE  /\ a.n <= sent'[a.from]
                      /\ \/ [from |-> a.from, n |-> a.n] \in gaveUp'
                         \/ call'[a.from] = "waiting" /\ ~answer'[a.from] /\ a = Current(a.from)'
      BY DEF WireInv
  <2>1. CASE a \in wire
    <3>1. a.from \in Senders /\ a.n \in 1 .. MaxSent /\ a.n <= sent[a.from]
          BY <1>1, <2>1 DEF Attempt, WireInv
    <3>2. a.n <= sent'[a.from]
      <4>1. sent[a.from] \in Nat /\ sent'[a.from] \in Nat
            BY <1>1, <3>1 DEF Publish, Return, GiveUp, PublishFails
      <4> QED BY <1>1, <1>3, <3>1, <4>1
    <3>3. CASE [from |-> a.from, n |-> a.n] \in gaveUp
          BY <1>3, <3>2, <3>3
    <3>4. CASE call[a.from] = "waiting" /\ ~answer[a.from] /\ a = Current(a.from)
      <4>1. CASE a.from # p
            BY <1>1, <3>1, <3>2, <3>4, <4>1 DEF Publish, Return, GiveUp, PublishFails, Current
      <4>2. CASE a.from = p
        <5>1. GiveUp(p) \/ PublishFails(p)
              BY <3>4, <4>2 DEF Publish, Return
        <5>2. Msg(p) \in gaveUp' /\ Msg(p) = [from |-> a.from, n |-> a.n]
              BY <3>4, <4>2, <5>1 DEF GiveUp, PublishFails, Msg, Current
        <5> QED BY <3>2, <5>2
      <4> QED BY <4>1, <4>2
    <3> QED BY <2>1, <3>3, <3>4 DEF WireInv
  <2>2. CASE a \notin wire
    <3>1. CASE Publish(p)
          BY <1>1, <2>2, <3>1 DEF Publish, Current
    <3>2. CASE GiveUp(p)
      <4>1. a = [Current(p) EXCEPT !.try = @ + 1] /\ a.n = sent[p] /\ a.from = p
            BY <2>2, <3>2 DEF GiveUp, Current
      <4>2. a = [from |-> p, n |-> sent'[p], try |-> try'[p]]
            BY <1>1, <3>2, <4>1 DEF GiveUp, Current
      <4> QED BY <1>1, <3>2, <4>1, <4>2 DEF GiveUp, Current
    <3> QED BY <2>2, <3>1, <3>2 DEF Return, PublishFails
  <2> QED BY <2>1, <2>2
<1> QED BY <1>4, <1>5

\* An attempt that is executed is the sender's last message, or was given up.
LEMMA AcceptWire ==
    ASSUME TypeOK, CallInv, MemoryInv, WireInv, LogInv, AnswerInv, LateOnlyAfterGivingUp,
           \/ \E a \in wire : Execute(a)
           \/ \E p \in Senders, s \in Subs : HandOver(p, s)
    PROVE  WireInv' /\ LogInv' /\ LateOnlyAfterGivingUp'
<1>1. /\ call \in [Senders -> {"idle", "waiting"}] /\ sent \in [Senders -> 0 .. MaxSent]
      /\ answer \in [Senders -> BOOLEAN] /\ wire \subseteq Attempt /\ MaxSent \in Nat
      BY SizesAssumption DEF TypeOK
<1>2. \A i \in DOMAIN log : log[i].from \in Senders /\ log[i].n \in 1 .. MaxSent
      BY LogIs
<1>3. ASSUME NEW msg \in Message, log' = Append(log, msg), sent' = sent, gaveUp' = gaveUp,
             msg.n <= sent[msg.from],
             msg \in gaveUp \/ (msg.n = sent[msg.from] /\ \A i \in DOMAIN log : log[i] # msg)
      PROVE  LogInv' /\ LateOnlyAfterGivingUp'
  <2>1. /\ DOMAIN log' = DOMAIN log \cup {Len(log) + 1}
        /\ Len(log) \in Nat /\ DOMAIN log = 1 .. Len(log)
        /\ log'[Len(log) + 1] = msg /\ \A i \in DOMAIN log : log'[i] = log[i]
        BY <1>3, LogGrows
  <2>2. LogInv'
        BY <1>3, <2>1 DEF LogInv
  <2>3. ASSUME NEW i \in DOMAIN log', NEW j \in DOMAIN log', i < j,
               log'[i].from = log'[j].from, log'[i].n >= log'[j].n
        PROVE  log'[j] \in gaveUp
    <3>1. i \in DOMAIN log
          BY <2>1, <2>3
    <3>2. CASE j \in DOMAIN log
          BY <2>1, <2>3, <3>1, <3>2 DEF LateOnlyAfterGivingUp
    <3>3. CASE j = Len(log) + 1
      <4>1. log[i].n <= sent[msg.from] /\ log[i].n >= msg.n /\ log[i].from = msg.from
            BY <2>1, <2>3, <3>1, <3>3 DEF LogInv
      <4>2. ASSUME msg.n = sent[msg.from] PROVE log[i] = msg
        <5>1. log[i].n = msg.n
              BY <1>1, <1>2, <3>1, <4>1, <4>2, <1>3 DEF Message
        <5>2. log[i] \in Message
          <6>1. log \in Seq(Message) /\ i \in 1 .. Len(log)
                BY <2>1, <3>1 DEF TypeOK
          <6> QED BY <6>1, ElementOfSeq
        <5> QED BY <1>3, <4>1, <5>1, <5>2 DEF Message
      <4> QED BY <1>3, <2>1, <3>1, <3>3, <4>2
    <3> QED BY <2>1, <3>2, <3>3
  <2> QED BY <1>3, <2>2, <2>3 DEF LateOnlyAfterGivingUp
<1>4. ASSUME NEW a \in wire, Execute(a) PROVE WireInv' /\ LogInv' /\ LateOnlyAfterGivingUp'
  <2> DEFINE msg == [from |-> a.from, n |-> a.n]
  <2>1. msg \in Message /\ a.from \in Senders
        BY <1>1 DEF Attempt, Message
  <2>2. log' = Append(log, msg) /\ sent' = sent /\ gaveUp' = gaveUp /\ call' = call /\ try' = try
        BY <1>4 DEF Execute
  <2>3. /\ msg.n <= sent[msg.from]
        /\ msg \in gaveUp \/ (msg.n = sent[msg.from] /\ \A i \in DOMAIN log : log[i] # msg)
    <3>1. CASE call[a.from] = "waiting" /\ ~answer[a.from] /\ a = Current(a.from)
      <4>1. msg = Msg(a.from)
            BY <3>1 DEF Msg, Current
      <4> QED BY <2>1, <3>1, <4>1 DEF AnswerInv, WireInv, Msg
    <3> QED BY <3>1 DEF WireInv
  <2>4. WireInv'
    <3> SUFFICES ASSUME NEW b \in wire, b # a
                 PROVE  /\ b.n <= sent[b.from]
                        /\ \/ [from |-> b.from, n |-> b.n] \in gaveUp
                           \/ call[b.from] = "waiting" /\ ~answer'[b.from] /\ b = Current(b.from)
        BY <1>4, <2>2 DEF WireInv, Current, Execute
    <3>1. b.from \in Senders
          BY <1>1 DEF Attempt
    <3>2. CASE b = Current(b.from) /\ ~answer[b.from]
          BY <1>1, <1>4, <3>1, <3>2 DEF Execute, WireInv
    <3> QED BY <3>2 DEF WireInv
  <2> QED BY <1>3, <2>1, <2>2, <2>3, <2>4
<1>5. ASSUME NEW p \in Senders, NEW s \in Subs, HandOver(p, s)
      PROVE  WireInv' /\ LogInv' /\ LateOnlyAfterGivingUp'
  <2>1. Msg(p) \in Message /\ Msg(p).from = p /\ Msg(p).n = sent[p]
        BY <1>1, <1>5 DEF HandOver, Msg, Message, CallInv
  <2>2. log' = Append(log, Msg(p)) /\ sent' = sent /\ gaveUp' = gaveUp
        BY <1>5 DEF HandOver
  <2>3. wire' = {}
        BY <1>5 DEF HandOver, MemoryInv
  <2>4. sent[p] <= sent[p]
        BY <1>1
  <2>5. Msg(p) \in gaveUp \/ \A i \in DOMAIN log : log[i] # Msg(p)
        BY <1>5 DEF AnswerInv, HandOver
  <2> QED BY <1>3, <2>1, <2>2, <2>3, <2>4, <2>5 DEF WireInv
<1> QED BY <1>4, <1>5

\* A caller that begins has nothing of its new message in the log; one that
\* returns has it there, or gave up.
LEMMA CallerAnswer ==
    ASSUME TypeOK, LogInv, AnswerInv, ReturnedIsAccepted, NEW p \in Senders,
           Publish(p) \/ Return(p) \/ GiveUp(p) \/ PublishFails(p)
    PROVE  AnswerInv' /\ ReturnedIsAccepted'
<1>1. /\ call \in [Senders -> {"idle", "waiting"}] /\ sent \in [Senders -> 0 .. MaxSent]
      /\ answer \in [Senders -> BOOLEAN] /\ MaxSent \in Nat
      BY SizesAssumption DEF TypeOK
<1>2. log' = log /\ backend' = backend /\ gaveUp \subseteq gaveUp'
      BY DEF Publish, Return, GiveUp, PublishFails, backend
<1>3. ASSUME NEW q \in Senders \ {p}
      PROVE  call'[q] = call[q] /\ sent'[q] = sent[q] /\ answer'[q] = answer[q]
      BY <1>1 DEF Publish, Return, GiveUp, PublishFails
<1>4. AnswerInv'
  <2> SUFFICES ASSUME NEW q \in Senders, call'[q] = "waiting"
               PROVE  /\ Msg(q)' \notin gaveUp' =>
                            (answer'[q] <=> \E i \in DOMAIN log : log[i] = Msg(q)')
                      /\ backend = "memory" => ~answer'[q]
      BY <1>2 DEF AnswerInv
  <2>1. CASE q # p
        BY <1>2, <1>3, <2>1 DEF AnswerInv, Msg
  <2>2. CASE q = p /\ Publish(p)
    <3>1. sent'[p] = sent[p] + 1 /\ answer'[p] = FALSE /\ sent[p] \in Nat
          BY <1>1, <2>2 DEF Publish
    <3>2. \A i \in DOMAIN log : log[i].from = p => log[i].n <= sent[p] /\ log[i].n \in Nat
          BY <1>1, LogIs DEF LogInv
    <3>3. \A i \in DOMAIN log : log[i] # Msg(q)'
          BY <2>2, <3>1, <3>2 DEF Msg
    <3> QED BY <2>2, <3>1, <3>3
  <2>3. CASE q = p /\ GiveUp(p)
        BY <1>1, <2>3 DEF GiveUp, Msg
  <2>4. CASE q = p /\ (Return(p) \/ PublishFails(p))
        BY <1>1, <2>4 DEF Return, PublishFails
  <2> QED BY <2>1, <2>2, <2>3, <2>4
<1>5. ReturnedIsAccepted'
  <2> SUFFICES ASSUME NEW q \in Senders, NEW n \in 1 .. sent'[q],
                      n = sent'[q] => call'[q] = "idle",
                      [from |-> q, n |-> n] \notin gaveUp'
               PROVE  \E i \in DOMAIN log : log[i] = [from |-> q, n |-> n]
      BY <1>2 DEF ReturnedIsAccepted
  <2>1. [from |-> q, n |-> n] \notin gaveUp
        BY <1>2
  <2>2. CASE q # p
        BY <1>3, <2>1, <2>2 DEF ReturnedIsAccepted
  <2>3. CASE q = p /\ Publish(p)
    <3>1. sent'[p] = sent[p] + 1 /\ call'[p] = "waiting" /\ call[p] = "idle" /\ sent[p] \in Nat
          BY <1>1, <2>3 DEF Publish
    <3>2. n \in 1 .. sent[p]
          BY <2>3, <3>1
    <3> QED BY <2>1, <2>3, <3>1, <3>2 DEF ReturnedIsAccepted
  <2>4. CASE q = p /\ (Return(p) \/ GiveUp(p) \/ PublishFails(p))
    <3>1. sent' = sent
          BY <2>4 DEF Return, GiveUp, PublishFails
    <3>2. CASE n # sent[p]
          BY <2>1, <2>4, <3>1, <3>2 DEF ReturnedIsAccepted
    <3>3. CASE n = sent[p]
      <4>1. Msg(p) = [from |-> q, n |-> n]
            BY <2>4, <3>3 DEF Msg
      <4>2. Return(p)
            BY <1>1, <2>4, <3>1, <3>3, <4>1 DEF GiveUp, PublishFails
      <4> QED BY <2>1, <4>1, <4>2 DEF AnswerInv, Return
    <3> QED BY <3>2, <3>3
  <2> QED BY <2>2, <2>3, <2>4
<1> QED BY <1>4, <1>5

\* Redis answers, or a funnel takes, what it puts into the log.
LEMMA AcceptAnswer ==
    ASSUME TypeOK, CallInv, MemoryInv, WireInv, AnswerInv, ReturnedIsAccepted,
           \/ \E a \in wire : Execute(a)
           \/ \E p \in Senders, s \in Subs : HandOver(p, s)
    PROVE  AnswerInv' /\ ReturnedIsAccepted'
<1>1. /\ call \in [Senders -> {"idle", "waiting"}] /\ sent \in [Senders -> 0 .. MaxSent]
      /\ answer \in [Senders -> BOOLEAN] /\ wire \subseteq Attempt /\ MaxSent \in Nat
      BY SizesAssumption DEF TypeOK
<1>2. UNCHANGED <<setting, sent, try, gaveUp>>
      BY DEF Execute, HandOver
<1>3. ASSUME NEW msg \in Message, log' = Append(log, msg)
      PROVE  \A m : (\E i \in DOMAIN log' : log'[i] = m) <=> (m = msg \/ \E i \in DOMAIN log : log[i] = m)
  <2>1. /\ DOMAIN log' = DOMAIN log \cup {Len(log) + 1}
        /\ log'[Len(log) + 1] = msg /\ \A i \in DOMAIN log : log'[i] = log[i]
        BY <1>3, LogGrows
  <2> QED BY <2>1
<1>4. ASSUME NEW a \in wire, Execute(a) PROVE AnswerInv' /\ ReturnedIsAccepted'
  <2> DEFINE msg == [from |-> a.from, n |-> a.n]
  <2>1. msg \in Message /\ a.from \in Senders /\ call' = call /\ log' = Append(log, msg)
        BY <1>1, <1>4 DEF Attempt, Message, Execute
  <2>2. \A m : (\E i \in DOMAIN log' : log'[i] = m) <=> (m = msg \/ \E i \in DOMAIN log : log[i] = m)
        BY <1>3, <2>1
  <2>3. backend = "redis"
    <3>1. backend \in {"redis", "memory"}
          BY SettingIs DEF backend
    <3> QED BY <3>1 DEF MemoryInv
  <2>4. ASSUME NEW q \in Senders, call[q] = "waiting", Msg(q) \notin gaveUp
        PROVE  answer'[q] <=> \E i \in DOMAIN log' : log'[i] = Msg(q)
    <3>1. CASE a.from # q
      <4>1. answer'[q] = answer[q] /\ Msg(q) # msg
            BY <1>1, <1>4, <2>1, <3>1 DEF Execute, Msg
      <4> QED BY <2>2, <2>4, <4>1 DEF AnswerInv
    <3>2. CASE a.from = q
      <4>1. answer'[q] = (answer[q] \/ (call[q] = "waiting" /\ Current(q) = a))
            BY <1>1, <1>4, <3>2 DEF Execute
      <4>2. CASE msg = Msg(q)
        <5>1. Current(q) = a
              BY <2>4, <3>2, <4>2 DEF WireInv
        <5> QED BY <2>2, <2>4, <4>1, <4>2, <5>1
      <4>3. CASE msg # Msg(q)
        <5>1. Current(q) # a
              BY <4>3 DEF Current, Msg
        <5> QED BY <2>2, <2>4, <4>1, <4>3, <5>1 DEF AnswerInv
      <4> QED BY <4>2, <4>3
    <3> QED BY <3>1, <3>2
  <2>5. AnswerInv'
        BY <1>2, <2>1, <2>3, <2>4 DEF AnswerInv, Msg, backend
  <2> HIDE DEF msg
  <2>6. ReturnedIsAccepted'
        BY <1>2, <2>1, <2>2 DEF ReturnedIsAccepted
  <2> QED BY <2>5, <2>6
<1>5. ASSUME NEW p \in Senders, NEW s \in Subs, HandOver(p, s)
      PROVE  AnswerInv' /\ ReturnedIsAccepted'
  <2>1. Msg(p) \in Message /\ log' = Append(log, Msg(p)) /\ answer' = answer
        BY <1>1, <1>5 DEF HandOver, Msg, Message, CallInv
  <2>2. \A m : (\E i \in DOMAIN log' : log'[i] = m) <=> (m = Msg(p) \/ \E i \in DOMAIN log : log[i] = m)
        BY <1>3, <2>1
  <2>3. call'[p] = "idle" /\ \A q \in Senders \ {p} : call'[q] = call[q] /\ Msg(q) # Msg(p)
        BY <1>1, <1>5 DEF HandOver, Msg
  <2>4. AnswerInv'
        BY <1>2, <2>1, <2>2, <2>3 DEF AnswerInv, Msg, backend
  <2>5. ReturnedIsAccepted'
    <3> SUFFICES ASSUME NEW q \in Senders, NEW n \in 1 .. sent[q],
                        n = sent[q] => call'[q] = "idle",
                        [from |-> q, n |-> n] \notin gaveUp
                 PROVE  \E i \in DOMAIN log' : log'[i] = [from |-> q, n |-> n]
        BY <1>2 DEF ReturnedIsAccepted
    <3>1. CASE q = p /\ n = sent[p]
          BY <2>2, <3>1 DEF Msg
    <3>2. CASE ~ (q = p /\ n = sent[p])
      <4>1. n = sent[q] => call[q] = "idle"
            BY <2>3, <3>2
      <4> QED BY <2>2, <4>1 DEF ReturnedIsAccepted
    <3> QED BY <3>1, <3>2
  <2> QED BY <2>4, <2>5
<1> QED BY <1>4, <1>5

-----------------------------------------------------------------------------
(* The way to the room                                                     *)

MoveInv == PipeInv /\ MemoryInv /\ PlaceInv

\* Nothing moves.
LEMMA Unmoved ==
    ASSUME MoveInv, setting' = setting, log' = log, missed' = missed,
           channel' = channel, socket' = socket, funnel' = funnel, relay' = relay, got' = got,
           backend = "memory" => wire' = wire
    PROVE  MoveInv'
<1>1. \A s \in Subs : PipeSet(s)' = PipeSet(s) /\ (Ordered(s) => Ordered(s)')
      BY DEF PipeSet, InHand, Ordered
<1>2. backend' = backend /\ room' = room
      BY DEF backend, room
<1>3. PipeInv'
      BY <1>1 DEF MoveInv, PipeInv
<1>4. MemoryInv'
      BY <1>2 DEF MoveInv, MemoryInv
<1>5. PlaceInv'
      BY <1>1, <1>2 DEF MoveInv, PlaceInv
<1> QED BY <1>3, <1>4, <1>5 DEF MoveInv

\* Something moves within one subscription, or is missed there.
LEMMA Moved ==
    ASSUME MoveInv, NEW s \in Subs, setting' = setting, log' = log, wire' = wire,
           \A t \in Subs \ {s} :
               /\ channel'[t] = channel[t] /\ socket'[t] = socket[t] /\ funnel'[t] = funnel[t]
               /\ relay'[t] = relay[t] /\ got'[t] = got[t] /\ missed'[t] = missed[t],
           Ordered(s)',
           backend = "memory" => channel'[s] = <<>> /\ socket'[s] = <<>>,
           backend = "memory" => (got[s] \cup PipeSet(s))' = got[s] \cup PipeSet(s),
           (got[s] \cup PipeSet(s) \cup missed[s])' = got[s] \cup PipeSet(s) \cup missed[s]
    PROVE  MoveInv' /\ \A t \in Subs \ {s} : PipeSet(t)' = PipeSet(t)
<1>1. ASSUME NEW t \in Subs, t # s
      PROVE  Ordered(t)' /\ PipeSet(t)' = PipeSet(t) /\ got'[t] = got[t] /\ missed'[t] = missed[t]
      BY <1>1 DEF MoveInv, PipeInv, Ordered, PipeSet, InHand
<1>2. PipeInv'
      BY <1>1 DEF PipeInv
<1>3. MemoryInv'
      BY DEF MoveInv, MemoryInv, backend
<1>4. PlaceInv'
  <2>1. \A t \in Subs :
            (got[t] \cup PipeSet(t) \cup missed[t])' = got[t] \cup PipeSet(t) \cup missed[t]
        BY <1>1
  <2>2. backend = "memory" =>
            \A t \in Subs : (got[t] \cup PipeSet(t))' = got[t] \cup PipeSet(t)
        BY <1>1
  <2>3. backend' = backend /\ room' = room
        BY DEF backend, room
  <2> QED BY <2>1, <2>2, <2>3 DEF MoveInv, PlaceInv
<1> QED BY <1>1, <1>2, <1>3, <1>4 DEF MoveInv

LEMMA ReaderMoves ==
    ASSUME TypeOK, MoveInv, NEW s \in Subs, Break(s) \/ Fill(s) \/ Drop(s)
    PROVE  /\ MoveInv' /\ PipeSet(s)' \subseteq PipeSet(s)
           /\ \A t \in Subs \ {s} : PipeSet(t)' = PipeSet(t)
<1>1. /\ Nat \in SUBSET Nat /\ channel[s] \in Seq(Nat) /\ socket[s] \in Seq(Nat) /\ Ordered(s)
      BY SubTypesHold DEF SubTypes, MoveInv, PipeInv
<1>2. /\ socket \in [Subs -> Seq(DOMAIN log)] /\ channel \in [Subs -> Seq(DOMAIN log)]
      /\ missed \in [Subs -> SUBSET DOMAIN log]
      BY DEF TypeOK
<1>3. backend = "memory" => channel[s] = <<>> /\ socket[s] = <<>>
      BY DEF MoveInv, MemoryInv
<1>4. CASE Break(s)
  <2>1. PICK h \in 0 .. 1 :
          /\ h <= Len(socket[s])
          /\ socket' = [socket EXCEPT ![s] = SubSeq(@, 1, h)]
          /\ missed' = [missed EXCEPT ![s] = @ \cup {socket[s][k] : k \in h + 1 .. Len(socket[s])}]
        BY <1>4 DEF Break
  <2> DEFINE kept == SubSeq(socket[s], 1, h)
             lost == {socket[s][k] : k \in h + 1 .. Len(socket[s])}
  <2>2. Range(socket[s]) = Range(kept) \cup lost /\ Sorted(kept)
        BY <1>1, <2>1, FirstKept DEF Ordered
  <2> HIDE DEF kept, lost
  <2>3. socket'[s] = kept /\ missed'[s] = missed[s] \cup lost
        BY <1>2, <2>1 DEF kept, lost
  <2>4. /\ backend = "redis" /\ setting' = setting /\ log' = log /\ wire' = wire
        /\ channel' = channel /\ funnel' = funnel /\ relay' = relay /\ got' = got
        /\ \A t \in Subs \ {s} : socket'[t] = socket[t] /\ missed'[t] = missed[t]
        BY <1>2, <1>4, <2>1 DEF Break, pipeVars
  <2>5. Ordered(s)'
        BY <1>1, <2>2, <2>3, <2>4 DEF Ordered, PipeSet, InHand, Before
  <2>6. (got[s] \cup PipeSet(s) \cup missed[s])' = got[s] \cup PipeSet(s) \cup missed[s]
        BY <2>2, <2>3, <2>4 DEF PipeSet, InHand
  <2>7. PipeSet(s)' \subseteq PipeSet(s)
        BY <2>2, <2>3, <2>4 DEF PipeSet, InHand
  <2> QED BY <2>4, <2>5, <2>6, <2>7, Moved
<1>5. ASSUME Fill(s) \/ Drop(s)
      PROVE  /\ Head(socket[s]) \in Nat /\ backend # "memory"
             /\ Range(socket[s]) = {Head(socket[s])} \cup Range(Tail(socket[s]))
             /\ Sorted(Tail(socket[s])) /\ Before({Head(socket[s])}, Range(Tail(socket[s])))
      BY <1>1, <1>3, <1>5, FirstOut DEF Fill, Drop, Ordered
<1>6. CASE Fill(s)
  <2> DEFINE first == Head(socket[s])
             longer == Append(channel[s], first)
  <2>1. Range(longer) = Range(channel[s]) \cup {first} /\ Sorted(longer)
    <3>1. Before(Range(channel[s]), {first})
          BY <1>1, <1>5, <1>6 DEF Ordered, Before
    <3> QED BY <1>1, <1>5, <1>6, <3>1, AppendLast, SortedAppend DEF Ordered
  <2> HIDE DEF longer
  <2>2. /\ setting' = setting /\ log' = log /\ wire' = wire /\ missed' = missed
        /\ funnel' = funnel /\ relay' = relay /\ got' = got
        /\ channel'[s] = longer /\ socket'[s] = Tail(socket[s])
        /\ \A t \in Subs \ {s} : socket'[t] = socket[t] /\ channel'[t] = channel[t]
        BY <1>2, <1>6 DEF Fill, longer
  <2>3. Ordered(s)'
        BY <1>1, <1>5, <1>6, <2>1, <2>2 DEF Ordered, PipeSet, InHand, Before
  <2>4. PipeSet(s)' = PipeSet(s)
        BY <1>5, <1>6, <2>1, <2>2 DEF PipeSet, InHand
  <2> QED BY <1>5, <1>6, <2>2, <2>3, <2>4, Moved
<1>7. CASE Drop(s)
  <2>1. /\ setting' = setting /\ log' = log /\ wire' = wire /\ channel' = channel
        /\ funnel' = funnel /\ relay' = relay /\ got' = got
        /\ socket'[s] = Tail(socket[s]) /\ missed'[s] = missed[s] \cup {Head(socket[s])}
        /\ \A t \in Subs \ {s} : socket'[t] = socket[t] /\ missed'[t] = missed[t]
        BY <1>2, <1>7 DEF Drop, pipeVars
  <2>2. Ordered(s)'
        BY <1>1, <1>5, <1>7, <2>1 DEF Ordered, PipeSet, InHand, Before
  <2>3. (got[s] \cup PipeSet(s) \cup missed[s])' = got[s] \cup PipeSet(s) \cup missed[s]
        BY <1>5, <1>7, <2>1 DEF PipeSet, InHand
  <2>4. PipeSet(s)' \subseteq PipeSet(s)
        BY <1>5, <1>7, <2>1 DEF PipeSet, InHand
  <2> QED BY <1>5, <1>7, <2>1, <2>2, <2>3, <2>4, Moved
<1> QED BY <1>4, <1>6, <1>7

\* Topic!Take(s), in terms of PipeSet.
FirstTaken(s) ==
    \E i \in PipeSet(s) :
        /\ \A j \in PipeSet(s) : i <= j
        /\ PipeSet(s)' = PipeSet(s) \ {i}
        /\ got' = [got EXCEPT ![s] = @ \cup {i}]

LEMMA FunnelMoves ==
    ASSUME TypeOK, MoveInv, NEW s \in Subs, FunnelTake(s) \/ RelayTake(s) \/ Inbound(s)
    PROVE  /\ MoveInv' /\ \A t \in Subs \ {s} : PipeSet(t)' = PipeSet(t)
           /\ \/ PipeSet(s)' = PipeSet(s) /\ got' = got
              \/ FirstTaken(s)
<1>1. /\ Nat \in SUBSET Nat /\ channel[s] \in Seq(Nat) /\ socket[s] \in Seq(Nat) /\ Ordered(s)
      BY SubTypesHold DEF SubTypes, MoveInv, PipeInv
<1>2. /\ channel \in [Subs -> Seq(DOMAIN log)] /\ DOMAIN funnel = Subs /\ DOMAIN relay = Subs
      /\ DOMAIN got = Subs /\ funnel \in [Subs -> {Nothing} \cup DOMAIN log]
      /\ relay \in [Subs -> {Nothing} \cup DOMAIN log] /\ got \in [Subs -> SUBSET DOMAIN log]
      BY DEF TypeOK
<1>3. backend = "memory" => channel[s] = <<>> /\ socket[s] = <<>>
      BY DEF MoveInv, MemoryInv
<1>4. /\ setting' = setting /\ log' = log /\ wire' = wire /\ socket' = socket /\ missed' = missed
      BY DEF FunnelTake, RelayTake, Inbound, linkVars
<1>5. CASE FunnelTake(s)
  <2>1. /\ Head(channel[s]) \in Nat /\ backend # "memory"
        /\ Range(channel[s]) = {Head(channel[s])} \cup Range(Tail(channel[s]))
        /\ Sorted(Tail(channel[s])) /\ Before({Head(channel[s])}, Range(Tail(channel[s])))
        BY <1>1, <1>3, <1>5, FirstOut DEF FunnelTake, Ordered
  <2>2. Head(channel[s]) # Nothing
    <3>1. Head(channel[s]) \in Range(channel[s]) /\ Range(channel[s]) \subseteq DOMAIN log
          BY <1>2, <2>1, RangeIn
    <3> QED BY <3>1, LogIs DEF Nothing
  <2>3. /\ relay' = relay /\ got' = got /\ funnel[s] = Nothing
        /\ funnel'[s] = Head(channel[s]) /\ channel'[s] = Tail(channel[s])
        /\ \A t \in Subs \ {s} : funnel'[t] = funnel[t] /\ channel'[t] = channel[t]
        BY <1>2, <1>5 DEF FunnelTake
  <2>4. InHand(funnel[s]) = {} /\ InHand(funnel'[s]) = {Head(channel[s])}
        BY <2>2, <2>3 DEF InHand
  <2>5. Ordered(s)'
        BY <1>1, <1>4, <2>1, <2>3, <2>4 DEF Ordered, PipeSet, Before
  <2>6. PipeSet(s)' = PipeSet(s)
        BY <1>4, <2>1, <2>3, <2>4 DEF PipeSet
  <2> QED BY <1>4, <2>1, <2>3, <2>5, <2>6, Moved
<1>6. CASE RelayTake(s)
  <2>1. /\ channel' = channel /\ got' = got /\ relay[s] = Nothing
        /\ funnel'[s] = Nothing /\ relay'[s] = funnel[s]
        /\ \A t \in Subs \ {s} : funnel'[t] = funnel[t] /\ relay'[t] = relay[t]
        BY <1>2, <1>6 DEF RelayTake
  <2>2. /\ InHand(relay[s]) = {} /\ InHand(funnel'[s]) = {}
        /\ InHand(relay'[s]) = InHand(funnel[s])
        BY <2>1 DEF InHand
  <2>3. Ordered(s)'
        BY <1>1, <1>4, <2>1, <2>2 DEF Ordered, PipeSet, Before
  <2>4. PipeSet(s)' = PipeSet(s)
        BY <1>4, <2>1, <2>2 DEF PipeSet
  <2> QED BY <1>3, <1>4, <2>1, <2>3, <2>4, Moved
<1>7. CASE Inbound(s)
  <2>1. /\ channel' = channel /\ funnel' = funnel /\ relay[s] # Nothing
        /\ relay'[s] = Nothing /\ got'[s] = got[s] \cup {relay[s]}
        /\ \A t \in Subs \ {s} : relay'[t] = relay[t] /\ got'[t] = got[t]
        BY <1>2, <1>7 DEF Inbound
  <2>2. InHand(relay[s]) = {relay[s]} /\ InHand(relay'[s]) = {}
        BY <2>1 DEF InHand
  <2>3. Ordered(s)'
        BY <1>1, <1>4, <2>1, <2>2 DEF Ordered, PipeSet, Before, InHand
  <2>4. (got[s] \cup PipeSet(s))' = got[s] \cup PipeSet(s)
        BY <1>4, <2>1, <2>2 DEF PipeSet, InHand
  <2>5. SubTypes(s) /\ Ordered(s)
        BY SubTypesHold DEF MoveInv, PipeInv
  <2>6. FirstTaken(s)
    <3>1. relay[s] \in PipeSet(s) /\ PipeSet(s) \subseteq Nat
          BY <2>2, <2>5 DEF PipeSet, SubTypes
    <3>2. \A j \in PipeSet(s) \ {relay[s]} : relay[s] < j
          BY <2>2, <2>5 DEF PipeSet, Ordered, Before
    <3>3. PipeSet(s)' = InHand(funnel[s]) \cup Range(channel[s]) \cup Range(socket[s])
          BY <1>4, <2>1, <2>2 DEF PipeSet
    <3>4. relay[s] \notin InHand(funnel[s]) \cup Range(channel[s]) \cup Range(socket[s])
          BY <2>2, <2>5, <3>1 DEF Ordered, Before
    <3>5. PipeSet(s)' = PipeSet(s) \ {relay[s]}
          BY <2>2, <3>3, <3>4 DEF PipeSet
    <3>6. \A j \in PipeSet(s) : relay[s] <= j
          BY <3>1, <3>2
    <3>7. got' = [got EXCEPT ![s] = @ \cup {relay[s]}]
          BY <1>7 DEF Inbound
    <3> QED BY <3>1, <3>5, <3>6, <3>7 DEF FirstTaken
  <2> QED BY <1>3, <1>4, <2>1, <2>3, <2>4, <2>6, Moved
<1> QED BY <1>5, <1>6, <1>7

\* A new place is on its way to some subscriptions, and nothing else moves.
Reaches ==
    /\ got' = got
    /\ \E msg \in Message : log' = Append(log, msg)
    /\ \E reached \in SUBSET Subs : \A s \in Subs :
         PipeSet(s)' = IF s \in reached THEN PipeSet(s) \cup {Len(log) + 1} ELSE PipeSet(s)

\* Redis sends a message to the connections of its topic.
LEMMA ExecuteMoves ==
    ASSUME TypeOK, MoveInv, NEW a \in wire, Execute(a)
    PROVE  MoveInv' /\ Reaches
<1> DEFINE msg == [from |-> a.from, n |-> a.n]
           place == Len(log) + 1
<1>1. /\ setting' = setting /\ backend' = backend /\ room' = room /\ backend = "redis"
      /\ channel' = channel /\ funnel' = funnel /\ relay' = relay /\ got' = got
      /\ log' = Append(log, msg)
      BY SettingIs DEF Execute, pipeVars, MoveInv, MemoryInv, backend, room
<1>2. /\ DOMAIN log = 1 .. Len(log) /\ Len(log) \in Nat
      /\ DOMAIN log' = DOMAIN log \cup {place} /\ place \notin DOMAIN log
      /\ log'[place] = msg /\ \A i \in DOMAIN log : log'[i] = log[i]
  <2>1. msg \in Message
        BY DEF TypeOK, Attempt, Message
  <2> QED BY <1>1, <2>1, LogGrows
<1>10. msg \in Message
      BY DEF TypeOK, Attempt, Message
<1> HIDE DEF msg
<1>3. ASSUME NEW s \in Subs
      PROVE  /\ socket'[s] = IF room[s] = room[a.from] /\ link[s] = "up"
                            THEN Append(socket[s], place) ELSE socket[s]
             /\ missed'[s] = IF room[s] = room[a.from] /\ link[s] # "up"
                            THEN missed[s] \cup {place} ELSE missed[s]
      BY DEF Execute, Audience
<1>4. ASSUME NEW s \in Subs, room[s] = room[a.from], link[s] = "up"
      PROVE  /\ Ordered(s)' /\ got'[s] = got[s] /\ missed'[s] = missed[s]
             /\ PipeSet(s)' = PipeSet(s) \cup {place}
  <2>1. SubTypes(s) /\ Ordered(s)
        BY SubTypesHold DEF MoveInv, PipeInv
  <2>2. Before(got[s] \cup PipeSet(s), {place})
    <3>1. \A i \in DOMAIN log : i < place
          BY <1>2
    <3> QED BY <2>1, <3>1 DEF SubTypes, Before
  <2>3. /\ Range(socket[s]) \subseteq PipeSet(s) /\ Range(channel[s]) \subseteq PipeSet(s)
        /\ InHand(funnel[s]) \subseteq PipeSet(s) /\ InHand(relay[s]) \subseteq PipeSet(s)
        BY DEF PipeSet
  <2> DEFINE longer == Append(socket[s], place)
  <2>4. Range(longer) = Range(socket[s]) \cup {place} /\ Sorted(longer)
    <3>1. Before(Range(socket[s]), {place}) /\ place \in Nat
          BY <1>2, <2>2, <2>3 DEF Before
    <3>2. socket[s] \in Seq(Nat) /\ Sorted(socket[s])
          BY <2>1 DEF SubTypes, Ordered
    <3> HIDE DEF place
    <3>3. Range(Append(socket[s], place)) = Range(socket[s]) \cup {place}
          BY <3>1, <3>2, AppendLast
    <3>4. Sorted(Append(socket[s], place))
          BY <3>1, <3>2, SortedAppend
    <3> QED BY <3>3, <3>4
  <2> HIDE DEF longer
  <2>5. socket'[s] = longer /\ missed'[s] = missed[s]
        BY <1>3, <1>4 DEF longer
  <2>6. PipeSet(s)' = PipeSet(s) \cup {place}
        BY <1>1, <2>4, <2>5 DEF PipeSet, InHand
  <2> HIDE DEF place
  <2>7. Ordered(s)'
    <3>1. Before(got'[s], PipeSet(s)')
          BY <1>1, <2>1, <2>2, <2>6 DEF Ordered, Before
    <3>2. /\ InHand(relay'[s]) = InHand(relay[s]) /\ InHand(funnel'[s]) = InHand(funnel[s])
          /\ Range(channel'[s]) = Range(channel[s]) /\ Sorted(channel'[s])
          /\ Range(socket'[s]) = Range(socket[s]) \cup {place} /\ Sorted(socket'[s])
          BY <1>1, <2>1, <2>4, <2>5 DEF Ordered
    <3>3. Before(Range(channel'[s]), Range(socket'[s]))
          BY <2>1, <2>2, <2>3, <3>2 DEF Ordered, Before
    <3>4. Before(InHand(funnel'[s]), Range(channel'[s]) \cup Range(socket'[s]))
          BY <2>1, <2>2, <2>3, <3>2 DEF Ordered, Before
    <3>5. Before(InHand(relay'[s]), InHand(funnel'[s]) \cup Range(channel'[s]) \cup Range(socket'[s]))
          BY <2>1, <2>2, <2>3, <3>2 DEF Ordered, Before
    <3> QED BY <3>1, <3>2, <3>3, <3>4, <3>5 DEF Ordered
  <2> QED BY <1>1, <2>5, <2>6, <2>7
<1>5. ASSUME NEW s \in Subs, ~ (room[s] = room[a.from] /\ link[s] = "up")
      PROVE  /\ Ordered(s)' /\ got'[s] = got[s] /\ PipeSet(s)' = PipeSet(s)
             /\ missed'[s] = IF room[s] = room[a.from] THEN missed[s] \cup {place} ELSE missed[s]
  <2>1. socket'[s] = socket[s]
        BY <1>3, <1>5
  <2>2. Ordered(s)' /\ PipeSet(s)' = PipeSet(s)
        BY <1>1, <2>1 DEF MoveInv, PipeInv, Ordered, PipeSet, InHand
  <2>3. missed'[s] = IF room[s] = room[a.from] THEN missed[s] \cup {place} ELSE missed[s]
        BY <1>3, <1>5
  <2> QED BY <1>1, <2>2, <2>3
<1>6. PipeInv'
      BY <1>4, <1>5 DEF PipeInv
<1>7. MemoryInv'
      BY <1>1 DEF MemoryInv
<1>8. PlaceInv'
  <2>1. ASSUME NEW s \in Subs, NEW i \in DOMAIN log'
        PROVE  room[log'[i].from] = room[s]
                 <=> i \in got'[s] \cup PipeSet(s)' \cup missed'[s]
    <3>1. CASE i \in DOMAIN log
      <4>1. i # place /\ log'[i] = log[i]
            BY <1>2, <3>1
      <4>2. room[log[i].from] = room[s] <=> i \in got[s] \cup PipeSet(s) \cup missed[s]
            BY <1>1, <3>1 DEF MoveInv, PlaceInv
      <4>3. i \in got'[s] \cup PipeSet(s)' \cup missed'[s]
              <=> i \in got[s] \cup PipeSet(s) \cup missed[s]
        <5> HIDE DEF place
        <5>1. CASE room[s] = room[a.from] /\ link[s] = "up"
              BY <1>4, <4>1, <5>1
        <5>2. CASE ~ (room[s] = room[a.from] /\ link[s] = "up")
              BY <1>5, <4>1, <5>2
        <5> QED BY <5>1, <5>2
      <4> QED BY <4>1, <4>2, <4>3
    <3>2. CASE i = place
      <4>1. log'[i].from = a.from
            BY <1>2, <3>2 DEF msg
      <4>2. i \notin got[s] \cup PipeSet(s) \cup missed[s]
            BY <1>2, <3>2, SubTypesHold DEF SubTypes
      <4>3. i \in got'[s] \cup PipeSet(s)' \cup missed'[s] <=> room[s] = room[a.from]
        <5> HIDE DEF place
        <5>1. CASE room[s] = room[a.from] /\ link[s] = "up"
              BY <1>4, <3>2, <4>2, <5>1
        <5>2. CASE ~ (room[s] = room[a.from] /\ link[s] = "up")
              BY <1>5, <3>2, <4>2, <5>2
        <5> QED BY <5>1, <5>2
      <4> QED BY <4>1, <4>3
    <3> QED BY <1>2, <3>1, <3>2
  <2> QED BY <1>1, <2>1 DEF PlaceInv
<1>9. Reaches
  <2> DEFINE reached == {s \in Subs : room[s] = room[a.from] /\ link[s] = "up"}
  <2>1. \A s \in Subs : PipeSet(s)' = IF s \in reached THEN PipeSet(s) \cup {place} ELSE PipeSet(s)
        BY <1>4, <1>5
  <2>2. reached \in SUBSET Subs
        OBVIOUS
  <2> HIDE DEF reached
  <2> QED BY <1>1, <1>10, <2>1, <2>2 DEF Reaches
<1> QED BY <1>6, <1>7, <1>8, <1>9 DEF MoveInv

\* A sender meets a funnel.
LEMMA HandOverMoves ==
    ASSUME TypeOK, CallInv, MoveInv, NEW p \in Senders, NEW s \in Subs, HandOver(p, s)
    PROVE  MoveInv' /\ Reaches
<1> DEFINE place == Len(log) + 1
<1>0. Msg(p) \in Message
      BY SizesAssumption DEF TypeOK, CallInv, HandOver, Msg, Message
<1>1. /\ setting' = setting /\ backend' = backend /\ room' = room /\ backend = "memory"
      /\ backend # "redis" /\ wire' = wire /\ socket' = socket /\ missed' = missed
      /\ channel' = channel /\ relay' = relay /\ got' = got
      /\ log' = Append(log, Msg(p)) /\ funnel[s] = Nothing
      BY DEF HandOver, linkVars, backend, room
<1>2. /\ DOMAIN log = 1 .. Len(log) /\ Len(log) \in Nat
      /\ DOMAIN log' = DOMAIN log \cup {place} /\ place \notin DOMAIN log
  <2> QED BY <1>0, <1>1, LogGrows
<1>3. funnel'[s] = place /\ \A t \in Subs \ {s} : funnel'[t] = funnel[t]
      BY DEF HandOver, TypeOK
<1>4. /\ wire = {} /\ \A t \in Subs : channel[t] = <<>> /\ socket[t] = <<>>
      BY <1>1 DEF MoveInv, MemoryInv
<1>5. \A t \in Subs : PipeSet(t) = InHand(relay[t]) \cup InHand(funnel[t])
      BY <1>4, EmptyRange DEF PipeSet
<1>6. InHand(funnel[s]) = {} /\ InHand(funnel'[s]) = {place}
      BY <1>1, <1>2, <1>3 DEF InHand, Nothing
<1>7. PipeSet(s)' = PipeSet(s) \cup {place}
      BY <1>1, <1>6 DEF PipeSet, InHand
<1>8. \A t \in Subs \ {s} : PipeSet(t)' = PipeSet(t)
      BY <1>1, <1>3 DEF PipeSet, InHand
<1>9. Ordered(s)'
  <2>1. SubTypes(s) /\ Ordered(s)
        BY SubTypesHold DEF MoveInv, PipeInv
  <2>2. Before(got[s] \cup PipeSet(s), {place})
    <3>1. \A i \in DOMAIN log : i < place
          BY <1>2
    <3> QED BY <2>1, <3>1 DEF SubTypes, Before
  <2> HIDE DEF place
  <2>3. Before(got'[s], PipeSet(s)')
        BY <1>1, <1>7, <2>1, <2>2 DEF Ordered, Before
  <2>4. /\ Range(channel'[s]) = {} /\ Range(socket'[s]) = {}
        /\ Sorted(channel'[s]) /\ Sorted(socket'[s])
        BY <1>1, <1>4, EmptyRange
  <2>5. Before(InHand(relay'[s]), {place})
        BY <1>1, <1>5, <2>2 DEF Before, InHand
  <2> QED BY <1>6, <2>3, <2>4, <2>5 DEF Ordered, Before
<1>10. ASSUME NEW t \in Subs \ {s} PROVE Ordered(t)'
  <2>1. Ordered(t)
        BY DEF MoveInv, PipeInv
  <2> QED BY <1>1, <1>3, <1>8, <2>1 DEF Ordered, InHand
<1>11. PipeInv'
       BY <1>9, <1>10 DEF PipeInv
<1>12. MemoryInv'
       BY <1>1, <1>4 DEF MemoryInv
<1>13. PlaceInv'
  <2>1. ASSUME NEW i \in DOMAIN log'
        PROVE  \E t \in Subs : \A r \in Subs : i \in got'[r] \cup PipeSet(r)' <=> r = t
    <3>1. CASE i \in DOMAIN log
      <4>1. PICK t \in Subs : \A r \in Subs : i \in got[r] \cup PipeSet(r) <=> r = t
            BY <1>1, <3>1 DEF MoveInv, PlaceInv
      <4>2. i # place
            BY <1>2, <3>1
      <4> QED BY <1>1, <1>7, <1>8, <4>1, <4>2
    <3>2. CASE i = place
      <4>1. \A r \in Subs : i \notin got[r] \cup PipeSet(r)
            BY <1>2, <3>2, SubTypesHold DEF SubTypes
      <4> QED BY <1>1, <1>7, <1>8, <3>2, <4>1
    <3> QED BY <1>2, <3>1, <3>2
  <2> QED BY <1>1, <2>1 DEF PlaceInv
<1>14. Reaches
  <2>1. \A t \in Subs : PipeSet(t)' = IF t \in {s} THEN PipeSet(t) \cup {place} ELSE PipeSet(t)
        BY <1>7, <1>8
  <2>2. {s} \in SUBSET Subs
        OBVIOUS
  <2> QED BY <1>0, <1>1, <2>1, <2>2 DEF Reaches
<1> QED BY <1>11, <1>12, <1>13, <1>14 DEF MoveInv

-----------------------------------------------------------------------------
(* The theorems                                                            *)

LEMMA InitHolds == Init => QueueInv
<1> SUFFICES ASSUME Init PROVE QueueInv
    OBVIOUS
<1> USE DEF Init
<1>1. setting \in Setting /\ setting.budget \in [Senders -> 0 .. MaxSent]
      /\ setting.breaks \in [Subs -> Nat] /\ MaxRetries \in Nat
      BY SettingsAssumption DEF Setting, MaxRetries
<1>2. DOMAIN log = {} /\ Len(log) = 0 /\ log \in Seq(Message)
      OBVIOUS
<1>3. \A s \in Subs : PipeSet(s) = {}
      BY EmptyRange DEF PipeSet, InHand
<1>4. TypeOK
  <2>1. /\ sent \in [Senders -> 0 .. MaxSent] /\ try \in [Senders -> 0 .. MaxRetries]
        /\ \A p \in Senders : sent[p] <= setting.budget[p]
        BY <1>1, SizesAssumption
  <2>2. /\ socket \in [Subs -> Seq(DOMAIN log)]
        /\ channel \in [Subs -> Seq(DOMAIN log)] /\ \A s \in Subs : Len(channel[s]) <= ChanSize
        BY <1>2, SizesAssumption
  <2>3. breaks \in [Subs -> Nat] /\ \A s \in Subs : breaks[s] <= setting.breaks[s]
        BY <1>1
  <2> QED BY <1>2, <2>1, <2>2, <2>3 DEF TypeOK
<1>5. PipeInv
      BY <1>3, EmptyRange DEF PipeInv, Ordered, Before, InHand
<1>6. AnswerInv /\ ReturnedIsAccepted
      BY DEF AnswerInv, ReturnedIsAccepted
<1> QED BY <1>2, <1>4, <1>5, <1>6
        DEF QueueInv, CallInv, MemoryInv, PlaceInv, WireInv, LogInv, LateOnlyAfterGivingUp

LEMMA StepHolds == QueueInv /\ [Next]_vars => QueueInv'
<1> SUFFICES ASSUME QueueInv, [Next]_vars PROVE QueueInv'
    OBVIOUS
<1>1. TypeOK /\ CallInv /\ MoveInv /\ MemoryInv /\ WireInv /\ LogInv /\ LateOnlyAfterGivingUp
      /\ AnswerInv /\ ReturnedIsAccepted
      BY DEF QueueInv, MoveInv
<1>2. SUFFICES /\ TypeOK' /\ CallInv'
               /\ MoveInv'
               /\ WireInv' /\ LogInv' /\ LateOnlyAfterGivingUp'
               /\ AnswerInv' /\ ReturnedIsAccepted'
      BY DEF QueueInv, MoveInv
\* What neither the callers nor Redis do leaves the log and the wire alone.
<1>3. ASSUME UNCHANGED <<setting, callVars, wire, log>>
      PROVE  /\ WireInv' /\ LogInv' /\ LateOnlyAfterGivingUp'
             /\ AnswerInv' /\ ReturnedIsAccepted'
  <2> USE <1>1, <1>3 DEF callVars
  <2>1. WireInv' /\ LogInv' /\ LateOnlyAfterGivingUp'
        BY DEF WireInv, LogInv, LateOnlyAfterGivingUp, Current
  <2>2. AnswerInv' /\ ReturnedIsAccepted'
        BY DEF AnswerInv, ReturnedIsAccepted, Msg, backend
  <2> QED BY <2>1, <2>2
<1>4. ASSUME NEW p \in Senders, Publish(p) \/ Return(p) \/ GiveUp(p) \/ PublishFails(p)
      PROVE  MoveInv'
  <2>1. /\ setting' = setting /\ log' = log /\ missed' = missed /\ channel' = channel
        /\ socket' = socket /\ funnel' = funnel /\ relay' = relay /\ got' = got
        /\ backend = "memory" => wire' = wire
        BY <1>4 DEF Publish, Return, GiveUp, PublishFails, linkVars, pipeVars
  <2> QED BY <1>1, <2>1, Unmoved
<1>5. CASE \E p \in Senders : Publish(p) \/ ClientStep(p)
      BY <1>1, <1>4, <1>5, CallerTypes, CallerWire, CallerAnswer DEF ClientStep
<1>6. CASE \E p \in Senders : Meet(p)
      BY <1>1, <1>6, AcceptTypes, AcceptWire, AcceptAnswer, HandOverMoves DEF Meet
<1>7. CASE \E a \in wire : Execute(a)
      BY <1>1, <1>7, AcceptTypes, AcceptWire, AcceptAnswer, ExecuteMoves
<1>8. ASSUME NEW s \in Subs, Subscribe(s) \/ Resubscribe(s)
      PROVE  (TypeOK' /\ CallInv') /\ MoveInv' /\ UNCHANGED <<setting, callVars, wire, log>>
  <2>1. /\ setting' = setting /\ log' = log /\ missed' = missed /\ channel' = channel
        /\ socket' = socket /\ funnel' = funnel /\ relay' = relay /\ got' = got /\ wire' = wire
        /\ UNCHANGED callVars
        BY <1>8 DEF Subscribe, Resubscribe, pipeVars
  <2>2. MoveInv'
        BY <1>1, <2>1, Unmoved
  <2> QED BY <1>1, <1>8, <2>1, <2>2, LinkTypes
<1>9. ASSUME NEW s \in Subs, Break(s) \/ Fill(s) \/ Drop(s)
      PROVE  (TypeOK' /\ CallInv') /\ MoveInv' /\ UNCHANGED <<setting, callVars, wire, log>>
  <2>1. UNCHANGED <<setting, callVars, wire, log>>
        BY <1>9 DEF Break, Fill, Drop
  <2> QED BY <1>1, <1>9, <2>1, LinkTypes, ReaderMoves
<1>10. ASSUME NEW s \in Subs, FunnelTake(s) \/ RelayTake(s) \/ Inbound(s)
       PROVE  (TypeOK' /\ CallInv') /\ MoveInv' /\ UNCHANGED <<setting, callVars, wire, log>>
  <2>1. UNCHANGED <<setting, callVars, wire, log>>
        BY <1>10 DEF FunnelTake, RelayTake, Inbound
  <2> QED BY <1>1, <1>10, <2>1, FunnelTypes, FunnelMoves
<1>11. CASE \E s \in Subs : \/ Subscribe(s) \/ Break(s) \/ ReaderStep(s)
                            \/ FunnelTake(s) \/ RelayTake(s) \/ Inbound(s)
       BY <1>3, <1>8, <1>9, <1>10, <1>11 DEF ReaderStep
<1>12. CASE UNCHANGED vars
  <2> USE DEF vars, callVars, linkVars, pipeVars
  <2>1. TypeOK' /\ CallInv'
        BY <1>1, <1>12 DEF TypeOK, CallInv, Attempt, MaxRetries
  <2>2. MoveInv'
        BY <1>1, <1>12, Unmoved
  <2>3. UNCHANGED <<setting, callVars, wire, log>>
        BY <1>12
  <2> QED BY <1>3, <2>1, <2>2, <2>3
<1> QED BY <1>5, <1>6, <1>7, <1>11, <1>12 DEF Next

\* The inductive invariant: types, the order of what is on the way, where
\* each place of the log is, and what becomes of the attempts on the wire.
THEOREM QueueInductive == Spec => []QueueInv
<1> QED BY InitHolds, StepHolds, PTL DEF Spec

\* The types of the variables, and the bounds of the channels, messages and breaks.
THEOREM QueueTypeCorrect == Spec => []TypeOK
<1>1. QueueInv => TypeOK
      BY DEF QueueInv
<1> QED BY <1>1, QueueInductive, PTL

\* Subscriptions hand the log to their rooms in order and each place once,
\* whatever breaks, is dropped or is tried again (redis/queue.go:28,
\* controller.go:226).
THEOREM SubscriptionsInOrder == Spec => []InOrder
<1>1. QueueInv => InOrder
      BY InOrderHolds DEF QueueInv
<1> QED BY <1>1, QueueInductive, PTL

\* Nothing vanishes between the log and the rooms, and with Redis nothing
\* comes to a room it was not published to (README.md:93).
THEOREM NothingVanishes == Spec => []Conserved
<1>1. QueueInv => Conserved
      BY ConservedHolds DEF QueueInv
<1> QED BY <1>1, QueueInductive, PTL

\* A message that is accepted behind a later one of its sender, or a second time,
\* was given up by the client (go-redis retries; redis/queue.go:25).
THEOREM LateWereGivenUp == Spec => []LateOnlyAfterGivingUp
<1>1. QueueInv => LateOnlyAfterGivingUp
      BY DEF QueueInv
<1> QED BY <1>1, QueueInductive, PTL

\* What Publish published without giving up is in the log when it returns
\* (redis/queue.go:25, memory/queue.go:24); with LateWereGivenUp: exactly once.
THEOREM PublishedIsAccepted == Spec => []ReturnedIsAccepted
<1>1. QueueInv => ReturnedIsAccepted
      BY DEF QueueInv
<1> QED BY <1>1, QueueInductive, PTL

-----------------------------------------------------------------------------
(* The queue implements the queue of ChatRoom                              *)

LEMMA TopicStep ==
    ASSUME QueueInv, QueueInv', [Next]_vars
    PROVE  [Topic!Next]_(Topic!topicVars)
<1> DEFINE sub == [s \in Subs |-> InPipe(s)]
<1>1. TypeOK /\ CallInv /\ MoveInv /\ TypeOK'
      BY DEF QueueInv, MoveInv
<1>2. \A s \in Subs : InPipe(s) = PipeSet(s)
      BY <1>1, InPipeIs
<1>3. \A s \in Subs : InPipe(s)' = PipeSet(s)'
  <2>1. (TypeOK => \A s \in Subs : InPipe(s) = PipeSet(s))'
        BY InPipeIs, PTL
  <2> QED BY <1>1, <2>1
<1>4. ASSUME UNCHANGED <<log, got>>, \A s \in Subs : PipeSet(s)' = PipeSet(s)
      PROVE  UNCHANGED Topic!topicVars
      BY <1>2, <1>3, <1>4 DEF Topic!topicVars
<1>5. ASSUME Reaches PROVE Topic!Accept
  <2>1. PICK reached \in SUBSET Subs : \A s \in Subs :
          PipeSet(s)' = IF s \in reached THEN PipeSet(s) \cup {Len(log) + 1} ELSE PipeSet(s)
        BY <1>5 DEF Reaches
  <2>2. sub' = [s \in Subs |-> IF s \in reached THEN sub[s] \cup {Len(log) + 1} ELSE sub[s]]
        BY <1>2, <1>3, <2>1
  <2> QED BY <1>5, <2>2 DEF Reaches, Topic!Accept
<1>6. ASSUME NEW s \in Subs, UNCHANGED <<log, got>>, PipeSet(s)' \subseteq PipeSet(s),
             \A t \in Subs \ {s} : PipeSet(t)' = PipeSet(t)
      PROVE  Topic!Lose(s)
  <2>1. PipeSet(s)' \in SUBSET sub[s] /\ sub' = [sub EXCEPT ![s] = PipeSet(s)']
        BY <1>2, <1>3, <1>6
  <2> QED BY <1>6, <2>1 DEF Topic!Lose
<1>7. ASSUME NEW s \in Subs, UNCHANGED log, FirstTaken(s),
             \A t \in Subs \ {s} : PipeSet(t)' = PipeSet(t)
      PROVE  Topic!Take(s)
  <2>1. PICK i \in PipeSet(s) : /\ \A j \in PipeSet(s) : i <= j
                              /\ PipeSet(s)' = PipeSet(s) \ {i}
                              /\ got' = [got EXCEPT ![s] = @ \cup {i}]
        BY <1>7 DEF FirstTaken
  <2>2. i \in sub[s] /\ \A j \in sub[s] : i <= j
        BY <1>2, <2>1
  <2>3. sub' = [sub EXCEPT ![s] = @ \ {i}]
        BY <1>2, <1>3, <1>7, <2>1
  <2> QED BY <1>7, <2>1, <2>2, <2>3 DEF Topic!Take
<1>8. CASE \/ \E p \in Senders : Publish(p) \/ ClientStep(p)
           \/ \E s \in Subs : Subscribe(s) \/ Resubscribe(s)
           \/ UNCHANGED vars
  <2>1. UNCHANGED <<log, got, relay, funnel, channel, socket>>
        BY <1>8 DEF ClientStep, Publish, Return, GiveUp, PublishFails, Subscribe, Resubscribe,
                    vars, linkVars, pipeVars
  <2> QED BY <1>4, <2>1 DEF PipeSet
<1>9. CASE \/ \E p \in Senders : Meet(p)
           \/ \E a \in wire : Execute(a)
      BY <1>1, <1>5, <1>9, ExecuteMoves, HandOverMoves DEF Meet, Topic!Next
<1>10. CASE \E s \in Subs : Break(s) \/ Fill(s) \/ Drop(s)
  <2>1. PICK s \in Subs : Break(s) \/ Fill(s) \/ Drop(s)
        BY <1>10
  <2>2. UNCHANGED <<log, got>>
        BY <2>1 DEF Break, Fill, Drop, pipeVars
  <2>3. Topic!Lose(s)
        BY <1>1, <1>6, <2>1, <2>2, ReaderMoves
  <2> QED BY <2>3 DEF Topic!Next
<1>11. CASE \E s \in Subs : FunnelTake(s) \/ RelayTake(s) \/ Inbound(s)
  <2>1. PICK s \in Subs : FunnelTake(s) \/ RelayTake(s) \/ Inbound(s)
        BY <1>11
  <2>2. UNCHANGED log
        BY <2>1 DEF FunnelTake, RelayTake, Inbound
  <2>3. /\ \A t \in Subs \ {s} : PipeSet(t)' = PipeSet(t)
        /\ (PipeSet(s)' = PipeSet(s) /\ got' = got) \/ FirstTaken(s)
        BY <1>1, <2>1, FunnelMoves
  <2>4. CASE PipeSet(s)' = PipeSet(s) /\ got' = got
        BY <1>4, <2>2, <2>3, <2>4
  <2>5. CASE FirstTaken(s)
        BY <1>7, <2>2, <2>3, <2>5 DEF Topic!Next
  <2> QED BY <2>3, <2>4, <2>5
<1> QED BY <1>8, <1>9, <1>10, <1>11 DEF Next, ReaderStep

\* The queue, Redis or memory, with its goroutines implements the queue that
\* ChatRoom's Accept and Receive describe.
THEOREM QueueImplementsTopic == Spec => QueueIsTopic
<1>1. Init => Topic!Init
  <2> SUFFICES ASSUME Init PROVE Topic!Init
      OBVIOUS
  <2>1. TypeOK
        BY InitHolds DEF QueueInv
  <2>2. \A s \in Subs : InPipe(s) = {}
        BY <2>1, InPipeIs, EmptyRange DEF Init, PipeSet, InHand
  <2> QED BY <2>2 DEF Init, Topic!Init
<1>2. QueueInv /\ QueueInv' /\ [Next]_vars => [Topic!Next]_(Topic!topicVars)
      BY TopicStep
<1> QED BY <1>1, <1>2, QueueInductive, PTL DEF Spec, QueueIsTopic, Topic!Spec
=============================================================================
