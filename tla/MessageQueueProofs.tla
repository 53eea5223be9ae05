------------------------- MODULE MessageQueueProofs --------------------------
(***************************************************************************)
(* What is proved of the message queue, for any workers, topics and number *)
(* of messages, and whatever is lost, relayed again or sent again after a  *)
(* restart: the chain handles the answer to each message once and in the   *)
(* order of the messages, and a worker keeps what the chain still expects. *)
(*                                                                         *)
(* The answers of a sender are a sequence that grows with the blocks (Due). *)
(* A worker that has handled some of the blocks has numbered the answers   *)
(* to these, whichever receivers they came through (BlockHandled).         *)
(***************************************************************************)
EXTENDS MessageQueue, SumTheorems

Payload == 1..MaxInputs

-----------------------------------------------------------------------------
(* Iterations *)

\* Induction up to a bound.
LEMMA BoundedInduction ==
    ASSUME NEW n \in Nat, NEW T, 0 \in T, \A k \in 1..n : k - 1 \in T => k \in T
    PROVE  0..n \subseteq T
<1> DEFINE I == {k \in Nat : k <= n => k \in T}
<1>1. 0 \in I
  OBVIOUS
<1>2. ASSUME NEW k \in Nat, k \in I PROVE k + 1 \in I
  <2>1. k + 1 <= n => k + 1 \in 1..n /\ (k + 1) - 1 = k /\ k \in T
    BY <1>2
  <2> QED BY <2>1
<1>3. Nat \subseteq I
  <2> HIDE DEF I
  <2> QED BY <1>1, <1>2, SetInduction
<1> QED BY <1>3

\* The recursive equation of n iterations of G.
Iterates(h, first, G, n) == h = [k \in 0..n |-> IF k = 0 THEN first ELSE G[k][h[k - 1]]]

\* There is a function that iterates.
LEMMA IterationExists ==
    ASSUME NEW S, NEW first \in S, NEW n \in Nat, NEW G \in [1..n -> [S -> S]]
    PROVE  \E h \in [0..n -> S] : Iterates(h, first, G, n)
<1> DEFINE Good(h, k) == h \in [0..k -> S] /\ Iterates(h, first, G, k)
           T == {k \in 0..n : \E h : Good(h, k)}
<1>1. 0 \in T
  <2> DEFINE h == [k \in 0..0 |-> first]
  <2>1. Good(h, 0)
    BY DEF Iterates
  <2> QED BY <2>1
<1>2. ASSUME NEW k \in 1..n, k - 1 \in T PROVE k \in T
  <2>1. PICK h : Good(h, k - 1)
    BY <1>2
  <2> DEFINE g == [j \in 0..k |-> IF j = 0 THEN first ELSE G[j][h[j - 1]]]
  <2>2. \A j \in 0..(k - 1) : h[j] = (IF j = 0 THEN first ELSE G[j][h[j - 1]]) /\ h[j] \in S
    BY <2>1 DEF Iterates
  <2>3. \A j \in 0..(k - 1) : j \in 0..k /\ g[j] = h[j]
    BY <1>2, <2>2
  <2>4. \A j \in 1..k : j \in 1..n /\ j # 0 /\ j \in 0..k /\ j - 1 \in 0..(k - 1)
    BY <1>2
  <2>5. \A j \in 1..k : g[j] = G[j][h[j - 1]]
    BY <2>4
  <2>6. \A j \in 1..k : g[j] = G[j][g[j - 1]] /\ g[j] \in S
    BY <2>2, <2>3, <2>4, <2>5
  <2>7. g[0] = first /\ \A j \in 0..k : j # 0 => j \in 1..k
    <3>1. 0 \in 0..k /\ \A j \in 0..k : j # 0 => j \in 1..k
      BY <1>2
    <3> QED BY <3>1
  <2>8. g = [j \in 0..k |-> g[j]]
    OBVIOUS
  <2> HIDE DEF g
  <2>9. \A j \in 0..k : g[j] = (IF j = 0 THEN first ELSE G[j][g[j - 1]]) /\ g[j] \in S
    BY <2>6, <2>7
  <2>10. Good(g, k)
    BY <2>8, <2>9 DEF Iterates
  <2> QED BY <2>10
<1>3. 0..n \subseteq T
  <2> HIDE DEF T
  <2> QED BY <1>1, <1>2, BoundedInduction
<1>4. n \in T
  BY <1>3
<1> QED BY <1>4

-----------------------------------------------------------------------------
(* Sequences *)

\* t goes on where s ends.
Begins(s, t) == Len(s) <= Len(t) /\ \A i \in 1..Len(s) : s[i] = t[i]

\* Concatenating to a sequence.
LEMMA BeginsConcat ==
    ASSUME NEW S, NEW s \in Seq(S), NEW t \in Seq(S), NEW u \in Seq(S), Begins(s, t)
    PROVE  Begins(s, t \o u)
  BY DEF Begins

LEMMA ConcatAppend ==
    ASSUME NEW S, NEW s \in Seq(S), NEW t \in Seq(S), NEW x \in S
    PROVE  s \o Append(t, x) = Append(s \o t, x)
  OBVIOUS

LEMMA ConcatEmpty ==
    ASSUME NEW S, NEW s \in Seq(S)
    PROVE  s \o <<>> = s
  OBVIOUS

-----------------------------------------------------------------------------
(* The answers that are due *)

\* The answers to the messages of a block, one message after the other.
LEMMA AnswersEq ==
    ASSUME NEW s, NEW block \in Seq(Message)
    PROVE  LET a == AnswersTo(s, block)
           IN  /\ a \in [0..Len(block) -> Seq(Payload)]
               /\ a[0] = <<>>
               /\ \A k \in 1..Len(block) :
                     a[k] = IF block[k].topic \in Answered(s)
                            THEN Append(a[k - 1], block[k].payload) ELSE a[k - 1]
<1> DEFINE L == Len(block)
           step(x, k) == IF block[k].topic \in Answered(s) THEN Append(x, block[k].payload) ELSE x
           G == [k \in 1..L |-> [x \in Seq(Payload) |-> step(x, k)]]
           Eq(h) == h = [k \in 0..L |-> IF k = 0 THEN <<>> ELSE step(h[k - 1], k)]
           a == AnswersTo(s, block)
<1>1. L \in Nat /\ \A k \in 1..L : block[k].payload \in Payload
  <2>1. L \in Nat /\ \A k \in 1..L : block[k] \in Message
    OBVIOUS
  <2> HIDE DEF L
  <2> QED BY <2>1 DEF Message, Payload
<1>2. \A k \in 1..L : \A x \in Seq(Payload) : step(x, k) \in Seq(Payload)
  BY <1>1
<1>3. a = CHOOSE h : Eq(h)
  BY DEF AnswersTo
<1> HIDE DEF step, a, L
<1>4. G \in [1..L -> [Seq(Payload) -> Seq(Payload)]] /\ <<>> \in Seq(Payload)
  BY <1>2
<1>5. PICK g \in [0..L -> Seq(Payload)] : Iterates(g, <<>>, G, L)
  <2> HIDE DEF G
  <2> QED BY <1>1, <1>4, IterationExists
<1>6. g = [k \in 0..L |-> IF k = 0 THEN <<>> ELSE G[k][g[k - 1]]]
  BY <1>5 DEF Iterates
<1>7. \A k \in 0..L : k # 0 => k \in 1..L /\ k - 1 \in 0..L
  BY <1>1
<1>8. \A k \in 0..L : k # 0 => G[k][g[k - 1]] = step(g[k - 1], k)
  BY <1>5, <1>7
<1> HIDE DEF G
<1>9. Eq(g)
  BY <1>6, <1>8
<1>10. Eq(a)
  BY <1>3, <1>9
<1>11. a[0] = <<>> /\ \A k \in 1..L : a[k] = step(a[k - 1], k)
  BY <1>1, <1>10
<1> DEFINE T == {k \in 0..L : a[k] \in Seq(Payload)}
<1>12. 0 \in T
  <2>1. 0 \in 0..L /\ <<>> \in Seq(Payload)
    BY <1>1
  <2> QED BY <1>11, <2>1
<1>13. ASSUME NEW k \in 1..L, k - 1 \in T PROVE k \in T
  BY <1>1, <1>2, <1>11, <1>13
<1>14. 0..L \subseteq T
  <2> HIDE DEF T
  <2> QED BY <1>1, <1>12, <1>13, BoundedInduction
<1>15. a \in [0..L -> Seq(Payload)]
  BY <1>10, <1>14
<1> QED BY <1>11, <1>15 DEF step, a, L

\* Messages that are not answered do not count.
LEMMA AnswersSkip ==
    ASSUME NEW s, NEW block \in Seq(Message), NEW k \in 0..Len(block), NEW j \in k..Len(block),
           \A i \in (k + 1)..j : block[i].topic \notin Answered(s)
    PROVE  AnswersTo(s, block)[j] = AnswersTo(s, block)[k]
<1> DEFINE a == AnswersTo(s, block)
           L == Len(block)
           T == {i \in 0..L : k <= i /\ i <= j => a[i] = a[k]}
<1>0. L \in Nat
  OBVIOUS
<1>1. \A i \in 1..L : a[i] = IF block[i].topic \in Answered(s)
                             THEN Append(a[i - 1], block[i].payload) ELSE a[i - 1]
  BY AnswersEq
<1> HIDE DEF a
<1>2. 0 \in T
  OBVIOUS
<1>3. ASSUME NEW i \in 1..L, i - 1 \in T PROVE i \in T
  <2>1. CASE i <= k \/ j < i
    BY <2>1
  <2>2. CASE k < i /\ i <= j
    <3>1. a[i - 1] = a[k] /\ i \in (k + 1)..j
      BY <1>3, <2>2
    <3> QED BY <1>1, <3>1
  <2> QED BY <2>1, <2>2
<1>4. 0..L \subseteq T
  <2> HIDE DEF T, L
  <2> QED BY <1>0, <1>2, <1>3, BoundedInduction
<1>5. j \in T /\ k <= j
  BY <1>0, <1>4
<1> QED BY <1>5 DEF a

\* The answers to a block are answers.
LEMMA BlockAnswers ==
    ASSUME NEW s, NEW block \in Seq(Message)
    PROVE  AnswersTo(s, block)[Len(block)] \in Seq(Payload)
<1>1. Len(block) \in 0..Len(block)
  OBVIOUS
<1> QED BY <1>1, AnswersEq

\* The answers to the messages of some blocks, one block after the other.
LEMMA DueEq ==
    ASSUME NEW s, NEW bs \in Seq(Seq(Message))
    PROVE  LET d == DueBy(s, bs)
           IN  /\ d \in [0..Len(bs) -> Seq(Payload)]
               /\ d[0] = <<>>
               /\ \A k \in 1..Len(bs) :
                     d[k] = d[k - 1] \o AnswersTo(s, bs[k])[Len(bs[k])]
<1> DEFINE L == Len(bs)
           block(k) == AnswersTo(s, bs[k])[Len(bs[k])]
           G == [k \in 1..L |-> [x \in Seq(Payload) |-> x \o block(k)]]
           Eq(h) == h = [k \in 0..L |-> IF k = 0 THEN <<>> ELSE h[k - 1] \o block(k)]
           d == DueBy(s, bs)
<1>1. L \in Nat
  OBVIOUS
<1>2. \A k \in 1..L : block(k) \in Seq(Payload)
  BY BlockAnswers
<1>3. d = CHOOSE h : Eq(h)
  BY DEF DueBy
<1> HIDE DEF block, d, L
<1>4. G \in [1..L -> [Seq(Payload) -> Seq(Payload)]] /\ <<>> \in Seq(Payload)
  BY <1>2
<1>5. PICK g \in [0..L -> Seq(Payload)] : Iterates(g, <<>>, G, L)
  <2> HIDE DEF G
  <2> QED BY <1>1, <1>4, IterationExists
<1>6. g = [k \in 0..L |-> IF k = 0 THEN <<>> ELSE G[k][g[k - 1]]]
  BY <1>5 DEF Iterates
<1>7. \A k \in 0..L : k # 0 => k \in 1..L /\ k - 1 \in 0..L
  BY <1>1
<1>8. ASSUME NEW k \in 0..L, k # 0 PROVE G[k][g[k - 1]] = g[k - 1] \o block(k)
  <2>1. k \in 1..L /\ g[k - 1] \in Seq(Payload)
    BY <1>5, <1>7, <1>8
  <2>2. G[k] = [x \in Seq(Payload) |-> x \o block(k)]
    BY <2>1
  <2> HIDE DEF G
  <2> QED BY <2>1, <2>2
<1> HIDE DEF G
<1>9. Eq(g)
  BY <1>6, <1>8, Zenon
<1>10. Eq(d)
  BY <1>3, <1>9, Zenon
<1>11. d[0] = <<>> /\ \A k \in 1..L : d[k] = d[k - 1] \o block(k)
  <2>1. 0 \in 0..L /\ \A k \in 1..L : k \in 0..L /\ k # 0
    BY <1>1
  <2> QED BY <1>10, <2>1
<1> DEFINE T == {k \in 0..L : d[k] \in Seq(Payload)}
<1>12. 0 \in T
  <2>1. 0 \in 0..L /\ <<>> \in Seq(Payload)
    BY <1>1
  <2> QED BY <1>11, <2>1
<1>13. ASSUME NEW k \in 1..L, k - 1 \in T PROVE k \in T
  <2>1. d[k - 1] \in Seq(Payload) /\ block(k) \in Seq(Payload) /\ k \in 0..L
    BY <1>1, <1>2, <1>13
  <2>2. d[k - 1] \o block(k) \in Seq(Payload)
    BY <2>1
  <2> QED BY <1>11, <2>1, <2>2
<1>14. 0..L \subseteq T
  <2> HIDE DEF T
  <2> QED BY <1>1, <1>12, <1>13, BoundedInduction
<1>15. d \in [0..L -> Seq(Payload)]
  BY <1>10, <1>14
<1> QED BY <1>11, <1>15 DEF block, d, L

\* The answers to more blocks go on where those to fewer end.
LEMMA DueGrow ==
    ASSUME NEW s, NEW bs \in Seq(Seq(Message)), NEW k \in 0..Len(bs), NEW j \in k..Len(bs)
    PROVE  Begins(DueBy(s, bs)[k], DueBy(s, bs)[j])
<1> DEFINE d == DueBy(s, bs)
           L == Len(bs)
           block(i) == AnswersTo(s, bs[i])[Len(bs[i])]
           T == {i \in 0..L : k <= i => Begins(d[k], d[i])}
<1>0. L \in Nat /\ \A i \in 1..L : block(i) \in Seq(Payload)
  BY BlockAnswers
<1>1. d \in [0..L -> Seq(Payload)] /\ \A i \in 1..L : d[i] = d[i - 1] \o block(i)
  BY DueEq
<1> HIDE DEF d, L, block
<1>2. Begins(d[k], d[k])
  BY <1>1 DEF Begins
<1>3. 0 \in T
  <2>1. k <= 0 => k = 0
    BY DEF L
  <2>2. 0 \in 0..L
    BY <1>0
  <2> QED BY <1>2, <2>1, <2>2
<1>4. ASSUME NEW i \in 1..L, i - 1 \in T PROVE i \in T
  <2>1. CASE i <= k
    BY <1>2, <2>1
  <2>2. CASE k < i
    <3>1. Begins(d[k], d[i - 1]) /\ i - 1 \in 0..L
      BY <1>4, <2>2
    <3>2. d[k] \in Seq(Payload) /\ d[i - 1] \in Seq(Payload)
      BY <1>1, <3>1 DEF L
    <3>3. Begins(d[k], d[i])
      BY <1>0, <1>1, <3>1, <3>2, BeginsConcat
    <3> QED BY <3>3
  <2> QED BY <2>1, <2>2
<1>5. 0..L \subseteq T
  <2> HIDE DEF T
  <2> QED BY <1>0, <1>3, <1>4, BoundedInduction
<1>6. j \in 0..L /\ k <= j
  BY DEF L
<1>7. j \in T
  BY <1>5, <1>6, Zenon
<1> QED BY <1>6, <1>7 DEF d

\* A new block leaves what is due for the others.
LEMMA DueKept ==
    ASSUME NEW s, NEW bs \in Seq(Seq(Message)), NEW block \in Seq(Message)
    PROVE  \A k \in 0..Len(bs) : DueBy(s, Append(bs, block))[k] = DueBy(s, bs)[k]
<1> DEFINE cs == Append(bs, block)
           L == Len(bs)
           d == DueBy(s, bs)
           e == DueBy(s, cs)
           T == {k \in 0..L : e[k] = d[k]}
<1>1. /\ L \in Nat /\ cs \in Seq(Seq(Message)) /\ Len(cs) = L + 1
      /\ \A k \in 1..L : cs[k] = bs[k] /\ k \in 1..Len(cs)
  OBVIOUS
<1>2. d[0] = <<>> /\ \A k \in 1..L : d[k] = d[k - 1] \o AnswersTo(s, bs[k])[Len(bs[k])]
  BY DueEq
<1>3. e[0] = <<>> /\ \A k \in 1..Len(cs) : e[k] = e[k - 1] \o AnswersTo(s, cs[k])[Len(cs[k])]
  <2> HIDE DEF cs
  <2> QED BY <1>1, DueEq
<1> HIDE DEF cs, d, e, L
<1>4. 0 \in T
  BY <1>1, <1>2, <1>3
<1>5. ASSUME NEW k \in 1..L, k - 1 \in T PROVE k \in T
  <2>1. cs[k] = bs[k] /\ k \in 1..Len(cs) /\ e[k - 1] = d[k - 1] /\ k \in 0..L
    BY <1>1, <1>5
  <2>2. e[k] = e[k - 1] \o AnswersTo(s, cs[k])[Len(cs[k])]
    BY <1>3, <2>1
  <2>3. d[k] = d[k - 1] \o AnswersTo(s, bs[k])[Len(bs[k])]
    BY <1>2
  <2>4. e[k] = d[k]
    BY <2>1, <2>2, <2>3
  <2> QED BY <2>1, <2>4
<1>6. 0..L \subseteq T
  <2> HIDE DEF T
  <2> QED BY <1>1, <1>4, <1>5, BoundedInduction
<1> QED BY <1>6 DEF cs, d, e, L

-----------------------------------------------------------------------------
(* What a worker does with a block *)

\* The least of some indexes.
LEMMA MinIs ==
    ASSUME NEW S \in SUBSET Nat, S # {}
    PROVE  Min(S) \in S /\ \A i \in S : Min(S) <= i
<1>1. \E i \in S : \A j \in S : i <= j
  BY LeastNatural
<1> QED BY <1>1 DEF Min

\* The receiver that select! takes from holds the first of all messages that are left.
LEMMA SelectedIs ==
    ASSUME NEW R \in [Subscribed -> SUBSET Nat], NEW v \in Subscribed, R[v] # {}
    PROVE  /\ Selected(R) \in Subscribed
           /\ Min(R[Selected(R)]) \in R[Selected(R)]
           /\ \A u \in Subscribed : \A i \in R[u] : Min(R[Selected(R)]) <= i
<1> DEFINE Full == {u \in Subscribed : R[u] # {}}
           N == {Min(R[u]) : u \in Full}
           First(t) == /\ R[t] # {}
                       /\ \A u \in Subscribed : R[u] # {} => Min(R[t]) <= Min(R[u])
<1>1. \A u \in Full : Min(R[u]) \in R[u] /\ \A i \in R[u] : Min(R[u]) <= i
  BY MinIs
<1>2. \A u \in Full : Min(R[u]) \in Nat
  BY <1>1
<1>3. N \subseteq Nat /\ N # {}
  <2>1. v \in Full
    OBVIOUS
  <2> QED BY <1>2, <2>1
<1>4. PICK n \in N : \A k \in N : n <= k
  <2> HIDE DEF N
  <2> QED BY <1>3, LeastNatural
<1>5. PICK t \in Full : n = Min(R[t])
  BY <1>4
<1>6. First(t)
  BY <1>4, <1>5
<1>7. Selected(R) = CHOOSE x \in Subscribed : First(x)
  BY DEF Selected
<1> HIDE DEF First
<1>8. Selected(R) \in Subscribed /\ First(Selected(R))
  BY <1>6, <1>7
<1> DEFINE s == Selected(R)
<1>9. s \in Full /\ \A u \in Full : Min(R[s]) <= Min(R[u])
  BY <1>8 DEF First
<1>10. ASSUME NEW u \in Subscribed, NEW i \in R[u] PROVE Min(R[s]) <= i
  <2>1. u \in Full
    BY <1>10
  <2>2. Min(R[s]) <= Min(R[u]) /\ Min(R[u]) <= i
    BY <1>1, <1>9, <2>1
  <2>3. Min(R[s]) \in Nat /\ Min(R[u]) \in Nat /\ i \in Nat
    BY <1>2, <1>9, <2>1
  <2> QED BY <2>2, <2>3
<1> QED BY <1>1, <1>9, <1>10

\* A send queue after the answers "sofar": they are numbered in their order, and those that the
\* chain still expects are there, unless it was a dummy for a while.
EntryGood(r, kind, entry, sofar, next) ==
    /\ entry.sequence = Len(sofar)
    /\ \A m \in entry.messages :
          /\ m.sender = SenderOf(r, kind)
          /\ m.sequence < Len(sofar)
          /\ m.payload = sofar[m.sequence + 1]
    /\ kind = "worker" \/ r \notin MayDummy =>
          /\ ~entry.dummy
          /\ \A n \in next..(Len(sofar) - 1) :
                \E m \in entry.messages : m.sequence = n

Entry == [sequence : Nat, messages : SUBSET SignedMessage, dummy : BOOLEAN]

LEMMA SenderIs == \A r \in Replica, kind \in Kind : SenderOf(r, kind) \in Sender
  BY DEF SenderOf, Sender

\* A message that is enqueued is the next answer.
LEMMA EnqueueKeeps ==
    ASSUME OffchainIngress \in [Sender -> Nat],
           NEW r \in Replica, NEW kind \in Kind, NEW entry \in Entry,
           NEW sofar \in Seq(Payload), NEW payload \in Payload,
           EntryGood(r, kind, entry, sofar, OffchainIngress[SenderOf(r, kind)])
    PROVE  LET e == enqueue_message(entry, SenderOf(r, kind), payload)
           IN  /\ e \in Entry
               /\ EntryGood(r, kind, e, Append(sofar, payload), OffchainIngress[SenderOf(r, kind)])
<1> DEFINE s == SenderOf(r, kind)
           e == enqueue_message(entry, s, payload)
           new == [sender |-> s, sequence |-> entry.sequence, payload |-> payload]
           more == Append(sofar, payload)
           L == Len(sofar)
           needed == kind = "worker" \/ r \notin MayDummy
<1>1. s \in Sender /\ OffchainIngress[s] \in Nat
  BY SenderIs
<1>2. L \in Nat /\ Len(more) = L + 1 /\ more[L + 1] = payload /\ \A i \in 1..L : more[i] = sofar[i]
  OBVIOUS
<1>3. /\ entry.sequence = L
      /\ \A m \in entry.messages :
            m.sender = s /\ m.sequence < L /\ m.payload = sofar[m.sequence + 1]
      /\ needed => /\ ~entry.dummy
                   /\ \A n \in OffchainIngress[s]..(L - 1) :
                         \E m \in entry.messages : m.sequence = n
  BY DEF EntryGood
<1>4. new \in SignedMessage /\ \A m \in entry.messages : m \in SignedMessage /\ m.sequence \in Nat
  BY <1>1, <1>2, <1>3 DEF Entry, SignedMessage, Payload
<1>5. /\ e.sequence = L + 1 /\ e.dummy = entry.dummy
      /\ e.messages \subseteq entry.messages \cup {new}
      /\ entry.messages \subseteq e.messages
      /\ ~entry.dummy => new \in e.messages
  BY <1>3 DEF enqueue_message
<1>6. e \in Entry
  <2>1. entry.messages \cup {new} \in SUBSET SignedMessage
    BY <1>4
  <2> QED BY <1>2, <1>3, <2>1 DEF Entry, enqueue_message
<1>7. new.sender = s /\ new.sequence = L /\ new.payload = payload
  BY <1>3
<1> HIDE DEF e, new, more, L, needed, s
<1>8. ASSUME NEW m \in e.messages
      PROVE  m.sender = s /\ m.sequence < L + 1 /\ m.payload = more[m.sequence + 1]
  <2>1. CASE m \in entry.messages
    <3>1. m.sequence \in Nat /\ m.sequence < L
      BY <1>3, <1>4, <2>1
    <3>2. m.sequence + 1 \in 1..L
      BY <1>2, <3>1
    <3> QED BY <1>2, <1>3, <2>1, <3>1, <3>2
  <2>2. CASE m = new
    BY <1>2, <1>7, <2>2
  <2> QED BY <1>5, <2>1, <2>2
<1>9. ASSUME needed, NEW n \in OffchainIngress[s]..((L + 1) - 1)
      PROVE  \E m \in e.messages : m.sequence = n
  <2>1. CASE n = L
    BY <1>3, <1>5, <1>7, <1>9, <2>1
  <2>2. CASE n # L
    <3>1. n \in OffchainIngress[s]..(L - 1)
      BY <1>1, <1>2, <2>2
    <3> QED BY <1>3, <1>5, <1>9, <3>1
  <2> QED BY <2>1, <2>2
<1>10. EntryGood(r, kind, e, more, OffchainIngress[SenderOf(r, kind)])
  <2>1. Len(more) = L + 1
    BY <1>2
  <2>2. needed => ~e.dummy
    BY <1>3, <1>5
  <2> QED BY <1>5, <1>8, <1>9, <2>1, <2>2 DEF EntryGood, s, needed
<1> QED BY <1>6, <1>10 DEF e, more, s

\* A worker's channels after n blocks and the first k messages of the next one.
Sofar(r, kind, n, block, k) ==
    DueBy(SenderOf(r, kind), blocks)[n] \o AnswersTo(SenderOf(r, kind), block)[k]

ChannelsGood(r, entries, n, block, k) ==
    /\ entries \in ChannelState
    /\ \A kind \in Kind :
          EntryGood(r, kind, entries[kind], Sofar(r, kind, n, block, k),
                    OffchainIngress[SenderOf(r, kind)])

\* The answers so far are a sequence, and the next message adds to it when it is answered.
LEMMA SofarIs ==
    ASSUME blocks \in Seq(Seq(Message)), NEW r \in Replica, NEW kind \in Kind,
           NEW n \in 0..Len(blocks), NEW block \in Seq(Message)
    PROVE  /\ \A k \in 0..Len(block) : Sofar(r, kind, n, block, k) \in Seq(Payload)
           /\ \A k \in 1..Len(block) :
                 Sofar(r, kind, n, block, k) =
                    IF block[k].topic \in Answered(SenderOf(r, kind))
                    THEN Append(Sofar(r, kind, n, block, k - 1), block[k].payload)
                    ELSE Sofar(r, kind, n, block, k - 1)
<1> DEFINE s == SenderOf(r, kind)
           d == DueBy(s, blocks)[n]
           a == AnswersTo(s, block)
           L == Len(block)
<1>1. d \in Seq(Payload)
  BY DueEq
<1>2. /\ a \in [0..L -> Seq(Payload)]
      /\ \A k \in 1..L : a[k] = IF block[k].topic \in Answered(s)
                                THEN Append(a[k - 1], block[k].payload) ELSE a[k - 1]
  BY AnswersEq
<1>3. L \in Nat /\ \A k \in 1..L : k - 1 \in 0..L /\ k \in 0..L
  OBVIOUS
<1>4. \A k \in 1..L : block[k].payload \in Payload
  <2>1. \A k \in 1..L : block[k] \in Message
    OBVIOUS
  <2> HIDE DEF L
  <2> QED BY <2>1 DEF Message, Payload
<1>5. \A k : Sofar(r, kind, n, block, k) = d \o a[k]
  BY DEF Sofar
<1> HIDE DEF d, a, L, s
<1>6. ASSUME NEW k \in 0..L PROVE d \o a[k] \in Seq(Payload)
  <2>1. a[k] \in Seq(Payload)
    BY <1>2, Zenon
  <2> HIDE DEF Payload
  <2> QED BY <1>1, <2>1
<1>7. ASSUME NEW k \in 1..L, block[k].topic \in Answered(s)
      PROVE  d \o a[k] = Append(d \o a[k - 1], block[k].payload)
  <2>1. a[k] = Append(a[k - 1], block[k].payload) /\ a[k - 1] \in Seq(Payload)
    <3>1. a[k] = IF block[k].topic \in Answered(s)
                 THEN Append(a[k - 1], block[k].payload) ELSE a[k - 1]
      BY <1>2, Zenon
    <3>2. a[k] = Append(a[k - 1], block[k].payload)
      BY <1>7, <3>1, Zenon
    <3>3. a[k - 1] \in Seq(Payload)
      BY <1>2, <1>3, Zenon
    <3> QED BY <3>2, <3>3, Zenon
  <2>2. block[k].payload \in Payload
    BY <1>4
  <2>3. d \o Append(a[k - 1], block[k].payload) = Append(d \o a[k - 1], block[k].payload)
    <3>1. PICK t \in Seq(Payload) : t = a[k - 1]
      BY <2>1
    <3>2. PICK x \in Payload : x = block[k].payload
      BY <2>2
    <3> HIDE DEF Payload
    <3>3. d \o Append(t, x) = Append(d \o t, x)
      BY <1>1, ConcatAppend
    <3> QED BY <3>1, <3>2, <3>3, Zenon
  <2> QED BY <2>1, <2>3, Zenon
<1> QED BY <1>2, <1>5, <1>6, <1>7 DEF L, s

\* One message is answered on the channel that answers it.
LEMMA AnswerKeeps ==
    ASSUME OffchainIngress \in [Sender -> Nat], blocks \in Seq(Seq(Message)), NEW r \in Replica,
           NEW n \in 0..Len(blocks), NEW block \in Seq(Message), NEW i \in 1..Len(block),
           NEW entries, ChannelsGood(r, entries, n, block, i - 1), block[i].topic \in Subscribed
    PROVE  ChannelsGood(r, answer(r, entries, block[i]), n, block, i)
<1> DEFINE message == block[i]
           kind0 == IF message.topic \in Shared THEN "gatekeeper" ELSE "worker"
           mine == kind0 = "gatekeeper" \/ r \in Addressed
           e == answer(r, entries, message)
           before(kind) == Sofar(r, kind, n, block, i - 1)
           after(kind) == Sofar(r, kind, n, block, i)
           queue(kind) == enqueue_message(entries[kind], SenderOf(r, kind), message.payload)
<1>1. message \in Message /\ message.payload \in Payload
  <2>1. message \in Message
    OBVIOUS
  <2> HIDE DEF message
  <2> QED BY <2>1 DEF Message, Payload
<1>2. /\ entries \in [Kind -> Entry]
      /\ \A kind \in Kind :
            EntryGood(r, kind, entries[kind], before(kind), OffchainIngress[SenderOf(r, kind)])
  BY DEF ChannelsGood, ChannelState, Entry
<1>3. ASSUME NEW kind \in Kind
      PROVE  /\ before(kind) \in Seq(Payload)
             /\ after(kind) = IF message.topic \in Answered(SenderOf(r, kind))
                              THEN Append(before(kind), message.payload) ELSE before(kind)
  <2>1. i - 1 \in 0..Len(block)
    OBVIOUS
  <2> QED BY <2>1, SofarIs
<1>4. \A kind \in Kind : message.topic \in Answered(SenderOf(r, kind)) <=> kind = kind0 /\ mine
  <2>1. /\ Answered(SenderOf(r, "gatekeeper")) = Shared
        /\ Answered(SenderOf(r, "worker")) = IF r \in Addressed THEN Subscribed \ Shared ELSE {}
    BY MessageQueueAssumption DEF Answered, SenderOf
  <2> QED BY <2>1 DEF Kind
<1>5. kind0 \in Kind
  BY DEF Kind
<1>6. e = IF mine THEN [entries EXCEPT ![kind0] = queue(kind0)] ELSE entries
  BY <1>2, <1>5 DEF answer
<1> HIDE DEF message, kind0, mine, e, before, after
<1>7. \A kind \in Kind :
         /\ queue(kind) \in Entry
         /\ EntryGood(r, kind, queue(kind), Append(before(kind), message.payload),
                      OffchainIngress[SenderOf(r, kind)])
  BY <1>1, <1>2, <1>3, EnqueueKeeps
<1> HIDE DEF queue
<1>8. e \in [Kind -> Entry]
  BY <1>2, <1>5, <1>6, <1>7
<1>9. ASSUME NEW kind \in Kind
      PROVE  EntryGood(r, kind, e[kind], after(kind), OffchainIngress[SenderOf(r, kind)])
  <2>1. CASE kind = kind0 /\ mine
    <3>1. e[kind] = queue(kind) /\ after(kind) = Append(before(kind), message.payload)
      BY <1>2, <1>3, <1>4, <1>6, <2>1
    <3> QED BY <1>7, <3>1
  <2>2. CASE ~(kind = kind0 /\ mine)
    <3>1. e[kind] = entries[kind] /\ after(kind) = before(kind)
      BY <1>2, <1>3, <1>4, <1>6, <2>2
    <3> QED BY <1>2, <3>1
  <2> QED BY <2>1, <2>2
<1> QED BY <1>8, <1>9 DEF ChannelsGood, ChannelState, Entry, e, after, message

\* The receivers when the messages up to the k-th were taken.
Left(block, k) == [t \in Subscribed |-> {i \in (k + 1)..Len(block) : block[i].topic = t}]

\* The k first messages of the block were taken, in their order, through whichever receivers.
LoopGood(r, n, block, c, k) ==
    /\ c \in Context(block)
    /\ c.receivers = Left(block, k)
    /\ ChannelsGood(r, c.entries, n, block, k)

\* Messages without a subscription are not answered.
LEMMA SkipKeeps ==
    ASSUME blocks \in Seq(Seq(Message)), NEW r \in Replica,
           NEW n \in 0..Len(blocks), NEW block \in Seq(Message), NEW entries,
           NEW k \in 0..Len(block), NEW j \in k..Len(block), ChannelsGood(r, entries, n, block, k),
           \A i \in (k + 1)..j : block[i].topic \notin Subscribed
    PROVE  ChannelsGood(r, entries, n, block, j)
<1>1. ASSUME NEW kind \in Kind PROVE Sofar(r, kind, n, block, j) = Sofar(r, kind, n, block, k)
  <2>1. Answered(SenderOf(r, kind)) \subseteq Subscribed
    BY MessageQueueAssumption DEF Answered
  <2>2. \A i \in (k + 1)..j : block[i].topic \notin Answered(SenderOf(r, kind))
    BY <2>1
  <2>3. AnswersTo(SenderOf(r, kind), block)[j] = AnswersTo(SenderOf(r, kind), block)[k]
    BY <2>2, AnswersSkip
  <2> QED BY <2>3 DEF Sofar
<1> QED BY <1>1 DEF ChannelsGood

\* The type of answer.
LEMMA AnswerTypes ==
    ASSUME NEW r \in Replica, NEW entries \in ChannelState, NEW message \in Message
    PROVE  answer(r, entries, message) \in ChannelState
<1>1. ASSUME NEW kind \in Kind
      PROVE  enqueue_message(entries[kind], SenderOf(r, kind), message.payload) \in Entry
  <2> DEFINE entry == entries[kind]
             new == [sender |-> SenderOf(r, kind), sequence |-> entry.sequence,
                     payload |-> message.payload]
  <2>1. entry \in Entry
    BY DEF ChannelState, Entry
  <2>2. new \in SignedMessage
    BY <2>1, SenderIs DEF Entry, SignedMessage, Message
  <2>3. /\ entry.sequence + 1 \in Nat /\ entry.dummy \in BOOLEAN
        /\ entry.messages \in SUBSET SignedMessage
    BY <2>1 DEF Entry
  <2>4. entry.messages \cup {new} \in SUBSET SignedMessage
    BY <2>2, <2>3
  <2>5. enqueue_message(entry, SenderOf(r, kind), message.payload)
          = [sequence |-> entry.sequence + 1,
             messages |-> IF entry.dummy THEN entry.messages ELSE entry.messages \cup {new},
             dummy |-> entry.dummy]
    BY DEF enqueue_message
  <2> HIDE DEF entry, new
  <2>6. enqueue_message(entry, SenderOf(r, kind), message.payload) \in Entry
    BY <2>3, <2>4, <2>5 DEF Entry
  <2> QED BY <2>6 DEF entry
<1>2. entries \in [Kind -> Entry]
  BY DEF ChannelState, Entry
<1>3. \E kind \in Kind :
        answer(r, entries, message) =
          [entries EXCEPT ![kind] =
              enqueue_message(entries[kind], SenderOf(r, kind), message.payload)]
        \/ answer(r, entries, message) = entries
  BY DEF answer, Kind
<1>4. answer(r, entries, message) \in [Kind -> Entry]
  BY <1>1, <1>2, <1>3
<1> QED BY <1>4 DEF ChannelState, Entry

\* An iteration of the loop is a step from contexts to contexts.
LEMMA SelectTypes ==
    ASSUME NEW r \in Replica, NEW block \in Seq(Message)
    PROVE  /\ select(r, block) \in [Context(block) -> Context(block)]
           /\ \A c \in Context(block) :
                LET t == Selected(c.receivers)
                    i == Min(c.receivers[t])
                IN  select(r, block)[c] =
                        IF \A u \in Subscribed : c.receivers[u] = {} THEN c
                        ELSE [receivers |-> [c.receivers EXCEPT ![t] = @ \ {i}],
                              entries |-> answer(r, c.entries, block[i])]
<1> DEFINE after(c) ==
             LET t == Selected(c.receivers)
                 i == Min(c.receivers[t])
             IN  IF \A u \in Subscribed : c.receivers[u] = {} THEN c
                 ELSE [receivers |-> [c.receivers EXCEPT ![t] = @ \ {i}],
                       entries |-> answer(r, c.entries, block[i])]
<1>1. select(r, block) = [c \in Context(block) |-> after(c)]
  BY DEF select
<1>2. ASSUME NEW c \in Context(block) PROVE after(c) \in Context(block)
  <2> DEFINE t == Selected(c.receivers)
             i == Min(c.receivers[t])
             rs == [c.receivers EXCEPT ![t] = c.receivers[t] \ {i}]
             e == answer(r, c.entries, block[i])
  <2>1. CASE \A u \in Subscribed : c.receivers[u] = {}
    BY <2>1
  <2>2. CASE \E u \in Subscribed : c.receivers[u] # {}
    <3>1. /\ c.receivers \in [Subscribed -> SUBSET DOMAIN block]
          /\ c.entries \in ChannelState
      BY DEF Context
    <3>2. DOMAIN block \subseteq Nat
      OBVIOUS
    <3>3. c.receivers \in [Subscribed -> SUBSET Nat]
      BY <3>1, <3>2
    <3>4. t \in Subscribed /\ i \in c.receivers[t]
      BY <2>2, <3>3, SelectedIs
    <3>5. i \in DOMAIN block
      BY <3>1, <3>4
    <3>6. block[i] \in Message
      BY <3>5
    <3>7. e \in ChannelState
      BY <3>1, <3>6, AnswerTypes
    <3>8. after(c) = [receivers |-> rs, entries |-> e]
      BY <2>2
    <3> HIDE DEF after, e, i, t
    <3>9. rs \in [Subscribed -> SUBSET DOMAIN block]
      BY <3>1
    <3> HIDE DEF rs
    <3> QED BY <3>7, <3>8, <3>9 DEF Context
  <2> QED BY <2>1, <2>2
<1>3. \A c \in Context(block) : select(r, block)[c] = after(c)
  BY <1>1
<1> HIDE DEF after
<1>4. select(r, block) \in [Context(block) -> Context(block)]
  BY <1>1, <1>2
<1> QED BY <1>3, <1>4 DEF after

\* Each iteration takes the next message that has a receiver, until there is none.
LEMMA SelectKeeps ==
    ASSUME OffchainIngress \in [Sender -> Nat], blocks \in Seq(Seq(Message)), NEW r \in Replica,
           NEW n \in 0..Len(blocks), NEW block \in Seq(Message), NEW c,
           NEW k \in 0..Len(block), LoopGood(r, n, block, c, k)
    PROVE  \E j \in 0..Len(block) : (j > k \/ j = Len(block))
              /\ LoopGood(r, n, block, select(r, block)[c], j)
<1> DEFINE L == Len(block)
           t == Selected(c.receivers)
           i == Min(c.receivers[t])
           e == answer(r, c.entries, block[i])
           s == select(r, block)[c]
<1>0. L \in Nat /\ DOMAIN block = 1..L
  OBVIOUS
<1>1. /\ c \in Context(block)
      /\ c.receivers = Left(block, k)
      /\ ChannelsGood(r, c.entries, n, block, k)
  BY DEF LoopGood
<1>2. s \in Context(block)
  BY <1>1, SelectTypes
<1>3. CASE \A u \in Subscribed : c.receivers[u] = {}
  <2>1. s = c
    <3>1. c \in Context(block)
      BY <1>1
    <3>2. s = IF \A u \in Subscribed : c.receivers[u] = {} THEN c
              ELSE [receivers |-> [c.receivers EXCEPT ![t] = @ \ {i}], entries |-> e]
      BY <3>1, SelectTypes, Zenon
    <3> HIDE DEF t, i, e, s
    <3> QED BY <1>3, <3>2, Zenon
  <2>2. ASSUME NEW x \in (k + 1)..L, block[x].topic \in Subscribed PROVE FALSE
    <3> HIDE DEF t, i, e, s
    <3>1. x \in DOMAIN block /\ x > k
      BY <1>0
    <3>2. x \in c.receivers[block[x].topic]
      BY <1>1, <2>2, <3>1 DEF Left
    <3> QED BY <1>3, <2>2, <3>2, Zenon
  <2>3. ChannelsGood(r, c.entries, n, block, L)
    <3>1. L \in k..L
      BY <1>0
    <3> QED BY <1>1, <2>2, <3>1, SkipKeeps
  <2>4. c.receivers = Left(block, L)
    <3>1. \A u \in Subscribed : {x \in (L + 1)..L : block[x].topic = u} = {}
      BY <1>0
    <3>2. \A u \in Subscribed : {x \in (k + 1)..L : block[x].topic = u} = {}
      BY <2>2
    <3> QED BY <1>1, <3>1, <3>2 DEF Left
  <2>5. LoopGood(r, n, block, s, L)
    BY <1>1, <2>1, <2>3, <2>4 DEF LoopGood
  <2> QED BY <1>0, <2>5
<1>4. CASE \E u \in Subscribed : c.receivers[u] # {}
  <2>1. \A u \in Subscribed : c.receivers[u] = {x \in (k + 1)..L : block[x].topic = u}
    BY <1>1 DEF Left
  <2>2. c.receivers \in [Subscribed -> SUBSET Nat]
    BY <1>0, <1>1 DEF Left
  <2>3. /\ t \in Subscribed /\ i \in c.receivers[t]
        /\ \A u \in Subscribed : \A x \in c.receivers[u] : i <= x
    BY <1>4, <2>2, SelectedIs
  <2>4. s = [receivers |-> [c.receivers EXCEPT ![t] = @ \ {i}], entries |-> e]
    BY <1>1, <1>4, SelectTypes
  <2> HIDE DEF L, t, i, e, s
  <2>5. i \in (k + 1)..L /\ block[i].topic = t
    BY <2>1, <2>3
  <2>6. \A x \in (k + 1)..(i - 1) : block[x].topic \notin Subscribed
    <3> SUFFICES ASSUME NEW x \in (k + 1)..(i - 1), block[x].topic \in Subscribed PROVE FALSE
      OBVIOUS
    <3>1. x \in (k + 1)..L /\ x < i
      BY <1>0, <2>5
    <3>2. x \in c.receivers[block[x].topic]
      BY <2>1, <3>1
    <3> QED BY <2>3, <2>5, <3>1, <3>2
  <2>7. i - 1 \in k..L /\ i \in 1..L /\ i \in 0..L /\ i > k
    BY <1>0, <2>5
  <2>8. ChannelsGood(r, c.entries, n, block, i - 1)
    BY <1>1, <2>6, <2>7, SkipKeeps DEF L
  <2>9. ChannelsGood(r, e, n, block, i)
    <3>1. block[i].topic \in Subscribed
      BY <2>3, <2>5
    <3> QED BY <2>7, <2>8, <3>1, AnswerKeeps DEF e, L
  <2>10. s.receivers = Left(block, i)
    <3>1. ASSUME NEW u \in Subscribed
          PROVE  s.receivers[u] = {x \in (i + 1)..L : block[x].topic = u}
      <4>1. s.receivers[u] = c.receivers[u] \ {x \in {i} : u = t}
        BY <2>2, <2>4
      <4>2. \A x \in c.receivers[u] : i <= x
        BY <2>3
      <4>3. \A x : x \in c.receivers[u] <=> x \in (k + 1)..L /\ block[x].topic = u
        BY <2>1
      <4>4. ASSUME NEW x PROVE x \in s.receivers[u] <=> x \in (i + 1)..L /\ block[x].topic = u
        <5>1. CASE x = i
          <6>1. x \in s.receivers[u] => FALSE
            BY <2>5, <4>1, <4>3, <5>1
          <6>2. ~(i \in (i + 1)..L)
            BY <2>5
          <6> QED BY <5>1, <6>1, <6>2
        <5>2. CASE x # i
          <6>1. x \in s.receivers[u] <=> x \in (k + 1)..L /\ block[x].topic = u
            BY <4>1, <4>3, <5>2
          <6>2. x \in (k + 1)..L /\ block[x].topic = u => x \in (i + 1)..L
            BY <2>5, <4>2, <4>3, <5>2
          <6>3. x \in (i + 1)..L => x \in (k + 1)..L
            BY <2>5
          <6> QED BY <6>1, <6>2, <6>3
        <5> QED BY <5>1, <5>2
      <4> QED BY <4>4
    <3>2. s.receivers = [u \in Subscribed |-> s.receivers[u]]
      BY <2>2, <2>4
    <3>3. s.receivers = [u \in Subscribed |-> {x \in (i + 1)..L : block[x].topic = u}]
      BY <3>1, <3>2
    <3> QED BY <3>3 DEF Left, L
  <2>11. s.entries = e
    BY <2>4
  <2>12. LoopGood(r, n, block, s, i)
    BY <1>2, <2>9, <2>10, <2>11 DEF LoopGood
  <2> QED BY <2>7, <2>12 DEF s, L
<1> QED BY <1>3, <1>4

\* When a worker has handled a block, it has answered all its messages in their order.
LEMMA BlockHandled ==
    ASSUME OffchainIngress \in [Sender -> Nat], blocks \in Seq(Seq(Message)), NEW r \in Replica,
           NEW n \in 0..Len(blocks), NEW block \in Seq(Message),
           ChannelsGood(r, channel[r], n, block, 0)
    PROVE  ChannelsGood(r, handled_by(r, block)[Len(block)].entries, n, block, Len(block))
<1> DEFINE L == Len(block)
           S == Context(block)
           first == [receivers |-> dispatch(block), entries |-> channel[r]]
           F == select(r, block)
           G == [k \in 1..L |-> F]
           Eq(h) == h = [k \in 0..L |-> IF k = 0 THEN first ELSE F[h[k - 1]]]
           c == handled_by(r, block)
<1>1. L \in Nat /\ DOMAIN block = 1..L
  OBVIOUS
<1>2. F \in [S -> S]
  BY SelectTypes
<1>3. dispatch(block) = Left(block, 0)
  BY <1>1 DEF dispatch, Left
<1>4. dispatch(block) \in [Subscribed -> SUBSET DOMAIN block]
  BY DEF dispatch
<1>5. channel[r] \in ChannelState
  BY DEF ChannelsGood
<1>6. first \in S
  BY <1>4, <1>5 DEF Context
<1>7. LoopGood(r, n, block, first, 0)
  BY <1>3, <1>6 DEF LoopGood
<1>8. c = CHOOSE h : Eq(h)
  BY DEF handled_by
<1> HIDE DEF L, S, first, F, c
<1>9. G \in [1..L -> [S -> S]]
  BY <1>2
<1>10. PICK g \in [0..L -> S] : Iterates(g, first, G, L)
  <2> HIDE DEF G
  <2> QED BY <1>1, <1>6, <1>9, IterationExists
<1>11. g = [k \in 0..L |-> IF k = 0 THEN first ELSE G[k][g[k - 1]]]
  BY <1>10 DEF Iterates
<1>12. \A k \in 0..L : k # 0 => k \in 1..L
  BY <1>1
<1>13. \A k \in 0..L : k # 0 => G[k] = F
  BY <1>12
<1> HIDE DEF G
<1>14. Eq(g)
  BY <1>11, <1>13
<1>15. Eq(c)
  BY <1>8, <1>14, Zenon
<1>16. c[0] = first /\ \A k \in 1..L : c[k] = F[c[k - 1]]
  <2>1. 0 \in 0..L /\ \A k \in 1..L : k \in 0..L /\ k # 0
    BY <1>1
  <2> QED BY <1>15, <2>1
<1> DEFINE T == {m \in 0..L : \E k \in m..L : LoopGood(r, n, block, c[m], k)}
<1>17. 0 \in T
  <2>1. 0 \in 0..L
    BY <1>1
  <2>2. LoopGood(r, n, block, c[0], 0)
    BY <1>7, <1>16, Zenon
  <2> QED BY <2>1, <2>2, Zenon
<1>18. ASSUME NEW m \in 1..L, m - 1 \in T PROVE m \in T
  <2>1. PICK k \in (m - 1)..L : LoopGood(r, n, block, c[m - 1], k)
    BY <1>18
  <2>2. k \in 0..L
    BY <1>1
  <2>3. PICK j \in 0..L : (j > k \/ j = L) /\ LoopGood(r, n, block, F[c[m - 1]], j)
    BY <2>1, <2>2, SelectKeeps DEF F, L
  <2>4. j \in m..L /\ m \in 0..L
    BY <1>1, <2>3
  <2>5. LoopGood(r, n, block, c[m], j)
    BY <1>16, <2>3
  <2> QED BY <2>4, <2>5
<1>19. 0..L \subseteq T
  <2> HIDE DEF T
  <2> QED BY <1>1, <1>17, <1>18, BoundedInduction
<1>20. PICK k \in L..L : LoopGood(r, n, block, c[L], k)
  BY <1>1, <1>19
<1>21. k = L
  BY <1>1
<1>22. LoopGood(r, n, block, c[L], L)
  BY <1>20, <1>21
<1> QED BY <1>22 DEF LoopGood, c, L

-----------------------------------------------------------------------------
(* The inductive invariant *)

\* A message on its way to the chain is the answer that its number says.
Genuine(m, bs) ==
    /\ m.sequence < Len(DueBy(m.sender, bs)[Len(bs)])
    /\ m.payload = DueBy(m.sender, bs)[Len(bs)][m.sequence + 1]

\* The channels of a worker that has handled n blocks, when the chain expects "ingress".
WorkerGood(r, n, entries, bs, ingress) ==
    /\ n <= Len(bs)
    /\ \A kind \in Kind :
          EntryGood(r, kind, entries[kind], DueBy(SenderOf(r, kind), bs)[n],
                    ingress[SenderOf(r, kind)])

\* The workers, also where they would go on after a restart, have what they owe the chain; what
\* is on its way is right; and the chain has handled the first of the answers that are due.
QueueInv ==
    /\ TypeOK
    /\ \A r \in Replica :
          /\ WorkerGood(r, synced[r], channel[r], blocks, OffchainIngress)
          /\ WorkerGood(r, saved[r].synced, saved[r].channel, blocks, OffchainIngress)
    /\ \A m \in pool : Genuine(m, blocks)
    /\ \A s \in Sender : Begins(handled[s], Due(s)) /\ Len(handled[s]) = OffchainIngress[s]

\* What the chain told the workers in the next block is messages.
LEMMA QueuedTypes ==
    ASSUME QueuedOutboundMessage \in Seq(Message)
    PROVE  queued_messages[Len(QueuedOutboundMessage)] \in Seq(Message)
<1> DEFINE Q == QueuedOutboundMessage
           L == Len(Q)
           step(x, k) == dispatch_message(x, Q[k])
           G == [k \in 1..L |-> [x \in Seq(Message) |-> step(x, k)]]
           Eq(h) == h = [k \in 0..L |-> IF k = 0 THEN <<>> ELSE step(h[k - 1], k)]
           a == queued_messages
<1>1. L \in Nat /\ \A k \in 1..L : Q[k] \in Message
  OBVIOUS
<1>2. \A k \in 1..L : \A x \in Seq(Message) : step(x, k) \in Seq(Message)
  BY <1>1 DEF dispatch_message
<1>3. a = CHOOSE h : Eq(h)
  BY DEF queued_messages
<1> HIDE DEF step, a, L, Q
<1>4. G \in [1..L -> [Seq(Message) -> Seq(Message)]] /\ <<>> \in Seq(Message)
  BY <1>2
<1>5. PICK g \in [0..L -> Seq(Message)] : Iterates(g, <<>>, G, L)
  <2> HIDE DEF G
  <2> QED BY <1>1, <1>4, IterationExists
<1>6. g = [k \in 0..L |-> IF k = 0 THEN <<>> ELSE G[k][g[k - 1]]]
  BY <1>5 DEF Iterates
<1>7. \A k \in 0..L : k # 0 => k \in 1..L /\ k - 1 \in 0..L
  BY <1>1
<1>8. \A k \in 0..L : k # 0 => G[k][g[k - 1]] = step(g[k - 1], k)
  BY <1>5, <1>7
<1> HIDE DEF G
<1>9. Eq(g)
  BY <1>6, <1>8
<1>10. Eq(a)
  BY <1>3, <1>9
<1>11. a[0] = <<>> /\ \A k \in 1..L : a[k] = step(a[k - 1], k)
  BY <1>1, <1>10
<1> DEFINE T == {k \in 0..L : a[k] \in Seq(Message)}
<1>12. 0 \in T
  <2>1. 0 \in 0..L /\ <<>> \in Seq(Message)
    BY <1>1
  <2> QED BY <1>11, <2>1
<1>13. ASSUME NEW k \in 1..L, k - 1 \in T PROVE k \in T
  BY <1>1, <1>2, <1>11, <1>13
<1>14. 0..L \subseteq T
  <2> HIDE DEF T
  <2> QED BY <1>1, <1>12, <1>13, BoundedInduction
<1>15. L \in T
  BY <1>1, <1>14
<1> QED BY <1>15 DEF a, L, Q

\* What was due stays due when a block is added.
LEMMA DueLater ==
    ASSUME TypeOK, NEW bs \in {blocks, Append(blocks, OutboundMessages)}, NEW s
    PROVE  /\ bs \in Seq(Seq(Message)) /\ Len(blocks) <= Len(bs) /\ Len(bs) \in Nat
           /\ DueBy(s, blocks) \in [0..Len(blocks) -> Seq(Payload)]
           /\ DueBy(s, bs) \in [0..Len(bs) -> Seq(Payload)]
           /\ \A k \in 0..Len(blocks) : DueBy(s, bs)[k] = DueBy(s, blocks)[k]
           /\ Begins(Due(s), DueBy(s, bs)[Len(bs)])
<1>1. blocks \in Seq(Seq(Message)) /\ OutboundMessages \in Seq(Message)
  BY DEF TypeOK
<1>2. bs \in Seq(Seq(Message)) /\ Len(blocks) <= Len(bs) /\ Len(bs) \in Nat /\ Len(blocks) \in Nat
  <2>1. CASE bs = blocks
    BY <1>1, <2>1
  <2>2. CASE bs = Append(blocks, OutboundMessages)
    BY <1>1, <2>2
  <2> QED BY <2>1, <2>2
<1>3. \A k \in 0..Len(blocks) : DueBy(s, bs)[k] = DueBy(s, blocks)[k]
  <2>1. CASE bs = blocks
    BY <2>1, Zenon
  <2>2. CASE bs = Append(blocks, OutboundMessages)
    BY <1>1, <2>2, DueKept, Zenon
  <2> QED BY <2>1, <2>2, Zenon
<1>4. Begins(DueBy(s, bs)[Len(blocks)], DueBy(s, bs)[Len(bs)])
  <2>1. Len(blocks) \in 0..Len(bs) /\ Len(bs) \in Len(blocks)..Len(bs)
    BY <1>2
  <2> QED BY <1>2, <2>1, DueGrow
<1>5. DueBy(s, bs)[Len(blocks)] = Due(s)
  <2>1. Len(blocks) \in 0..Len(blocks)
    BY <1>2
  <2> QED BY <1>3, <2>1, Zenon DEF Due
<1>6. /\ DueBy(s, blocks) \in [0..Len(blocks) -> Seq(Payload)]
      /\ DueBy(s, bs) \in [0..Len(bs) -> Seq(Payload)]
  <2>1. DueBy(s, blocks) \in [0..Len(blocks) -> Seq(Payload)]
    BY <1>1, DueEq, Zenon
  <2>2. DueBy(s, bs) \in [0..Len(bs) -> Seq(Payload)]
    BY <1>2, DueEq, Zenon
  <2> QED BY <2>1, <2>2
<1>7. Begins(Due(s), DueBy(s, bs)[Len(bs)])
  BY <1>4, <1>5, Zenon
<1> QED BY <1>2, <1>3, <1>6, <1>7, Zenon

\* A worker's channels stay good when a block is added and when the chain accepts more.
LEMMA WorkerLater ==
    ASSUME TypeOK, NEW bs \in {blocks, Append(blocks, OutboundMessages)},
           NEW ingress \in [Sender -> Nat], \A s \in Sender : OffchainIngress[s] <= ingress[s],
           NEW r \in Replica, NEW n \in Nat, NEW entries,
           WorkerGood(r, n, entries, blocks, OffchainIngress)
    PROVE  WorkerGood(r, n, entries, bs, ingress)
<1>1. n <= Len(blocks) /\ n <= Len(bs) /\ n \in 0..Len(blocks)
  <2>1. n <= Len(blocks) /\ Len(blocks) <= Len(bs) /\ Len(bs) \in Nat
    BY DueLater DEF WorkerGood
  <2>2. Len(blocks) \in Nat
    BY DEF TypeOK
  <2> QED BY <2>1, <2>2
<1>2. ASSUME NEW kind \in Kind
      PROVE  EntryGood(r, kind, entries[kind], DueBy(SenderOf(r, kind), bs)[n],
                       ingress[SenderOf(r, kind)])
  <2> DEFINE s == SenderOf(r, kind)
             sofar == DueBy(s, blocks)[n]
             x == Len(sofar) - 1
             entry == entries[kind]
  <2>1. OffchainIngress[s] \in Nat /\ ingress[s] \in Nat /\ OffchainIngress[s] <= ingress[s]
    BY SenderIs DEF TypeOK
  <2>2. DueBy(s, bs)[n] = sofar
    BY <1>1, DueLater
  <2>3. EntryGood(r, kind, entry, sofar, OffchainIngress[s])
    BY DEF WorkerGood
  <2>4. \A i : i \in ingress[s]..x => i \in OffchainIngress[s]..x
    <3> HIDE DEF x, s
    <3> QED BY <2>1
  <2> HIDE DEF s, sofar, entry
  <2>5. EntryGood(r, kind, entry, sofar, ingress[s])
    BY <2>3, <2>4 DEF EntryGood
  <2> QED BY <2>2, <2>5 DEF s, entry
<1> QED BY <1>1, <1>2 DEF WorkerGood

\* What is on its way is right, also when there are more blocks.
LEMMA GenuineLater ==
    ASSUME TypeOK, NEW bs \in {blocks, Append(blocks, OutboundMessages)},
           NEW m \in SignedMessage, Genuine(m, blocks)
    PROVE  Genuine(m, bs)
<1> DEFINE x == Due(m.sender)
           y == DueBy(m.sender, bs)[Len(bs)]
           n == m.sequence
<1>1. n \in Nat /\ n < Len(x) /\ m.payload = x[n + 1]
  BY DEF Genuine, Due, SignedMessage
<1>2. Begins(x, y)
  BY DueLater
<1>3. x \in Seq(Payload) /\ y \in Seq(Payload)
  <2>1. Len(blocks) \in 0..Len(blocks) /\ Len(bs) \in 0..Len(bs)
    BY DueLater DEF TypeOK
  <2>2. /\ DueBy(m.sender, blocks) \in [0..Len(blocks) -> Seq(Payload)]
        /\ DueBy(m.sender, bs) \in [0..Len(bs) -> Seq(Payload)]
    BY DueLater, Zenon
  <2> QED BY <2>1, <2>2, Zenon DEF Due
<1> HIDE DEF x, y, n
<1>4. n + 1 \in 1..Len(x) /\ n < Len(y)
  BY <1>1, <1>2, <1>3 DEF Begins
<1>5. m.payload = y[n + 1]
  BY <1>1, <1>2, <1>4 DEF Begins
<1> QED BY <1>4, <1>5 DEF Genuine, y, n

\* A message in a worker's channel is right.
LEMMA EntryGenuine ==
    ASSUME TypeOK, NEW r \in Replica, NEW n \in Nat, NEW entries \in ChannelState,
           WorkerGood(r, n, entries, blocks, OffchainIngress),
           NEW kind \in Kind, NEW m \in entries[kind].messages
    PROVE  m \in SignedMessage /\ Genuine(m, blocks)
<1> DEFINE s == SenderOf(r, kind)
           x == DueBy(s, blocks)[n]
           y == DueBy(s, blocks)[Len(blocks)]
           i == m.sequence
<1>1. m \in SignedMessage
  BY DEF ChannelState
<1>2. m.sender = s /\ i < Len(x) /\ m.payload = x[i + 1] /\ i \in Nat
  BY <1>1 DEF WorkerGood, EntryGood, SignedMessage
<1>3. blocks \in Seq(Seq(Message)) /\ Len(blocks) \in Nat /\ n <= Len(blocks)
  BY DEF TypeOK, WorkerGood
<1>4. n \in 0..Len(blocks) /\ Len(blocks) \in n..Len(blocks) /\ Len(blocks) \in 0..Len(blocks)
  BY <1>3
<1>5. Begins(x, y)
  BY <1>3, <1>4, DueGrow, Zenon
<1>9. x \in Seq(Payload) /\ y \in Seq(Payload)
  <2>1. DueBy(s, blocks) \in [0..Len(blocks) -> Seq(Payload)]
    BY <1>3, DueEq, Zenon
  <2> QED BY <1>4, <2>1, Zenon
<1> HIDE DEF x, y, s, i
<1>6. i + 1 \in 1..Len(x) /\ i < Len(y)
  BY <1>2, <1>5, <1>9 DEF Begins
<1>7. m.payload = y[i + 1]
  BY <1>2, <1>5, <1>6 DEF Begins
<1>8. Genuine(m, blocks)
  BY <1>2, <1>6, <1>7 DEF Genuine, y, i
<1> QED BY <1>1, <1>8

-----------------------------------------------------------------------------
(* Steps *)

\* Beginnings of beginnings, and the next element of a sequence.
LEMMA BeginsTransitive ==
    ASSUME NEW S, NEW s \in Seq(S), NEW t \in Seq(S), NEW u \in Seq(S), Begins(s, t), Begins(t, u)
    PROVE  Begins(s, u)
  BY DEF Begins

LEMMA BeginsNext ==
    ASSUME NEW S, NEW s \in Seq(S), NEW t \in Seq(S), Begins(s, t), Len(s) < Len(t)
    PROVE  Begins(Append(s, t[Len(s) + 1]), t)
<1> DEFINE L == Len(s)
           x == t[L + 1]
           more == Append(s, x)
<1>1. L \in Nat /\ Len(t) \in Nat
  OBVIOUS
<1>2. L + 1 \in 1..Len(t)
  BY <1>1
<1>3. x \in S
  BY <1>2
<1>4. Len(more) = L + 1 /\ more[L + 1] = x /\ \A i \in 1..L : more[i] = s[i]
  <2> HIDE DEF x
  <2> QED BY <1>3
<1> HIDE DEF more, L
<1>5. ASSUME NEW i \in 1..(L + 1) PROVE more[i] = t[i]
  <2>1. CASE i = L + 1
    BY <1>4, <2>1
  <2>2. CASE i # L + 1
    <3>1. i \in 1..L
      BY <1>1, <2>2
    <3> QED BY <1>4, <3>1 DEF Begins, L
  <2> QED BY <2>1, <2>2
<1>6. Begins(more, t)
  BY <1>1, <1>2, <1>4, <1>5 DEF Begins
<1> QED BY <1>6 DEF more, L

\* A step of the chain that accepts no message.
LEMMA ChainStep ==
    ASSUME QueueInv, TypeOK', pool' \subseteq pool,
           UNCHANGED <<OffchainIngress, handled, synced, channel, saved>>,
           blocks' \in {blocks, Append(blocks, OutboundMessages)}
    PROVE  QueueInv'
<1>1. /\ TypeOK
      /\ \A r \in Replica :
            /\ WorkerGood(r, synced[r], channel[r], blocks, OffchainIngress)
            /\ WorkerGood(r, saved[r].synced, saved[r].channel, blocks, OffchainIngress)
      /\ \A m \in pool : Genuine(m, blocks)
      /\ \A s \in Sender : Begins(handled[s], Due(s)) /\ Len(handled[s]) = OffchainIngress[s]
  BY DEF QueueInv
<1>2. /\ \A r \in Replica : synced[r] \in Nat /\ saved[r].synced \in Nat
      /\ \A m \in pool : m \in SignedMessage
      /\ OffchainIngress \in [Sender -> Nat]
      /\ \A s \in Sender : OffchainIngress[s] <= OffchainIngress[s]
      /\ \A s \in Sender : handled[s] \in Seq(Payload)
      /\ Len(blocks) \in Nat
  BY <1>1 DEF TypeOK, Payload
<1>3. ASSUME NEW r \in Replica
      PROVE  /\ WorkerGood(r, synced[r], channel[r], blocks', OffchainIngress)
             /\ WorkerGood(r, saved[r].synced, saved[r].channel, blocks', OffchainIngress)
  BY <1>1, <1>2, WorkerLater
<1>4. \A m \in pool' : Genuine(m, blocks')
  BY <1>1, <1>2, GenuineLater
<1>5. ASSUME NEW s \in Sender PROVE Begins(handled[s], DueBy(s, blocks')[Len(blocks')])
  <2>1. Begins(Due(s), DueBy(s, blocks')[Len(blocks')])
    BY <1>1, DueLater
  <2>2. Due(s) \in Seq(Payload) /\ DueBy(s, blocks')[Len(blocks')] \in Seq(Payload)
    <3>1. Len(blocks) \in 0..Len(blocks) /\ Len(blocks') \in 0..Len(blocks')
      BY <1>1, <1>2, DueLater
    <3>2. /\ DueBy(s, blocks) \in [0..Len(blocks) -> Seq(Payload)]
          /\ DueBy(s, blocks') \in [0..Len(blocks') -> Seq(Payload)]
      BY <1>1, DueLater, Zenon
    <3> QED BY <3>1, <3>2, Zenon DEF Due
  <2>3. handled[s] \in Seq(Payload) /\ Begins(handled[s], Due(s))
    BY <1>1, <1>2, Zenon
  <2> QED BY <2>1, <2>2, <2>3, BeginsTransitive, Zenon
<1> QED BY <1>1, <1>3, <1>4, <1>5 DEF QueueInv, Due

\* What the workers are told are messages.
LEMMA DispatchTypes ==
    ASSUME NEW out \in Seq(Message), NEW message, is_offchain(message.topic) => message \in Message
    PROVE  dispatch_message(out, message) \in Seq(Message)
  BY DEF dispatch_message

\* Messages are pushed and queued, a block ends, the master key is stored, a transaction is lost.
LEMMA ChainKeeps ==
    ASSUME QueueInv,
           \/ \E t \in Pushed : push_message(t)
           \/ \E t \in Queued : queue_bound_message(t)
           \/ on_initialize
           \/ StoreMasterPubkey
           \/ \E m \in pool : Drop(m)
    PROVE  QueueInv'
<1>1. TypeOK
  BY DEF QueueInv
<1>2. \A t \in Pushed \cup Queued : inputs < MaxInputs => NewMessage(t) \in Message
  BY <1>1, MessageQueueAssumption DEF TypeOK, NewMessage, Message
<1>3. ASSUME NEW t \in Pushed, push_message(t) PROVE QueueInv'
  <2>1. dispatch_message(OutboundMessages, NewMessage(t)) \in Seq(Message)
    BY <1>1, <1>2, <1>3, DispatchTypes DEF push_message, TypeOK
  <2>2. inputs + 1 \in 0..MaxInputs
    BY <1>1, <1>3, MessageQueueAssumption DEF push_message, TypeOK
  <2>3. TypeOK'
    BY <1>1, <1>3, <2>1, <2>2
       DEF TypeOK, push_message, ingressVars, workerVars
  <2>4. UNCHANGED <<pool, OffchainIngress, handled, synced, channel, saved, blocks>>
    BY <1>3 DEF push_message, ingressVars, workerVars
  <2> QED BY <2>3, <2>4, ChainStep
<1>4. ASSUME NEW t \in Queued, queue_bound_message(t) PROVE QueueInv'
  <2>1. Append(QueuedOutboundMessage, NewMessage(t)) \in Seq(Message)
    BY <1>1, <1>2, <1>4 DEF queue_bound_message, TypeOK
  <2>2. inputs + 1 \in 0..MaxInputs
    BY <1>1, <1>4, MessageQueueAssumption DEF queue_bound_message, TypeOK
  <2>3. TypeOK'
    BY <1>1, <1>4, <2>1, <2>2
       DEF TypeOK, queue_bound_message, ingressVars, workerVars
  <2>4. UNCHANGED <<pool, OffchainIngress, handled, synced, channel, saved, blocks>>
    BY <1>4 DEF queue_bound_message, ingressVars, workerVars
  <2> QED BY <2>3, <2>4, ChainStep
<1>5. ASSUME on_initialize PROVE QueueInv'
  <2>1. queued_messages[Len(QueuedOutboundMessage)] \in Seq(Message)
    BY <1>1, QueuedTypes DEF TypeOK
  <2>2. blocks' = Append(blocks, OutboundMessages) /\ blocks' \in Seq(Seq(Message))
    BY <1>1, <1>5 DEF on_initialize, TypeOK
  <2>3. TypeOK'
    <3>1. <<>> \in Seq(Message)
      OBVIOUS
    <3> QED BY <1>1, <1>5, <2>1, <2>2, <3>1 DEF TypeOK, on_initialize, ingressVars, workerVars
  <2>4. UNCHANGED <<pool, OffchainIngress, handled, synced, channel, saved>>
    BY <1>5 DEF on_initialize, ingressVars, workerVars
  <2> QED BY <2>2, <2>3, <2>4, ChainStep
<1>6. ASSUME StoreMasterPubkey PROVE QueueInv'
  <2>1. TypeOK'
    BY <1>1, <1>6 DEF TypeOK, StoreMasterPubkey, chainVars, workerVars
  <2>2. UNCHANGED <<pool, OffchainIngress, handled, synced, channel, saved, blocks>>
    BY <1>6 DEF StoreMasterPubkey, chainVars, workerVars
  <2> QED BY <2>1, <2>2, ChainStep
<1>7. ASSUME NEW m \in pool, Drop(m) PROVE QueueInv'
  <2>1. pool' \subseteq pool /\ UNCHANGED <<OffchainIngress, handled, synced, channel, saved, blocks>>
    BY <1>7 DEF Drop, ingressVars, workerVars, chainVars
  <2>2. TypeOK'
    BY <1>1, <1>7, <2>1 DEF TypeOK, Drop, ingressVars, workerVars, chainVars
  <2> QED BY <2>1, <2>2, ChainStep
<1> QED BY <1>3, <1>4, <1>5, <1>6, <1>7

\* A transaction is executed (sync_offchain_message).
LEMMA SyncKeeps ==
    ASSUME QueueInv, NEW m \in pool, sync_offchain_message(m)
    PROVE  /\ QueueInv'
           /\ \/ handled' = handled
              \/ /\ Len(handled[m.sender]) < Len(Due(m.sender))
                 /\ handled' = [handled EXCEPT ![m.sender] =
                                  Append(@, Due(m.sender)[Len(handled[m.sender]) + 1])]
<1> DEFINE s == m.sender
           d == Due(s)
           h == handled[s]
<1>1. /\ TypeOK
      /\ \A r \in Replica :
            /\ WorkerGood(r, synced[r], channel[r], blocks, OffchainIngress)
            /\ WorkerGood(r, saved[r].synced, saved[r].channel, blocks, OffchainIngress)
      /\ \A x \in pool : Genuine(x, blocks)
      /\ \A x \in Sender : Begins(handled[x], Due(x)) /\ Len(handled[x]) = OffchainIngress[x]
  BY DEF QueueInv
<1>2. m \in SignedMessage /\ s \in Sender /\ m.payload \in Payload
  BY <1>1 DEF TypeOK, SignedMessage, Payload
<1>3. m.sequence = OffchainIngress[s] /\ pool' = pool \ {m}
  BY DEF sync_offchain_message, pre_dispatch
<1>4. UNCHANGED <<QueuedOutboundMessage, blocks, inputs, MasterPubkey, synced, channel, saved,
                  faults>>
  BY DEF sync_offchain_message, workerVars
<1>5. CASE UNCHANGED <<OffchainIngress, handled, OutboundMessages>>
  <2>1. TypeOK'
    BY <1>1, <1>3, <1>4, <1>5 DEF TypeOK
  <2>2. QueueInv'
    BY <1>3, <1>4, <1>5, <2>1, ChainStep
  <2> QED BY <1>5, <2>2
<1>6. CASE /\ OffchainIngress' = [OffchainIngress EXCEPT ![s] = @ + 1]
           /\ handled' = [handled EXCEPT ![s] = Append(@, m.payload)]
           /\ OutboundMessages' = dispatch_message(OutboundMessages,
                 [topic |-> Destination(s), payload |-> m.payload])
  <2>1. /\ h \in Seq(Payload) /\ OffchainIngress \in [Sender -> Nat]
        /\ handled \in [Sender -> Seq(Payload)]
    BY <1>1, <1>2 DEF TypeOK, Payload
  <2>2. d \in Seq(Payload)
    <3>1. Len(blocks) \in 0..Len(blocks)
      BY <1>1 DEF TypeOK
    <3> QED BY <1>1, <3>1, DueLater DEF Due
  <2>3. Len(h) < Len(d) /\ m.payload = d[Len(h) + 1]
    <3>1. m.sequence < Len(d) /\ m.payload = d[m.sequence + 1]
      BY <1>1 DEF Genuine, Due
    <3> QED BY <1>1, <1>2, <1>3, <3>1
  <2> HIDE DEF d, h
  <2>4. Begins(h, d)
    BY <1>1, <1>2 DEF h, d
  <2>5. Begins(Append(h, m.payload), d)
    BY <2>1, <2>2, <2>3, <2>4, BeginsNext
  <2>6. Len(Append(h, m.payload)) = OffchainIngress[s] + 1
    BY <1>1, <1>2, <2>1 DEF h
  <2>7. /\ handled'[s] = Append(h, m.payload) /\ OffchainIngress'[s] = OffchainIngress[s] + 1
        /\ \A x \in Sender \ {s} :
              handled'[x] = handled[x] /\ OffchainIngress'[x] = OffchainIngress[x]
    BY <1>2, <1>6, <2>1 DEF h
  <2>8. /\ handled' \in [Sender -> Seq(Payload)] /\ OffchainIngress' \in [Sender -> Nat]
        /\ \A x \in Sender : OffchainIngress[x] <= OffchainIngress'[x]
    <3>1. Append(h, m.payload) \in Seq(Payload) /\ OffchainIngress[s] + 1 \in Nat
      BY <1>2, <2>1
    <3>2. \A x \in Sender : OffchainIngress[x] \in Nat
      BY <2>1
    <3>3. handled' \in [Sender -> Seq(Payload)] /\ OffchainIngress' \in [Sender -> Nat]
      BY <1>2, <1>6, <2>1, <3>1 DEF h
    <3>4. ASSUME NEW x \in Sender PROVE OffchainIngress[x] <= OffchainIngress'[x]
      <4>1. CASE x = s
        BY <2>7, <3>2, <4>1
      <4>2. CASE x # s
        BY <2>7, <3>2, <4>2
      <4> QED BY <4>1, <4>2
    <3> QED BY <3>3, <3>4
  <2>9. OutboundMessages' \in Seq(Message)
    <3>1. OutboundMessages \in Seq(Message)
      BY <1>1 DEF TypeOK
    <3>2. is_offchain(Destination(s)) => Destination(s) = Report
      BY MessageQueueAssumption DEF is_offchain, Destination
    <3>3. [topic |-> Report, payload |-> m.payload] \in Message
      BY <1>2 DEF Message, Payload
    <3> DEFINE told == [topic |-> Destination(s), payload |-> m.payload]
    <3>4. told.topic = Destination(s) /\ (Destination(s) = Report => told \in Message)
      BY <3>3
    <3> HIDE DEF told
    <3>5. dispatch_message(OutboundMessages, told) \in Seq(Message)
      BY <3>1, <3>2, <3>4, DispatchTypes
    <3> QED BY <1>6, <3>5 DEF told
  <2>10. TypeOK'
    BY <1>1, <1>3, <1>4, <2>8, <2>9 DEF TypeOK, Payload
  <2>11. ASSUME NEW r \in Replica
         PROVE  /\ WorkerGood(r, synced[r], channel[r], blocks, OffchainIngress')
                /\ WorkerGood(r, saved[r].synced, saved[r].channel, blocks, OffchainIngress')
    <3>1. synced[r] \in Nat /\ saved[r].synced \in Nat
      BY <1>1 DEF TypeOK
    <3> QED BY <1>1, <2>8, <3>1, WorkerLater
  <2>12. \A x \in Sender : Begins(handled'[x], Due(x)') /\ Len(handled'[x]) = OffchainIngress'[x]
    <3>1. \A x : Due(x)' = Due(x)
      BY <1>4 DEF Due
    <3> QED BY <1>1, <2>5, <2>6, <2>7, <3>1 DEF d
  <2>13. QueueInv'
    BY <1>1, <1>3, <1>4, <2>10, <2>11, <2>12 DEF QueueInv
  <2> QED BY <1>6, <2>3, <2>13 DEF h, d
<1> QED BY <1>5, <1>6 DEF sync_offchain_message

\* A step of a worker.
LEMMA WorkerStep ==
    ASSUME QueueInv, TypeOK', UNCHANGED <<blocks, OffchainIngress, handled>>,
           \A m \in pool' \ pool : Genuine(m, blocks),
           \A r \in Replica :
              /\ WorkerGood(r, synced'[r], channel'[r], blocks, OffchainIngress)
              /\ WorkerGood(r, saved'[r].synced, saved'[r].channel, blocks, OffchainIngress)
    PROVE  QueueInv'
<1>1. \A s : Due(s)' = Due(s)
  BY DEF Due
<1>2. \A m \in pool' : Genuine(m, blocks)
  BY DEF QueueInv
<1> QED BY <1>1, <1>2 DEF QueueInv

\* A worker handles a block, while it may also be the one whose checkpoint is read.
LEMMA HandleBlockKeeps ==
    ASSUME QueueInv, NEW r \in Replica, HandleBlock(r)
    PROVE  QueueInv'
<1> DEFINE n == synced[r]
           block == blocks[n + 1]
           L == Len(block)
           entries == handled_by(r, block)[L].entries
<1>1. /\ TypeOK
      /\ \A x \in Replica :
            /\ WorkerGood(x, synced[x], channel[x], blocks, OffchainIngress)
            /\ WorkerGood(x, saved[x].synced, saved[x].channel, blocks, OffchainIngress)
  BY DEF QueueInv
<1>2. /\ blocks \in Seq(Seq(Message)) /\ OffchainIngress \in [Sender -> Nat]
      /\ synced \in [Replica -> Nat] /\ channel \in [Replica -> ChannelState]
      /\ channel[r] \in ChannelState /\ n \in Nat /\ Len(blocks) \in Nat
  BY <1>1 DEF TypeOK
<1>3. /\ n < Len(blocks)
      /\ synced' = [synced EXCEPT ![r] = n + 1]
      /\ channel' = [channel EXCEPT ![r] = entries]
      /\ UNCHANGED <<OutboundMessages, QueuedOutboundMessage, blocks, inputs, OffchainIngress,
                     MasterPubkey, handled, pool, saved, faults>>
  BY DEF HandleBlock, chainVars, ingressVars
<1>4. n \in 0..Len(blocks) /\ n + 1 \in 1..Len(blocks) /\ (n + 1) - 1 = n /\ n + 1 <= Len(blocks)
  BY <1>2, <1>3
<1>5. block \in Seq(Message)
  BY <1>2, <1>4
<1>6. 0 \in 0..L /\ L \in 0..L
  BY <1>5
<1> HIDE DEF block, L, n
<1>7. ASSUME NEW kind \in Kind
      PROVE  /\ Sofar(r, kind, n, block, 0) = DueBy(SenderOf(r, kind), blocks)[n]
             /\ Sofar(r, kind, n, block, L) = DueBy(SenderOf(r, kind), blocks)[n + 1]
  <2> DEFINE s == SenderOf(r, kind)
  <2>1. AnswersTo(s, block)[0] = <<>>
    BY <1>5, AnswersEq
  <2>2. DueBy(s, blocks)[n] \in Seq(Payload)
    <3>1. DueBy(s, blocks) \in [0..Len(blocks) -> Seq(Payload)]
      BY <1>2, DueEq, Zenon
    <3> QED BY <1>4, <3>1, Zenon
  <2>3. DueBy(s, blocks)[n + 1] = DueBy(s, blocks)[n] \o AnswersTo(s, block)[L]
    BY <1>2, <1>4, DueEq DEF block, L
  <2>4. DueBy(s, blocks)[n] \o <<>> = DueBy(s, blocks)[n]
    BY <2>2, ConcatEmpty, Zenon
  <2> QED BY <2>1, <2>3, <2>4 DEF Sofar
<1>8. ChannelsGood(r, channel[r], n, block, 0)
  BY <1>1, <1>2, <1>7 DEF ChannelsGood, WorkerGood, n
<1>9. ChannelsGood(r, entries, n, block, L)
  BY <1>2, <1>4, <1>5, <1>8, BlockHandled DEF L
<1> HIDE DEF entries
<1>10. entries \in ChannelState /\ WorkerGood(r, n + 1, entries, blocks, OffchainIngress)
  BY <1>4, <1>7, <1>9 DEF ChannelsGood, WorkerGood
<1>11. n + 1 \in Nat
  BY <1>2
<1>12. TypeOK'
  BY <1>1, <1>3, <1>10, <1>11 DEF TypeOK
<1>13. ASSUME NEW x \in Replica
       PROVE  WorkerGood(x, synced'[x], channel'[x], blocks, OffchainIngress)
  <2>1. CASE x = r
    <3>1. synced'[r] = n + 1 /\ channel'[r] = entries
      BY <1>2, <1>3
    <3> QED BY <1>10, <2>1, <3>1
  <2>2. CASE x # r
    <3>1. synced'[x] = synced[x] /\ channel'[x] = channel[x]
      BY <1>2, <1>3, <2>2
    <3> QED BY <1>1, <3>1
  <2> QED BY <2>1, <2>2
<1> QED BY <1>1, <1>3, <1>12, <1>13, WorkerStep

\* A channel of a worker is replaced by a good one (set_dummy_mode, purge).
LEMMA EntryStep ==
    ASSUME QueueInv, NEW r \in Replica, NEW kind \in Kind, NEW entry \in Entry,
           channel' = [channel EXCEPT ![r] = [channel[r] EXCEPT ![kind] = entry]],
           UNCHANGED <<chainVars, ingressVars, pool, synced, saved, faults>>,
           \A sofar : EntryGood(r, kind, channel[r][kind], sofar, OffchainIngress[SenderOf(r, kind)])
                   => EntryGood(r, kind, entry, sofar, OffchainIngress[SenderOf(r, kind)])
    PROVE  QueueInv'
<1> DEFINE new == [channel[r] EXCEPT ![kind] = entry]
<1>1. /\ TypeOK
      /\ \A x \in Replica :
            /\ WorkerGood(x, synced[x], channel[x], blocks, OffchainIngress)
            /\ WorkerGood(x, saved[x].synced, saved[x].channel, blocks, OffchainIngress)
  BY DEF QueueInv
<1>2. /\ UNCHANGED <<OutboundMessages, QueuedOutboundMessage, blocks, inputs, OffchainIngress,
                     MasterPubkey, handled, pool, synced, saved, faults>>
  BY DEF chainVars, ingressVars
<1>3. channel \in [Replica -> [Kind -> Entry]] /\ channel[r] \in [Kind -> Entry]
  BY <1>1 DEF TypeOK, ChannelState, Entry
<1>4. new \in [Kind -> Entry]
  BY <1>3
<1>5. ASSUME NEW k \in Kind
      PROVE  EntryGood(r, k, new[k], DueBy(SenderOf(r, k), blocks)[synced[r]],
                       OffchainIngress[SenderOf(r, k)])
  <2>1. EntryGood(r, k, channel[r][k], DueBy(SenderOf(r, k), blocks)[synced[r]],
                  OffchainIngress[SenderOf(r, k)])
    BY <1>1 DEF WorkerGood
  <2>2. CASE k = kind
    <3>1. new[k] = entry
      BY <1>3, <2>2
    <3> QED BY <2>1, <2>2, <3>1
  <2>3. CASE k # kind
    <3>1. new[k] = channel[r][k]
      BY <1>3, <2>3
    <3> QED BY <2>1, <3>1
  <2> QED BY <2>2, <2>3
<1> HIDE DEF new
<1>6. WorkerGood(r, synced[r], new, blocks, OffchainIngress)
  BY <1>1, <1>5 DEF WorkerGood
<1>7. channel' = [channel EXCEPT ![r] = new]
  BY DEF new
<1>8. TypeOK'
  BY <1>1, <1>2, <1>4, <1>7 DEF TypeOK, ChannelState, Entry
<1>9. ASSUME NEW x \in Replica PROVE WorkerGood(x, synced[x], channel'[x], blocks, OffchainIngress)
  <2>1. CASE x = r
    BY <1>3, <1>6, <1>7, <2>1
  <2>2. CASE x # r
    BY <1>1, <1>3, <1>7, <2>2
  <2> QED BY <2>1, <2>2
<1> QED BY <1>1, <1>2, <1>8, <1>9, WorkerStep

\* A field of a channel of a worker is replaced.
LEMMA FieldUpdate ==
    ASSUME NEW old \in Entry, NEW value
    PROVE  /\ value \in BOOLEAN => [old EXCEPT !.dummy = value] =
                 [sequence |-> old.sequence, messages |-> old.messages, dummy |-> value]
           /\ value \in SUBSET SignedMessage => [old EXCEPT !.messages = value] =
                 [sequence |-> old.sequence, messages |-> value, dummy |-> old.dummy]
<1>1. ASSUME value \in BOOLEAN
      PROVE  [old EXCEPT !.dummy = value] =
                 [sequence |-> old.sequence, messages |-> old.messages, dummy |-> value]
  BY <1>1 DEF Entry
<1>2. ASSUME value \in SUBSET SignedMessage
      PROVE  [old EXCEPT !.messages = value] =
                 [sequence |-> old.sequence, messages |-> value, dummy |-> old.dummy]
  BY <1>2 DEF Entry
<1> QED BY <1>1, <1>2

LEMMA NestedUpdate ==
    ASSUME NEW f, NEW r, NEW kind, NEW value
    PROVE  /\ [f EXCEPT ![r][kind].dummy = value]
                = [f EXCEPT ![r] = [f[r] EXCEPT ![kind] = [f[r][kind] EXCEPT !.dummy = value]]]
           /\ [f EXCEPT ![r][kind].messages = value]
                = [f EXCEPT ![r] = [f[r] EXCEPT ![kind] = [f[r][kind] EXCEPT !.messages = value]]]
  OBVIOUS

\* The gatekeepers' channel of a worker becomes a dummy, or is no dummy any more.
LEMMA DummyKeeps ==
    ASSUME QueueInv, NEW r \in Replica, r \in MayDummy, NEW dummy \in BOOLEAN,
           set_dummy_mode(r, dummy)
    PROVE  QueueInv'
<1> DEFINE kind == "gatekeeper"
           old == channel[r][kind]
           entry == [sequence |-> old.sequence, messages |-> old.messages, dummy |-> dummy]
<1>1. /\ kind \in Kind /\ channel \in [Replica -> [Kind -> Entry]] /\ old \in Entry
  <2>1. kind \in Kind
    BY DEF Kind
  <2>2. channel \in [Replica -> [Kind -> Entry]]
    BY DEF QueueInv, TypeOK, ChannelState, Entry
  <2> QED BY <2>1, <2>2
<1>2. channel' = [channel EXCEPT ![r] = [channel[r] EXCEPT ![kind] = entry]]
  <2>1. channel' = [channel EXCEPT ![r][kind].dummy = dummy]
    BY DEF set_dummy_mode
  <2>2. channel' = [channel EXCEPT ![r] =
                      [channel[r] EXCEPT ![kind] = [old EXCEPT !.dummy = dummy]]]
    BY <2>1, NestedUpdate
  <2>3. [old EXCEPT !.dummy = dummy] = entry
    BY <1>1, FieldUpdate
  <2> QED BY <2>2, <2>3
<1>3. entry \in Entry
  BY <1>1 DEF Entry
<1>4. ASSUME NEW sofar, NEW next, EntryGood(r, kind, old, sofar, next)
      PROVE  EntryGood(r, kind, entry, sofar, next)
  BY <1>4 DEF EntryGood
<1>5. UNCHANGED <<chainVars, ingressVars, pool, synced, saved, faults>>
  BY DEF set_dummy_mode
<1> HIDE DEF entry
<1> QED BY <1>1, <1>2, <1>3, <1>4, <1>5, EntryStep

\* A worker purges its channel of what the chain has accepted.
LEMMA PurgeKeeps ==
    ASSUME QueueInv, NEW r \in Replica, NEW kind \in Kind, NEW next \in Nat, purge(r, kind, next)
    PROVE  QueueInv'
<1> DEFINE s == SenderOf(r, kind)
           old == channel[r][kind]
           kept == {m \in old.messages : m.sequence >= next}
           entry == [sequence |-> old.sequence, messages |-> kept, dummy |-> old.dummy]
<1>1. channel \in [Replica -> [Kind -> Entry]] /\ old \in Entry
  BY DEF QueueInv, TypeOK, ChannelState, Entry
<1>2. channel' = [channel EXCEPT ![r] = [channel[r] EXCEPT ![kind] = entry]]
  <2>1. channel' = [channel EXCEPT ![r][kind].messages = kept]
    BY DEF purge
  <2>2. channel' = [channel EXCEPT ![r] =
                      [channel[r] EXCEPT ![kind] = [old EXCEPT !.messages = kept]]]
    BY <2>1, NestedUpdate
  <2>3. kept \in SUBSET SignedMessage
    BY <1>1 DEF Entry
  <2>4. [old EXCEPT !.messages = kept] = entry
    BY <1>1, <2>3, FieldUpdate
  <2> QED BY <2>2, <2>4
<1>3. entry \in Entry
  BY <1>1 DEF Entry
<1>4. next <= OffchainIngress[s] /\ OffchainIngress[s] \in Nat
  BY SenderIs DEF purge, QueueInv, TypeOK
<1>5. ASSUME NEW sofar, EntryGood(r, kind, old, sofar, OffchainIngress[s])
      PROVE  EntryGood(r, kind, entry, sofar, OffchainIngress[s])
  <2> DEFINE last == Len(sofar) - 1
             expected == OffchainIngress[s]
  <2>1. \A n \in expected..last : n \in Int /\ n >= next
    <3> HIDE DEF last
    <3> QED BY <1>4
  <2>2. \A n \in expected..last :
           (\E m \in old.messages : m.sequence = n) => (\E m \in kept : m.sequence = n)
    BY <2>1
  <2>3. entry.sequence = old.sequence /\ entry.dummy = old.dummy /\ entry.messages = kept
    OBVIOUS
  <2>4. \A m \in kept : m \in old.messages
    OBVIOUS
  <2> HIDE DEF kept, entry, old, expected, s
  <2>5. EntryGood(r, kind, old, sofar, expected)
    BY <1>5 DEF expected
  <2>6. EntryGood(r, kind, entry, sofar, expected)
    BY <2>2, <2>3, <2>4, <2>5 DEF EntryGood
  <2> QED BY <2>6 DEF expected
<1>6. UNCHANGED <<chainVars, ingressVars, pool, synced, saved, faults>>
  BY DEF purge
<1> HIDE DEF entry
<1> QED BY <1>1, <1>2, <1>3, <1>5, <1>6, EntryStep

\* A checkpoint, a restart from it, and a message that is relayed.
LEMMA CheckpointKeeps ==
    ASSUME QueueInv, NEW r \in Replica, Checkpoint(r)
    PROVE  QueueInv'
<1>1. /\ TypeOK
      /\ \A x \in Replica :
            /\ WorkerGood(x, synced[x], channel[x], blocks, OffchainIngress)
            /\ WorkerGood(x, saved[x].synced, saved[x].channel, blocks, OffchainIngress)
  BY DEF QueueInv
<1>2. /\ saved' = [saved EXCEPT ![r] = [synced |-> synced[r], channel |-> channel[r]]]
      /\ UNCHANGED <<OutboundMessages, QueuedOutboundMessage, blocks, inputs, OffchainIngress,
                     MasterPubkey, handled, pool, synced, channel, faults>>
  BY DEF Checkpoint, chainVars, ingressVars, workerVars
<1> DEFINE now == [synced |-> synced[r], channel |-> channel[r]]
<1>3. now \in [synced : Nat, channel : ChannelState]
  BY <1>1 DEF TypeOK
<1>4. now.synced = synced[r] /\ now.channel = channel[r]
  OBVIOUS
<1> HIDE DEF now
<1>5. saved' = [saved EXCEPT ![r] = now]
  BY <1>2 DEF now
<1>6. TypeOK'
  BY <1>1, <1>2, <1>3, <1>5 DEF TypeOK
<1>7. ASSUME NEW x \in Replica
      PROVE  WorkerGood(x, saved'[x].synced, saved'[x].channel, blocks, OffchainIngress)
  <2>1. saved'[x] = IF x = r THEN now ELSE saved[x]
    BY <1>1, <1>5 DEF TypeOK
  <2> QED BY <1>1, <1>4, <2>1
<1> QED BY <1>1, <1>2, <1>6, <1>7, WorkerStep

LEMMA RestartKeeps ==
    ASSUME QueueInv, NEW r \in Replica, Restart(r)
    PROVE  QueueInv'
<1>1. /\ TypeOK
      /\ \A x \in Replica :
            /\ WorkerGood(x, synced[x], channel[x], blocks, OffchainIngress)
            /\ WorkerGood(x, saved[x].synced, saved[x].channel, blocks, OffchainIngress)
  BY DEF QueueInv
<1>2. /\ synced' = [synced EXCEPT ![r] = saved[r].synced]
      /\ channel' = [channel EXCEPT ![r] = saved[r].channel]
      /\ faults' = faults + 1
      /\ UNCHANGED <<OutboundMessages, QueuedOutboundMessage, blocks, inputs, OffchainIngress,
                     MasterPubkey, handled, pool, saved>>
  BY DEF Restart, chainVars, ingressVars
<1>3. saved[r].synced \in Nat /\ saved[r].channel \in ChannelState
  BY <1>1 DEF TypeOK
<1>4. TypeOK'
  BY <1>1, <1>2, <1>3 DEF TypeOK
<1>5. ASSUME NEW x \in Replica
      PROVE  WorkerGood(x, synced'[x], channel'[x], blocks, OffchainIngress)
  <2>1. CASE x = r
    <3>1. synced'[x] = saved[x].synced /\ channel'[x] = saved[x].channel
      BY <1>1, <1>2, <2>1 DEF TypeOK
    <3> QED BY <1>1, <3>1
  <2>2. CASE x # r
    <3>1. synced'[x] = synced[x] /\ channel'[x] = channel[x]
      BY <1>1, <1>2, <2>2 DEF TypeOK
    <3> QED BY <1>1, <3>1
  <2> QED BY <2>1, <2>2
<1> QED BY <1>1, <1>2, <1>4, <1>5, WorkerStep

LEMMA RelayKeeps ==
    ASSUME QueueInv, NEW r \in Replica, NEW kind \in Kind, NEW m \in channel[r][kind].messages,
           Relay(m)
    PROVE  QueueInv'
<1>1. /\ TypeOK
      /\ \A x \in Replica :
            /\ WorkerGood(x, synced[x], channel[x], blocks, OffchainIngress)
            /\ WorkerGood(x, saved[x].synced, saved[x].channel, blocks, OffchainIngress)
  BY DEF QueueInv
<1>2. /\ pool' = pool \cup {m}
      /\ UNCHANGED <<OutboundMessages, QueuedOutboundMessage, blocks, inputs, OffchainIngress,
                     MasterPubkey, handled, synced, channel, saved, faults>>
  BY DEF Relay, chainVars, ingressVars, workerVars
<1>3. m \in SignedMessage /\ Genuine(m, blocks)
  <2>1. synced[r] \in Nat /\ channel[r] \in ChannelState
    BY <1>1 DEF TypeOK
  <2> QED BY <1>1, <2>1, EntryGenuine
<1>4. TypeOK'
  BY <1>1, <1>2, <1>3 DEF TypeOK
<1> QED BY <1>1, <1>2, <1>3, <1>4, WorkerStep

-----------------------------------------------------------------------------
(* Theorems *)

LEMMA InitQueue == Init => QueueInv
<1> SUFFICES ASSUME Init PROVE QueueInv
  OBVIOUS
<1> DEFINE empty == [sequence |-> 0, messages |-> {}, dummy |-> FALSE]
<1>1. empty \in Entry /\ <<>> \in Seq(Message) /\ <<>> \in Seq(Seq(Message))
  BY DEF Entry
<1>2. /\ empty.sequence = 0 /\ empty.messages = {} /\ empty.dummy = FALSE
  OBVIOUS
<1>3. EmptyChannel = [kind \in Kind |-> empty]
  BY DEF EmptyChannel
<1> HIDE DEF empty
<1>4. EmptyChannel \in ChannelState /\ \A kind \in Kind : EmptyChannel[kind] = empty
  BY <1>1, <1>3 DEF ChannelState, Entry
<1>5. [synced |-> 0, channel |-> EmptyChannel] \in [synced : Nat, channel : ChannelState]
  BY <1>4
<1>6. TypeOK
  <2>1. 0 \in 0..MaxInputs /\ <<>> \in Seq(1..MaxInputs) /\ {} \subseteq SignedMessage
    BY MessageQueueAssumption
  <2>2. /\ OffchainIngress \in [Sender -> Nat] /\ handled \in [Sender -> Seq(1..MaxInputs)]
        /\ synced \in [Replica -> Nat]
    BY <2>1 DEF Init
  <2>3. /\ channel \in [Replica -> ChannelState]
        /\ saved \in [Replica -> [synced : Nat, channel : ChannelState]]
    BY <1>4, <1>5 DEF Init
  <2> QED BY <1>1, <2>1, <2>2, <2>3 DEF Init, TypeOK
<1>7. \A s : DueBy(s, <<>>)[0] = <<>>
  BY <1>1, DueEq
<1>8. \A r \in Replica : WorkerGood(r, 0, EmptyChannel, <<>>, OffchainIngress)
  <2> SUFFICES ASSUME NEW r \in Replica, NEW kind \in Kind
               PROVE  EntryGood(r, kind, empty, <<>>, OffchainIngress[SenderOf(r, kind)])
    BY <1>4, <1>7 DEF WorkerGood
  <2>1. OffchainIngress[SenderOf(r, kind)] = 0 /\ Len(<<>>) = 0
    BY SenderIs DEF Init
  <2>2. 0..(0 - 1) = {}
    OBVIOUS
  <2> QED BY <1>2, <2>1, <2>2 DEF EntryGood
<1>9. \A r \in Replica : /\ synced[r] = 0 /\ channel[r] = EmptyChannel
                         /\ saved[r].synced = 0 /\ saved[r].channel = EmptyChannel
  BY DEF Init
<1>10. ASSUME NEW s \in Sender
       PROVE  Begins(handled[s], Due(s)) /\ Len(handled[s]) = OffchainIngress[s]
  <2>1. handled[s] = <<>> /\ OffchainIngress[s] = 0 /\ Due(s) = <<>>
    BY <1>7 DEF Init, Due
  <2> QED BY <2>1 DEF Begins
<1>11. blocks = <<>> /\ pool = {}
  BY DEF Init
<1> QED BY <1>6, <1>8, <1>9, <1>10, <1>11 DEF QueueInv

LEMMA NextQueue == QueueInv /\ [Next]_vars => QueueInv'
<1> SUFFICES ASSUME QueueInv, [Next]_vars PROVE QueueInv'
  OBVIOUS
<1>1. CASE Chain
  BY <1>1, ChainKeeps, SyncKeeps DEF Chain
<1>2. CASE Worker
  <2>1. PICK r \in Replica :
          \/ HandleBlock(r)
          \/ r \in MayDummy /\ \E dummy \in BOOLEAN : set_dummy_mode(r, dummy)
          \/ r \in MayRestart /\ (Checkpoint(r) \/ Restart(r))
          \/ \E kind \in Kind :
                \/ \E next \in Seqno : purge(r, kind, next)
                \/ \E m \in channel[r][kind].messages : Relay(m)
    BY <1>2 DEF Worker
  <2>2. \A next \in Seqno : next \in Nat
    BY DEF Seqno
  <2> QED BY <2>1, <2>2, HandleBlockKeeps, DummyKeeps, CheckpointKeeps, RestartKeeps, PurgeKeeps,
             RelayKeeps
<1>3. CASE UNCHANGED vars
  <2>1. TypeOK'
    BY <1>3 DEF QueueInv, TypeOK, vars, chainVars, ingressVars, workerVars
  <2>2. UNCHANGED <<pool, OffchainIngress, handled, synced, channel, saved, blocks>>
    BY <1>3 DEF vars, chainVars, ingressVars, workerVars
  <2> QED BY <2>1, <2>2, ChainStep
<1> QED BY <1>1, <1>2, <1>3 DEF Next

\* The invariant of the message queue: the types; each worker, and what it would restart from,
\* has the answers to the blocks it has handled, numbered in their order, with those that the
\* chain expects; what is on its way is right; the chain has handled the first that are due.
THEOREM QueueInvHolds == Spec => []QueueInv
<1> QED BY InitQueue, NextQueue, PTL DEF Spec

\* A worker still has each message that the chain has not accepted, also in its checkpoint.
THEOREM KeepsWhatIsExpectedHolds == Spec => []KeepsWhatIsExpected
<1>1. QueueInv => KeepsWhatIsExpected
  <2> SUFFICES ASSUME QueueInv, NEW r \in Replica, NEW kind \in Kind,
                      kind = "worker" \/ r \notin MayDummy,
                      NEW entry \in {channel[r][kind], saved[r].channel[kind]},
                      NEW n \in OffchainIngress[SenderOf(r, kind)]..(entry.sequence - 1)
               PROVE  \E m \in entry.messages : m.sequence = n
    BY DEF KeepsWhatIsExpected
  <2> DEFINE s == SenderOf(r, kind)
  <2>1. PICK sofar : EntryGood(r, kind, entry, sofar, OffchainIngress[s])
    BY DEF QueueInv, WorkerGood
  <2> QED BY <2>1 DEF EntryGood
<1> QED BY <1>1, QueueInvHolds, PTL

\* The chain handles the answer to each message once, and in the order of the messages: the
\* message queue implements the channel that the pallets are promised.
THEOREM ImplementsTheChannel == Spec => ExactlyOnceInOrder
<1>1. Init => ImplementsChannel!Init
  <2> SUFFICES ASSUME Init PROVE ImplementsChannel!Init
    OBVIOUS
  <2>1. \A s : Due(s) = <<>>
    <3>1. <<>> \in Seq(Seq(Message)) /\ blocks = <<>> /\ Len(<<>>) = 0
      BY DEF Init
    <3> QED BY <3>1, DueEq DEF Due
  <2> QED BY <2>1 DEF Init, ImplementsChannel!Init
<1>2. QueueInv /\ [Next]_vars => [ImplementsChannel!Next]_(ImplementsChannel!vars)
  <2> SUFFICES ASSUME QueueInv, [Next]_vars
               PROVE  [ImplementsChannel!Next]_(ImplementsChannel!vars)
    OBVIOUS
  <2> DEFINE sent == [s \in Sender |-> Due(s)]
  <2>1. CASE UNCHANGED <<handled, blocks>>
    BY <2>1 DEF Due, ImplementsChannel!vars
  <2>2. CASE on_initialize
    <3>1. TypeOK /\ blocks' = Append(blocks, OutboundMessages) /\ handled' = handled
      BY <2>2 DEF QueueInv, on_initialize, ingressVars
    <3>2. \A s : Due(s)' = DueBy(s, blocks')[Len(blocks')]
      BY DEF Due
    <3>3. \A s \in Sender : Begins(Due(s), Due(s)')
      BY <3>1, <3>2, DueLater
    <3>4. ImplementsChannel!Send
      BY <3>1, <3>3 DEF ImplementsChannel!Send, ImplementsChannel!Prefix, Begins
    <3> QED BY <3>4 DEF ImplementsChannel!Next
  <2>3. ASSUME NEW m \in pool, sync_offchain_message(m)
        PROVE  [ImplementsChannel!Next]_(ImplementsChannel!vars)
    <3>1. m.sender \in Sender
      BY DEF QueueInv, TypeOK, SignedMessage
    <3>2. UNCHANGED blocks
      BY <2>3 DEF sync_offchain_message
    <3>3. sent' = sent
      BY <3>2 DEF Due
    <3>4. \/ handled' = handled
          \/ /\ Len(handled[m.sender]) < Len(sent[m.sender])
             /\ handled' = [handled EXCEPT ![m.sender] =
                              Append(@, sent[m.sender][Len(handled[m.sender]) + 1])]
      BY <2>3, <3>1, SyncKeeps
    <3>5. CASE handled' = handled
      BY <3>3, <3>5 DEF ImplementsChannel!vars
    <3>6. CASE handled' # handled
      <4>1. ImplementsChannel!Handle(m.sender)
        BY <3>3, <3>4, <3>6 DEF ImplementsChannel!Handle
      <4> QED BY <3>1, <4>1 DEF ImplementsChannel!Next
    <3> QED BY <3>5, <3>6
  <2>4. CASE Chain
    <3>1. ASSUME \/ \E t \in Pushed : push_message(t)
                 \/ \E t \in Queued : queue_bound_message(t)
                 \/ StoreMasterPubkey
                 \/ \E m \in pool : Drop(m)
          PROVE  UNCHANGED <<handled, blocks>>
      BY <3>1 DEF push_message, queue_bound_message, StoreMasterPubkey, Drop, chainVars, ingressVars
    <3> QED BY <2>1, <2>2, <2>3, <2>4, <3>1 DEF Chain
  <2>5. CASE Worker
    <3>1. UNCHANGED <<handled, blocks>>
      BY <2>5 DEF Worker, HandleBlock, set_dummy_mode, Checkpoint, Restart, purge, Relay,
                  chainVars, ingressVars
    <3> QED BY <2>1, <3>1
  <2>6. CASE UNCHANGED vars
    BY <2>1, <2>6 DEF vars, chainVars, ingressVars
  <2> QED BY <2>4, <2>5, <2>6 DEF Next
<1> QED BY <1>1, <1>2, QueueInvHolds, PTL DEF Spec, ExactlyOnceInOrder, ImplementsChannel!Spec
=============================================================================
