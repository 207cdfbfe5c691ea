--------------------------- MODULE PipelineProofs ---------------------------
(***************************************************************************)
(* The ingest consumer alone, for any number of messages, fetch size and   *)
(* redelivery limit: what it guarantees. Then the agent and the consumer   *)
(* together, for any tests, configurations and number of results:          *)
(* composing them takes nothing from what ingest guarantees, and no result *)
(* is lost but for the two reasons the agent has.                          *)
(***************************************************************************)
EXTENDS Pipeline, SequenceTheorems, FiniteSetTheorems, TLAPS

-----------------------------------------------------------------------------
(***************************************************************************)
(* Sequences, element by element.                                          *)
(***************************************************************************)

\* What it is to be an element of a sequence.
LEMMA Member ==
    ASSUME NEW S, NEW s \in Seq(S), NEW x
    PROVE  x \in ToSet(s) <=> \E i \in 1 .. Len(s) : s[i] = x
BY DEF ToSet

LEMMA MemberType ==
    ASSUME NEW S, NEW s \in Seq(S)
    PROVE  ToSet(s) \subseteq S
BY DEF ToSet

\* Append adds its element and no other.
LEMMA MemberAppend ==
    ASSUME NEW S, NEW s \in Seq(S), NEW m \in S
    PROVE  ToSet(Append(s, m)) = ToSet(s) \cup {m}
<1> DEFINE t == Append(s, m)
<1>1. t \in Seq(S) /\ Len(t) = Len(s) + 1 /\ t[Len(s) + 1] = m
        /\ \A i \in 1 .. Len(s) : t[i] = s[i]
  BY AppendProperties
<1>2. Len(s) \in Nat
  BY LenProperties
<1> HIDE DEF t
<1>3. ASSUME NEW x PROVE x \in ToSet(t) <=> x \in ToSet(s) \cup {m}
  <2>1. x \in ToSet(t) <=> \E i \in 1 .. Len(s) + 1 : t[i] = x
    BY <1>1, Member
  <2>2. x \in ToSet(s) <=> \E i \in 1 .. Len(s) : s[i] = x
    BY Member
  <2> QED BY <1>1, <1>2, <2>1, <2>2
<1> QED BY <1>3 DEF t

\* No element occurs twice.
Distinct(s) == \A i, j \in 1 .. Len(s) : s[i] = s[j] => i = j

\* Without removes an element at most once and adds none.
LEMMA WithoutFacts ==
    ASSUME NEW S, NEW q \in Seq(S), NEW m
    PROVE  /\ Without(q, m) \in Seq(S)
           /\ ToSet(Without(q, m)) \subseteq ToSet(q)
           /\ Distinct(q) => Distinct(Without(q, m)) /\ m \notin ToSet(Without(q, m))
<1>0. Len(q) \in Nat
  BY LenProperties
<1>1. CASE m \notin ToSet(q)
  BY <1>1 DEF Without
<1>2. CASE m \in ToSet(q)
  <2> DEFINE i == CHOOSE j \in 1 .. Len(q) : q[j] = m
             a == SubSeq(q, 1, i - 1)
             b == SubSeq(q, i + 1, Len(q))
             r == a \o b
  <2>1. i \in 1 .. Len(q) /\ q[i] = m
    BY <1>2, Member
  <2>2. Without(q, m) = r
    BY <1>2 DEF Without, RemoveAt
  <2> HIDE DEF i
  <2>3. a \in Seq(S) /\ Len(a) = i - 1 /\ \A k \in 1 .. i - 1 : a[k] = q[k]
    BY <1>0, <2>1, ElementOfSeq, SubSeqProperties
  <2>4. b \in Seq(S) /\ Len(b) = Len(q) - i /\ \A k \in 1 .. Len(q) - i : b[k] = q[i + k]
    BY <1>0, <2>1, ElementOfSeq, SubSeqProperties
  <2> HIDE DEF a, b
  <2>5. /\ r \in Seq(S)
        /\ Len(r) = Len(a) + Len(b)
        /\ \A k \in 1 .. Len(a) + Len(b) : r[k] = IF k <= Len(a) THEN a[k] ELSE b[k - Len(a)]
    BY <2>3, <2>4, ConcatProperties
  <2> HIDE DEF r
  <2>6. Len(r) = Len(q) - 1
    BY <1>0, <2>1, <2>3, <2>4, <2>5
  <2>7. ASSUME NEW k \in 1 .. Len(q) - 1
        PROVE  r[k] = IF k < i THEN q[k] ELSE q[k + 1]
    <3>1. CASE k < i
      <4>1. k \in 1 .. Len(a) + Len(b) /\ k <= Len(a) /\ k \in 1 .. i - 1
        BY <3>1, <1>0, <2>1, <2>3, <2>4
      <4>2. r[k] = a[k] /\ a[k] = q[k]
        BY <4>1, <2>3, <2>5
      <4> QED BY <3>1, <4>2
    <3>2. CASE k >= i
      <4>a. Len(a) = i - 1 /\ Len(b) = Len(q) - i
        BY <2>3, <2>4
      <4>b. k \in 1 .. Len(a) + Len(b) /\ ~(k <= Len(a))
        BY <3>2, <4>a, <1>0, <2>1
      <4>c. r[k] = IF k <= Len(a) THEN a[k] ELSE b[k - Len(a)]
        BY <4>b, <2>5
      <4>1. r[k] = b[k - (i - 1)]
        BY <4>a, <4>b, <4>c
      <4>2. k - (i - 1) \in 1 .. Len(q) - i /\ i + (k - (i - 1)) = k + 1
        BY <3>2, <1>0, <2>1
      <4>3. b[k - (i - 1)] = q[i + (k - (i - 1))]
        BY <4>2, <2>4
      <4> QED BY <3>2, <4>1, <4>2, <4>3, <1>0, <2>1
    <3> QED BY <3>1, <3>2, <1>0, <2>1
  <2>8. ToSet(r) \subseteq ToSet(q)
    <3> SUFFICES ASSUME NEW x \in ToSet(r) PROVE x \in ToSet(q)
      OBVIOUS
    <3>1. PICK k \in 1 .. Len(q) - 1 : r[k] = x
      BY <2>5, <2>6, Member
    <3>2. \E j \in 1 .. Len(q) : q[j] = x
      BY <3>1, <2>7, <1>0, <2>1
    <3> QED BY <3>2, Member
  <2>9. ASSUME Distinct(q) PROVE Distinct(r) /\ m \notin ToSet(r)
    <3>1. \A j, k \in 1 .. Len(q) : q[j] = q[k] => j = k
      BY <2>9 DEF Distinct
    <3>2. ASSUME NEW j \in 1 .. Len(q) - 1, NEW k \in 1 .. Len(q) - 1, r[j] = r[k]
          PROVE  j = k
      BY <3>1, <3>2, <2>7, <1>0, <2>1
    <3>3. \A k \in 1 .. Len(q) - 1 : r[k] # m
      BY <3>1, <2>7, <1>0, <2>1
    <3>4. m \notin ToSet(r)
      BY <3>3, <2>5, <2>6, Member
    <3> QED BY <3>2, <3>4, <2>6 DEF Distinct
  <2> QED BY <2>2, <2>5, <2>8, <2>9
<1> QED BY <1>1, <1>2

-----------------------------------------------------------------------------
(***************************************************************************)
(* The invariant. Queues hold no message twice, so that a message is in    *)
(* one place at a time unless something disturbed it.                      *)
(***************************************************************************)

Queues ==
    /\ Distinct(stream)
    /\ Distinct(rdq)
    /\ Distinct(batch)
    /\ ToSet(rdq) \subseteq pending
    /\ ToSet(batch) \subseteq Delivered

\* An ack is on its way, or about to be sent, only for a message that has its row.
AcksAreEarned ==
    /\ \A m \in Msgs : Ack(m) \in replies => rows[m] > 0
    /\ pc = "ack" => rows[Head(batch)] > 0

\* m is to be tried again.
Returning(m) == m \in ToSet(rdq) \/ Nak(m) \in replies

\* A message to which nothing unusual happened: it is in the batch, or it returns, for
\* one reason only, or neither; once it has a row it is not tried again.
Quiet(m) ==
    /\ Returning(m) => m \in Delivered /\ m \notin ToSet(batch)
    /\ ~(m \in ToSet(rdq) /\ Nak(m) \in replies)
    /\ rows[m] > 0 =>
         /\ rows[m] = 1
         /\ m \in Delivered
         /\ ~Returning(m)
         /\ m \in ToSet(batch) => pc = "ack" /\ m = Head(batch)

IInv ==
    /\ TypeOK
    /\ Queues
    /\ AckedIsStored
    /\ AcksAreEarned
    /\ \A m \in Msgs \ disturbed : Quiet(m)

-----------------------------------------------------------------------------
(***************************************************************************)
(* What the steps do to the queues.                                        *)
(***************************************************************************)

\* The number of unacknowledged messages is a number.
LEMMA PendingFinite ==
    ASSUME TypeOK
    PROVE  Cardinality(pending) \in Nat
<1> DEFINE f == [i \in 1 .. lastSeq |-> stream[i]]
<1>1. IsFiniteSet(1 .. lastSeq)
  BY FS_Interval DEF TypeOK
<1>2. f \in Surjection(1 .. lastSeq, Delivered)
  BY DEF Delivered, Surjection
<1>3. IsFiniteSet(Delivered)
  BY <1>1, <1>2, FS_Surjection
<1>4. IsFiniteSet(pending)
  BY <1>3, FS_Subset DEF TypeOK
<1> QED BY <1>4, FS_CardinalityType

\* A pull takes a prefix of the redelivery queue and the stream's next messages.
LEMMA TakenFacts ==
    ASSUME TypeOK
    PROVE  /\ Again \in 0 .. Len(rdq)
           /\ New \in 0 .. Len(stream) - lastSeq
           /\ Taken \in Seq(Msgs)
           /\ Len(Taken) = Again + New
           /\ \A k \in 1 .. Again : Taken[k] = rdq[k]
           /\ \A k \in 1 .. New : Taken[Again + k] = stream[lastSeq + k]
<1> DEFINE a == SubSeq(rdq, 1, Again)
           b == SubSeq(stream, lastSeq + 1, lastSeq + New)
<1>1. rdq \in Seq(Msgs) /\ Len(rdq) \in Nat
  BY LenProperties DEF TypeOK
<1>2. stream \in Seq(Msgs) /\ Len(stream) \in Nat /\ lastSeq \in 0 .. Len(stream)
  BY LenProperties DEF TypeOK
<1>3. Again \in 0 .. Len(rdq) /\ FetchSize - Again \in Nat
  BY <1>1, IngestAssumption DEF Again, Least
<1>4. Room \in Nat
  BY PendingFinite, IngestAssumption DEF Room
<1>5. New \in 0 .. Len(stream) - lastSeq
  BY <1>2, <1>3, <1>4 DEF New, Least
<1>6. a \in Seq(Msgs) /\ Len(a) = Again /\ \A k \in 1 .. Again : a[k] = rdq[k]
  BY <1>1, <1>3, ElementOfSeq, SubSeqProperties
<1>7. b \in Seq(Msgs) /\ Len(b) = New /\ \A k \in 1 .. New : b[k] = stream[lastSeq + k]
  <2>1. \A i \in lastSeq + 1 .. lastSeq + New : stream[i] \in Msgs
    BY <1>2, <1>5, ElementOfSeq
  <2>2. /\ b \in Seq(Msgs)
        /\ Len(b) = IF lastSeq + 1 <= lastSeq + New THEN (lastSeq + New) - (lastSeq + 1) + 1 ELSE 0
        /\ \A k \in 1 .. (lastSeq + New) - (lastSeq + 1) + 1 : b[k] = stream[(lastSeq + 1) + k - 1]
    <3>1. lastSeq + 1 \in Int /\ lastSeq + New \in Int
      BY <1>2, <1>5
    <3> HIDE DEF New
    <3> QED BY <2>1, <3>1, SubSeqProperties
  <2>3. Len(b) = New
    BY <1>2, <1>5, <2>2
  <2>4. \A k \in 1 .. New : b[k] = stream[lastSeq + k]
    <3> SUFFICES ASSUME NEW k \in 1 .. New PROVE b[k] = stream[lastSeq + k]
      OBVIOUS
    <3>1. k \in 1 .. (lastSeq + New) - (lastSeq + 1) + 1 /\ (lastSeq + 1) + k - 1 = lastSeq + k
      BY <1>2, <1>5
    <3> QED BY <2>2, <3>1
  <2> QED BY <2>2, <2>3, <2>4
<1> HIDE DEF a, b
<1>8. /\ a \o b \in Seq(Msgs)
      /\ Len(a \o b) = Len(a) + Len(b)
      /\ \A i \in 1 .. Len(a) + Len(b) : (a \o b)[i] = IF i <= Len(a) THEN a[i] ELSE b[i - Len(a)]
  BY <1>6, <1>7, ConcatProperties
<1>9. Taken = a \o b
  BY DEF Taken, a, b
<1>10. \A k \in 1 .. Again : Taken[k] = rdq[k]
  BY <1>3, <1>5, <1>6, <1>7, <1>8, <1>9
<1>11. ASSUME NEW k \in 1 .. New PROVE Taken[Again + k] = stream[lastSeq + k]
  <2>1. Again + k \in 1 .. Len(a) + Len(b) /\ ~(Again + k <= Len(a)) /\ (Again + k) - Len(a) = k
    BY <1>3, <1>5, <1>6, <1>7
  <2> QED BY <2>1, <1>7, <1>8, <1>9
<1> QED BY <1>3, <1>5, <1>6, <1>7, <1>8, <1>9, <1>10, <1>11

\* The same, as the sets of messages in each place.
LEMMA HandFacts ==
    ASSUME TypeOK, Queues, Hand, stream' = stream
    PROVE  /\ Taken \in Seq(Msgs) /\ Distinct(Taken)
           /\ lastSeq' \in 0 .. Len(stream)
           /\ Delivered' = Delivered \cup ToSet(Taken)
           /\ rdq' \in Seq(Msgs) /\ Distinct(rdq')
           /\ ToSet(rdq') \subseteq ToSet(rdq)
           /\ ToSet(rdq') \cap ToSet(Taken) = {}
           /\ \A m \in ToSet(Taken) : m \in ToSet(rdq) \/ m \notin Delivered
<1>1. rdq \in Seq(Msgs) /\ Len(rdq) \in Nat
  BY LenProperties DEF TypeOK
<1>2. stream \in Seq(Msgs) /\ Len(stream) \in Nat /\ lastSeq \in 0 .. Len(stream)
  BY LenProperties DEF TypeOK
<1>3. /\ Again \in 0 .. Len(rdq)
      /\ New \in 0 .. Len(stream) - lastSeq
      /\ Taken \in Seq(Msgs)
      /\ Len(Taken) = Again + New
      /\ \A k \in 1 .. Again : Taken[k] = rdq[k]
      /\ \A k \in 1 .. New : Taken[Again + k] = stream[lastSeq + k]
  BY TakenFacts
<1>4. /\ \A i, j \in 1 .. Len(rdq) : rdq[i] = rdq[j] => i = j
      /\ \A i, j \in 1 .. Len(stream) : stream[i] = stream[j] => i = j
  BY DEF Queues, Distinct
<1>5. lastSeq' = lastSeq + New /\ rdq' = SubSeq(rdq, Again + 1, Len(rdq))
  BY DEF Hand
<1>6. lastSeq' \in 0 .. Len(stream)
  BY <1>2, <1>3, <1>5
<1>7. /\ rdq' \in Seq(Msgs)
      /\ Len(rdq') = Len(rdq) - Again
      /\ \A k \in 1 .. Len(rdq) - Again : rdq'[k] = rdq[Again + k]
  <2>1. \A i \in Again + 1 .. Len(rdq) : rdq[i] \in Msgs
    BY <1>1, <1>3, ElementOfSeq
  <2>2. Again + 1 \in Int /\ Len(rdq) \in Int
    BY <1>1, <1>3
  <2>3. /\ rdq' \in Seq(Msgs)
        /\ Len(rdq') = IF Again + 1 <= Len(rdq) THEN Len(rdq) - (Again + 1) + 1 ELSE 0
        /\ \A k \in 1 .. Len(rdq) - (Again + 1) + 1 : rdq'[k] = rdq[(Again + 1) + k - 1]
    BY <1>5, <2>1, <2>2, SubSeqProperties
  <2>4. ASSUME NEW k \in 1 .. Len(rdq) - Again PROVE rdq'[k] = rdq[Again + k]
    <3>1. k \in 1 .. Len(rdq) - (Again + 1) + 1 /\ (Again + 1) + k - 1 = Again + k
      BY <1>1, <1>3
    <3> QED BY <2>3, <3>1
  <2> QED BY <1>1, <1>3, <2>3, <2>4
<1> HIDE DEF Hand
<1>8. \A x : x \in ToSet(rdq) <=> \E i \in 1 .. Len(rdq) : rdq[i] = x
  BY <1>1, Member
<1>9. \A x : x \in ToSet(rdq') <=> \E i \in 1 .. Len(rdq) - Again : rdq[Again + i] = x
  BY <1>7, Member
<1>10. \A x : x \in ToSet(Taken) <=>
            \/ \E i \in 1 .. Again : rdq[i] = x
            \/ \E i \in 1 .. New : stream[lastSeq + i] = x
  <2> SUFFICES ASSUME NEW x
               PROVE  x \in ToSet(Taken) <=>
                         \/ \E i \in 1 .. Again : rdq[i] = x
                         \/ \E i \in 1 .. New : stream[lastSeq + i] = x
    OBVIOUS
  <2>1. x \in ToSet(Taken) <=> \E i \in 1 .. Again + New : Taken[i] = x
    BY <1>3, Member
  <2>2. ASSUME NEW i \in 1 .. Again + New, Taken[i] = x
        PROVE  \/ \E j \in 1 .. Again : rdq[j] = x
               \/ \E j \in 1 .. New : stream[lastSeq + j] = x
    <3>1. CASE i <= Again
      BY <1>1, <1>3, <2>2, <3>1
    <3>2. CASE i > Again
      <4>1. i - Again \in 1 .. New /\ Again + (i - Again) = i
        BY <1>1, <1>2, <1>3, <3>2
      <4> QED BY <1>3, <2>2, <4>1
    <3> QED BY <1>1, <1>2, <1>3, <3>1, <3>2
  <2>3. ASSUME NEW i \in 1 .. Again, rdq[i] = x PROVE \E j \in 1 .. Again + New : Taken[j] = x
    BY <1>1, <1>2, <1>3, <2>3
  <2>4. ASSUME NEW i \in 1 .. New, stream[lastSeq + i] = x
        PROVE  \E j \in 1 .. Again + New : Taken[j] = x
    <3>1. Again + i \in 1 .. Again + New
      BY <1>1, <1>2, <1>3
    <3> QED BY <1>3, <2>4, <3>1
  <2> QED BY <2>1, <2>2, <2>3, <2>4
<1>11. \A x : x \in Delivered <=> \E i \in 1 .. lastSeq : stream[i] = x
  BY DEF Delivered
<1>12. \A x : x \in Delivered' <=> \E i \in 1 .. lastSeq + New : stream[i] = x
  BY <1>5 DEF Delivered
<1>13. \A x \in ToSet(rdq) : x \in Delivered
  BY DEF Queues, TypeOK
<1>14. Delivered' = Delivered \cup ToSet(Taken)
  <2>1. ASSUME NEW x \in Delivered' PROVE x \in Delivered \cup ToSet(Taken)
    <3>1. PICK i \in 1 .. lastSeq + New : stream[i] = x
      BY <1>12
    <3>2. CASE i <= lastSeq
      BY <1>2, <1>3, <1>11, <3>1, <3>2
    <3>3. CASE i > lastSeq
      <4>1. i - lastSeq \in 1 .. New /\ lastSeq + (i - lastSeq) = i
        BY <1>2, <1>3, <3>3
      <4> QED BY <1>10, <3>1, <4>1
    <3> QED BY <1>2, <1>3, <3>2, <3>3
  <2>2. Delivered \subseteq Delivered'
    BY <1>2, <1>3, <1>11, <1>12
  <2>3. ASSUME NEW x \in ToSet(Taken) PROVE x \in Delivered'
    <3>1. CASE \E i \in 1 .. Again : rdq[i] = x
      BY <1>1, <1>3, <1>8, <1>13, <2>2, <3>1
    <3>2. CASE \E i \in 1 .. New : stream[lastSeq + i] = x
      <4>1. PICK i \in 1 .. New : stream[lastSeq + i] = x
        BY <3>2
      <4>2. lastSeq + i \in 1 .. lastSeq + New
        BY <1>2, <1>3
      <4> QED BY <1>12, <4>1, <4>2
    <3> QED BY <1>10, <3>1, <3>2
  <2> QED BY <2>1, <2>2, <2>3
<1>15. \A i \in 1 .. New : stream[lastSeq + i] \notin Delivered
  <2> SUFFICES ASSUME NEW i \in 1 .. New, NEW j \in 1 .. lastSeq, stream[j] = stream[lastSeq + i]
               PROVE  FALSE
    BY <1>11
  <2>1. j \in 1 .. Len(stream) /\ lastSeq + i \in 1 .. Len(stream) /\ j # lastSeq + i
    BY <1>2, <1>3
  <2> QED BY <1>4, <2>1
<1>16. \A m \in ToSet(Taken) : m \in ToSet(rdq) \/ m \notin Delivered
  BY <1>1, <1>3, <1>8, <1>10, <1>15
<1>17. ToSet(rdq') \subseteq ToSet(rdq)
  BY <1>1, <1>3, <1>8, <1>9
<1>18. ToSet(rdq') \cap ToSet(Taken) = {}
  <2> SUFFICES ASSUME NEW x \in ToSet(rdq'), x \in ToSet(Taken) PROVE FALSE
    OBVIOUS
  <2>1. PICK i \in 1 .. Len(rdq) - Again : rdq[Again + i] = x
    BY <1>9
  <2>2. PICK j \in 1 .. Again : rdq[j] = x
    BY <1>10, <1>13, <1>15, <1>17
  <2> QED BY <1>1, <1>3, <1>4, <2>1, <2>2
<1>19. Distinct(rdq')
  <2> SUFFICES ASSUME NEW i \in 1 .. Len(rdq) - Again, NEW j \in 1 .. Len(rdq) - Again,
                      rdq[Again + i] = rdq[Again + j]
               PROVE  i = j
    BY <1>7 DEF Distinct
  <2>1. Again + i \in 1 .. Len(rdq) /\ Again + j \in 1 .. Len(rdq)
    BY <1>1, <1>3
  <2>2. Again + i = Again + j
    BY <1>4, <2>1
  <2> QED BY <1>1, <1>3, <2>2
<1>20. Distinct(Taken)
  <2> SUFFICES ASSUME NEW i \in 1 .. Again + New, NEW j \in 1 .. Again + New,
                      Taken[i] = Taken[j], i < j
               PROVE  FALSE
    BY <1>1, <1>2, <1>3 DEF Distinct
  <2>1. CASE j <= Again
    BY <1>1, <1>3, <1>4, <2>1
  <2>2. CASE i <= Again /\ j > Again
    <3>1. j - Again \in 1 .. New /\ Again + (j - Again) = j
      BY <1>1, <1>2, <1>3, <2>2
    <3>2. Taken[j] = stream[lastSeq + (j - Again)]
      BY <1>3, <3>1
    <3>3. Taken[i] \in ToSet(rdq)
      BY <1>1, <1>3, <1>8, <2>2
    <3> QED BY <1>13, <1>15, <3>1, <3>2, <3>3
  <2>3. CASE i > Again
    <3>1. /\ i - Again \in 1 .. New /\ Again + (i - Again) = i
          /\ j - Again \in 1 .. New /\ Again + (j - Again) = j
      BY <1>1, <1>2, <1>3, <2>3
    <3>2. Taken[i] = stream[lastSeq + (i - Again)] /\ Taken[j] = stream[lastSeq + (j - Again)]
      BY <1>3, <3>1
    <3>3. lastSeq + (i - Again) \in 1 .. Len(stream) /\ lastSeq + (j - Again) \in 1 .. Len(stream)
      BY <1>2, <1>3, <3>1
    <3>4. lastSeq + (i - Again) = lastSeq + (j - Again)
      BY <1>4, <3>2, <3>3
    <3> QED BY <1>1, <1>2, <1>3, <3>4
  <2> QED BY <1>1, <1>2, <1>3, <2>1, <2>2, <2>3
<1> QED BY <1>3, <1>6, <1>7, <1>14, <1>16, <1>17, <1>18, <1>19, <1>20

\* handle returns: the head of the batch is gone from it.
LEMMA HandledFacts ==
    ASSUME TypeOK, Queues, pc \in {"handle", "ack"}, Handled
    PROVE  /\ Head(batch) \in Msgs /\ Head(batch) \in ToSet(batch)
           /\ batch' \in Seq(Msgs) /\ Distinct(batch')
           /\ ToSet(batch') = ToSet(batch) \ {Head(batch)}
           /\ pc' \in {"fetch", "handle"}
           /\ pc' = "handle" <=> batch' # <<>>
<1>1. batch \in Seq(Msgs) /\ batch # <<>> /\ Len(batch) \in Nat \ {0}
  BY EmptySeq DEF TypeOK
<1>2. \A i, j \in 1 .. Len(batch) : batch[i] = batch[j] => i = j
  BY DEF Queues, Distinct
<1>3. /\ Head(batch) \in Msgs
      /\ batch' \in Seq(Msgs)
      /\ Len(batch') = Len(batch) - 1
      /\ \A i \in 1 .. Len(batch') : batch'[i] = batch[i + 1]
  BY <1>1, HeadTailProperties DEF Handled
<1>4. Head(batch) = batch[1]
  BY <1>1
<1>5. \A x : x \in ToSet(batch) <=> \E i \in 1 .. Len(batch) : batch[i] = x
  BY <1>1, Member
<1>6. \A x : x \in ToSet(batch') <=> \E i \in 1 .. Len(batch) - 1 : batch[i + 1] = x
  BY <1>1, <1>3, Member
<1>7. Distinct(batch')
  <2> SUFFICES ASSUME NEW i \in 1 .. Len(batch) - 1, NEW j \in 1 .. Len(batch) - 1,
                      batch[i + 1] = batch[j + 1]
               PROVE  i = j
    BY <1>3 DEF Distinct
  <2>1. i + 1 \in 1 .. Len(batch) /\ j + 1 \in 1 .. Len(batch)
    BY <1>1
  <2> QED BY <1>1, <1>2, <2>1
<1>8. Head(batch) \in ToSet(batch)
  BY <1>1, <1>4, <1>5
<1>9. ASSUME NEW x PROVE x \in ToSet(batch') <=> x \in ToSet(batch) /\ x # Head(batch)
  <2>1. ASSUME NEW i \in 1 .. Len(batch) - 1, batch[i + 1] = x
        PROVE  x \in ToSet(batch) /\ x # Head(batch)
    <3>1. i + 1 \in 1 .. Len(batch) /\ i + 1 # 1 /\ 1 \in 1 .. Len(batch)
      BY <1>1
    <3> QED BY <1>2, <1>4, <1>5, <2>1, <3>1
  <2>2. ASSUME NEW i \in 1 .. Len(batch), batch[i] = x, x # Head(batch)
        PROVE  \E j \in 1 .. Len(batch) - 1 : batch[j + 1] = x
    <3>1. i - 1 \in 1 .. Len(batch) - 1 /\ (i - 1) + 1 = i
      BY <1>1, <1>4, <2>2
    <3> QED BY <2>2, <3>1
  <2> QED BY <1>5, <1>6, <2>1, <2>2
<1> QED BY <1>3, <1>7, <1>8, <1>9 DEF Handled

\* A message goes to the end of the redelivery queue at most once.
LEMMA RequeueFacts ==
    ASSUME TypeOK, Queues, NEW m \in Msgs, Requeue(m)
    PROVE  /\ rdq' \in Seq(Msgs) /\ Distinct(rdq')
           /\ ToSet(rdq') \subseteq ToSet(rdq) \cup {m}
           /\ ToSet(rdq') \subseteq pending
<1>1. rdq \in Seq(Msgs) /\ Distinct(rdq) /\ ToSet(rdq) \subseteq pending
  BY DEF TypeOK, Queues
<1>2. CASE m \in pending /\ m \notin ToSet(rdq)
  <2>1. rdq' = Append(rdq, m)
    BY <1>2 DEF Requeue
  <2>2. /\ rdq' \in Seq(Msgs)
        /\ Len(rdq') = Len(rdq) + 1
        /\ \A i \in 1 .. Len(rdq) : rdq'[i] = rdq[i]
        /\ rdq'[Len(rdq) + 1] = m
    BY <1>1, <2>1, AppendProperties
  <2>3. ToSet(rdq') = ToSet(rdq) \cup {m}
    BY <1>1, <2>1, MemberAppend
  <2>4. \A i \in 1 .. Len(rdq) : rdq[i] # m
    BY <1>1, <1>2, Member
  <2>5. Len(rdq) \in Nat
    BY <1>1, LenProperties
  <2>6. Distinct(rdq')
    BY <1>1, <2>2, <2>4, <2>5 DEF Distinct
  <2> QED BY <1>1, <1>2, <2>2, <2>3, <2>6
<1>3. CASE ~(m \in pending /\ m \notin ToSet(rdq))
  BY <1>1, <1>3 DEF Requeue
<1> QED BY <1>2, <1>3

\* A new message is at the end of the stream, where it has not been delivered.
LEMMA PublishFacts ==
    ASSUME TypeOK, Queues, NEW m \in Msgs, Publish(m)
    PROVE  /\ stream' \in Seq(Msgs) /\ Distinct(stream')
           /\ lastSeq' \in 0 .. Len(stream')
           /\ Delivered' = Delivered
<1>1. stream \in Seq(Msgs) /\ Len(stream) \in Nat /\ lastSeq \in 0 .. Len(stream)
  BY LenProperties DEF TypeOK
<1>2. /\ stream' \in Seq(Msgs)
      /\ Len(stream') = Len(stream) + 1
      /\ \A i \in 1 .. Len(stream) : stream'[i] = stream[i]
      /\ stream'[Len(stream) + 1] = m
  BY <1>1, AppendProperties DEF Publish
<1>3. \A i \in 1 .. Len(stream) : stream[i] # m
  BY <1>1, Member DEF Publish
<1>4. Distinct(stream')
  BY <1>1, <1>2, <1>3 DEF Distinct, Queues
<1>5. lastSeq' = lastSeq
  BY DEF Publish, serverVars
<1>6. Delivered' = Delivered
  BY <1>1, <1>2, <1>5 DEF Delivered
<1> QED BY <1>1, <1>2, <1>4, <1>5, <1>6

-----------------------------------------------------------------------------
(***************************************************************************)
(* The invariant holds initially and every step keeps it.                  *)
(***************************************************************************)

\* Rows are counted up to MaxRows.
LEMMA InsertedFacts ==
    ASSUME TypeOK, NEW m \in Msgs
    PROVE  /\ Inserted(m) \in [Msgs -> 0 .. MaxRows]
           /\ Inserted(m)[m] > 0
           /\ rows[m] = 0 => Inserted(m)[m] = 1
           /\ \A x \in Msgs \ {m} : Inserted(m)[x] = rows[x]
BY IngestAssumption DEF TypeOK, Inserted

LEMMA IInvInit ==
    ASSUME Init
    PROVE  IInv
<1>1. ToSet(<<>>) = {}
  BY DEF ToSet
<1>2. Distinct(<<>>)
  BY DEF Distinct
<1>3. Delivered = {}
  BY DEF Init, Delivered
<1>4. TypeOK
  <2>1. <<>> \in Seq(Msgs) /\ Len(<<>>) = 0
    BY EmptySeq
  <2>2. rows \in [Msgs -> 0 .. MaxRows]
    BY IngestAssumption DEF Init
  <2>3. lastSeq \in 0 .. Len(stream) /\ pending \subseteq Delivered
    BY <1>3, <2>1 DEF Init
  <2>4. pc \in {"handle", "ack"} <=> batch # <<>>
    BY DEF Init
  <2> QED BY <2>1, <2>2, <2>3, <2>4 DEF Init, TypeOK
<1> QED BY <1>1, <1>2, <1>3, <1>4
        DEF Init, IInv, Queues, AckedIsStored, Acked, AcksAreEarned, Quiet, Returning

\* Nothing but a pull, a publication and the loss of the consumer moves Delivered.
LEMMA SameDelivered ==
    ASSUME stream' = stream, lastSeq' = lastSeq
    PROVE  Delivered' = Delivered
BY DEF Delivered

\* Types.
LEMMA TypeStep ==
    ASSUME TypeOK, Queues, [Next]_vars
    PROVE  TypeOK'
<1> USE DEF serverVars, processVars
<1>1. ASSUME NEW m \in Msgs, Publish(m) PROVE TypeOK'
  BY <1>1, PublishFacts DEF TypeOK, Publish
<1>2. ASSUME NEW m \in Msgs, AckArrives(m) PROVE TypeOK'
  <2>1. rdq' \in Seq(Msgs)
    BY <1>2, WithoutFacts DEF TypeOK, AckArrives
  <2> QED BY <1>2, <2>1, SameDelivered DEF TypeOK, AckArrives
<1>3. ASSUME NEW m \in Msgs, NakArrives(m) PROVE TypeOK'
  BY <1>3, RequeueFacts, SameDelivered DEF TypeOK, NakArrives
<1>4. ASSUME NEW r \in Reply, ReplyLost(r) PROVE TypeOK'
  BY <1>4, SameDelivered DEF TypeOK, ReplyLost
<1>5. ASSUME NEW m \in Msgs, AckWaitExpires(m) PROVE TypeOK'
  BY <1>5, RequeueFacts, SameDelivered DEF TypeOK, AckWaitExpires
<1>6. CASE Subscribe
  BY <1>6, SameDelivered DEF TypeOK, Subscribe
<1>7. CASE SubscribeFails
  BY <1>7, SameDelivered DEF TypeOK, SubscribeFails
<1>8. CASE Fetch
  <2>1. Taken \in Seq(Msgs) /\ Taken # <<>> /\ pending' = pending \cup ToSet(Taken)
    BY <1>8, HandFacts DEF Fetch, Hand
  <2> QED BY <1>8, <2>1, HandFacts DEF TypeOK, Fetch, Hand
<1>9. CASE FetchLost
  BY <1>9, HandFacts DEF TypeOK, FetchLost, Hand
<1>10. CASE DecodeFails
  <2>1. Nak(Head(batch)) \in Reply
    BY <1>10, HandledFacts DEF DecodeFails, Nak, Reply
  <2> QED BY <1>10, <2>1, HandledFacts, SameDelivered DEF TypeOK, DecodeFails
<1>11. CASE Insert
  <2>1. Head(batch) \in Msgs
    BY <1>11, HeadTailProperties DEF TypeOK, Insert
  <2> QED BY <1>11, <2>1, InsertedFacts, SameDelivered DEF TypeOK, Insert
<1>12. CASE InsertFails
  <2>1. Head(batch) \in Msgs /\ Nak(Head(batch)) \in Reply
    BY <1>12, HandledFacts DEF InsertFails, Nak, Reply
  <2>2. rows' \in [Msgs -> 0 .. MaxRows] /\ disturbed' \subseteq Msgs
    BY <1>12, <2>1, InsertedFacts DEF TypeOK, InsertFails
  <2> QED BY <1>12, <2>1, <2>2, HandledFacts, SameDelivered DEF TypeOK, InsertFails
<1>13. CASE SendAck
  <2>1. Ack(Head(batch)) \in Reply
    BY <1>13, HandledFacts DEF SendAck, Ack, Reply
  <2> QED BY <1>13, <2>1, HandledFacts, SameDelivered DEF TypeOK, SendAck
<1>14. CASE Sigterm
  BY <1>14, SameDelivered DEF TypeOK, Sigterm
<1>15. CASE Return
  BY <1>15, SameDelivered DEF TypeOK, Return
<1>16. CASE DeleteConsumer
  <2>1. Delivered \subseteq Msgs /\ Len(stream) \in Nat
    BY ElementOfSeq, LenProperties DEF TypeOK, Delivered
  <2>2. <<>> \in Seq(Msgs)
    BY EmptySeq
  <2>3. lastSeq' \in 0 .. Len(stream') /\ pending' \subseteq Delivered'
    BY <1>16, <2>1 DEF DeleteConsumer
  <2> QED BY <1>16, <2>1, <2>2, <2>3 DEF TypeOK, DeleteConsumer
<1>17. CASE Exit
  <2>1. <<>> \in Seq(Msgs)
    BY EmptySeq
  <2> QED BY <1>17, <2>1, SameDelivered DEF TypeOK, Exit
<1>18. CASE Boot
  BY <1>18, SameDelivered DEF TypeOK, Boot
<1>19. CASE UNCHANGED vars
  BY <1>19, SameDelivered DEF TypeOK, vars
<1> QED BY <1>1, <1>2, <1>3, <1>4, <1>5, <1>6, <1>7, <1>8, <1>9, <1>10, <1>11, <1>12,
           <1>13, <1>14, <1>15, <1>16, <1>17, <1>18, <1>19 DEF Next

\* Queues.
LEMMA QueuesStep ==
    ASSUME TypeOK, Queues, [Next]_vars
    PROVE  Queues'
<1> USE DEF serverVars, processVars
<1>0. ToSet(<<>>) = {} /\ Distinct(<<>>)
  BY DEF ToSet, Distinct
<1>1. ASSUME NEW m \in Msgs, Publish(m) PROVE Queues'
  BY <1>1, PublishFacts DEF Queues, Publish
<1>2. ASSUME NEW m \in Msgs, AckArrives(m) PROVE Queues'
  BY <1>2, WithoutFacts, SameDelivered DEF TypeOK, Queues, AckArrives
<1>3. ASSUME NEW m \in Msgs, NakArrives(m) PROVE Queues'
  BY <1>3, RequeueFacts, SameDelivered DEF Queues, NakArrives
<1>4. ASSUME NEW r \in Reply, ReplyLost(r) PROVE Queues'
  BY <1>4, SameDelivered DEF Queues, ReplyLost
<1>5. ASSUME NEW m \in Msgs, AckWaitExpires(m) PROVE Queues'
  BY <1>5, RequeueFacts, SameDelivered DEF Queues, AckWaitExpires
<1>6. CASE Fetch
  BY <1>6, HandFacts DEF Queues, Fetch, Hand
<1>7. CASE FetchLost
  BY <1>7, HandFacts DEF Queues, FetchLost, Hand
<1>8. CASE DecodeFails \/ InsertFails \/ SendAck
  <2>1. Handled /\ pc \in {"handle", "ack"} /\ UNCHANGED <<stream, lastSeq, rdq, pending>>
    BY <1>8 DEF DecodeFails, InsertFails, SendAck
  <2> QED BY <2>1, HandledFacts, SameDelivered DEF Queues
<1>9. CASE DeleteConsumer
  <2>1. batch = <<>>
    BY <1>9 DEF TypeOK, DeleteConsumer
  <2> QED BY <1>0, <1>9, <2>1 DEF Queues, DeleteConsumer
<1>10. CASE Exit
  BY <1>0, <1>10, SameDelivered DEF Queues, Exit
<1>11. CASE Subscribe \/ SubscribeFails \/ Insert \/ Sigterm \/ Return \/ Boot \/ UNCHANGED vars
  <2>1. UNCHANGED <<stream, lastSeq, rdq, pending, batch>>
    BY <1>11 DEF Subscribe, SubscribeFails, Insert, Sigterm, Return, Boot, vars
  <2> QED BY <2>1, SameDelivered DEF Queues
<1> QED BY <1>1, <1>2, <1>3, <1>4, <1>5, <1>6, <1>7, <1>8, <1>9, <1>10, <1>11 DEF Next

\* Acks.
LEMMA AckStep ==
    ASSUME TypeOK, Queues, AckedIsStored, AcksAreEarned, [Next]_vars
    PROVE  AckedIsStored' /\ AcksAreEarned'
<1> USE DEF serverVars, processVars
<1>0. \A m, x \in Msgs : Nak(m) # Ack(x) /\ (Ack(m) = Ack(x) => m = x)
  BY DEF Ack, Nak
<1>1. ASSUME NEW m \in Msgs, Publish(m) PROVE AckedIsStored' /\ AcksAreEarned'
  BY <1>1, PublishFacts DEF AckedIsStored, Acked, AcksAreEarned, Publish
<1>2. ASSUME NEW m \in Msgs, AckArrives(m) PROVE AckedIsStored' /\ AcksAreEarned'
  BY <1>2, SameDelivered DEF AckedIsStored, Acked, AcksAreEarned, AckArrives
<1>3. ASSUME NEW m \in Msgs, NakArrives(m) \/ AckWaitExpires(m)
      PROVE  AckedIsStored' /\ AcksAreEarned'
  BY <1>3, SameDelivered DEF AckedIsStored, Acked, AcksAreEarned, NakArrives, AckWaitExpires
<1>4. ASSUME NEW r \in Reply, ReplyLost(r) PROVE AckedIsStored' /\ AcksAreEarned'
  BY <1>4, SameDelivered DEF AckedIsStored, Acked, AcksAreEarned, ReplyLost
<1>5. CASE Fetch \/ FetchLost
  <2>1. Hand /\ UNCHANGED <<stream, replies, rows>> /\ pc' # "ack"
    BY <1>5 DEF Fetch, FetchLost
  <2>2. Acked' \subseteq Acked
    BY <2>1, HandFacts DEF Acked, Hand
  <2> QED BY <2>1, <2>2 DEF AckedIsStored, AcksAreEarned
<1>6. CASE DecodeFails
  <2>1. Head(batch) \in Msgs /\ pc' # "ack"
    BY <1>6, HandledFacts DEF DecodeFails
  <2> QED BY <1>0, <1>6, <2>1, SameDelivered DEF AckedIsStored, Acked, AcksAreEarned, DecodeFails
<1>7. CASE Insert
  <2>1. Head(batch) \in Msgs
    BY <1>7, HeadTailProperties DEF TypeOK, Insert
  <2>2. \A x \in Msgs : rows[x] > 0 => rows'[x] > 0
    BY <1>7, <2>1, InsertedFacts DEF Insert
  <2>3. rows'[Head(batch)] > 0
    BY <1>7, <2>1, InsertedFacts DEF Insert
  <2>4. Acked' = Acked /\ Acked \subseteq Msgs
    BY <1>7, SameDelivered, ElementOfSeq DEF Insert, Acked, Delivered, TypeOK
  <2> QED BY <1>7, <2>2, <2>3, <2>4 DEF AckedIsStored, AcksAreEarned, Insert
<1>8. CASE InsertFails
  <2>1. Head(batch) \in Msgs /\ pc' # "ack"
    BY <1>8, HandledFacts DEF InsertFails
  <2>2. \A x \in Msgs : rows[x] > 0 => rows'[x] > 0
    BY <1>8, <2>1, InsertedFacts DEF InsertFails
  <2>3. Acked' = Acked /\ Acked \subseteq Msgs
    BY <1>8, SameDelivered, ElementOfSeq DEF InsertFails, Acked, Delivered, TypeOK
  <2> QED BY <1>0, <1>8, <2>1, <2>2, <2>3 DEF AckedIsStored, AcksAreEarned, InsertFails
<1>9. CASE SendAck
  <2>1. Head(batch) \in Msgs /\ pc' # "ack"
    BY <1>9, HandledFacts DEF SendAck
  <2> QED BY <1>0, <1>9, <2>1, SameDelivered DEF AckedIsStored, Acked, AcksAreEarned, SendAck
<1>10. CASE DeleteConsumer
  <2>1. Delivered' = {}
    BY <1>10 DEF DeleteConsumer, Delivered
  <2> QED BY <1>10, <2>1 DEF AckedIsStored, Acked, AcksAreEarned, DeleteConsumer
<1>11. CASE Subscribe \/ SubscribeFails \/ Return \/ Exit \/ Boot
  <2>1. UNCHANGED <<stream, lastSeq, pending, replies, rows>> /\ pc' # "ack"
    BY <1>11 DEF Subscribe, SubscribeFails, Return, Exit, Boot
  <2> QED BY <2>1, SameDelivered DEF AckedIsStored, Acked, AcksAreEarned
<1>12. CASE Sigterm \/ UNCHANGED vars
  <2>1. UNCHANGED <<stream, lastSeq, pending, replies, rows, pc, batch>>
    BY <1>12 DEF Sigterm, vars
  <2> QED BY <2>1, SameDelivered DEF AckedIsStored, Acked, AcksAreEarned
<1> QED BY <1>1, <1>2, <1>3, <1>4, <1>5, <1>6, <1>7, <1>8, <1>9, <1>10, <1>11, <1>12 DEF Next

\* Undisturbed messages.
LEMMA QuietStep ==
    ASSUME IInv, [Next]_vars
    PROVE  \A m \in Msgs \ disturbed' : Quiet(m)'
<1> USE DEF serverVars, processVars
<1> SUFFICES ASSUME NEW x \in Msgs, x \notin disturbed'
             PROVE  Quiet(x)'
  OBVIOUS
<1>0. TypeOK /\ Queues /\ (x \notin disturbed => Quiet(x))
  BY DEF IInv
<1>a. \A m \in Msgs : Ack(m) # Nak(x) /\ (Nak(m) = Nak(x) => m = x)
  BY DEF Ack, Nak
<1>1. ASSUME NEW m \in Msgs, Publish(m) PROVE Quiet(x)'
  BY <1>0, <1>1, PublishFacts DEF Quiet, Returning, Publish
<1>2. ASSUME NEW m \in Msgs, AckArrives(m) PROVE Quiet(x)'
  <2>1. ToSet(rdq') \subseteq ToSet(rdq)
    BY <1>0, <1>2, WithoutFacts DEF TypeOK, AckArrives
  <2>2. Delivered' = Delivered
    BY <1>2, SameDelivered DEF AckArrives
  <2> QED BY <1>0, <1>2, <2>1, <2>2 DEF Quiet, Returning, AckArrives
<1>3. ASSUME NEW m \in Msgs, NakArrives(m) PROVE Quiet(x)'
  <2>1. ToSet(rdq') \subseteq ToSet(rdq) \cup {m}
    BY <1>0, <1>3, RequeueFacts DEF NakArrives
  <2>2. Delivered' = Delivered
    BY <1>3, SameDelivered DEF NakArrives
  <2> QED BY <1>0, <1>3, <2>1, <2>2 DEF Quiet, Returning, NakArrives
<1>4. ASSUME NEW r \in Reply, ReplyLost(r) PROVE Quiet(x)'
  BY <1>0, <1>4, SameDelivered DEF Quiet, Returning, ReplyLost
<1>5. ASSUME NEW m \in Msgs, AckWaitExpires(m) PROVE Quiet(x)'
  <2>1. ToSet(rdq') \subseteq ToSet(rdq) \cup {m} /\ x # m /\ x \notin disturbed
    BY <1>0, <1>5, RequeueFacts DEF AckWaitExpires
  <2>2. Delivered' = Delivered
    BY <1>5, SameDelivered DEF AckWaitExpires
  <2> QED BY <1>0, <1>5, <2>1, <2>2 DEF Quiet, Returning, AckWaitExpires
<1>6. CASE Fetch \/ FetchLost
  <2>1. Hand /\ UNCHANGED <<stream, replies, rows, disturbed>>
    BY <1>6 DEF Fetch, FetchLost
  <2>2. /\ Delivered' = Delivered \cup ToSet(Taken)
        /\ ToSet(rdq') \subseteq ToSet(rdq)
        /\ ToSet(rdq') \cap ToSet(Taken) = {}
        /\ \A m \in ToSet(Taken) : m \in ToSet(rdq) \/ m \notin Delivered
    BY <1>0, <2>1, HandFacts
  <2>3. ToSet(batch') \subseteq ToSet(Taken)
    BY <1>0, <1>6 DEF Fetch, FetchLost, TypeOK, ToSet
  <2>4. x \notin disturbed
    BY <2>1
  <2>5. x \in ToSet(Taken) => rows[x] = 0 /\ Nak(x) \notin replies
    BY <1>0, <2>2, <2>4 DEF Quiet, Returning, TypeOK
  <2> QED BY <1>0, <2>1, <2>2, <2>3, <2>4, <2>5 DEF Quiet, Returning, TypeOK
<1>7. CASE DecodeFails
  <2>1. /\ Head(batch) \in Msgs /\ Head(batch) \in ToSet(batch)
        /\ ToSet(batch') = ToSet(batch) \ {Head(batch)}
    BY <1>0, <1>7, HandledFacts DEF DecodeFails
  <2>2. Delivered' = Delivered /\ ToSet(batch) \subseteq Delivered
    BY <1>0, <1>7, SameDelivered DEF DecodeFails, Queues
  <2> QED BY <1>0, <1>a, <1>7, <2>1, <2>2 DEF Quiet, Returning, DecodeFails
<1>8. CASE Insert
  <2>1. Head(batch) \in Msgs /\ Head(batch) \in ToSet(batch)
    BY <1>0, <1>8, HeadTailProperties, Member, EmptySeq DEF TypeOK, Insert
  <2>2. Delivered' = Delivered /\ ToSet(batch) \subseteq Delivered
    BY <1>0, <1>8, SameDelivered DEF Insert, Queues
  <2>3. CASE x = Head(batch)
    <3>1. rows[x] = 0 /\ ~Returning(x)
      BY <1>0, <1>8, <2>1, <2>3 DEF Quiet, Insert, TypeOK
    <3>2. rows'[x] = 1
      BY <1>0, <1>8, <2>1, <2>3, <3>1, InsertedFacts DEF Insert
    <3> QED BY <1>8, <2>1, <2>2, <2>3, <3>1, <3>2 DEF Quiet, Returning, Insert
  <2>4. CASE x # Head(batch)
    <3>1. rows'[x] = rows[x]
      BY <1>0, <1>8, <2>1, <2>4, InsertedFacts DEF Insert
    <3> QED BY <1>0, <1>8, <2>2, <2>4, <3>1 DEF Quiet, Returning, Insert
  <2> QED BY <2>3, <2>4
<1>9. CASE InsertFails
  <2>1. /\ Head(batch) \in Msgs /\ Head(batch) \in ToSet(batch)
        /\ ToSet(batch') = ToSet(batch) \ {Head(batch)}
    BY <1>0, <1>9, HandledFacts DEF InsertFails
  <2>2. Delivered' = Delivered /\ ToSet(batch) \subseteq Delivered
    BY <1>0, <1>9, SameDelivered DEF InsertFails, Queues
  <2>3. x \notin disturbed /\ rows'[x] = rows[x]
    BY <1>0, <1>9, <2>1, InsertedFacts DEF InsertFails
  <2> QED BY <1>0, <1>a, <1>9, <2>1, <2>2, <2>3 DEF Quiet, Returning, InsertFails
<1>10. CASE SendAck
  <2>1. /\ Head(batch) \in Msgs /\ Head(batch) \in ToSet(batch)
        /\ ToSet(batch') = ToSet(batch) \ {Head(batch)}
    BY <1>0, <1>10, HandledFacts DEF SendAck
  <2>2. Delivered' = Delivered
    BY <1>10, SameDelivered DEF SendAck
  <2> QED BY <1>0, <1>a, <1>10, <2>1, <2>2 DEF Quiet, Returning, SendAck
<1>11. CASE DeleteConsumer
  <2>1. batch = <<>> /\ ToSet(<<>>) = {}
    BY <1>0, <1>11 DEF TypeOK, DeleteConsumer, ToSet
  <2>2. x \notin disturbed /\ x \notin Delivered
    BY <1>11 DEF DeleteConsumer
  <2> QED BY <1>0, <1>11, <2>1, <2>2 DEF Quiet, Returning, DeleteConsumer
<1>12. CASE Exit
  <2>1. ToSet(<<>>) = {}
    BY DEF ToSet
  <2>2. Delivered' = Delivered
    BY <1>12, SameDelivered DEF Exit
  <2> QED BY <1>0, <1>12, <2>1, <2>2 DEF Quiet, Returning, Exit
<1>13. CASE Subscribe \/ SubscribeFails \/ Return \/ Boot
  <2>1. UNCHANGED <<stream, lastSeq, rdq, replies, rows, disturbed, batch>> /\ pc # "ack"
    BY <1>13 DEF Subscribe, SubscribeFails, Return, Boot
  <2> QED BY <1>0, <2>1, SameDelivered DEF Quiet, Returning
<1>14. CASE Sigterm \/ UNCHANGED vars
  <2>1. UNCHANGED <<stream, lastSeq, rdq, replies, rows, disturbed, batch, pc>>
    BY <1>14 DEF Sigterm, vars
  <2> QED BY <1>0, <2>1, SameDelivered DEF Quiet, Returning
<1> QED BY <1>1, <1>2, <1>3, <1>4, <1>5, <1>6, <1>7, <1>8, <1>9, <1>10, <1>11, <1>12, <1>13,
           <1>14 DEF Next

-----------------------------------------------------------------------------
\* The inductive invariant holds in every reachable state.
THEOREM Invariance == Spec => []IInv
<1>1. Init => IInv
  BY IInvInit
<1>2. IInv /\ [Next]_vars => IInv'
  BY TypeStep, QueuesStep, AckStep, QuietStep DEF IInv
<1> QED BY <1>1, <1>2, PTL DEF Spec

\* Types, the server's bookkeeping included: the consumer never runs ahead of the
\* stream, and waits for acks of delivered messages only.
THEOREM TypeCorrect == Spec => []TypeOK
<1>1. IInv => TypeOK
  BY DEF IInv
<1> QED BY <1>1, Invariance, PTL

\* At least once: handle acks a message only after its insert, so that whatever is lost,
\* late or killed, a message the server is done with has a row.
THEOREM AtLeastOnce == Spec => []AckedIsStored
<1>1. IInv => AckedIsStored
  BY DEF IInv
<1> QED BY <1>1, Invariance, PTL

\* At most once, unless an AckWait expired, an insert failed after it was applied or the
\* durable consumer was deleted: no other order of events stores a message twice.
THEOREM OnceUnlessDisturbed == Spec => []OneRowUnlessDisturbed
<1>1. IInv => OneRowUnlessDisturbed
  BY DEF IInv, OneRowUnlessDisturbed, Quiet, TypeOK
<1> QED BY <1>1, Invariance, PTL

-----------------------------------------------------------------------------
(***************************************************************************)
(* Refinement. Most steps change none of what ResultLog sees; the others   *)
(* are one of its steps.                                                   *)
(***************************************************************************)

\* What ResultLog sees, as sets.
accepted == ToSet(stream)
owed     == ToSet(stream) \ Acked
stored   == {m \in Msgs : rows[m] > 0}

\* Delivered messages are messages of the stream.
LEMMA DeliveredInStream ==
    ASSUME TypeOK
    PROVE  Delivered \subseteq ToSet(stream) /\ ToSet(stream) \subseteq Msgs
<1>1. stream \in Seq(Msgs) /\ lastSeq \in 0 .. Len(stream) /\ Len(stream) \in Nat
  BY LenProperties DEF TypeOK
<1>2. Delivered \subseteq ToSet(stream)
  BY <1>1, Member DEF Delivered
<1> QED BY <1>1, <1>2, MemberType

\* Storing a message that is delivered is a Store, or nothing new.
LEMMA StoringRefines ==
    ASSUME IInv, NEW m \in Msgs, m \in Delivered, rows' = Inserted(m),
           UNCHANGED <<stream, lastSeq, pending>>
    PROVE  [Log!Next]_(Log!logVars)
<1>1. accepted' = accepted /\ owed' = owed
  BY SameDelivered DEF accepted, owed, Acked
<1>2. stored' = stored \cup {m}
  BY InsertedFacts DEF IInv, stored, TypeOK
<1>3. CASE rows[m] > 0
  <2>1. stored' = stored
    BY <1>2, <1>3 DEF stored
  <2> QED BY <1>1, <2>1 DEF accepted, owed, stored, Log!logVars
<1>4. CASE ~(rows[m] > 0)
  <2>1. m \in owed
    BY <1>4, DeliveredInStream DEF IInv, AckedIsStored, owed, Acked
  <2>2. Log!Store(m)
    BY <1>1, <1>2, <2>1 DEF accepted, owed, stored, Log!Store
  <2> QED BY <2>2 DEF Log!Next
<1> QED BY <1>3, <1>4

\* A step that leaves the stream, the consumer's position and the rows alone.
LEMMA UnseenRefines ==
    ASSUME UNCHANGED <<stream, lastSeq, pending, rows>>
    PROVE  [Log!Next]_(Log!logVars)
BY SameDelivered DEF Acked, Log!logVars

LEMMA StepRefines ==
    ASSUME IInv, [Next]_vars
    PROVE  [Log!Next]_(Log!logVars)
<1> USE DEF serverVars, processVars
<1>0. TypeOK /\ Queues /\ Delivered \subseteq ToSet(stream) /\ ToSet(stream) \subseteq Msgs
  BY DeliveredInStream DEF IInv
<1>1. ASSUME NEW m \in Msgs, Publish(m) PROVE [Log!Next]_(Log!logVars)
  <2>1. Delivered' = Delivered /\ ToSet(stream') = ToSet(stream) \cup {m} /\ m \notin ToSet(stream)
    BY <1>0, <1>1, PublishFacts, MemberAppend DEF Publish, TypeOK
  <2>2. Log!Accept(m)
    BY <1>0, <1>1, <2>1 DEF Publish, Acked, Log!Accept
  <2> QED BY <2>2 DEF Log!Next
<1>2. ASSUME NEW m \in Msgs, AckArrives(m) PROVE [Log!Next]_(Log!logVars)
  <2>1. Delivered' = Delivered /\ UNCHANGED <<stream, rows>> /\ pending' = pending \ {m} /\ rows[m] > 0
    BY <1>2, SameDelivered DEF AckArrives, IInv, AcksAreEarned
  <2>2. CASE m \in pending
    <3>1. m \in owed /\ Acked' = Acked \cup {m}
      BY <1>0, <2>1, <2>2 DEF owed, Acked, TypeOK
    <3>2. Log!Settle(m)
      BY <2>1, <3>1 DEF owed, Log!Settle
    <3> QED BY <3>2 DEF Log!Next
  <2>3. CASE m \notin pending
    BY <2>1, <2>3 DEF Acked, Log!logVars
  <2> QED BY <2>2, <2>3
<1>3. ASSUME NEW m \in Msgs, NakArrives(m) PROVE [Log!Next]_(Log!logVars)
  BY <1>3, UnseenRefines DEF NakArrives
<1>4. ASSUME NEW r \in Reply, ReplyLost(r) PROVE [Log!Next]_(Log!logVars)
  BY <1>4, UnseenRefines DEF ReplyLost
<1>5. ASSUME NEW m \in Msgs, AckWaitExpires(m) PROVE [Log!Next]_(Log!logVars)
  BY <1>5, UnseenRefines DEF AckWaitExpires
<1>6. CASE Subscribe \/ SubscribeFails \/ Sigterm \/ Return \/ Exit \/ Boot \/ DecodeFails \/ SendAck
  BY <1>6, UnseenRefines
     DEF Subscribe, SubscribeFails, Sigterm, Return, Exit, Boot, DecodeFails, SendAck
<1>7. CASE Fetch \/ FetchLost
  <2>1. Hand /\ UNCHANGED <<stream, rows>>
    BY <1>7 DEF Fetch, FetchLost
  <2>2. Delivered' = Delivered \cup ToSet(Taken) /\ \A m \in ToSet(Taken) : m \in ToSet(rdq) \/ m \notin Delivered
    BY <1>0, <2>1, HandFacts
  <2>3. Acked' = Acked
    BY <1>0, <2>1, <2>2 DEF Acked, Hand, Queues, TypeOK
  <2> QED BY <2>1, <2>3 DEF Log!logVars
<1>8. CASE Insert
  <2>1. Head(batch) \in Msgs /\ Head(batch) \in Delivered
    <3>1. batch \in Seq(Msgs) /\ batch # <<>>
      BY <1>0, <1>8 DEF Insert, TypeOK
    <3> QED BY <1>0, <3>1, Member, EmptySeq, HeadTailProperties DEF Queues
  <2> QED BY <1>8, <2>1, StoringRefines DEF Insert
<1>9. CASE InsertFails
  <2>1. Head(batch) \in Msgs /\ Head(batch) \in Delivered
    <3>1. batch \in Seq(Msgs) /\ batch # <<>>
      BY <1>0, <1>9 DEF InsertFails, TypeOK
    <3> QED BY <1>0, <3>1, Member, EmptySeq, HeadTailProperties DEF Queues
  <2> QED BY <1>9, <2>1, StoringRefines, UnseenRefines DEF InsertFails
<1>10. CASE DeleteConsumer
  <2>1. Delivered' = {} /\ UNCHANGED <<stream, rows>>
    BY <1>10 DEF DeleteConsumer, Delivered
  <2>2. Log!Restart
    BY <1>10, <2>1 DEF DeleteConsumer, Acked, Log!Restart
  <2> QED BY <2>2 DEF Log!Next
<1>11. CASE UNCHANGED vars
  BY <1>11, UnseenRefines DEF vars
<1> QED BY <1>1, <1>2, <1>3, <1>4, <1>5, <1>6, <1>7, <1>8, <1>9, <1>10, <1>11 DEF Next

\* The stream, the durable consumer and ClickHouse, with every redelivery, lost reply,
\* crash and deleted consumer between them, implement ResultLog: a result is owed from the
\* moment the stream has it until it has been stored.
THEOREM Refinement == Spec => ImplementsResultLog
<1>1. Init => Log!Init
  BY DEF Init, Log!Init, ToSet
<1>2. IInv /\ [Next]_vars => [Log!Next]_(Log!logVars)
  BY StepRefines
<1> QED BY <1>1, <1>2, Invariance, PTL DEF Spec, ImplementsResultLog, Log!Spec

-----------------------------------------------------------------------------
(***************************************************************************)
(* The runners.                                                            *)
(***************************************************************************)

\* The phases of each kind of test, by their places.
LEMMA PhaseFacts ==
    /\ Len(Phases["dns"]) = 1 /\ Phases["dns"][1] = "dns"
    /\ Len(Phases["tls"]) = 3
    /\ Phases["tls"][1] = "dns" /\ Phases["tls"][2] = "connect" /\ Phases["tls"][3] = "tls"
    /\ Len(Phases["http"]) = 4
    /\ Phases["http"][1] = "dns" /\ Phases["http"][2] = "connect"
    /\ Phases["http"][3] = "tls" /\ Phases["http"][4] = "answer"
BY DEF Phases

\* The phases a test of a kind goes through.
Way(kind) == {Phases[kind][i] : i \in 1 .. Len(Phases[kind])}

\* A probe begins with its first phase; after one that is not its last comes another.
LEMMA WayFacts ==
    /\ Phase = {"dns", "connect", "tls", "answer"}
    /\ \A kind \in Kinds :
         /\ Way(kind) \subseteq Phase
         /\ ToSet(Phases[kind]) = Way(kind)
         /\ Phases[kind][1] \in Way(kind)
         /\ \A p \in Way(kind) : p # Last(Phases[kind]) => After(kind, p) \in Way(kind)
<1>1. Phase = {"dns", "connect", "tls", "answer"}
  <2>1. Phase = {Phases["http"][i] : i \in DOMAIN Phases["http"]}
    BY DEF Phase, ToSet
  <2>2. DOMAIN Phases["http"] = 1 .. 4
    BY DEF Phases
  <2> QED BY <2>1, <2>2, PhaseFacts
<1>2. ASSUME NEW kind \in Kinds PROVE ToSet(Phases[kind]) = Way(kind)
  <2>1. DOMAIN Phases[kind] = 1 .. Len(Phases[kind])
    BY DEF Kinds, Phases
  <2> QED BY <2>1 DEF ToSet, Way
<1>3. ASSUME NEW kind \in Kinds PROVE Way(kind) \subseteq Phase /\ Phases[kind][1] \in Way(kind)
  BY <1>1, PhaseFacts DEF Kinds, Way
<1>4. ASSUME NEW kind \in Kinds, NEW p \in Way(kind), p # Last(Phases[kind])
      PROVE  After(kind, p) \in Way(kind)
  <2>1. PICK i \in 1 .. Len(Phases[kind]) : Phases[kind][i] = p
    BY DEF Way
  <2>2. Position(kind, p) \in 1 .. Len(Phases[kind]) /\ Phases[kind][Position(kind, p)] = p
    BY <2>1 DEF Position
  <2>3. Len(Phases[kind]) \in Nat /\ Last(Phases[kind]) = Phases[kind][Len(Phases[kind])]
    BY PhaseFacts DEF Kinds, Last
  <2>4. Position(kind, p) # Len(Phases[kind])
    BY <1>4, <2>2, <2>3
  <2>5. Position(kind, p) + 1 \in 1 .. Len(Phases[kind])
    BY <2>2, <2>3, <2>4
  <2> QED BY <2>5 DEF After, Way
<1> QED BY <1>1, <1>2, <1>3, <1>4

\* What RunnerContract says of one result.
Contract(kind, r) ==
    \/ r.err = "bad_config" /\ r.timed = {}
    \/ /\ r.err = "" <=> r.failed = "none"
       /\ r.failed # "none" /\ r.ctxErr = "deadline" => r.err = "timeout"
       /\ r.err = "timeout" => r.ctxErr = "deadline" \/ r.failed = "dns"
       /\ r.failed \in {"none", "status"} => r.timed = ToSet(Phases[kind])
       /\ r.failed \in Phase =>
            /\ UpTo(kind, r.failed) \ {"answer", r.failed} \subseteq r.timed
            /\ r.timed \subseteq UpTo(kind, r.failed) \ {"answer"}
            /\ r.timed # UpTo(kind, r.failed) \ {"answer"} => kind = "http" /\ r.ctxErr # "none"

\* Every result a runner makes keeps to it.
LEMMA ResultsKeepContract ==
    ASSUME NEW kind \in Kinds
    PROVE  /\ Contract(kind, BadConfig)
           /\ Contract(kind, Unsent)
           /\ \A status \in Statuses(kind) : Contract(kind, Completed(kind, status))
           /\ \A p \in Phase : \A c : \A f \in Failures(p, c) : \A timed \in Timings(kind, f) :
                Contract(kind, Failed(kind, f, timed))
<1>1. Contract(kind, BadConfig)
  BY DEF Contract, BadConfig, Result
<1>2. Contract(kind, Unsent)
  BY WayFacts DEF Contract, Unsent, Result
<1>3. ASSUME NEW status \in Statuses(kind) PROVE Contract(kind, Completed(kind, status))
  <2> DEFINE r == Completed(kind, status)
  <2>1. r.timed = ToSet(Phases[kind]) /\ r.ctxErr = "none"
    BY DEF Completed, Result
  <2>2. \/ r.err = "" /\ r.failed = "none"
        \/ r.err = "http_status" /\ r.failed = "status"
    BY DEF Completed, Result
  <2> HIDE DEF r
  <2>3. Contract(kind, r)
    BY <2>1, <2>2, WayFacts DEF Contract
  <2> QED BY <2>3 DEF r
<1>4. ASSUME NEW p \in Phase, NEW c, NEW f \in Failures(p, c), NEW timed \in Timings(kind, f)
      PROVE  Contract(kind, Failed(kind, f, timed))
  <2> DEFINE r == Failed(kind, f, timed)
  <2>1. f.phase = p /\ (f.timeout => p = "dns")
    BY DEF Failures
  <2>2. r.timed = timed /\ r.failed = p /\ r.ctxErr = f.ctxErr
    BY <2>1 DEF Failed, Result
  <2>3. \/ kind = "dns" /\ r.err = classifyDNSError(f)
        \/ kind = "http" /\ r.err = classifyHTTPError(f)
        \/ kind = "tls" /\ r.err = classifyTLSError(f)
    BY DEF Failed, Result, Kinds
  <2> HIDE DEF r
  <2>4. /\ r.err # ""
        /\ f.ctxErr = "deadline" => r.err = "timeout"
        /\ r.err = "timeout" => f.ctxErr = "deadline" \/ p = "dns"
    BY <2>1, <2>3 DEF classifyDNSError, classifyHTTPError, classifyTLSError, isTLSError
  <2>5. p \notin {"none", "status"}
    BY WayFacts
  <2>6. \/ timed = UpTo(kind, p) \ {"answer"}
        \/ timed = UpTo(kind, p) \ {"answer", p} /\ kind = "http" /\ f.ctxErr # "none"
    BY <2>1 DEF Timings
  <2>7. Contract(kind, r)
    BY <2>2, <2>4, <2>5, <2>6 DEF Contract
  <2> QED BY <2>7 DEF r
<1> QED BY <1>1, <1>2, <1>3, <1>4

-----------------------------------------------------------------------------
(***************************************************************************)
(* The agent's invariant. A probe is in a phase of its kind of test, which *)
(* is one with a runner because the configuration was validated; and what  *)
(* is about to be published was measured.                                  *)
(***************************************************************************)
KindOf(t) == TestOf(config, t).kind

AgentIInv ==
    /\ AgentTypeOK
    /\ agent # "down" => Validate(config)
    /\ \A t \in TestIDs : g[t] \in Phase => g[t] \in Way(KindOf(t))
    /\ \A t \in TestIDs : sample[t] # NoSample => sample[t] \in taken
    /\ result = [t \in TestIDs |-> result[t]]
    /\ RunnerContract

\* Every scheduled test of a validated configuration has a runner.
LEMMA ScheduledKind ==
    ASSUME Validate(config), NEW t \in Scheduled(config)
    PROVE  KindOf(t) \in Kinds
<1>1. CASE t \in DOMAIN config.tests
  BY <1>1 DEF KindOf, TestOf, ToCanaryTest, Validate
<1>2. CASE t \notin DOMAIN config.tests
  <2>1. t \in DOMAIN GenerateMeshTests(config.mesh)
    BY <1>2 DEF Scheduled
  <2>2. GenerateMeshTests(config.mesh)[t].kind = "http"
    BY <2>1 DEF GenerateMeshTests
  <2> QED BY <1>2, <2>2 DEF KindOf, TestOf, Kinds
<1> QED BY <1>1, <1>2

\* A goroutine that runs belongs to such a test.
LEMMA RunningKind ==
    ASSUME AgentIInv, NEW t \in TestIDs, g[t] # "none"
    PROVE  KindOf(t) \in Kinds
BY ScheduledKind DEF AgentIInv, AgentTypeOK

\* RunnerContract, one result at a time.
LEMMA ContractEach ==
    RunnerContract <=> \A t \in TestIDs : g[t] = "publish" => Contract(KindOf(t), result[t])
BY DEF RunnerContract, Contract, KindOf

\* ... and in the next state.
LEMMA ContractEachNext ==
    RunnerContract' <=> \A t \in TestIDs : g'[t] = "publish" => Contract(KindOf(t)', result'[t])
BY DEF RunnerContract, Contract, KindOf

LEMMA AgentInvInit ==
    ASSUME AgentInit PROVE AgentIInv
<1>1. \A t \in TestIDs : g[t] = "none"
  BY DEF AgentInit
<1>2. "none" \notin Phase
  BY WayFacts
<1>3. AgentTypeOK
  BY <1>1, <1>2 DEF AgentInit, AgentTypeOK
<1>4. RunnerContract
  BY <1>1, ContractEach
<1>5. result = [t \in TestIDs |-> result[t]]
  BY DEF AgentInit
<1> QED BY <1>1, <1>2, <1>3, <1>4, <1>5 DEF AgentIInv, AgentInit

\* The process is gone, and at most what was in hand counts as killed.
LEMMA GoneStep ==
    ASSUME AgentIInv, AgentGone, killed' = killed \/ killed' = killed \cup InHand
    PROVE  AgentIInv'
<1>1. /\ g' = [t \in TestIDs |-> "none"] /\ agent' = "down" /\ popCtx' = FALSE
      /\ expired' = [t \in TestIDs |-> FALSE]
      /\ sample' = [t \in TestIDs |-> NoSample]
      /\ result' = [t \in TestIDs |-> NoResult]
      /\ config' = config /\ taken' = taken /\ dropped' = dropped
  BY DEF AgentGone
<1>2. "none" \notin Phase
  BY WayFacts
<1>3. InHand \subseteq taken
  BY DEF AgentIInv, InHand
<1>4. AgentTypeOK'
  BY <1>1, <1>2, <1>3 DEF AgentIInv, AgentTypeOK
<1>5. RunnerContract'
  BY <1>1, ContractEachNext
<1>6. result' = [t \in TestIDs |-> result'[t]]
  BY <1>1
<1> QED BY <1>1, <1>2, <1>4, <1>5, <1>6 DEF AgentIInv

\* A goroutine moves on without a result.
LEMMA MoveStep ==
    ASSUME AgentIInv, NEW t \in TestIDs, NEW place,
           g[t] \notin {"none", "publish"},
           place \in Way(KindOf(t)) \/ place \in {"jitter", "begin", "select", "done"},
           ~expired[t] \/ place \in Phase,
           g' = [g EXCEPT ![t] = place],
           UNCHANGED <<config, agent, popCtx, expired, sample, result, taken, dropped, killed>>
    PROVE  AgentIInv'
<1>1. KindOf(t) \in Kinds
  BY RunningKind
<1>2. Way(KindOf(t)) \subseteq Phase /\ Phase = {"dns", "connect", "tls", "answer"}
  BY <1>1, WayFacts
<1>3. \A u \in TestIDs : KindOf(u)' = KindOf(u)
  BY DEF KindOf
<1>4. g \in [TestIDs -> Phase \cup {"none", "jitter", "begin", "publish", "select", "done"}]
  BY DEF AgentIInv, AgentTypeOK
<1>5. \A u \in TestIDs : g'[u] = IF u = t THEN place ELSE g[u]
  BY <1>4
<1>6. AgentTypeOK'
  BY <1>2, <1>4, <1>5 DEF AgentIInv, AgentTypeOK
<1>7. RunnerContract'
  BY <1>2, <1>3, <1>5, ContractEach, ContractEachNext DEF AgentIInv
<1>8. \A u \in TestIDs : g'[u] \in Phase => g'[u] \in Way(KindOf(u)')
  BY <1>2, <1>3, <1>5 DEF AgentIInv
<1> QED BY <1>6, <1>7, <1>8 DEF AgentIInv

\* A runner returns.
LEMMA ReturnsStep ==
    ASSUME AgentIInv, NEW t \in TestIDs, NEW r,
           g[t] \notin {"none", "publish"}, Contract(KindOf(t), r), Returns(t, r),
           UNCHANGED <<config, agent, popCtx, dropped, killed>>
    PROVE  AgentIInv'
<1>1. Phase = {"dns", "connect", "tls", "answer"}
  BY WayFacts
<1>2. \A u \in TestIDs : KindOf(u)' = KindOf(u)
  BY DEF KindOf
<1>3. /\ g \in [TestIDs -> Phase \cup {"none", "jitter", "begin", "publish", "select", "done"}]
      /\ expired \in [TestIDs -> BOOLEAN]
      /\ sample \in [TestIDs -> Samples \cup {NoSample}]
      /\ result = [u \in TestIDs |-> result[u]]
      /\ sample[t] = NoSample
  BY DEF AgentIInv, AgentTypeOK
<1>4. expired' = [expired EXCEPT ![t] = FALSE]
  BY DEF Returns
<1>5. CASE \E m \in Samples \ taken :
             /\ sample' = [sample EXCEPT ![t] = m]
             /\ taken' = taken \cup {m}
             /\ result' = [result EXCEPT ![t] = r]
             /\ g' = [g EXCEPT ![t] = "publish"]
  <2>1. PICK m \in Samples \ taken :
             /\ sample' = [sample EXCEPT ![t] = m]
             /\ taken' = taken \cup {m}
             /\ result' = [result EXCEPT ![t] = r]
             /\ g' = [g EXCEPT ![t] = "publish"]
    BY <1>5
  <2>2. m # NoSample
    BY POPAgentAssumption
  <2>3. \A u \in TestIDs : /\ g'[u] = IF u = t THEN "publish" ELSE g[u]
                           /\ sample'[u] = IF u = t THEN m ELSE sample[u]
                           /\ result'[u] = IF u = t THEN r ELSE result[u]
                           /\ expired'[u] = IF u = t THEN FALSE ELSE expired[u]
    BY <1>3, <1>4, <2>1
  <2>4. AgentTypeOK'
    BY <1>1, <1>3, <1>4, <2>1, <2>2, <2>3 DEF AgentIInv, AgentTypeOK
  <2>5. RunnerContract'
    BY <1>2, <2>3, ContractEach, ContractEachNext DEF AgentIInv
  <2>6. \A u \in TestIDs : g'[u] \in Phase => g'[u] \in Way(KindOf(u)')
    BY <1>1, <1>2, <2>3 DEF AgentIInv
  <2>7. result' = [u \in TestIDs |-> result'[u]]
    BY <1>3, <2>1
  <2>8. \A u \in TestIDs : sample'[u] # NoSample => sample'[u] \in taken'
    BY <2>1, <2>3 DEF AgentIInv
  <2> QED BY <2>4, <2>5, <2>6, <2>7, <2>8 DEF AgentIInv
<1>6. CASE g' = [g EXCEPT ![t] = "select"] /\ UNCHANGED <<sample, result, taken>>
  <2>1. \A u \in TestIDs : /\ g'[u] = IF u = t THEN "select" ELSE g[u]
                           /\ expired'[u] = IF u = t THEN FALSE ELSE expired[u]
    BY <1>3, <1>4, <1>6
  <2>2. AgentTypeOK'
    BY <1>1, <1>3, <1>4, <1>6, <2>1 DEF AgentIInv, AgentTypeOK
  <2>3. RunnerContract'
    BY <1>2, <1>6, <2>1, ContractEach, ContractEachNext DEF AgentIInv
  <2>4. \A u \in TestIDs : g'[u] \in Phase => g'[u] \in Way(KindOf(u)')
    BY <1>1, <1>2, <2>1 DEF AgentIInv
  <2> QED BY <1>6, <2>2, <2>3, <2>4 DEF AgentIInv
<1> QED BY <1>5, <1>6 DEF Returns

\* A publish, whichever way it ends.
LEMMA PublishedStep ==
    ASSUME AgentIInv, NEW t \in TestIDs, Published(t),
           dropped' = dropped \/ dropped' = dropped \cup {sample[t]}
    PROVE  AgentIInv'
<1>1. Phase = {"dns", "connect", "tls", "answer"}
  BY WayFacts
<1>2. \A u \in TestIDs : KindOf(u)' = KindOf(u)
  BY DEF KindOf, Published
<1>3. /\ g \in [TestIDs -> Phase \cup {"none", "jitter", "begin", "publish", "select", "done"}]
      /\ sample \in [TestIDs -> Samples \cup {NoSample}]
      /\ result = [u \in TestIDs |-> result[u]]
  BY DEF AgentIInv, AgentTypeOK
<1>4. g[t] = "publish" /\ sample[t] \in taken
  BY DEF AgentIInv, AgentTypeOK, Published
<1>5. \A u \in TestIDs : /\ g'[u] = IF u = t THEN "select" ELSE g[u]
                         /\ sample'[u] = IF u = t THEN NoSample ELSE sample[u]
                         /\ result'[u] = IF u = t THEN NoResult ELSE result[u]
  BY <1>3 DEF Published
<1>6. AgentTypeOK'
  BY <1>1, <1>3, <1>4, <1>5 DEF AgentIInv, AgentTypeOK, Published
<1>7. RunnerContract'
  BY <1>2, <1>5, ContractEach, ContractEachNext DEF AgentIInv
<1>8. \A u \in TestIDs : g'[u] \in Phase => g'[u] \in Way(KindOf(u)')
  BY <1>1, <1>2, <1>5 DEF AgentIInv
<1>9. result' = [u \in TestIDs |-> result'[u]]
  BY <1>3 DEF Published
<1> QED BY <1>5, <1>6, <1>7, <1>8, <1>9 DEF AgentIInv, Published

\* The agent's own steps.
LEMMA AgentStep ==
    ASSUME AgentIInv, AgentNext PROVE AgentIInv'
<1>0. Phase = {"dns", "connect", "tls", "answer"}
  BY WayFacts
<1>1. CASE StartAgent
  <2>1. AgentTypeOK' /\ (agent' # "down" => Validate(config)')
    BY <1>1 DEF AgentIInv, AgentTypeOK, StartAgent, Validate
  <2>2. RunnerContract'
    BY <1>1 DEF AgentIInv, RunnerContract, StartAgent
  <2> QED BY <1>1, <2>1, <2>2 DEF AgentIInv, StartAgent, KindOf
<1>2. CASE ConnectAgent
  <2>1. \A t \in TestIDs : g'[t] \in {"jitter", "none"}
                          /\ (g'[t] # "none" <=> t \in Scheduled(config))
    BY <1>2 DEF ConnectAgent
  <2>2. \A t \in TestIDs : g[t] = "none"
    BY <1>2 DEF ConnectAgent, AgentIInv, AgentTypeOK
  <2>3. AgentTypeOK'
    BY <1>0, <1>2, <2>1, <2>2 DEF AgentIInv, AgentTypeOK, ConnectAgent
  <2>4. RunnerContract'
    BY <2>1, ContractEachNext
  <2>5. agent' # "down" => Validate(config)'
    BY <1>2 DEF AgentIInv, ConnectAgent
  <2> QED BY <1>0, <1>2, <2>1, <2>3, <2>4, <2>5 DEF AgentIInv, ConnectAgent
<1>3. CASE ConnectAgentFails
  BY <1>3, GoneStep DEF ConnectAgentFails
<1>4. CASE AgentSigterm
  <2>1. AgentTypeOK'
    BY <1>4 DEF AgentIInv, AgentTypeOK, AgentSigterm
  <2>2. RunnerContract'
    BY <1>4 DEF AgentIInv, RunnerContract, AgentSigterm
  <2> QED BY <1>4, <2>1, <2>2 DEF AgentIInv, AgentSigterm, KindOf
<1>5. CASE AgentReturns
  BY <1>5, GoneStep DEF AgentReturns
<1>6. CASE AgentKilled
  BY <1>6, GoneStep DEF AgentKilled
<1>7. ASSUME NEW t \in TestIDs, Jittered(t) \/ Ticked(t) PROVE AgentIInv'
  <2>1. g[t] \in {"jitter", "select"} /\ g' = [g EXCEPT ![t] = "begin"]
        /\ UNCHANGED <<config, agent, popCtx, expired, sample, result, taken, dropped, killed>>
    BY <1>7 DEF Jittered, Ticked, At
  <2>2. ~expired[t]
    BY <1>0, <2>1 DEF AgentIInv, AgentTypeOK
  <2> QED BY <2>1, <2>2, MoveStep
<1>8. ASSUME NEW t \in TestIDs, TickerPanics(t) PROVE AgentIInv'
  BY <1>8, GoneStep DEF TickerPanics
<1>9. ASSUME NEW t \in TestIDs, Canceled(t) PROVE AgentIInv'
  <2>1. ~expired[t]
    BY <1>0, <1>9 DEF AgentIInv, AgentTypeOK, Canceled
  <2> QED BY <1>9, <2>1, MoveStep DEF Canceled
<1>10. ASSUME NEW t \in TestIDs, BeginProbe(t) PROVE AgentIInv'
  <2>1. g[t] = "begin" /\ UNCHANGED <<config, agent, popCtx, dropped, killed>>
    BY <1>10 DEF BeginProbe, At
  <2>2. KindOf(t) \in Kinds
    BY <2>1, RunningKind
  <2>3. \/ Returns(t, BadConfig) \/ Returns(t, Unsent)
        \/ g' = [g EXCEPT ![t] = Phases[KindOf(t)][1]] /\ UNCHANGED <<expired, sample, result, taken>>
    BY <1>10 DEF BeginProbe, KindOf
  <2>4. CASE Returns(t, BadConfig)
    BY <2>1, <2>2, <2>4, ReturnsStep, ResultsKeepContract
  <2>5. CASE Returns(t, Unsent)
    BY <2>1, <2>2, <2>5, ReturnsStep, ResultsKeepContract
  <2>6. CASE g' = [g EXCEPT ![t] = Phases[KindOf(t)][1]] /\ UNCHANGED <<expired, sample, result, taken>>
    <3>1. Phases[KindOf(t)][1] \in Way(KindOf(t)) /\ Phases[KindOf(t)][1] \in Phase
      BY <2>2, WayFacts
    <3> QED BY <2>1, <2>6, <3>1, MoveStep
  <2> QED BY <2>3, <2>4, <2>5, <2>6
<1>11. ASSUME NEW t \in TestIDs, DeadlinePasses(t) PROVE AgentIInv'
  <2>1. AgentTypeOK'
    BY <1>11 DEF AgentIInv, AgentTypeOK, DeadlinePasses
  <2>2. RunnerContract'
    BY <1>11 DEF AgentIInv, RunnerContract, DeadlinePasses
  <2> QED BY <1>11, <2>1, <2>2 DEF AgentIInv, DeadlinePasses, KindOf
<1>12. ASSUME NEW t \in TestIDs, PhaseSucceeds(t) PROVE AgentIInv'
  <2>1. g[t] \in Phase /\ UNCHANGED <<config, agent, popCtx, dropped, killed>>
    BY <1>12 DEF PhaseSucceeds, At
  <2>2. KindOf(t) \in Kinds /\ g[t] \in Way(KindOf(t)) /\ g[t] \notin {"none", "publish"}
    BY <1>0, <2>1, RunningKind DEF AgentIInv
  <2>3. CASE g[t] = Last(Phases[KindOf(t)])
    <3>1. PICK status \in Statuses(KindOf(t)) : Returns(t, Completed(KindOf(t), status))
      BY <1>12, <2>3 DEF PhaseSucceeds, KindOf
    <3>2. Contract(KindOf(t), Completed(KindOf(t), status))
      BY <2>2, ResultsKeepContract
    <3> QED BY <2>1, <2>2, <3>1, <3>2, ReturnsStep
  <2>4. CASE g[t] # Last(Phases[KindOf(t)])
    <3>1. g' = [g EXCEPT ![t] = After(KindOf(t), g[t])] /\ UNCHANGED <<expired, sample, result, taken>>
      BY <1>12, <2>4 DEF PhaseSucceeds, KindOf
    <3>2. After(KindOf(t), g[t]) \in Way(KindOf(t)) /\ After(KindOf(t), g[t]) \in Phase
      BY <2>2, <2>4, WayFacts
    <3> QED BY <2>1, <2>2, <3>1, <3>2, MoveStep
  <2> QED BY <2>3, <2>4
<1>13. ASSUME NEW t \in TestIDs, PhaseFails(t) PROVE AgentIInv'
  <2>1. g[t] \in Phase /\ UNCHANGED <<config, agent, popCtx, dropped, killed>>
    BY <1>13 DEF PhaseFails, At
  <2>2. KindOf(t) \in Kinds /\ g[t] \notin {"none", "publish"}
    BY <1>0, <2>1, RunningKind
  <2>3. PICK f \in Failures(g[t], ctxErr(t)) :
          \E timed \in Timings(KindOf(t), f) : Returns(t, Failed(KindOf(t), f, timed))
    BY <1>13 DEF PhaseFails, KindOf
  <2>4. PICK timed \in Timings(KindOf(t), f) : Returns(t, Failed(KindOf(t), f, timed))
    BY <2>3
  <2>5. Contract(KindOf(t), Failed(KindOf(t), f, timed))
    BY <2>1, <2>2, ResultsKeepContract
  <2> QED BY <2>1, <2>2, <2>4, <2>5, ReturnsStep
<1> QED BY <1>1, <1>2, <1>3, <1>4, <1>5, <1>6, <1>7, <1>8, <1>9, <1>10, <1>11, <1>12, <1>13
        DEF AgentNext

-----------------------------------------------------------------------------
(***************************************************************************)
(* The composition.                                                        *)
(***************************************************************************)

\* Nothing happens to the agent.
LEMMA AgentStutters ==
    ASSUME AgentIInv, UNCHANGED agentVars PROVE AgentIInv'
BY DEF AgentIInv, AgentTypeOK, RunnerContract, KindOf, agentVars

\* The steps of the whole keep the agent's invariant.
LEMMA AgentInvStep ==
    ASSUME AgentIInv, PipelineNext \/ UNCHANGED pipelineVars PROVE AgentIInv'
<1>1. CASE UNCHANGED agentVars
  BY <1>1, AgentStutters
<1>2. ASSUME NEW t \in TestIDs, PublishResult(t) \/ PublishFails(t) PROVE AgentIInv'
  BY <1>2, PublishedStep DEF PublishResult, PublishFails
<1>3. CASE AgentNext
  BY <1>3, AgentStep
<1> QED BY <1>1, <1>2, <1>3 DEF PipelineNext, OtherPublishes, pipelineVars

\* They are steps of ingest or leave it alone.
LEMMA PipelineStepIsIngestStep ==
    ASSUME AgentIInv, PipelineNext \/ UNCHANGED pipelineVars
    PROVE  Next \/ UNCHANGED vars
<1>1. CASE UNCHANGED ingestVars
  BY <1>1 DEF ingestVars, vars
<1>2. CASE Consumes
  BY <1>2 DEF Consumes, Next
<1>3. ASSUME NEW t \in TestIDs, Published(t), Publish(sample[t]) PROVE Next
  <2>1. sample[t] \in Samples
    BY <1>3 DEF AgentIInv, AgentTypeOK, Published
  <2>2. sample[t] \in Msgs
    BY <2>1, PipelineAssumption
  <2> QED BY <1>3, <2>2 DEF Next
<1>4. ASSUME NEW m \in Msgs, OtherPublishes(m) PROVE Next
  BY <1>4 DEF OtherPublishes, Next
<1> QED BY <1>1, <1>2, <1>3, <1>4 DEF PipelineNext, PublishResult, PublishFails, pipelineVars

\* What the stream has accepted it keeps, and a publish adds its message.
LEMMA StreamGrows ==
    ASSUME TypeOK, AgentIInv, PipelineNext \/ UNCHANGED pipelineVars
    PROVE  ToSet(stream) \subseteq ToSet(stream')
<1>1. CASE stream' = stream
  BY <1>1
<1>2. ASSUME NEW m \in Msgs, Publish(m) PROVE ToSet(stream) \subseteq ToSet(stream')
  BY <1>2, MemberAppend DEF Publish, TypeOK
<1>3. Next \/ UNCHANGED vars
  BY PipelineStepIsIngestStep
<1>4. stream' = stream \/ \E m \in Msgs : Publish(m)
  BY <1>3 DEF Next, vars, AckArrives, NakArrives, ReplyLost, AckWaitExpires, Subscribe, SubscribeFails,
     Fetch, FetchLost, DecodeFails, Insert, InsertFails, SendAck, Sigterm, Return, DeleteConsumer,
     Exit, Boot
<1> QED BY <1>1, <1>2, <1>4

\* Where no goroutine is about to publish, nothing is in hand.
LEMMA NothingInHand ==
    ASSUME AgentIInv, \A t \in TestIDs : g[t] # "publish"
    PROVE  InHand = {}
BY DEF AgentIInv, AgentTypeOK, InHand

\* A step of the agent loses nothing unaccounted for.
LEMMA AgentAccounts ==
    ASSUME AgentIInv, AgentNext
    PROVE  /\ taken' \subseteq taken \cup InHand'
           /\ InHand \subseteq InHand' \cup killed'
           /\ killed \subseteq killed' /\ dropped' = dropped
<1>1. CASE AgentGone /\ killed' = killed \cup InHand
  BY <1>1 DEF AgentGone
<1>2. CASE AgentGone /\ killed' = killed /\ \A t \in TestIDs : g[t] # "publish"
  BY <1>2, NothingInHand DEF AgentGone
<1>3. CASE UNCHANGED <<sample, taken, dropped, killed>>
  BY <1>3 DEF InHand
<1>4. ASSUME NEW t \in TestIDs, NEW r, Returns(t, r), g[t] # "publish", UNCHANGED <<dropped, killed>>
      PROVE  taken' \subseteq taken \cup InHand' /\ InHand \subseteq InHand'
  <2>1. CASE UNCHANGED <<sample, taken>>
    BY <2>1 DEF InHand
  <2>2. ASSUME NEW m \in Samples \ taken,
               sample' = [sample EXCEPT ![t] = m], taken' = taken \cup {m}
        PROVE  taken' \subseteq taken \cup InHand' /\ InHand \subseteq InHand'
    <3>1. sample[t] = NoSample /\ m # NoSample /\ sample \in [TestIDs -> Samples \cup {NoSample}]
      BY <1>4, POPAgentAssumption DEF AgentIInv, AgentTypeOK
    <3>2. \A u \in TestIDs : sample'[u] = IF u = t THEN m ELSE sample[u]
      BY <2>2, <3>1
    <3>3. m \in InHand'
      BY <3>1, <3>2 DEF InHand
    <3>4. ASSUME NEW x \in InHand PROVE x \in InHand'
      <4>1. PICK u \in TestIDs : sample[u] = x /\ x # NoSample
        BY DEF InHand
      <4> QED BY <4>1, <3>1, <3>2 DEF InHand
    <3> QED BY <2>2, <3>3, <3>4
  <2> QED BY <1>4, <2>1, <2>2 DEF Returns
<1>5. CASE ConnectAgentFails
  <2>1. \A t \in TestIDs : g[t] # "publish"
    BY <1>5 DEF ConnectAgentFails, AgentIInv, AgentTypeOK
  <2> QED BY <1>2, <1>5, <2>1 DEF ConnectAgentFails
<1>6. CASE AgentReturns
  BY <1>2, <1>6 DEF AgentReturns
<1>7. ASSUME NEW t \in TestIDs, BeginProbe(t) \/ PhaseSucceeds(t) \/ PhaseFails(t)
      PROVE  \/ UNCHANGED <<sample, taken, dropped, killed>>
             \/ \E r : Returns(t, r) /\ g[t] # "publish" /\ UNCHANGED <<dropped, killed>>
  <2>1. g[t] # "publish" /\ UNCHANGED <<dropped, killed>>
    BY <1>7, WayFacts DEF BeginProbe, PhaseSucceeds, PhaseFails, At
  <2>2. UNCHANGED <<sample, taken>> \/ \E r : Returns(t, r)
    <3>1. CASE BeginProbe(t)
      BY <3>1 DEF BeginProbe
    <3>2. CASE PhaseSucceeds(t)
      BY <3>2 DEF PhaseSucceeds
    <3>3. CASE PhaseFails(t)
      BY <3>3 DEF PhaseFails
    <3> QED BY <1>7, <3>1, <3>2, <3>3
  <2> QED BY <2>1, <2>2
<1>8. ASSUME NEW t \in TestIDs, Jittered(t) \/ Ticked(t) \/ Canceled(t) \/ DeadlinePasses(t)
      PROVE  UNCHANGED <<sample, taken, dropped, killed>>
  BY <1>8 DEF Jittered, Ticked, Canceled, DeadlinePasses, At
<1>9. CASE StartAgent \/ ConnectAgent \/ AgentSigterm
  BY <1>3, <1>9 DEF StartAgent, ConnectAgent, AgentSigterm
<1>10. CASE AgentKilled \/ \E t \in TestIDs : TickerPanics(t)
  BY <1>1, <1>10 DEF AgentKilled, TickerPanics
<1>11. ASSUME NEW t \in TestIDs, BeginProbe(t) \/ PhaseSucceeds(t) \/ PhaseFails(t)
       PROVE  taken' \subseteq taken \cup InHand' /\ InHand \subseteq InHand' \cup killed'
              /\ killed \subseteq killed' /\ dropped' = dropped
  BY <1>3, <1>4, <1>7, <1>11
<1> QED BY <1>3, <1>5, <1>6, <1>8, <1>9, <1>10, <1>11 DEF AgentNext

\* NoSampleUnaccounted is kept.
LEMMA AccountStep ==
    ASSUME TypeOK, AgentIInv, NoSampleUnaccounted, PipelineNext \/ UNCHANGED pipelineVars
    PROVE  NoSampleUnaccounted'
<1>1. ToSet(stream) \subseteq ToSet(stream')
  BY StreamGrows
<1>2. CASE UNCHANGED agentVars
  BY <1>1, <1>2 DEF NoSampleUnaccounted, InHand, agentVars
<1>3. CASE AgentNext
  BY <1>1, <1>3, AgentAccounts DEF NoSampleUnaccounted
<1>4. ASSUME NEW t \in TestIDs, PublishResult(t) \/ PublishFails(t) PROVE NoSampleUnaccounted'
  <2>1. /\ taken' = taken /\ killed' = killed /\ dropped \subseteq dropped'
        /\ sample' = [sample EXCEPT ![t] = NoSample] /\ g[t] = "publish"
    BY <1>4 DEF PublishResult, PublishFails, Published
  <2>2. sample \in [TestIDs -> Samples \cup {NoSample}] /\ sample[t] \in Samples
    BY <2>1 DEF AgentIInv, AgentTypeOK
  <2>3. sample[t] \in ToSet(stream') \/ sample[t] \in dropped'
    <3>1. CASE PublishFails(t)
      BY <3>1 DEF PublishFails
    <3>2. CASE PublishResult(t)
      <4>1. sample[t] \in Msgs
        BY <2>2, PipelineAssumption
      <4> QED BY <3>2, <4>1, MemberAppend DEF PublishResult, Publish, TypeOK
    <3> QED BY <1>4, <3>1, <3>2
  <2>4. \A u \in TestIDs \ {t} : sample'[u] = sample[u]
    BY <2>1, <2>2
  <2>5. InHand \subseteq InHand' \cup {sample[t]}
    BY <2>4 DEF InHand
  <2> QED BY <1>1, <2>1, <2>3, <2>5 DEF NoSampleUnaccounted
<1> QED BY <1>2, <1>3, <1>4 DEF PipelineNext, OtherPublishes, pipelineVars

-----------------------------------------------------------------------------
\* The agent's invariant holds in every reachable state of the whole.
THEOREM AgentInvariance == PipelineSpec => []AgentIInv
<1>1. PipelineInit => AgentIInv
  BY AgentInvInit DEF PipelineInit
<1>2. AgentIInv /\ [PipelineNext]_pipelineVars => AgentIInv'
  BY AgentInvStep
<1> QED BY <1>1, <1>2, PTL DEF PipelineSpec

\* Ingest within the whole behaves as it does by itself: whatever the agent does, the
\* whole implements the specification of ingest.
THEOREM PipelineIsIngest == PipelineSpec => Spec
<1>1. PipelineInit => Init
  BY DEF PipelineInit
<1>2. AgentIInv /\ [PipelineNext]_pipelineVars => [Next]_vars
  BY PipelineStepIsIngestStep
<1> QED BY <1>1, <1>2, AgentInvariance, PTL DEF PipelineSpec, Spec

\* So what a POP measured, published and had acknowledged has a row (handle acks after
\* its insert), in the whole as in ingest alone.
THEOREM PipelineStores == PipelineSpec => []AckedIsStored
BY PipelineIsIngest, AtLeastOnce, PTL

\* Nor does the agent store anything twice: a second row of what a POP measured is due to
\* ingest, to an expired AckWait, a failed insert that was applied or a deleted consumer.
THEOREM PipelineStoresOnce == PipelineSpec => []OneRowUnlessDisturbed
BY PipelineIsIngest, OnceUnlessDisturbed, PTL

\* From the probe to the row, the agent, the server and the consumer implement the log of
\* results.
THEOREM PipelineRefinesLog == PipelineSpec => ImplementsResultLog
BY PipelineIsIngest, Refinement, PTL

\* Types: a goroutine per scheduled test and for no other, a sample in hand exactly while
\* one is to be published.
THEOREM AgentTypeCorrect == PipelineSpec => []AgentTypeOK
<1>1. AgentIInv => AgentTypeOK
  BY DEF AgentIInv
<1> QED BY <1>1, AgentInvariance, PTL

\* The contract of Runner holds of every result about to be published, for any tests and
\* configurations.
THEOREM RunnersKeepContract == PipelineSpec => []RunnerContract
<1>1. AgentIInv => RunnerContract
  BY DEF AgentIInv
<1> QED BY <1>1, AgentInvariance, PTL

\* Run waits for its goroutines, so that no result is lost without a failed publish or a
\* killed process.
THEOREM NothingUnaccounted == PipelineSpec => []NoSampleUnaccounted
<1>1. PipelineInit => NoSampleUnaccounted
  BY DEF PipelineInit, AgentInit, NoSampleUnaccounted
<1>2. TypeOK /\ AgentIInv /\ NoSampleUnaccounted /\ [PipelineNext]_pipelineVars => NoSampleUnaccounted'
  BY AccountStep
<1>3. PipelineSpec => []TypeOK
  BY PipelineIsIngest, TypeCorrect, PTL
<1> QED BY <1>1, <1>2, <1>3, AgentInvariance, PTL DEF PipelineSpec
=============================================================================
