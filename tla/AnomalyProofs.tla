--------------------------- MODULE AnomalyProofs ----------------------------
(***************************************************************************)
(* What the detector computes, for any period, thresholds, smoothing       *)
(* parameters, calendar and series: sums, the calendar, the two methods.   *)
(* Then the evaluator, for any set of tests, detector and calendar: the    *)
(* types, what is stored of a point that a window of the calendar covers,  *)
(* and the log. The library's induction principles have a predicate as a   *)
(* parameter; the inductions here are written out as a least               *)
(* counterexample instead.                                                 *)
(***************************************************************************)
EXTENDS Anomaly, FiniteSetTheorems, SequenceTheorems, WellFoundedInduction, TLAPS

\* A set of naturals has a least element.
LEMMA LeastOf ==
    ASSUME NEW S \in SUBSET Nat, S # {}
    PROVE  \E x \in S : \A y \in S : x <= y
  <1> DEFINE R == OpToRel(<, Nat)
  <1>1. IsWellFoundedOn(R, Nat)  BY NatLessThanWellFounded
  <1>2. R = {ss \in Nat \X Nat : ss[1] < ss[2]}  BY DEF OpToRel
  <1> HIDE DEF R
  <1>3. PICK x \in S : \A y \in S : ~(<<y, x>> \in R)  BY <1>1, WFMin
  <1>4. ASSUME NEW y \in S PROVE x <= y
    <2>1. x \in Nat /\ y \in Nat  OBVIOUS
    <2>2. <<y, x>> \in Nat \X Nat /\ <<y, x>>[1] = y /\ <<y, x>>[2] = x  BY <2>1
    <2> QED  BY <1>2, <1>3, <2>1, <2>2
  <1> QED  BY <1>4

\* Induction over the naturals for a set of them: one that has 0 and every successor is all.
LEMMA SetInduction ==
    ASSUME NEW S \in SUBSET Nat, 0 \in S, \A n \in S : n + 1 \in S
    PROVE  S = Nat
  <1> SUFFICES ASSUME Nat \ S # {} PROVE FALSE
    OBVIOUS
  <1>1. PICK m \in Nat \ S : \A y \in Nat \ S : m <= y
    BY LeastOf
  <1>2. m - 1 \in Nat /\ m - 1 \in S
    BY <1>1
  <1> QED  BY <1>1, <1>2

-----------------------------------------------------------------------------
(***************************************************************************)
(* The calendar.                                                           *)
(***************************************************************************)

\* n keys in an order that sorts them.
Sorts(p, key, n) ==
    /\ p \in Bijection(1 .. n, 1 .. n)
    /\ \A i, j \in 1 .. n : i < j => key[p[i]] <= key[p[j]]

Sortable == {n \in Nat : \A key \in [1 .. n -> Int] : \E p : Sorts(p, key, n)}

\* One more key goes before the first that is greater.
LEMMA InsertKey ==
    ASSUME NEW n \in Sortable
    PROVE  n + 1 \in Sortable
  <1>1. n \in Nat
    BY DEF Sortable
  <1> SUFFICES ASSUME NEW key \in [1 .. n + 1 -> Int] PROVE \E p : Sorts(p, key, n + 1)
    BY <1>1 DEF Sortable
  <1> DEFINE short == [i \in 1 .. n |-> key[i]]
  <1>a. short \in [1 .. n -> Int] /\ \A i \in 1 .. n : short[i] = key[i]
    BY <1>1
  <1> HIDE DEF short
  <1>2. PICK p : Sorts(p, short, n)
    BY <1>1, <1>a DEF Sortable
  <1>3. /\ p \in [1 .. n -> 1 .. n]
        /\ \A i, j \in 1 .. n : p[i] = p[j] => i = j
        /\ \A m \in 1 .. n : \E i \in 1 .. n : p[i] = m
        /\ \A i, j \in 1 .. n : i < j => key[p[i]] <= key[p[j]]
    <2>1. /\ p \in [1 .. n -> 1 .. n]
          /\ \A i, j \in 1 .. n : p[i] = p[j] => i = j
          /\ \A m \in 1 .. n : \E i \in 1 .. n : p[i] = m
      BY <1>2 DEF Sorts, Bijection, Injection, Surjection, IsInjective
    <2>2. \A i, j \in 1 .. n : i < j => short[p[i]] <= short[p[j]]
      BY <1>2 DEF Sorts
    <2>3. \A i \in 1 .. n : p[i] \in 1 .. n /\ short[p[i]] = key[p[i]]
      BY <1>a, <2>1
    <2> QED  BY <2>1, <2>2, <2>3
  <1> DEFINE Later == {i \in 1 .. n : key[p[i]] > key[n + 1]} \cup {n + 1}
  <1>4. PICK k \in Later : \A i \in Later : k <= i
    <2>1. Later \in SUBSET Nat /\ Later # {}
      BY <1>1
    <2> HIDE DEF Later
    <2> QED  BY <2>1, LeastOf
  <1>5. /\ k \in 1 .. n + 1
        /\ \A i \in 1 .. n : i < k => key[p[i]] <= key[n + 1]
        /\ k <= n => key[p[k]] > key[n + 1]
    <2>1. k \in 1 .. n + 1 /\ (k <= n => key[p[k]] > key[n + 1])
      BY <1>1
    <2>2. ASSUME NEW i \in 1 .. n, i < k PROVE key[p[i]] <= key[n + 1]
      <3>1. i \notin Later
        BY <1>1, <1>4, <2>1, <2>2
      <3>2. key[p[i]] \in Int /\ key[n + 1] \in Int
        BY <1>1, <1>3
      <3> QED  BY <3>1, <3>2
    <2> QED  BY <2>1, <2>2
  <1> HIDE DEF Later
  <1> DEFINE q == [i \in 1 .. n + 1 |-> IF i < k THEN p[i] ELSE IF i = k THEN n + 1 ELSE p[i - 1]]
  <1>6. /\ \A i \in 1 .. n + 1 : i < k => i \in 1 .. n /\ q[i] = p[i]
        /\ q[k] = n + 1
        /\ \A i \in 1 .. n + 1 : i > k => i - 1 \in 1 .. n /\ q[i] = p[i - 1]
    BY <1>1, <1>5
  <1>7. q \in [1 .. n + 1 -> 1 .. n + 1]
    <2> SUFFICES ASSUME NEW i \in 1 .. n + 1 PROVE q[i] \in 1 .. n + 1
      OBVIOUS
    <2>1. \A m \in 1 .. n : p[m] \in 1 .. n + 1
      BY <1>1, <1>3
    <2>2. n + 1 \in 1 .. n + 1
      BY <1>1
    <2>3. i < k \/ i = k \/ i > k
      BY <1>1, <1>5
    <2> HIDE DEF q
    <2>4. CASE i < k
      BY <1>6, <2>1, <2>4
    <2>5. CASE i > k
      BY <1>6, <2>1, <2>5
    <2> QED  BY <1>6, <2>2, <2>3, <2>4, <2>5
  <1> HIDE DEF q
  <1>8. \A i, j \in 1 .. n + 1 : q[i] = q[j] => i = j
    <2> SUFFICES ASSUME NEW i \in 1 .. n + 1, NEW j \in 1 .. n + 1, q[i] = q[j], i < j PROVE FALSE
      BY <1>1
    <2>1. \A m \in 1 .. n : p[m] # n + 1
      BY <1>1, <1>3
    <2>2. CASE j < k
      BY <1>1, <1>3, <1>5, <1>6, <2>2
    <2>3. CASE i < k /\ j = k
      BY <1>1, <1>5, <1>6, <2>1, <2>3
    <2>4. CASE i < k /\ j > k
      BY <1>1, <1>3, <1>5, <1>6, <2>4
    <2>5. CASE i = k
      BY <1>1, <1>5, <1>6, <2>1, <2>5
    <2>6. CASE i > k
      BY <1>1, <1>3, <1>5, <1>6, <2>6
    <2> QED  BY <1>1, <1>5, <2>2, <2>3, <2>4, <2>5, <2>6
  <1>9. \A m \in 1 .. n + 1 : \E i \in 1 .. n + 1 : q[i] = m
    <2> TAKE m \in 1 .. n + 1
    <2>1. CASE m = n + 1
      BY <1>5, <1>6, <2>1
    <2>2. CASE m # n + 1
      <3>0. m \in 1 .. n
        BY <1>1, <2>2
      <3>1. PICK i \in 1 .. n : p[i] = m
        BY <1>3, <3>0
      <3>2. i \in 1 .. n + 1 /\ i + 1 \in 1 .. n + 1
        BY <1>1
      <3>3. CASE i < k
        BY <1>6, <3>1, <3>2, <3>3
      <3>4. CASE ~(i < k)
        <4>1. i + 1 > k /\ (i + 1) - 1 = i
          BY <1>1, <1>5, <3>4
        <4> QED  BY <1>6, <3>1, <3>2, <4>1
      <3> QED  BY <3>3, <3>4
    <2> QED  BY <2>1, <2>2
  <1>10. \A i, j \in 1 .. n + 1 : i < j => key[q[i]] <= key[q[j]]
    <2> SUFFICES ASSUME NEW i \in 1 .. n + 1, NEW j \in 1 .. n + 1, i < j
                 PROVE  key[q[i]] <= key[q[j]]
      OBVIOUS
    <2>0. \A m \in 1 .. n : p[m] \in 1 .. n /\ key[p[m]] \in Int
      BY <1>1, <1>3
    <2>1. CASE j < k
      <3>1. i \in 1 .. n /\ j \in 1 .. n /\ q[i] = p[i] /\ q[j] = p[j]
        BY <1>1, <1>5, <1>6, <2>1
      <3> QED  BY <1>3, <3>1
    <2>2. CASE j = k
      <3>1. i \in 1 .. n /\ q[i] = p[i] /\ q[j] = n + 1 /\ i < k
        BY <1>1, <1>5, <1>6, <2>2
      <3> QED  BY <1>5, <3>1
    <2>3. CASE i < k /\ j > k
      <3>1. i \in 1 .. n /\ j - 1 \in 1 .. n /\ i < j - 1 /\ q[i] = p[i] /\ q[j] = p[j - 1]
        BY <1>1, <1>5, <1>6, <2>3
      <3> QED  BY <1>3, <3>1
    <2>4. CASE i = k
      <3>1. k \in 1 .. n /\ j - 1 \in 1 .. n /\ k <= j - 1 /\ q[i] = n + 1 /\ q[j] = p[j - 1]
        BY <1>1, <1>5, <1>6, <2>4
      <3>2. k < j - 1 => key[p[k]] <= key[p[j - 1]]
        BY <1>3, <3>1
      <3>3. /\ key[p[k]] \in Int /\ key[p[j - 1]] \in Int /\ key[n + 1] \in Int
            /\ key[p[k]] > key[n + 1] /\ (k = j - 1 \/ k < j - 1)
        BY <1>1, <1>5, <2>0, <3>1
      <3> QED  BY <3>1, <3>2, <3>3
    <2>5. CASE i > k
      <3>1. i - 1 \in 1 .. n /\ j - 1 \in 1 .. n /\ i - 1 < j - 1 /\ q[i] = p[i - 1] /\ q[j] = p[j - 1]
        BY <1>1, <1>5, <1>6, <2>5
      <3> QED  BY <1>3, <3>1
    <2> QED  BY <1>1, <1>5, <2>1, <2>2, <2>3, <2>4, <2>5
  <1>11. Sorts(q, key, n + 1)
    BY <1>7, <1>8, <1>9, <1>10 DEF Sorts, Bijection, Injection, Surjection, IsInjective
  <1> QED  BY <1>11

\* Any keys can be sorted.
LEMMA AllSortable == Sortable = Nat
  <1>1. 0 \in Sortable
    <2> SUFFICES ASSUME NEW key PROVE \E p : Sorts(p, key, 0)
      BY DEF Sortable
    <2>1. Sorts([i \in 1 .. 0 |-> i], key, 0)
      BY DEF Sorts, Bijection, Injection, Surjection, IsInjective
    <2> QED  BY <2>1
  <1>2. Sortable \in SUBSET Nat
    BY DEF Sortable
  <1> QED  BY <1>1, <1>2, InsertKey, SetInduction

\* What the configuration says of the windows.
LEMMA WindowsShape ==
    /\ Len(Windows) \in Nat /\ DOMAIN Windows = 1 .. Len(Windows)
    /\ \A w \in DOMAIN Windows : Windows[w].start \in Int /\ Windows[w].end \in Int
  <1> DEFINE W == [start : Int, end : Int]
  <1>1. Windows \in Seq(W)
    BY DetectorAssumption DEF DetectorAssumption
  <1> HIDE DEF W
  <1>2. Len(Windows) \in Nat /\ DOMAIN Windows = 1 .. Len(Windows)
    BY <1>1
  <1>3. \A w \in DOMAIN Windows : Windows[w] \in W
    BY <1>1, <1>2
  <1> QED  BY <1>2, <1>3 DEF W

\* The calendar holds the windows, in the order they start.
LEMMA CalendarSorted ==
    /\ DOMAIN NewCalendar = DOMAIN Windows
    /\ \A i \in DOMAIN Windows : \E w \in DOMAIN Windows : NewCalendar[i] = Windows[w]
    /\ \A w \in DOMAIN Windows : \E i \in DOMAIN Windows : NewCalendar[i] = Windows[w]
    /\ \A i, j \in DOMAIN Windows : i < j => NewCalendar[i].start <= NewCalendar[j].start
  <1> DEFINE n == Len(Windows)
             key == [i \in 1 .. n |-> Windows[i].start]
             order == CHOOSE p \in Bijection(DOMAIN Windows, DOMAIN Windows) : InOrder(p)
  <1>1. n \in Nat /\ DOMAIN Windows = 1 .. n /\ \A i \in 1 .. n : Windows[i].start \in Int
    BY WindowsShape
  <1> HIDE DEF n
  <1>2. key \in [1 .. n -> Int] /\ \A i \in 1 .. n : key[i] = Windows[i].start
    BY <1>1
  <1> HIDE DEF key
  <1>3. PICK p : Sorts(p, key, n)
    BY <1>1, <1>2, AllSortable DEF Sortable
  <1>4. p \in Bijection(DOMAIN Windows, DOMAIN Windows) /\ InOrder(p)
    <2>1. p \in Bijection(1 .. n, 1 .. n) /\ p \in [1 .. n -> 1 .. n]
      BY <1>3 DEF Sorts, Bijection, Injection
    <2>2. \A i \in 1 .. n : key[p[i]] = Windows[p[i]].start
      BY <1>2, <2>1
    <2>3. \A i, j \in 1 .. n : i < j => Windows[p[i]].start <= Windows[p[j]].start
      BY <1>3, <2>2 DEF Sorts
    <2> QED  BY <1>1, <2>1, <2>3 DEF InOrder
  <1>5. order \in Bijection(DOMAIN Windows, DOMAIN Windows) /\ InOrder(order)
    BY <1>4
  <1>6. NewCalendar = [i \in DOMAIN Windows |-> Windows[order[i]]]
    BY DEF NewCalendar
  <1> HIDE DEF order
  <1>7. /\ order \in [DOMAIN Windows -> DOMAIN Windows]
        /\ \A w \in DOMAIN Windows : \E i \in DOMAIN Windows : order[i] = w
    BY <1>5 DEF Bijection, Injection, Surjection
  <1> QED  BY <1>5, <1>6, <1>7 DEF InOrder

\* The windows that have started at a time are the first ones of the calendar.
LEMMA StartedPrefix ==
    ASSUME NEW at \in Int
    PROVE  /\ Started(at) \in 0 .. Len(Windows)
           /\ \A i \in DOMAIN Windows : NewCalendar[i].start <= at <=> i <= Started(at)
  <1> DEFINE n == Len(Windows)
             Late == {i \in 1 .. n : NewCalendar[i].start > at} \cup {n + 1}
  <1>1. n \in Nat /\ DOMAIN Windows = 1 .. n /\ \A i \in 1 .. n : Windows[i].start \in Int
    BY WindowsShape
  <1>2. \A i \in 1 .. n : NewCalendar[i].start \in Int
    BY <1>1, CalendarSorted
  <1> HIDE DEF n
  <1>3. Late \in SUBSET Nat /\ Late # {}
    BY <1>1
  <1>4. PICK f \in Late : \A i \in Late : f <= i
    <2> HIDE DEF Late
    <2> QED  BY <1>3, LeastOf
  <1>5. f \in 1 .. n + 1
    BY <1>1
  <1>6. ASSUME NEW i \in 1 .. n PROVE NewCalendar[i].start <= at <=> i <= f - 1
    <2>1. CASE i < f
      <3>1. i \notin Late
        BY <1>1, <1>4, <1>5, <2>1
      <3> QED  BY <1>2, <1>5, <2>1, <3>1
    <2>2. CASE i = f
      <3>1. NewCalendar[f].start > at
        BY <1>1, <2>2
      <3> QED  BY <1>2, <1>5, <2>2, <3>1
    <2>3. CASE i > f
      <3>1. f \in 1 .. n /\ NewCalendar[f].start > at
        BY <1>1, <1>5, <2>3
      <3>2. NewCalendar[f].start <= NewCalendar[i].start
        BY <1>1, <2>3, <3>1, CalendarSorted
      <3> QED  BY <1>2, <1>5, <2>3, <3>1, <3>2
    <2> QED  BY <1>5, <2>1, <2>2, <2>3
  <1> HIDE DEF Late
  <1>7. {i \in DOMAIN Windows : NewCalendar[i].start <= at} = 1 .. f - 1
    BY <1>1, <1>5, <1>6
  <1>8. Cardinality(1 .. f - 1) = f - 1
    BY <1>5, FS_Interval
  <1>9. Started(at) = f - 1
    BY <1>7, <1>8 DEF Started
  <1> QED  BY <1>1, <1>5, <1>6, <1>9

\* calendar.go, Suppresses: the search by start with the walk back finds a window that
\* covers the time exactly where there is one, nested and overlapping ones included.
THEOREM SuppressesIsCoverage ==
    \A at \in Int : Suppresses(at) <=> \E w \in DOMAIN Windows : Windows[w].start <= at /\ at < Windows[w].end
  <1> TAKE at \in Int
  <1>1. Suppresses(at) <=> \E i \in DOMAIN Windows : i <= Started(at) /\ at < NewCalendar[i].end
    <2>1. DOMAIN Windows = 1 .. Len(Windows) /\ Len(Windows) \in Nat
      BY WindowsShape
    <2>2. Started(at) \in 0 .. Len(Windows)
      BY StartedPrefix
    <2>3. \A i \in DOMAIN Windows : i <= Started(at) <=> i \in 1 .. Started(at) - 1 \/ (Started(at) > 0 /\ i = Started(at))
      BY <2>1, <2>2
    <2>4. \A i \in 1 .. Started(at) - 1 : i \in DOMAIN Windows
      BY <2>1, <2>2
    <2>5. Started(at) > 0 => Started(at) \in DOMAIN Windows
      BY <2>1, <2>2
    <2> QED  BY <2>3, <2>4, <2>5 DEF Suppresses
  <1>2. Suppresses(at) <=> \E i \in DOMAIN Windows : NewCalendar[i].start <= at /\ at < NewCalendar[i].end
    BY <1>1, StartedPrefix
  <1> QED  BY <1>2, CalendarSorted

-----------------------------------------------------------------------------
(***************************************************************************)
(* Division.                                                               *)
(***************************************************************************)
LEMMA Euclid ==
    ASSUME NEW x \in Int, NEW d \in Nat \ {0}
    PROVE  \E q \in Int, r \in 0 .. d - 1 : x = d * q + r
  <1> DEFINE R == {r \in Nat : \E q \in Int : x = d * q + r}
  <1>1. R # {}
    <2>1. CASE x >= 0
      <3>1. x \in Nat /\ x = d * 0 + x
        BY <2>1
      <3>2. x \in R
        BY <3>1
      <3> HIDE DEF R
      <3> QED  BY <3>2
    <2>2. CASE x < 0
      <3>1. x - d * x = (-x) * (d - 1) /\ -x \in Nat /\ d - 1 \in Nat
        BY <2>2
      <3>2. x - d * x \in Nat /\ x = d * x + (x - d * x)
        BY <3>1
      <3>3. x - d * x \in R
        BY <3>2
      <3> HIDE DEF R
      <3> QED  BY <3>3
    <2> HIDE DEF R
    <2> QED  BY <2>1, <2>2
  <1>2. R \in SUBSET Nat
    OBVIOUS
  <1>3. PICK r \in R : \A y \in R : r <= y
    <2> HIDE DEF R
    <2> QED  BY <1>1, <1>2, LeastOf
  <1>4. PICK q \in Int : x = d * q + r
    OBVIOUS
  <1>5. r \in Nat
    OBVIOUS
  <1>6. ASSUME r >= d PROVE FALSE
    <2>1. r - d \in Nat /\ x = d * (q + 1) + (r - d) /\ q + 1 \in Int
      BY <1>4, <1>5, <1>6
    <2>2. r - d \in R
      BY <2>1
    <2> HIDE DEF R
    <2>3. r <= r - d
      BY <1>3, <2>2
    <2> QED  BY <1>5, <2>3
  <1>7. r \in 0 .. d - 1
    BY <1>5, <1>6
  <1> QED  BY <1>4, <1>7

LEMMA EuclidUnique ==
    ASSUME NEW d \in Nat \ {0}, NEW q \in Int, NEW r \in 0 .. d - 1
    PROVE  (d * q + r) \div d = q /\ (d * q + r) % d = r
  <1>1. (d * q + r) \div d = q
    OBVIOUS
  <1>2. (d * q + r) % d = r
    OBVIOUS
  <1> QED  BY <1>1, <1>2

\* A multiple of the divisor more.
LEMMA DivShift ==
    ASSUME NEW x \in Int, NEW k \in Int, NEW d \in Nat \ {0}
    PROVE  /\ (x + d * k) \div d = x \div d + k /\ x \div d \in Int
           /\ (x + d * k) % d = x % d /\ x % d \in 0 .. d - 1
  <1>1. PICK q \in Int, r \in 0 .. d - 1 : x = d * q + r
    BY Euclid
  <1>2. x \div d = q /\ x % d = r
    BY <1>1, EuclidUnique
  <1>3. x + d * k = d * (q + k) + r /\ q + k \in Int
    BY <1>1
  <1>4. (x + d * k) \div d = q + k /\ (x + d * k) % d = r
    BY <1>3, EuclidUnique
  <1> QED  BY <1>2, <1>4

\* A multiple, and what is below the divisor.
LEMMA DivExact ==
    ASSUME NEW x \in Int, NEW d \in Nat \ {0}
    PROVE  /\ (d * x) \div d = x /\ 0 \div d = 0
           /\ (x - d * (x \div d)) \div d = 0
           /\ x \in 0 .. d - 1 => x % d = x
  <1>1. PICK q \in Int, r \in 0 .. d - 1 : x = d * q + r
    BY Euclid
  <1>2. x \div d = q
    BY <1>1, EuclidUnique
  <1>3. 0 \in 0 .. d - 1 /\ d * x = d * x + 0 /\ 0 = d * 0 + 0
    OBVIOUS
  <1>4. (d * x) \div d = x /\ 0 \div d = 0
    <2>1. (d * x + 0) \div d = x
      BY <1>3, EuclidUnique
    <2>2. (d * 0 + 0) \div d = 0
      BY <1>3, EuclidUnique
    <2> QED  BY <1>3, <2>1, <2>2
  <1>5. x - d * (x \div d) = d * 0 + r
    BY <1>1, <1>2
  <1>6. (x - d * (x \div d)) \div d = 0
    BY <1>5, EuclidUnique
  <1>7. ASSUME x \in 0 .. d - 1 PROVE x % d = x
    <2>1. x = d * 0 + x
      OBVIOUS
    <2>2. (d * 0 + x) % d = x
      BY <1>7, EuclidUnique
    <2> QED  BY <2>1, <2>2
  <1> QED  BY <1>4, <1>6, <1>7

-----------------------------------------------------------------------------
(***************************************************************************)
(* Sums.                                                                   *)
(***************************************************************************)

\* The same up to n.
LEMMA BoundedInduction ==
    ASSUME NEW n \in Nat, NEW S, 0 \in S, \A k \in 0 .. n - 1 : k \in S => k + 1 \in S
    PROVE  \A k \in 0 .. n : k \in S
  <1> DEFINE K == {k \in Nat : k <= n => k \in S}
  <1>1. 0 \in K
    OBVIOUS
  <1>2. \A k \in K : k + 1 \in K
    OBVIOUS
  <1>3. K \in SUBSET Nat
    OBVIOUS
  <1> HIDE DEF K
  <1>4. K = Nat
    BY <1>1, <1>2, <1>3, SetInduction
  <1> QED  BY <1>4 DEF K

\* g is the sum of d on 0 .. k.
Steps(g, k, d) == g[0] = 0 /\ \A i \in 1 .. k : g[i] = g[i - 1] + d[i - 1]

LEMMA StepsUnique ==
    ASSUME NEW k \in Nat, NEW d, NEW g, NEW h, Steps(g, k, d), Steps(h, k, d)
    PROVE  \A i \in 0 .. k : g[i] = h[i]
  <1> DEFINE S == {i \in 0 .. k : g[i] = h[i]}
  <1>1. 0 \in S
    BY DEF Steps
  <1>2. ASSUME NEW i \in 0 .. k - 1, i \in S PROVE i + 1 \in S
    <2>1. i + 1 \in 1 .. k /\ (i + 1) - 1 = i
      OBVIOUS
    <2>2. g[i + 1] = g[i] + d[i] /\ h[i + 1] = h[i] + d[i]
      BY <2>1 DEF Steps
    <2> QED  BY <1>2, <2>1, <2>2
  <1> HIDE DEF S
  <1>3. \A i \in 0 .. k : i \in S
    BY <1>1, <1>2, BoundedInduction
  <1> QED  BY <1>3 DEF S

LEMMA StepsExist == ASSUME NEW d PROVE \A k \in Nat : \E g : Steps(g, k, d)
  <1> DEFINE K == {k \in Nat : \E g : Steps(g, k, d)}
  <1>1. 0 \in K
    <2>1. Steps([i \in {0} |-> 0], 0, d)
      BY DEF Steps
    <2> QED  BY <2>1
  <1>2. ASSUME NEW k \in K PROVE k + 1 \in K
    <2>1. PICK g : Steps(g, k, d)
      OBVIOUS
    <2> DEFINE h == [i \in 0 .. k + 1 |-> IF i = k + 1 THEN g[k] + d[k] ELSE g[i]]
    <2>2. h[0] = 0
      BY <2>1 DEF Steps
    <2>3. ASSUME NEW i \in 1 .. k + 1 PROVE h[i] = h[i - 1] + d[i - 1]
      <3>1. CASE i = k + 1
        <4>1. h[i] = g[k] + d[k] /\ h[i - 1] = g[k] /\ i - 1 = k
          BY <3>1
        <4> QED  BY <4>1
      <3>2. CASE i \in 1 .. k
        <4>1. h[i] = g[i] /\ h[i - 1] = g[i - 1]
          BY <3>2
        <4> QED  BY <2>1, <3>2, <4>1 DEF Steps
      <3> QED  BY <3>1, <3>2
    <2> HIDE DEF h
    <2>4. Steps(h, k + 1, d)
      BY <2>2, <2>3 DEF Steps
    <2> QED  BY <2>4
  <1>3. K \in SUBSET Nat
    OBVIOUS
  <1> HIDE DEF K
  <1>4. K = Nat
    BY <1>1, <1>2, <1>3, SetInduction
  <1> QED  BY <1>4 DEF K

\* The recursion that defines Sum has a solution, so that Sum is one.
LEMMA SumStep ==
    ASSUME NEW ys, NEW S, NEW n \in Nat
    PROVE  /\ Sum(ys, S, 0) = 0
           /\ n \in S => Sum(ys, S, n + 1) = Sum(ys, S, n) + ys[n]
           /\ n \notin S => Sum(ys, S, n + 1) = Sum(ys, S, n) + 0
  <1> DEFINE d == [k \in Nat |-> IF k \in S THEN ys[k] ELSE 0]
             g(k) == CHOOSE h : Steps(h, k, d)
             f == [k \in Nat |-> g(k)[k]]
             acc == CHOOSE h : h = [k \in Nat |-> IF k = 0 THEN 0
                                                   ELSE h[k - 1] + (IF k - 1 \in S THEN ys[k - 1] ELSE 0)]
  <1>1. \A k \in Nat : d[k] = IF k \in S THEN ys[k] ELSE 0
    OBVIOUS
  <1> HIDE DEF d
  <1>2. \A k \in Nat : Steps(g(k), k, d)
    BY StepsExist
  <1>3. f[0] = 0
    BY <1>2 DEF Steps
  <1>4. ASSUME NEW k \in Nat PROVE f[k + 1] = f[k] + d[k]
    <2>1. Steps(g(k), k, d) /\ Steps(g(k + 1), k + 1, d)
      BY <1>2
    <2> DEFINE a == g(k)
               b == g(k + 1)
    <2>2. f[k] = a[k] /\ f[k + 1] = b[k + 1]
      OBVIOUS
    <2> HIDE DEF a, b, f
    <2>3. b[k + 1] = b[k] + d[k]
      <3>1. k + 1 \in 1 .. k + 1 /\ (k + 1) - 1 = k
        OBVIOUS
      <3>2. Steps(b, k + 1, d)
        BY <2>1 DEF b
      <3> QED  BY <3>1, <3>2 DEF Steps
    <2>4. Steps(b, k, d) /\ Steps(a, k, d)
      <3>1. Steps(b, k + 1, d)
        BY <2>1 DEF b
      <3> QED  BY <2>1, <3>1 DEF Steps, a
    <2>5. a[k] = b[k]
      BY <2>4, StepsUnique
    <2> QED  BY <2>2, <2>3, <2>5
  <1>5. f = [k \in Nat |-> IF k = 0 THEN 0 ELSE f[k - 1] + (IF k - 1 \in S THEN ys[k - 1] ELSE 0)]
    <2>1. f = [k \in Nat |-> f[k]]
      OBVIOUS
    <2> HIDE DEF f
    <2>2. ASSUME NEW k \in Nat, k # 0 PROVE f[k] = f[k - 1] + (IF k - 1 \in S THEN ys[k - 1] ELSE 0)
      <3>1. k - 1 \in Nat /\ (k - 1) + 1 = k
        BY <2>2
      <3> QED  BY <1>1, <1>4, <3>1
    <2> QED  BY <1>3, <2>1, <2>2
  <1> HIDE DEF f
  <1>6. acc = [k \in Nat |-> IF k = 0 THEN 0 ELSE acc[k - 1] + (IF k - 1 \in S THEN ys[k - 1] ELSE 0)]
    BY <1>5
  <1>7. \A k : Sum(ys, S, k) = acc[k]
    BY DEF Sum
  <1> HIDE DEF acc
  <1>8. acc[0] = 0
    BY <1>6
  <1>9. ASSUME NEW k \in Nat PROVE acc[k + 1] = acc[k] + (IF k \in S THEN ys[k] ELSE 0)
    <2>1. k + 1 \in Nat /\ k + 1 # 0 /\ (k + 1) - 1 = k
      OBVIOUS
    <2> QED  BY <1>6, <2>1
  <1> QED  BY <1>7, <1>8, <1>9

LEMMA SumZero == ASSUME NEW ys, NEW S PROVE Sum(ys, S, 0) = 0
  BY SumStep

\* n values that are integers.
Ints(ys, n) == \A i \in 0 .. n - 1 : ys[i] \in Int

LEMMA SumType ==
    ASSUME NEW n \in Nat, NEW ys, NEW S, Ints(ys, n)
    PROVE  \A k \in 0 .. n : Sum(ys, S, k) \in Int
  <1> DEFINE K == {k \in 0 .. n : Sum(ys, S, k) \in Int}
  <1>1. 0 \in K
    BY SumZero
  <1>2. ASSUME NEW k \in 0 .. n - 1, k \in K PROVE k + 1 \in K
    <2>1. /\ k \in S => Sum(ys, S, k + 1) = Sum(ys, S, k) + ys[k]
          /\ k \notin S => Sum(ys, S, k + 1) = Sum(ys, S, k) + 0
      BY SumStep
    <2>2. ys[k] \in Int /\ Sum(ys, S, k) \in Int
      BY <1>2 DEF Ints
    <2> QED  BY <2>1, <2>2
  <1> HIDE DEF K
  <1>3. \A k \in 0 .. n : k \in K
    BY <1>1, <1>2, BoundedInduction
  <1> QED  BY <1>3 DEF K

\* The sum of the first k values.
Pre(ys, k) == Sum(ys, Nat, k)

LEMMA PreFacts ==
    ASSUME NEW n \in Nat, NEW ys, Ints(ys, n)
    PROVE  /\ Pre(ys, 0) = 0
           /\ \A k \in 0 .. n : Pre(ys, k) \in Int
           /\ \A k \in 0 .. n - 1 : Pre(ys, k + 1) = Pre(ys, k) + ys[k]
  <1>1. \A k \in Nat : Pre(ys, k + 1) = Pre(ys, k) + ys[k]
    BY SumStep DEF Pre
  <1> QED  BY <1>1, SumZero, SumType DEF Pre

\* The sum of an interval is the difference of two of those.
LEMMA SumInterval ==
    ASSUME NEW n \in Nat, NEW ys, Ints(ys, n), NEW a \in 0 .. n, NEW b \in a .. n
    PROVE  Sum(ys, a .. b - 1, n) = Pre(ys, b) - Pre(ys, a)
  <1> DEFINE upTo(k) == IF k <= b THEN k ELSE b
             K == {k \in 0 .. n : Sum(ys, a .. b - 1, k) = IF k <= a THEN 0 ELSE Pre(ys, upTo(k)) - Pre(ys, a)}
  <1>1. 0 \in K
    BY SumZero
  <1>2. ASSUME NEW k \in 0 .. n - 1, k \in K PROVE k + 1 \in K
    <2>1. /\ k \in a .. b - 1 => Sum(ys, a .. b - 1, k + 1) = Sum(ys, a .. b - 1, k) + ys[k]
          /\ k \notin a .. b - 1 => Sum(ys, a .. b - 1, k + 1) = Sum(ys, a .. b - 1, k) + 0
      BY SumStep
    <2>2. Sum(ys, a .. b - 1, k) = IF k <= a THEN 0 ELSE Pre(ys, upTo(k)) - Pre(ys, a)
      BY <1>2
    <2>3. /\ Pre(ys, k + 1) = Pre(ys, k) + ys[k] /\ Pre(ys, k) \in Int /\ Pre(ys, k + 1) \in Int
          /\ Pre(ys, a) \in Int /\ Pre(ys, b) \in Int /\ ys[k] \in Int
      BY PreFacts DEF Ints
    <2>4. CASE k < a
      <3>1. k + 1 <= a /\ k <= a /\ k \notin a .. b - 1
        BY <2>4
      <3> QED  BY <2>1, <2>2, <3>1
    <2>5. CASE k = a /\ k < b
      <3>1. ~(k + 1 <= a) /\ k <= a /\ k \in a .. b - 1 /\ upTo(k + 1) = k + 1
        BY <2>5
      <3>2. Sum(ys, a .. b - 1, k + 1) = 0 + ys[k]
        BY <2>1, <2>2, <3>1
      <3>3. Sum(ys, a .. b - 1, k + 1) = Pre(ys, upTo(k + 1)) - Pre(ys, a)
        BY <2>3, <2>5, <3>1, <3>2
      <3> QED  BY <3>1, <3>3
    <2>6. CASE k > a /\ k < b
      <3>1. ~(k + 1 <= a) /\ ~(k <= a) /\ k \in a .. b - 1 /\ upTo(k + 1) = k + 1 /\ upTo(k) = k
        BY <2>6
      <3>2. Sum(ys, a .. b - 1, k + 1) = (Pre(ys, k) - Pre(ys, a)) + ys[k]
        BY <2>1, <2>2, <3>1
      <3>3. Sum(ys, a .. b - 1, k + 1) = Pre(ys, upTo(k + 1)) - Pre(ys, a)
        BY <2>3, <3>1, <3>2
      <3> QED  BY <3>1, <3>3
    <2>7. CASE k >= b
      <3>1. ~(k + 1 <= a) /\ k \notin a .. b - 1 /\ upTo(k + 1) = b /\ upTo(k) = b /\ (k <= a => a = b)
        BY <2>7
      <3>2. Sum(ys, a .. b - 1, k) = Pre(ys, b) - Pre(ys, a)
        BY <2>2, <2>3, <3>1
      <3>3. Sum(ys, a .. b - 1, k + 1) = Pre(ys, upTo(k + 1)) - Pre(ys, a)
        BY <2>1, <2>3, <3>1, <3>2
      <3> QED  BY <3>1, <3>3
    <2>8. k < a \/ (k = a /\ k < b) \/ (k > a /\ k < b) \/ k >= b
      OBVIOUS
    <2> QED  BY <2>4, <2>5, <2>6, <2>7, <2>8
  <1> HIDE DEF K
  <1>3. n \in K
    BY <1>1, <1>2, BoundedInduction
  <1>4. Sum(ys, a .. b - 1, n) = IF n <= a THEN 0 ELSE Pre(ys, b) - Pre(ys, a)
    <2>1. upTo(n) = b
      OBVIOUS
    <2> QED  BY <1>3, <2>1 DEF K
  <1>5. Pre(ys, a) \in Int /\ (n <= a => a = b)
    BY PreFacts
  <1> QED  BY <1>4, <1>5

\* Values that are the same have the same sum.
LEMMA SumSame ==
    ASSUME NEW n \in Nat, NEW ys, NEW zs, NEW S, \A i \in 0 .. n - 1 : i \in S => ys[i] = zs[i]
    PROVE  Sum(ys, S, n) = Sum(zs, S, n)
  <1> DEFINE K == {k \in 0 .. n : Sum(ys, S, k) = Sum(zs, S, k)}
  <1>1. 0 \in K
    BY SumZero
  <1>2. ASSUME NEW k \in 0 .. n - 1, k \in K PROVE k + 1 \in K
    <2>1. /\ k \in S => Sum(ys, S, k + 1) = Sum(ys, S, k) + ys[k]
          /\ k \notin S => Sum(ys, S, k + 1) = Sum(ys, S, k) + 0
      BY SumStep
    <2>2. /\ k \in S => Sum(zs, S, k + 1) = Sum(zs, S, k) + zs[k]
          /\ k \notin S => Sum(zs, S, k + 1) = Sum(zs, S, k) + 0
      BY SumStep
    <2>3. CASE k \in S
      BY <1>2, <2>1, <2>2, <2>3
    <2>4. CASE k \notin S
      BY <1>2, <2>1, <2>2, <2>4
    <2> QED  BY <2>3, <2>4
  <1> HIDE DEF K
  <1>3. \A k \in 0 .. n : k \in K
    BY <1>1, <1>2, BoundedInduction
  <1> QED  BY <1>3 DEF K

\* A constant, over some of the indexes, sums to a multiple, and its mean is the constant.
LEMMA SumConstant ==
    ASSUME NEW n \in Nat, NEW c \in Int, NEW ys, NEW S \in SUBSET (0 .. n - 1),
           \A i \in S : ys[i] = c
    PROVE  Sum(ys, S, n) = c * Cardinality(S) /\ Cardinality(S) \in Nat
  <1> DEFINE below(k) == S \cap (0 .. k - 1)
             K == {k \in 0 .. n : Sum(ys, S, k) = c * Cardinality(below(k))}
  <1>0. \A k \in 0 .. n : IsFiniteSet(below(k)) /\ Cardinality(below(k)) \in Nat
    <2> SUFFICES ASSUME NEW k \in 0 .. n PROVE IsFiniteSet(below(k)) /\ Cardinality(below(k)) \in Nat
      OBVIOUS
    <2>1. IsFiniteSet(0 .. k - 1) /\ below(k) \in SUBSET (0 .. k - 1)
      BY FS_Interval
    <2>2. IsFiniteSet(below(k))
      BY <2>1, FS_Subset
    <2> QED  BY <2>2, FS_CardinalityType
  <1>1. 0 \in K
    <2>1. below(0) = {}
      OBVIOUS
    <2>2. c * Cardinality(below(0)) = 0
      BY <2>1, FS_EmptySet
    <2> QED  BY <2>2, SumZero
  <1>2. ASSUME NEW k \in 0 .. n - 1, k \in K PROVE k + 1 \in K
    <2>1. /\ k \in S => Sum(ys, S, k + 1) = Sum(ys, S, k) + ys[k]
          /\ k \notin S => Sum(ys, S, k + 1) = Sum(ys, S, k) + 0
      BY SumStep
    <2>2. Sum(ys, S, k) = c * Cardinality(below(k)) /\ Cardinality(below(k)) \in Nat
      BY <1>0, <1>2
    <2>3. CASE k \in S
      <3>1. below(k + 1) = below(k) \cup {k} /\ k \notin below(k)
        BY <2>3
      <3>2. IsFiniteSet(below(k))
        BY <1>0
      <3> HIDE DEF below
      <3>3. Cardinality(below(k + 1)) = Cardinality(below(k)) + 1
        BY <3>1, <3>2, FS_AddElement
      <3>4. Sum(ys, S, k + 1) = Sum(ys, S, k) + c
        BY <2>1, <2>3
      <3>5. c * (Cardinality(below(k)) + 1) = c * Cardinality(below(k)) + c
        BY <2>2
      <3> QED  BY <2>2, <3>3, <3>4, <3>5
    <2>4. CASE k \notin S
      <3>1. below(k + 1) = below(k)
        BY <2>4
      <3> HIDE DEF below
      <3>2. Sum(ys, S, k + 1) = Sum(ys, S, k) + 0 /\ c * Cardinality(below(k)) \in Int
        BY <2>1, <2>2, <2>4
      <3> QED  BY <2>2, <3>1, <3>2
    <2> QED  BY <2>3, <2>4
  <1>3. below(n) = S
    OBVIOUS
  <1>4. Cardinality(S) \in Nat
    BY <1>0, <1>3
  <1> HIDE DEF K
  <1>5. n \in K
    BY <1>1, <1>2, BoundedInduction
  <1> QED  BY <1>3, <1>4, <1>5 DEF K

LEMMA MeanConstant ==
    ASSUME NEW n \in Nat, NEW c \in Int, NEW ys, NEW S \in SUBSET (0 .. n - 1), S # {},
           \A i \in S : ys[i] = c
    PROVE  mean(ys, S, n) = c
  <1>1. Sum(ys, S, n) = c * Cardinality(S)
    BY SumConstant
  <1>2. IsFiniteSet(S)
    <2>1. IsFiniteSet(0 .. n - 1)
      BY FS_Interval
    <2> QED  BY <2>1, FS_Subset
  <1>3. Cardinality(S) \in Nat \ {0}
    BY <1>2, FS_EmptySet, FS_CardinalityType
  <1>4. \A d \in Nat \ {0} : (c * d) \div d = c
    <2> SUFFICES ASSUME NEW d \in Nat \ {0} PROVE (c * d) \div d = c
      OBVIOUS
    <2>1. c * d = d * c
      OBVIOUS
    <2>2. (d * c) \div d = c
      BY DivExact
    <2> QED  BY <2>1, <2>2
  <1> QED  BY <1>1, <1>3, <1>4 DEF mean

-----------------------------------------------------------------------------
(***************************************************************************)
(* The moving average.                                                     *)
(***************************************************************************)
LEMMA PeriodFacts ==
    /\ Period \in Nat \ {0, 1} /\ half \in Nat \ {0}
    /\ Period % 2 = 1 => Period = 2 * half + 1
    /\ Period % 2 # 1 => Period = 2 * half
  <1>1. Period \in Nat \ {0, 1}
    BY DetectorAssumption DEF DetectorAssumption
  <1> QED  BY <1>1 DEF half

\* The windows of the average, as differences of sums.
LEMMA TrendByPre ==
    ASSUME NEW n \in Nat, NEW ys, Ints(ys, n), NEW i \in Valid(n)
    PROVE  /\ i \in 0 .. n - 1 /\ i - half \in 0 .. n - Period
           /\ Period % 2 = 1 =>
                centredMovingAverage(ys, n)[i] = (Pre(ys, i + half + 1) - Pre(ys, i - half)) \div Period
           /\ Period % 2 # 1 =>
                /\ i - half + 1 \in 0 .. n - Period
                /\ centredMovingAverage(ys, n)[i] =
                     ((Pre(ys, i + half) - Pre(ys, i - half)) \div Period
                      + (Pre(ys, i + half + 1) - Pre(ys, i - half + 1)) \div Period) \div 2
  <1>1. /\ i \in Int /\ half <= i /\ i <= n - half - 1 /\ half \in Nat
        /\ i \in 0 .. n - 1 /\ i - half \in 0 .. n /\ i - half + 1 \in 0 .. n
        /\ i + half \in 0 .. n /\ i + half + 1 \in 0 .. n
    BY PeriodFacts DEF Valid
  <1>2. ASSUME NEW a \in 0 .. n, NEW b \in Int, b + 1 \in a .. n
        PROVE  Sum(ys, a .. b, n) = Pre(ys, b + 1) - Pre(ys, a)
    <2>1. (b + 1) - 1 = b
      OBVIOUS
    <2>2. Sum(ys, a .. (b + 1) - 1, n) = Pre(ys, b + 1) - Pre(ys, a)
      BY <1>2, SumInterval
    <2> QED  BY <2>1, <2>2
  <1>3. centredMovingAverage(ys, n)[i] =
          IF Period % 2 = 1 THEN Sum(ys, i - half .. i + half, n) \div Period
          ELSE (periodMA(ys, n, i - 1) + periodMA(ys, n, i)) \div 2
    <2>1. i \in Indexes(n)
      BY <1>1 DEF Indexes
    <2> QED  BY <2>1 DEF centredMovingAverage
  <1>4. CASE Period % 2 = 1
    <2>1. i + half + 1 \in i - half .. n /\ i + half \in Int
      BY <1>1
    <2>2. Sum(ys, i - half .. i + half, n) = Pre(ys, i + half + 1) - Pre(ys, i - half)
      BY <1>1, <1>2, <2>1
    <2>3. i - half \in 0 .. n - Period
      BY <1>1, <1>4, PeriodFacts
    <2> QED  BY <1>1, <1>3, <1>4, <2>2, <2>3
  <1>5. CASE Period % 2 # 1
    <2>1. /\ i - half \in 0 .. n - Period /\ i - half + 1 \in 0 .. n - Period
          /\ i - 1 - half + 1 = i - half /\ i - 1 + half + 1 = i + half
          /\ i - 1 + half \in Int /\ i - 1 + half + 1 \in i - half .. n
          /\ i + half \in Int /\ i + half + 1 \in i - half + 1 .. n
      BY <1>1, <1>5, PeriodFacts
    <2>2. Sum(ys, i - half .. i - 1 + half, n) = Pre(ys, i + half) - Pre(ys, i - half)
      BY <1>1, <1>2, <2>1
    <2>3. Sum(ys, i - half + 1 .. i + half, n) = Pre(ys, i + half + 1) - Pre(ys, i - half + 1)
      BY <1>1, <1>2, <2>1
    <2>4. periodMA(ys, n, i - 1) = (Pre(ys, i + half) - Pre(ys, i - half)) \div Period
      BY <2>1, <2>2 DEF periodMA
    <2>5. periodMA(ys, n, i) = (Pre(ys, i + half + 1) - Pre(ys, i - half + 1)) \div Period
      BY <2>3 DEF periodMA
    <2> QED  BY <1>1, <1>3, <1>5, <2>1, <2>4, <2>5
  <1> QED  BY <1>4, <1>5

-----------------------------------------------------------------------------
(***************************************************************************)
(* A straight line on top of a series.                                     *)
(***************************************************************************)
Drifted(ys, n, b) == [i \in Indexes(n) |-> ys[i] + b * 2 * Period * i]

\* What the line adds to the sum of the first k.
LEMMA DriftPre ==
    ASSUME NEW n \in Nat, NEW ys, Ints(ys, n), NEW b \in Int
    PROVE  /\ Ints(Drifted(ys, n, b), n)
           /\ \A k \in 0 .. n : Pre(Drifted(ys, n, b), k) = Pre(ys, k) + b * Period * (k * (k - 1))
  <1> DEFINE zs == Drifted(ys, n, b)
             c == b * Period
             K == {k \in 0 .. n : Pre(zs, k) = Pre(ys, k) + c * (k * (k - 1))}
  <1>1. c \in Int /\ \A i \in 0 .. n - 1 : ys[i] \in Int /\ zs[i] = ys[i] + c * (2 * i)
    <2>1. b \in Int /\ Period \in Int /\ c \in Int
      BY PeriodFacts
    <2>2. \A i \in 0 .. n - 1 : b * 2 * Period * i = c * (2 * i)
      BY <2>1
    <2>3. \A i \in 0 .. n - 1 : zs[i] = ys[i] + b * 2 * Period * i
      BY DEF Drifted, Indexes
    <2> QED  BY <2>1, <2>2, <2>3 DEF Ints
  <1> HIDE DEF zs, c
  <1>2. Ints(zs, n)
    <2> SUFFICES ASSUME NEW i \in 0 .. n - 1 PROVE zs[i] \in Int
      BY DEF Ints
    <2>1. c * (2 * i) \in Int
      BY <1>1
    <2> QED  BY <1>1, <2>1
  <1>3. 0 \in K
    <2>1. Pre(zs, 0) = 0 /\ Pre(ys, 0) = 0
      BY <1>2, PreFacts
    <2>2. c * (0 * (0 - 1)) = 0
      BY <1>1
    <2> QED  BY <2>1, <2>2
  <1>4. ASSUME NEW k \in 0 .. n - 1, k \in K PROVE k + 1 \in K
    <2>1. Pre(zs, k + 1) = Pre(zs, k) + zs[k]
      BY <1>2, PreFacts
    <2>2. Pre(ys, k + 1) = Pre(ys, k) + ys[k] /\ Pre(ys, k) \in Int
      BY PreFacts
    <2>3. zs[k] = ys[k] + c * (2 * k) /\ ys[k] \in Int
      BY <1>1
    <2>4. Pre(zs, k) = Pre(ys, k) + c * (k * (k - 1))
      BY <1>4
    <2>5. c * (k * (k - 1)) + c * (2 * k) = c * ((k + 1) * ((k + 1) - 1)) /\ c * (2 * k) \in Int
          /\ c * (k * (k - 1)) \in Int
      BY <1>1
    <2>6. Pre(zs, k + 1) = Pre(ys, k + 1) + c * ((k + 1) * ((k + 1) - 1))
      BY <2>1, <2>2, <2>3, <2>4, <2>5
    <2> QED  BY <2>6
  <1> HIDE DEF K
  <1>5. \A k \in 0 .. n : k \in K
    BY <1>3, <1>4, BoundedInduction
  <1> QED  BY <1>2, <1>5 DEF K, zs, c

\* A window of one period that the line shifts, a the index of its first value.
LEMMA DriftWindow ==
    ASSUME NEW n \in Nat, NEW ys, Ints(ys, n), NEW b \in Int, NEW a \in 0 .. n - Period
    PROVE  /\ (Pre(Drifted(ys, n, b), a + Period) - Pre(Drifted(ys, n, b), a)) \div Period
                = (Pre(ys, a + Period) - Pre(ys, a)) \div Period + b * Period * (2 * a + Period - 1)
           /\ (Pre(ys, a + Period) - Pre(ys, a)) \div Period \in Int
  <1> DEFINE P == Period
             c == b * P
             x == Pre(ys, a + P) - Pre(ys, a)
  <1>1. P \in Nat \ {0} /\ c \in Int /\ a \in 0 .. n /\ a + P \in 0 .. n
    BY PeriodFacts
  <1>2. Pre(ys, a + P) \in Int /\ Pre(ys, a) \in Int
    BY <1>1, PreFacts
  <1>3. /\ Pre(Drifted(ys, n, b), a + P) = Pre(ys, a + P) + c * ((a + P) * ((a + P) - 1))
        /\ Pre(Drifted(ys, n, b), a) = Pre(ys, a) + c * (a * (a - 1))
    BY <1>1, DriftPre
  <1> HIDE DEF P, c
  <1>4. /\ c * ((a + P) * ((a + P) - 1)) - c * (a * (a - 1)) = P * (c * (2 * a + P - 1))
        /\ c * ((a + P) * ((a + P) - 1)) \in Int /\ c * (a * (a - 1)) \in Int
        /\ c * (2 * a + P - 1) \in Int
    BY <1>1
  <1>5. Pre(Drifted(ys, n, b), a + P) - Pre(Drifted(ys, n, b), a) = x + P * (c * (2 * a + P - 1)) /\ x \in Int
    BY <1>2, <1>3, <1>4
  <1> HIDE DEF x
  <1>6. (x + P * (c * (2 * a + P - 1))) \div P = x \div P + c * (2 * a + P - 1) /\ x \div P \in Int
    BY <1>1, <1>4, <1>5, DivShift
  <1> QED  BY <1>5, <1>6 DEF x, P, c

\* The average moves with the line: it is centred.
LEMMA DriftTrend ==
    ASSUME NEW n \in Nat, NEW ys, Ints(ys, n), NEW b \in Int, NEW i \in Valid(n)
    PROVE  /\ centredMovingAverage(Drifted(ys, n, b), n)[i] = centredMovingAverage(ys, n)[i] + b * 2 * Period * i
           /\ centredMovingAverage(ys, n)[i] \in Int
  <1> DEFINE zs == Drifted(ys, n, b)
             P == Period
             c == b * P
             MA(vs, a) == (Pre(vs, a + P) - Pre(vs, a)) \div P
  <1>1. P \in Nat \ {0} /\ c \in Int /\ half \in Nat /\ n \in Nat
    BY PeriodFacts
  <1>2. i \in 0 .. n - 1 /\ i - half \in 0 .. n - P
    BY TrendByPre
  <1>3. \A a \in 0 .. n - P : MA(zs, a) = MA(ys, a) + c * (2 * a + P - 1) /\ MA(ys, a) \in Int
    BY DriftWindow
  <1>4. b * 2 * P * i = c * (2 * i)
    BY <1>1, <1>2
  <1>5. Ints(zs, n)
    BY DriftPre
  <1>6. CASE P % 2 = 1
    <2>1. P = 2 * half + 1 /\ i + half + 1 = (i - half) + P /\ 2 * (i - half) + P - 1 = 2 * i
      BY <1>1, <1>2, <1>6, PeriodFacts
    <2>2. centredMovingAverage(ys, n)[i] = MA(ys, i - half)
      BY <1>6, <2>1, TrendByPre
    <2>3. centredMovingAverage(zs, n)[i] = MA(zs, i - half)
      BY <1>5, <1>6, <2>1, TrendByPre
    <2> HIDE DEF MA, zs, P, c
    <2>4. MA(zs, i - half) = MA(ys, i - half) + c * (2 * i) /\ MA(ys, i - half) \in Int
      BY <1>2, <1>3, <2>1
    <2> QED  BY <1>4, <2>2, <2>3, <2>4 DEF zs, P
  <1>7. CASE P % 2 # 1
    <2>1. /\ P = 2 * half /\ i - half + 1 \in 0 .. n - P
          /\ i + half = (i - half) + P /\ i + half + 1 = (i - half + 1) + P
          /\ 2 * (i - half) + P - 1 = 2 * i - 1 /\ 2 * (i - half + 1) + P - 1 = 2 * i + 1
      BY <1>1, <1>2, <1>7, PeriodFacts, TrendByPre
    <2>2. centredMovingAverage(ys, n)[i] = (MA(ys, i - half) + MA(ys, i - half + 1)) \div 2
      BY <1>7, <2>1, TrendByPre
    <2>3. centredMovingAverage(zs, n)[i] = (MA(zs, i - half) + MA(zs, i - half + 1)) \div 2
      BY <1>5, <1>7, <2>1, TrendByPre
    <2> HIDE DEF MA, zs, P, c
    <2>4. /\ MA(zs, i - half) = MA(ys, i - half) + c * (2 * i - 1) /\ MA(ys, i - half) \in Int
          /\ MA(zs, i - half + 1) = MA(ys, i - half + 1) + c * (2 * i + 1) /\ MA(ys, i - half + 1) \in Int
      BY <1>2, <1>3, <2>1
    <2> DEFINE u == MA(ys, i - half)
               v == MA(ys, i - half + 1)
    <2>5. MA(zs, i - half) + MA(zs, i - half + 1) = (u + v) + 2 * (c * (2 * i)) /\ c * (2 * i) \in Int
      <3>1. c * (2 * i - 1) + c * (2 * i + 1) = 2 * (c * (2 * i)) /\ c * (2 * i) \in Int
            /\ c * (2 * i - 1) \in Int /\ c * (2 * i + 1) \in Int
        BY <1>1, <1>2
      <3> QED  BY <2>4, <3>1
    <2>6. u + v \in Int
      BY <2>4
    <2> HIDE DEF u, v
    <2>7. ((u + v) + 2 * (c * (2 * i))) \div 2 = (u + v) \div 2 + c * (2 * i) /\ (u + v) \div 2 \in Int
      BY <2>5, <2>6
    <2> QED  BY <1>4, <2>2, <2>3, <2>5, <2>7 DEF zs, P, u, v
  <1> QED  BY <1>6, <1>7

\* The line leaves what the season is taken from, and so the season.
LEMMA DriftLeavesSeason ==
    ASSUME NEW n \in Nat, NEW ys, Ints(ys, n), NEW b \in Int, n > 0
    PROVE  /\ Decompose(Drifted(ys, n, b), n).season = Decompose(ys, n).season
           /\ Decompose(ys, n).season[n - 1] \in Int
  <1> DEFINE P == Period
             d(vs) == [i \in Valid(n) |-> vs[i] - centredMovingAverage(vs, n)[i]]
             zs == Drifted(ys, n, b)
  <1>1. P \in Nat \ {0} /\ n - 1 \in Indexes(n)
    BY PeriodFacts DEF Indexes
  <1>2. ASSUME NEW i \in Valid(n)
        PROVE  zs[i] - centredMovingAverage(zs, n)[i] = d(ys)[i] /\ d(ys)[i] \in Int /\ i \in 0 .. n - 1
    <2>1. /\ centredMovingAverage(zs, n)[i] = centredMovingAverage(ys, n)[i] + b * 2 * Period * i
          /\ centredMovingAverage(ys, n)[i] \in Int /\ i \in 0 .. n - 1
      BY DriftTrend, TrendByPre
    <2>2. zs[i] = ys[i] + b * 2 * Period * i /\ ys[i] \in Int
      BY <2>1 DEF Drifted, Indexes, Ints
    <2>3. b * 2 * Period * i \in Int
      BY <2>1, PeriodFacts
    <2> HIDE DEF zs
    <2> QED  BY <2>1, <2>2, <2>3
  <1> HIDE DEF zs
  <1>3. d(zs) = d(ys)
    BY <1>2
  <1>4. \A vs : Decompose(vs, n).season = [i \in Indexes(n) |-> periodMeans(d(vs), n)[i % P]]
    BY DEF Decompose
  <1>5. Decompose(zs, n).season = Decompose(ys, n).season
    BY <1>3, <1>4
  <1>6. Decompose(ys, n).season[n - 1] \in Int
    <2> DEFINE e == d(ys)
               raw == [ph \in Indexes(P) |->
                         IF Phase(n, ph) = {} THEN 0 ELSE mean(e, Phase(n, ph), n)]
               m == [i \in Nat |-> IF i \in Valid(n) THEN e[i] ELSE 0]
    <2>1. ASSUME NEW ph \in Indexes(P) PROVE raw[ph] \in Int
      <3>1. CASE Phase(n, ph) = {}
        BY <3>1
      <3>2. CASE Phase(n, ph) # {}
        <4>1. \A i \in Phase(n, ph) : i \in Valid(n) /\ i \in 0 .. n - 1
          BY <1>2 DEF Phase
        <4>2. Ints(m, n)
          BY <1>2 DEF Ints
        <4>3. Sum(e, Phase(n, ph), n) = Sum(m, Phase(n, ph), n)
          <5>1. \A i \in 0 .. n - 1 : i \in Phase(n, ph) => e[i] = m[i]
            BY <4>1
          <5> HIDE DEF e, m
          <5> QED  BY <5>1, SumSame
        <4>4. Sum(m, Phase(n, ph), n) \in Int
          <5> HIDE DEF m
          <5> QED  BY <4>2, SumType
        <4>5. Cardinality(Phase(n, ph)) \in Nat \ {0}
          <5>1. Phase(n, ph) \in SUBSET (0 .. n - 1) /\ IsFiniteSet(0 .. n - 1)
            BY <4>1, FS_Interval
          <5>2. IsFiniteSet(Phase(n, ph))
            BY <5>1, FS_Subset
          <5> QED  BY <3>2, <5>2, FS_EmptySet, FS_CardinalityType
        <4>6. mean(e, Phase(n, ph), n) \in Int
          <5> HIDE DEF e, m
          <5>1. 0 \in Int
            OBVIOUS
          <5> QED  BY <4>3, <4>4, <4>5, <5>1, DivShift DEF mean
        <4> QED  BY <3>2, <4>6
      <3> QED  BY <3>1, <3>2
    <2>2. periodMeans(e, n) = [ph \in Indexes(P) |-> raw[ph] - mean(raw, Indexes(P), P)]
      BY DEF periodMeans
    <2>3. mean(raw, Indexes(P), P) \in Int
      <3> HIDE DEF raw
      <3>1. Ints(raw, P) /\ P \in 0 .. P
        BY <1>1, <2>1 DEF Ints, Indexes
      <3>2. Sum(raw, Indexes(P), P) \in Int
        BY <1>1, <3>1, SumType
      <3>3. Cardinality(Indexes(P)) \in Nat \ {0}
        <4>1. IsFiniteSet(Indexes(P)) /\ 0 \in Indexes(P)
          BY <1>1, FS_Interval DEF Indexes
        <4> QED  BY <4>1, FS_EmptySet, FS_CardinalityType
      <3>4. 0 \in Int
        OBVIOUS
      <3> QED  BY <3>2, <3>3, <3>4, DivShift DEF mean
    <2>4. (n - 1) % P \in Indexes(P)
      <3>1. n - 1 \in Int /\ 0 \in Int
        OBVIOUS
      <3> HIDE DEF P
      <3> QED  BY <1>1, <3>1, DivShift DEF Indexes
    <2>5. Decompose(ys, n).season[n - 1] = periodMeans(e, n)[(n - 1) % P]
      <3> HIDE DEF e
      <3>1. Decompose(ys, n).season = [i \in Indexes(n) |-> periodMeans(e, n)[i % P]]
        BY <1>4 DEF e
      <3> QED  BY <1>1, <3>1
    <2> HIDE DEF raw, e
    <2>6. periodMeans(e, n)[(n - 1) % P] = raw[(n - 1) % P] - mean(raw, Indexes(P), P)
      BY <2>2, <2>4
    <2> QED  BY <2>1, <2>3, <2>4, <2>5, <2>6
  <1> QED  BY <1>5, <1>6 DEF zs

\* stl.go: what is left of a series without its trend and its season does not depend on
\* the straight line under it, whatever the period and the series.
THEOREM DriftLeavesResiduals ==
    ASSUME NEW n \in Nat, NEW ys, Ints(ys, n), NEW b \in Int
    PROVE  Decompose(Drifted(ys, n, b), n).residual = Decompose(ys, n).residual
  <1> DEFINE zs == Drifted(ys, n, b)
             rest(vs) == [i \in Valid(n) |-> vs[i] - centredMovingAverage(vs, n)[i]]
  <1>1. ASSUME NEW i \in Valid(n)
        PROVE  zs[i] - centredMovingAverage(zs, n)[i] = ys[i] - centredMovingAverage(ys, n)[i]
    <2>1. /\ centredMovingAverage(zs, n)[i] = centredMovingAverage(ys, n)[i] + b * 2 * Period * i
          /\ centredMovingAverage(ys, n)[i] \in Int /\ i \in 0 .. n - 1
      BY DriftTrend, TrendByPre
    <2>2. zs[i] = ys[i] + b * 2 * Period * i /\ ys[i] \in Int
      BY <2>1 DEF Drifted, Indexes, Ints
    <2>3. b * 2 * Period * i \in Int
      BY <2>1, PeriodFacts
    <2> QED  BY <2>1, <2>2, <2>3
  <1> HIDE DEF zs
  <1>2. rest(zs) = rest(ys)
    BY <1>1
  <1>3. \A vs : Decompose(vs, n).residual =
          [i \in Indexes(n) |-> IF i \in Valid(n)
                                THEN vs[i] - centredMovingAverage(vs, n)[i]
                                     - [j \in Indexes(n) |-> periodMeans(rest(vs), n)[j % Period]][i]
                                ELSE 0]
    BY DEF Decompose
  <1> DEFINE season == [j \in Indexes(n) |-> periodMeans(rest(ys), n)[j % Period]]
  <1>4. Decompose(ys, n).residual =
          [i \in Indexes(n) |-> IF i \in Valid(n) THEN ys[i] - centredMovingAverage(ys, n)[i] - season[i] ELSE 0]
    BY <1>3
  <1>5. Decompose(zs, n).residual =
          [i \in Indexes(n) |-> IF i \in Valid(n) THEN zs[i] - centredMovingAverage(zs, n)[i] - season[i] ELSE 0]
    BY <1>2, <1>3
  <1> HIDE DEF season
  <1>6. Decompose(zs, n).residual = Decompose(ys, n).residual
    BY <1>1, <1>4, <1>5
  <1> QED  BY <1>6 DEF zs

\* detector.go:123-132: Detect compares the latest point with the trend of half a period
\* before, so that the line shows in its residual, and in nothing else of the fit.
LEMMA DriftShowsInFit ==
    ASSUME NEW n \in Nat, NEW ys, Ints(ys, n), NEW b \in Int, chooseMethod(n) = "seasonal_decompose"
    PROVE  /\ Fit(Drifted(ys, n, b), n).mad = Fit(ys, n).mad
           /\ Fit(Drifted(ys, n, b), n).residual = Fit(ys, n).residual + b * 2 * Period * half
  <1> DEFINE zs == Drifted(ys, n, b)
             P == Period
             c == b * 2 * P
             i == n - half - 1
  <1>1. /\ P \in Nat \ {0, 1} /\ half \in Nat /\ half <= P - 1 /\ n >= 4 * P /\ c \in Int
        /\ i \in Valid(n) /\ i \in Nat /\ n - 1 \in Indexes(n)
    BY PeriodFacts DEF chooseMethod, Valid, Indexes
  <1>2. /\ centredMovingAverage(zs, n)[i] = centredMovingAverage(ys, n)[i] + c * i
        /\ centredMovingAverage(ys, n)[i] \in Int
    BY <1>1, DriftTrend
  <1>3. zs[n - 1] = ys[n - 1] + c * (n - 1) /\ ys[n - 1] \in Int
    BY <1>1 DEF Drifted, Indexes, Ints
  <1> HIDE DEF zs, c
  <1>4. Decompose(zs, n).residual = Decompose(ys, n).residual
    BY DriftLeavesResiduals DEF zs
  <1>5. /\ Decompose(zs, n).season = Decompose(ys, n).season
        /\ Decompose(ys, n).season[n - 1] \in Int
    BY <1>1, DriftLeavesSeason DEF zs
  <1>6. \A vs : /\ Fit(vs, n).residual
                      = vs[n - 1] - (centredMovingAverage(vs, n)[i] + Decompose(vs, n).season[n - 1])
                /\ Fit(vs, n).mad = MAD([k \in 1 .. n - 2 * half |-> Decompose(vs, n).residual[half + k - 1]])
    BY DEF Fit, Decompose
  <1>7. Fit(zs, n).mad = Fit(ys, n).mad
    BY <1>4, <1>6
  <1>8. Fit(zs, n).residual = Fit(ys, n).residual + c * half
    <2> DEFINE season == Decompose(ys, n).season[n - 1]
               trend == centredMovingAverage(ys, n)[i]
    <2>1. /\ Fit(zs, n).residual = ys[n - 1] + c * (n - 1) - (trend + c * i + season)
          /\ Fit(ys, n).residual = ys[n - 1] - (trend + season)
          /\ season \in Int /\ trend \in Int
      <3>1. /\ Fit(zs, n).residual = zs[n - 1] - (centredMovingAverage(zs, n)[i] + Decompose(zs, n).season[n - 1])
            /\ Fit(ys, n).residual = ys[n - 1] - (trend + season)
        BY <1>6
      <3>2. centredMovingAverage(zs, n)[i] = trend + c * i /\ trend \in Int
        BY <1>2
      <3>3. Decompose(zs, n).season[n - 1] = season /\ season \in Int
        BY <1>5
      <3> DEFINE rise == c * i
                 drifted == c * (n - 1)
                 at == centredMovingAverage(zs, n)[i]
                 last == zs[n - 1]
                 first == ys[n - 1]
                 rest == Decompose(zs, n).season[n - 1]
      <3>4. /\ at = trend + rise /\ last = first + drifted /\ rest = season
            /\ {rise, drifted, first, season, trend} \subseteq Int
        BY <1>1, <1>3, <3>2, <3>3
      <3>5. Fit(zs, n).residual = last - (at + rest) /\ Fit(ys, n).residual = first - (trend + season)
        BY <3>1
      <3> HIDE DEF season, trend, rise, at, drifted, last, first, rest
      <3>6. /\ Fit(zs, n).residual = first + drifted - (trend + rise + season)
            /\ Fit(ys, n).residual = first - (trend + season)
        BY <3>4, <3>5
      <3> QED  BY <3>4, <3>6 DEF rise, drifted, first
    <2>2. c * (n - 1) - c * i = c * half /\ c * (n - 1) \in Int /\ c * i \in Int
      <3>1. (n - 1) - i = half
        BY <1>1
      <3>2. c * (n - 1) - c * i = c * ((n - 1) - i)
        BY <1>1
      <3> QED  BY <1>1, <3>1, <3>2
    <2> HIDE DEF season, trend, i
    <2> QED  BY <1>1, <1>3, <2>1, <2>2
  <1> QED  BY <1>7, <1>8 DEF zs, c, P

-----------------------------------------------------------------------------
(***************************************************************************)
(* A series that repeats itself.                                           *)
(***************************************************************************)
Regular(ys, n) == Ints(ys, n) /\ \A i \in 0 .. n - Period - 1 : ys[i] = ys[i + Period]

Level(ys) == Pre(ys, Period) \div Period

\* One period later the phase is the same.
LEMMA ModShift ==
    ASSUME NEW x \in Int, NEW d \in Nat \ {0}
    PROVE  (x + d) % d = x % d
  <1>1. PICK q \in Int, r \in 0 .. d - 1 : x = d * q + r
    BY Euclid
  <1>2. x + d = d * (q + 1) + r /\ q + 1 \in Int
    BY <1>1
  <1>3. x % d = r /\ (x + d) % d = r
    BY <1>1, <1>2, EuclidUnique
  <1> QED  BY <1>3

\* Every value is that of its phase.
LEMMA ByPhase ==
    ASSUME NEW n \in Nat, NEW ys, Regular(ys, n)
    PROVE  \A i \in 0 .. n - 1 : i % Period \in 0 .. Period - 1 /\ ys[i] = ys[i % Period]
  <1> DEFINE P == Period
             Odd == {i \in 0 .. n - 1 : ~(i % P \in 0 .. P - 1 /\ ys[i] = ys[i % P])}
  <1>1. P \in Nat \ {0}
    BY PeriodFacts
  <1>2. \A i \in 0 .. n - P - 1 : ys[i] = ys[i + P]
    BY DEF Regular
  <1> HIDE DEF P
  <1> SUFFICES Odd = {}
    BY DEF P
  <1> SUFFICES ASSUME Odd # {} PROVE FALSE
    OBVIOUS
  <1>3. PICK i \in Odd : \A j \in Odd : i <= j
    <2>1. Odd \in SUBSET Nat
      OBVIOUS
    <2> HIDE DEF Odd
    <2> QED  BY <2>1, LeastOf
  <1>4. i \in 0 .. n - 1 /\ ~(i % P \in 0 .. P - 1 /\ ys[i] = ys[i % P])
    OBVIOUS
  <1>5. CASE i < P
    <2>1. i \in 0 .. P - 1
      BY <1>1, <1>4, <1>5
    <2>2. i % P = i
      BY <1>1, <1>4, <2>1, DivExact
    <2> QED  BY <1>4, <2>1, <2>2
  <1>6. CASE i >= P
    <2> DEFINE j == i - P
    <2>1. j \in 0 .. n - P - 1 /\ j \in 0 .. n - 1 /\ j < i /\ j + P = i
      BY <1>1, <1>4, <1>6
    <2> HIDE DEF j
    <2>2. j \notin Odd
      <3> HIDE DEF Odd
      <3>1. i \in Int /\ j \in Int
        BY <1>4, <2>1
      <3> QED  BY <1>3, <2>1, <3>1
    <2>3. j % P \in 0 .. P - 1 /\ ys[j] = ys[j % P]
      BY <2>1, <2>2
    <2>4. (j + P) % P = j % P
      <3>1. j \in Int
        BY <2>1
      <3> QED  BY <1>1, <3>1, ModShift
    <2>5. i % P = j % P /\ ys[i] = ys[j]
      BY <1>2, <2>1, <2>4
    <2> QED  BY <1>4, <2>3, <2>5
  <1> QED  BY <1>1, <1>4, <1>5, <1>6

\* Every window of one period has the same sum.
LEMMA RegularWindow ==
    ASSUME NEW n \in Nat, NEW ys, Regular(ys, n)
    PROVE  \A a \in 0 .. n - Period : Pre(ys, a + Period) - Pre(ys, a) = Pre(ys, Period)
  <1> SUFFICES ASSUME Period <= n
               PROVE  \A a \in 0 .. n - Period : Pre(ys, a + Period) - Pre(ys, a) = Pre(ys, Period)
    BY PeriodFacts
  <1> DEFINE P == Period
             K == {a \in 0 .. n - P : Pre(ys, a + P) - Pre(ys, a) = Pre(ys, P)}
  <1>1. P \in Nat \ {0} /\ n - P \in Nat /\ P \in 0 .. n
    BY PeriodFacts
  <1>2. Ints(ys, n)
    BY DEF Regular
  <1>3. 0 \in K
    <2>1. Pre(ys, P) \in Int /\ Pre(ys, 0) = 0 /\ 0 + P = P
      BY <1>1, <1>2, PreFacts
    <2> QED  BY <1>1, <2>1
  <1>4. ASSUME NEW a \in 0 .. n - P - 1, a \in K PROVE a + 1 \in K
    <2>1. a \in 0 .. n - 1 /\ a + P \in 0 .. n - 1 /\ (a + 1) + P = (a + P) + 1 /\ a + 1 \in 0 .. n - P
      BY <1>1
    <2>2. Pre(ys, a + 1) = Pre(ys, a) + ys[a] /\ Pre(ys, (a + P) + 1) = Pre(ys, a + P) + ys[a + P]
      BY <1>2, <2>1, PreFacts
    <2>3. ys[a] = ys[a + P] /\ ys[a] \in Int
      BY <2>1 DEF Regular, Ints
    <2>4. Pre(ys, a) \in Int /\ Pre(ys, a + P) \in Int
      <3>1. a \in 0 .. n /\ a + P \in 0 .. n
        BY <2>1
      <3> QED  BY <1>2, <3>1, PreFacts
    <2>5. Pre(ys, a + P) - Pre(ys, a) = Pre(ys, P)
      BY <1>4
    <2> HIDE DEF P
    <2>6. Pre(ys, (a + 1) + P) - Pre(ys, a + 1) = Pre(ys, P)
      BY <2>1, <2>2, <2>3, <2>4, <2>5
    <2> QED  BY <2>1, <2>6
  <1> HIDE DEF K
  <1>5. \A a \in 0 .. n - P : a \in K
    BY <1>1, <1>3, <1>4, BoundedInduction
  <1> QED  BY <1>5 DEF K

\* Its average is its level everywhere.
LEMMA RegularTrend ==
    ASSUME NEW n \in Nat, NEW ys, Regular(ys, n), NEW i \in Valid(n)
    PROVE  centredMovingAverage(ys, n)[i] = Level(ys)
  <1>1. Ints(ys, n) /\ Period \in Nat \ {0, 1} /\ half \in Nat
    BY PeriodFacts DEF Regular
  <1>2. i \in 0 .. n - 1 /\ i - half \in 0 .. n - Period
    BY <1>1, TrendByPre
  <1>3. Level(ys) \in Int
    <2>1. Pre(ys, Period) \in Int
      <3>1. Period \in 0 .. n
        BY <1>1, <1>2
      <3> QED  BY <1>1, <3>1, PreFacts
    <2>2. 0 \in Int /\ Period \in Nat \ {0}
      BY <1>1
    <2> QED  BY <2>1, <2>2, DivShift DEF Level
  <1>4. CASE Period % 2 = 1
    <2>1. i + half + 1 = (i - half) + Period
      BY <1>1, <1>2, <1>4, PeriodFacts
    <2>2. centredMovingAverage(ys, n)[i] = (Pre(ys, (i - half) + Period) - Pre(ys, i - half)) \div Period
      BY <1>1, <1>4, <2>1, TrendByPre
    <2> QED  BY <1>2, <2>2, RegularWindow DEF Level
  <1>5. CASE Period % 2 # 1
    <2>1. i + half = (i - half) + Period /\ i + half + 1 = (i - half + 1) + Period
          /\ i - half + 1 \in 0 .. n - Period
      BY <1>1, <1>2, <1>5, PeriodFacts, TrendByPre
    <2>2. centredMovingAverage(ys, n)[i] =
            ((Pre(ys, (i - half) + Period) - Pre(ys, i - half)) \div Period
             + (Pre(ys, (i - half + 1) + Period) - Pre(ys, i - half + 1)) \div Period) \div 2
      BY <1>1, <1>5, <2>1, TrendByPre
    <2>3. centredMovingAverage(ys, n)[i] = (Level(ys) + Level(ys)) \div 2
      BY <1>2, <2>1, <2>2, RegularWindow DEF Level
    <2> QED  BY <1>3, <2>3
  <1> QED  BY <1>4, <1>5

\* Less their level, the values of one period have mean zero.
LEMMA CentredMean ==
    ASSUME NEW ys, NEW zs, Ints(ys, Period), \A i \in 0 .. Period - 1 : zs[i] = ys[i] - Level(ys)
    PROVE  /\ mean(ys, Indexes(Period), Period) = Level(ys) /\ Level(ys) \in Int
           /\ mean(zs, Indexes(Period), Period) = 0
  <1> DEFINE P == Period
             M == Level(ys)
             K == {k \in 0 .. P : Pre(zs, k) = Pre(ys, k) - k * M}
  <1>1. P \in Nat \ {0} /\ P \in Nat
    BY PeriodFacts
  <1>2. Pre(ys, P) \in Int /\ M = Pre(ys, P) \div P
    BY <1>1, PreFacts DEF Level
  <1>3. M \in Int
    BY <1>1, <1>2, DivShift
  <1> HIDE DEF M
  <1>4. Ints(zs, P) /\ \A i \in 0 .. P - 1 : ys[i] \in Int /\ zs[i] = ys[i] - M
    BY <1>3 DEF Ints, M
  <1>5. 0 \in K
    <2>1. Pre(zs, 0) = 0 /\ Pre(ys, 0) = 0
      BY <1>1, <1>4, PreFacts
    <2> QED  BY <1>1, <1>3, <2>1
  <1>6. ASSUME NEW k \in 0 .. P - 1, k \in K PROVE k + 1 \in K
    <2>1. /\ Pre(zs, k + 1) = Pre(zs, k) + zs[k] /\ Pre(ys, k + 1) = Pre(ys, k) + ys[k]
          /\ Pre(ys, k) \in Int
      BY <1>1, <1>4, PreFacts
    <2>2. (k + 1) * M = k * M + M /\ k * M \in Int
      BY <1>1, <1>3
    <2>3. Pre(zs, k) = Pre(ys, k) - k * M
      BY <1>6
    <2>4. Pre(zs, k + 1) = Pre(ys, k + 1) - (k + 1) * M
      BY <1>3, <1>4, <2>1, <2>2, <2>3
    <2> QED  BY <1>1, <2>4
  <1> HIDE DEF K
  <1>7. P \in K
    BY <1>1, <1>5, <1>6, BoundedInduction
  <1>8. Pre(zs, P) = Pre(ys, P) - P * M
    BY <1>7 DEF K
  <1>9. ASSUME NEW vs, Ints(vs, P) PROVE mean(vs, Indexes(P), P) = Pre(vs, P) \div P
    <2>1. Sum(vs, 0 .. P - 1, P) = Pre(vs, P) - Pre(vs, 0)
      BY <1>1, <1>9, SumInterval
    <2>2. Pre(vs, 0) = 0 /\ Pre(vs, P) \in Int
      BY <1>1, <1>9, PreFacts
    <2>3. Cardinality(0 .. P - 1) = P
      <3>1. 0 \in Int /\ P - 1 \in Int /\ ~(0 > P - 1) /\ (P - 1) - 0 + 1 = P
        BY <1>1
      <3> HIDE DEF P
      <3> QED  BY <3>1, FS_Interval
    <2> QED  BY <2>1, <2>2, <2>3 DEF mean, Indexes
  <1>10. mean(ys, Indexes(P), P) = M /\ mean(zs, Indexes(P), P) = Pre(zs, P) \div P
    BY <1>2, <1>4, <1>9
  <1>11. (Pre(ys, P) - P * M) \div P = 0
    <2> DEFINE x == Pre(ys, P)
    <2>1. x \in Int /\ M = x \div P
      BY <1>2
    <2> HIDE DEF x, P
    <2>2. (x - P * (x \div P)) \div P = 0
      BY <1>1, <2>1, DivExact
    <2> QED  BY <2>1, <2>2 DEF x
  <1> QED  BY <1>3, <1>8, <1>10, <1>11 DEF M

\* The decomposition leaves nothing of it.
LEMMA RegularDecompose ==
    ASSUME NEW n \in Nat, n >= 4 * Period, NEW ys, Regular(ys, n)
    PROVE  LET dec == Decompose(ys, n)
           IN  /\ ys[n - 1] - (dec.trend[n - half - 1] + dec.season[n - 1]) = 0
               /\ \A i \in Valid(n) : i \in 0 .. n - 1 /\ dec.residual[i] = 0
  <1> DEFINE P == Period
             M == Level(ys)
             d == [i \in Valid(n) |-> ys[i] - centredMovingAverage(ys, n)[i]]
             raw == [ph \in Indexes(P) |->
                       IF Phase(n, ph) = {} THEN 0 ELSE mean(d, Phase(n, ph), n)]
  <1>1. /\ P \in Nat \ {0, 1} /\ half \in Nat /\ half <= P - 1 /\ n >= 4 * P
        /\ P = 2 * half \/ P = 2 * half + 1
    BY PeriodFacts
  <1>2. Ints(ys, n) /\ Ints(ys, P)
    BY <1>1 DEF Regular, Ints
  <1>3. M \in Int
    <2>1. \A i \in 0 .. P - 1 : [j \in 0 .. P - 1 |-> ys[j] - Level(ys)][i] = ys[i] - Level(ys)
      OBVIOUS
    <2> QED  BY <1>2, <2>1, CentredMean
  <1>4. \A i \in Valid(n) : d[i] = ys[i] - M /\ i \in 0 .. n - 1
    BY <1>2, RegularTrend, TrendByPre
  <1> HIDE DEF d, M
  <1>5. ASSUME NEW ph \in Indexes(P) PROVE raw[ph] = ys[ph] - M
    <2>1. ph \in 0 .. P - 1
      BY DEF Indexes
    <2>2. P + ph \in Phase(n, ph)
      <3>1. P + ph \in Valid(n)
        BY <1>1, <2>1 DEF Valid
      <3>a. ph \in Int /\ ph + P = P + ph
        BY <1>1, <2>1
      <3>2. ph \in Int /\ ph % P = ph /\ ph + P = P + ph
        BY <1>1, <2>1, <3>a, DivExact
      <3>3. (ph + P) % P = ph % P
        BY <1>1, <3>2, ModShift
      <3> QED  BY <3>1, <3>2, <3>3 DEF Phase
    <2>3. \A i \in Phase(n, ph) : d[i] = ys[ph] - M
      <3> SUFFICES ASSUME NEW i \in Phase(n, ph) PROVE d[i] = ys[ph] - M
        OBVIOUS
      <3>1. i \in Valid(n) /\ i % P = ph
        BY DEF Phase
      <3>2. d[i] = ys[i] - M /\ i \in 0 .. n - 1
        BY <1>4, <3>1
      <3> QED  BY <3>1, <3>2, ByPhase
    <2>4. Phase(n, ph) \in SUBSET (0 .. n - 1)
      BY <1>4 DEF Phase
    <2>5. ys[ph] - M \in Int
      BY <1>2, <1>3, <2>1 DEF Ints
    <2>6. mean(d, Phase(n, ph), n) = ys[ph] - M
      BY <2>2, <2>3, <2>4, <2>5, MeanConstant
    <2> QED  BY <2>2, <2>6
  <1> HIDE DEF raw
  <1>6. mean(raw, Indexes(P), P) = 0
    BY <1>2, <1>5, CentredMean DEF Indexes, M
  <1>7. periodMeans(d, n) = [ph \in Indexes(P) |-> raw[ph] - mean(raw, Indexes(P), P)]
    BY DEF periodMeans, raw
  <1>8. \A ph \in 0 .. P - 1 : periodMeans(d, n)[ph] = ys[ph] - M
    <2> SUFFICES ASSUME NEW ph \in 0 .. P - 1 PROVE periodMeans(d, n)[ph] = ys[ph] - M
      OBVIOUS
    <2>1. ph \in Indexes(P) /\ ys[ph] - M \in Int
      BY <1>2, <1>3 DEF Ints, Indexes
    <2>2. periodMeans(d, n)[ph] = raw[ph] - 0
      BY <1>6, <1>7, <2>1
    <2> QED  BY <1>5, <2>1, <2>2
  <1>9. Decompose(ys, n).trend[n - half - 1] = M
    <2>1. n - half - 1 \in Valid(n)
      BY <1>1 DEF Valid
    <2>2. Decompose(ys, n).trend = centredMovingAverage(ys, n)
      BY DEF Decompose
    <2> QED  BY <2>1, <2>2, RegularTrend DEF M
  <1>10. Decompose(ys, n).season[n - 1] = ys[n - 1] - M
    <2>1. n - 1 \in 0 .. n - 1 /\ n - 1 \in Indexes(n)
      BY <1>1 DEF Indexes
    <2>2. Decompose(ys, n).season = [i \in Indexes(n) |-> periodMeans(d, n)[i % P]]
      BY DEF Decompose, d
    <2>3. Decompose(ys, n).season[n - 1] = periodMeans(d, n)[(n - 1) % P]
      BY <2>1, <2>2
    <2>4. (n - 1) % P \in 0 .. P - 1 /\ ys[n - 1] = ys[(n - 1) % P]
      BY <2>1, ByPhase
    <2> QED  BY <1>8, <2>3, <2>4
  <1>11. ys[n - 1] \in Int
    BY <1>1, <1>2 DEF Ints
  <1>12. ys[n - 1] - (M + (ys[n - 1] - M)) = 0
    BY <1>3, <1>11
  <1>13. ASSUME NEW i \in Valid(n) PROVE Decompose(ys, n).residual[i] = 0
    <2>1. i \in 0 .. n - 1 /\ i \in Indexes(n)
      BY <1>4 DEF Indexes
    <2>2. i % P \in 0 .. P - 1 /\ ys[i] = ys[i % P] /\ ys[i] \in Int
      BY <1>2, <2>1, ByPhase DEF Ints
    <2>3. periodMeans(d, n)[i % P] = ys[i] - M /\ centredMovingAverage(ys, n)[i] = M
      BY <1>8, <2>2, RegularTrend DEF M
    <2>4. Decompose(ys, n).residual =
            [j \in Indexes(n) |-> IF j \in Valid(n)
                                  THEN ys[j] - centredMovingAverage(ys, n)[j]
                                       - [k \in Indexes(n) |-> periodMeans(d, n)[k % P]][j]
                                  ELSE 0]
      BY DEF Decompose, d
    <2>5. Decompose(ys, n).residual[i] = ys[i] - centredMovingAverage(ys, n)[i] - periodMeans(d, n)[i % P]
      BY <2>1, <2>4
    <2>6. ys[i] - M - (ys[i] - M) = 0
      BY <1>3, <2>2
    <2> QED  BY <2>3, <2>5, <2>6
  <1> QED  BY <1>4, <1>9, <1>10, <1>12, <1>13

\* A weighted mean of a value with itself.
LEMMA BlendSame == ASSUME NEW w \in Int, NEW x \in Int PROVE Blend(w, x, x) = x
  <1>1. Den \in Nat \ {0}
    BY DetectorAssumption DEF DetectorAssumption
  <1>2. w * x + (Den - w) * x = Den * x
    BY <1>1
  <1>3. (Den * x) \div Den = x
    BY <1>1, DivExact
  <1> QED  BY <1>2, <1>3 DEF Blend

\* The smoothed state a series that repeats itself keeps from one period to the next.
Steady(ys, u) ==
    [level |-> Level(ys), trend |-> 0, seasonals |-> [ph \in Indexes(Period) |-> ys[ph] - Level(ys)],
     inSample |-> ys[u]]

LEMMA SteadyStart ==
    ASSUME NEW n \in Nat, n >= 2 * Period, NEW ys, Regular(ys, n)
    PROVE  HWStart(ys) = Steady(ys, Period - 1) /\ Level(ys) \in Int
  <1> DEFINE P == Period
             M == Level(ys)
             out == [i \in Indexes(P) |-> (ys[i] + ys[P + i]) \div 2]
             slope == [i \in Indexes(P) |-> (ys[P + i] - ys[i]) \div P]
             less == [i \in Indexes(P) |-> ys[i] - M]
  <1>1. P \in Nat \ {0, 1} /\ n >= 2 * P
    BY PeriodFacts
  <1>2. ASSUME NEW i \in 0 .. P - 1 PROVE ys[i] \in Int /\ ys[P + i] = ys[i]
    <2>1. i \in 0 .. n - P - 1 /\ i \in 0 .. n - 1 /\ i + P = P + i
      BY <1>1
    <2> QED  BY <2>1 DEF Regular, Ints
  <1>3. Ints(ys, P)
    BY <1>2 DEF Ints
  <1>4. mean(ys, Indexes(P), P) = M /\ M \in Int /\ mean(less, Indexes(P), P) = 0
    <2>1. \A i \in 0 .. P - 1 : less[i] = ys[i] - Level(ys)
      BY DEF Indexes
    <2> HIDE DEF less
    <2> QED  BY <1>3, <2>1, CentredMean
  <1>5. ASSUME NEW i \in 0 .. P - 1 PROVE out[i] = ys[i] /\ slope[i] = 0
    <2>1. out[i] = (ys[i] + ys[i]) \div 2 /\ slope[i] = (ys[i] - ys[i]) \div P
      BY <1>2 DEF Indexes
    <2>2. ys[i] \in Int /\ ys[i] - ys[i] = 0 /\ (ys[i] + ys[i]) \div 2 = ys[i]
      BY <1>2
    <2>3. 0 \div P = 0
      BY <1>1, DivExact
    <2> HIDE DEF out, slope
    <2> QED  BY <2>1, <2>2, <2>3
  <1> HIDE DEF out, slope, less
  <1>6. mean(out, Indexes(P), P) = M
    <2>1. Sum(out, Indexes(P), P) = Sum(ys, Indexes(P), P)
      BY <1>1, <1>5, SumSame
    <2> QED  BY <1>4, <2>1 DEF mean
  <1>7. mean(slope, Indexes(P), P) = 0
    <2>1. 0 \in Indexes(P) /\ Indexes(P) \in SUBSET (0 .. P - 1) /\ \A i \in Indexes(P) : slope[i] = 0
      BY <1>1, <1>5 DEF Indexes
    <2> QED  BY <1>1, <2>1, MeanConstant
  <1>8. initialTrend(ys) = 0
    BY <1>7 DEF initialTrend, slope
  <1>9. initialAdditiveSeasonals(ys) = [ph \in Indexes(P) |-> ys[ph] - M]
    <2>1. initialAdditiveSeasonals(ys) = [i \in Indexes(P) |-> out[i] - mean(out, Indexes(P), P)]
      BY DEF initialAdditiveSeasonals, out
    <2>2. \A i \in Indexes(P) : out[i] = ys[i]
      BY <1>5 DEF Indexes
    <2> QED  BY <1>6, <2>1, <2>2
  <1> QED  BY <1>4, <1>8, <1>9 DEF HWStart, Steady, M

LEMMA SteadyStep ==
    ASSUME NEW n \in Nat, n >= 2 * Period, NEW ys, Regular(ys, n), NEW i \in Period .. n - 1
    PROVE  HWStep(Steady(ys, i - 1), i, ys[i]) = Steady(ys, i)
  <1> DEFINE P == Period
             M == Level(ys)
             seasonals == [ph \in Indexes(P) |-> ys[ph] - M]
             p == Steady(ys, i - 1)
             level == Blend(Alpha, ys[i] - Season(p.seasonals, i), p.level + p.trend)
  <1>1. P \in Nat \ {0, 1} /\ i \in 0 .. n - 1 /\ {Alpha, Beta, Gamma} \subseteq Int
    <2>1. {Alpha, Beta, Gamma} \subseteq 1 .. Den - 1
      BY DetectorAssumption DEF DetectorAssumption
    <2> QED  BY <2>1, PeriodFacts
  <1>2. M \in Int
    BY SteadyStart
  <1>3. i % P \in 0 .. P - 1 /\ ys[i] = ys[i % P] /\ ys[i] \in Int
    BY <1>1, ByPhase DEF Regular, Ints
  <1>4. p = [level |-> M, trend |-> 0, seasonals |-> seasonals, inSample |-> ys[i - 1]]
    BY DEF Steady
  <1>5. p.level = M /\ p.trend = 0 /\ p.seasonals = seasonals
    BY <1>4
  <1>6. Season(p.seasonals, i) = ys[i] - M
    <2>1. seasonals[i % P] = ys[i % P] - M
      BY <1>3 DEF Indexes
    <2> QED  BY <1>3, <1>5, <2>1 DEF Season
  <1> HIDE DEF M, p, seasonals
  <1>7. level = M
    <2>1. ys[i] - (ys[i] - M) = M /\ M + 0 = M
      BY <1>2, <1>3
    <2>2. Blend(Alpha, M, M) = M
      BY <1>1, <1>2, BlendSame
    <2> QED  BY <1>5, <1>6, <2>1, <2>2
  <1>8. Blend(Beta, level - p.level, p.trend) = 0
    <2>1. M - M = 0
      BY <1>2
    <2>2. Blend(Beta, 0, 0) = 0
      BY <1>1, BlendSame
    <2> HIDE DEF level
    <2> QED  BY <1>5, <1>7, <2>1, <2>2
  <1>9. Blend(Gamma, ys[i] - level, Season(p.seasonals, i)) = ys[i] - M
    <2>1. ys[i] - M \in Int
      BY <1>2, <1>3
    <2>2. Blend(Gamma, ys[i] - M, ys[i] - M) = ys[i] - M
      BY <1>1, <2>1, BlendSame
    <2> HIDE DEF level
    <2> QED  BY <1>6, <1>7, <2>2
  <1>10. [p.seasonals EXCEPT ![i % P] = ys[i] - M] = seasonals
    <2>1. seasonals[i % P] = ys[i] - M /\ seasonals = [ph \in Indexes(P) |-> seasonals[ph]]
      BY <1>3 DEF seasonals, Indexes
    <2> QED  BY <1>5, <2>1
  <1>11. p.level + p.trend + Season(p.seasonals, i) = ys[i]
    <2>1. M + 0 + (ys[i] - M) = ys[i]
      BY <1>2, <1>3
    <2> QED  BY <1>5, <1>6, <2>1
  <1>12. HWStep(p, i, ys[i]) =
           [level |-> level, trend |-> Blend(Beta, level - p.level, p.trend),
            seasonals |-> [p.seasonals EXCEPT ![i % P] = Blend(Gamma, ys[i] - level, Season(p.seasonals, i))],
            inSample |-> p.level + p.trend + Season(p.seasonals, i)]
    BY DEF HWStep
  <1> HIDE DEF level
  <1>13. HWStep(p, i, ys[i]) = [level |-> M, trend |-> 0, seasonals |-> seasonals, inSample |-> ys[i]]
    BY <1>7, <1>8, <1>9, <1>10, <1>11, <1>12
  <1> QED  BY <1>13 DEF p, M, seasonals, Steady

\* The one-step forecasts of such a series are its values.
LEMMA RegularHoltWinters ==
    ASSUME NEW n \in Nat, n >= 2 * Period, NEW ys, Regular(ys, n)
    PROVE  \A u \in Period - 1 .. n - 1 : HoltWinters(ys, n)[u] = ys[u]
  <1> DEFINE P == Period
             D == P - 1 .. n - 1
             Recurs(f) == f = [u \in D |-> IF u = P - 1 THEN HWStart(ys) ELSE HWStep(f[u - 1], u, ys[u])]
             fit == CHOOSE f : Recurs(f)
             K == {k \in 0 .. n - P : fit[P - 1 + k] = Steady(ys, P - 1 + k)}
             g == [u \in D |-> Steady(ys, u)]
  <1>1. P \in Nat \ {0, 1} /\ n >= 2 * P /\ n - P \in Nat
    BY PeriodFacts
  <1>2. Recurs(g)
    <2>1. ASSUME NEW u \in D
          PROVE  g[u] = IF u = P - 1 THEN HWStart(ys) ELSE HWStep(g[u - 1], u, ys[u])
      <3>1. CASE u = P - 1
        BY <3>1, SteadyStart
      <3>2. CASE u # P - 1
        <4>1. u \in P .. n - 1 /\ u - 1 \in D
          BY <1>1, <3>2
        <4>2. g[u - 1] = Steady(ys, u - 1) /\ g[u] = Steady(ys, u)
          BY <4>1
        <4> HIDE DEF g
        <4> QED  BY <3>2, <4>1, <4>2, SteadyStep
      <3> QED  BY <3>1, <3>2
    <2>2. g = [u \in D |-> g[u]]
      OBVIOUS
    <2> HIDE DEF g, D
    <2> QED  BY <2>1, <2>2
  <1>3. Recurs(fit)
    <2> HIDE DEF g, Recurs
    <2> QED  BY <1>2
  <1>4. fit[P - 1] = HWStart(ys) /\ \A u \in P .. n - 1 : fit[u] = HWStep(fit[u - 1], u, ys[u])
    <2> HIDE DEF fit
    <2>1. \A u \in D : fit[u] = IF u = P - 1 THEN HWStart(ys) ELSE HWStep(fit[u - 1], u, ys[u])
      BY <1>3
    <2>2. P - 1 \in D /\ \A u \in P .. n - 1 : u \in D /\ u # P - 1
      BY <1>1
    <2> HIDE DEF D
    <2> QED  BY <2>1, <2>2
  <1> HIDE DEF fit
  <1>5. 0 \in K
    <2>1. P - 1 + 0 = P - 1
      BY <1>1
    <2> QED  BY <1>1, <1>4, <2>1, SteadyStart
  <1>6. ASSUME NEW k \in 0 .. n - P - 1, k \in K PROVE k + 1 \in K
    <2> DEFINE u == P - 1 + (k + 1)
    <2>1. u \in P .. n - 1 /\ u - 1 = P - 1 + k /\ k + 1 \in 0 .. n - P
      BY <1>1
    <2> HIDE DEF u
    <2>2. fit[u] = HWStep(Steady(ys, u - 1), u, ys[u])
      BY <1>4, <1>6, <2>1
    <2>3. fit[u] = Steady(ys, u)
      BY <2>1, <2>2, SteadyStep
    <2> QED  BY <2>1, <2>3 DEF u
  <1> HIDE DEF K
  <1>7. \A k \in 0 .. n - P : k \in K
    BY <1>1, <1>5, <1>6, BoundedInduction
  <1>8. ASSUME NEW u \in P - 1 .. n - 1 PROVE fit[u] = Steady(ys, u)
    <2>1. u - (P - 1) \in 0 .. n - P /\ P - 1 + (u - (P - 1)) = u
      BY <1>1
    <2>2. u - (P - 1) \in K
      BY <1>7, <2>1
    <2> QED  BY <2>1, <2>2 DEF K
  <1>9. HoltWinters(ys, n) = [u \in Indexes(n) |-> IF u < P THEN ys[u] ELSE fit[u].inSample]
    BY DEF HoltWinters, fit
  <1> TAKE u \in P - 1 .. n - 1
  <1>10. u \in Indexes(n)
    BY <1>1 DEF Indexes
  <1>11. fit[u].inSample = ys[u]
    <2>1. fit[u] = Steady(ys, u)
      BY <1>8
    <2>2. Steady(ys, u).inSample = ys[u]
      BY DEF Steady
    <2> QED  BY <2>1, <2>2
  <1> QED  BY <1>9, <1>10, <1>11

\* Nothing but zeros has no spread.
LEMMA MADOfZeros ==
    ASSUME NEW m \in Nat, NEW xs, xs = [k \in 1 .. m |-> 0]
    PROVE  MAD(xs) = 0
  <1> DEFINE zeros == [k \in 1 .. m |-> 0]
  <1>1. DOMAIN zeros = 1 .. m /\ Len(zeros) = m /\ \A i \in 1 .. m : zeros[i] = 0
    OBVIOUS
  <1>2. ASSUME NEW k \in 1 .. m PROVE Sorted(zeros)[k] = 0
    <2>1. /\ {i \in 1 .. m : zeros[i] < 0} = {} /\ {i \in 1 .. m : zeros[i] <= 0} = 1 .. m
          /\ Range(zeros) = {0}
      BY <1>1, <1>2 DEF Range
    <2>2. Cardinality({}) = 0 /\ Cardinality(1 .. m) = m
      <3>1. Cardinality({}) = 0
        BY FS_EmptySet
      <3>2. ~(1 > m) /\ m - 1 + 1 = m
        BY <1>2
      <3> QED  BY <3>1, <3>2, FS_Interval
    <2> HIDE DEF zeros
    <2> DEFINE at(x) == /\ Cardinality({i \in DOMAIN zeros : zeros[i] < x}) < k
                        /\ Cardinality({i \in DOMAIN zeros : zeros[i] <= x}) >= k
    <2>3. at(0)
      <3>1. /\ {i \in DOMAIN zeros : zeros[i] < 0} = {}
            /\ {i \in DOMAIN zeros : zeros[i] <= 0} = 1 .. m
        BY <1>1, <2>1
      <3>2. 0 < k /\ m >= k
        BY <1>2
      <3> QED  BY <2>2, <3>1, <3>2
    <2>4. Sorted(zeros)[k] = CHOOSE x \in Range(zeros) : at(x)
      BY <1>1 DEF Sorted
    <2> HIDE DEF at
    <2>5. (CHOOSE x \in Range(zeros) : at(x)) \in Range(zeros)
      BY <2>1, <2>3
    <2> QED  BY <2>1, <2>4, <2>5
  <1> HIDE DEF zeros
  <1>3. median(zeros) = 0
    <2>1. CASE m = 0
      BY <1>1, <2>1 DEF median
    <2>2. CASE m # 0 /\ m % 2 = 1
      <3>1. m \div 2 + 1 \in 1 .. m
        BY <2>2
      <3>2. median(zeros) = Sorted(zeros)[m \div 2 + 1]
        BY <1>1, <2>2 DEF median
      <3> QED  BY <1>2, <3>1, <3>2
    <2>3. CASE m # 0 /\ m % 2 # 1
      <3>1. m \div 2 \in 1 .. m /\ m \div 2 + 1 \in 1 .. m
        BY <2>3
      <3>2. median(zeros) = (Sorted(zeros)[m \div 2] + Sorted(zeros)[m \div 2 + 1]) \div 2
        BY <1>1, <2>3 DEF median
      <3>3. Sorted(zeros)[m \div 2] = 0 /\ Sorted(zeros)[m \div 2 + 1] = 0
        BY <1>2, <3>1
      <3>4. (0 + 0) \div 2 = 0
        OBVIOUS
      <3> QED  BY <3>2, <3>3, <3>4
    <2> QED  BY <2>1, <2>2, <2>3
  <1>4. [i \in DOMAIN zeros |-> Abs(zeros[i] - 0)] = zeros
    BY <1>1 DEF Abs, zeros
  <1>5. MAD(zeros) = median([i \in DOMAIN zeros |-> Abs(zeros[i] - median(zeros))])
    BY DEF MAD
  <1>6. MAD(zeros) = 0
    BY <1>3, <1>4, <1>5
  <1> QED  BY <1>6 DEF zeros

\* detector.go, stl.go, holtwinters.go: in exact numbers neither method leaves a residual of
\* a series that repeats itself, nor a MAD, whatever the period, the smoothing parameters
\* and the values. What float64 then calls their ratio is all rounding.
THEOREM RegularFitsExactly ==
    ASSUME NEW n \in Nat, NEW ys, Regular(ys, n), chooseMethod(n) # "insufficient_data"
    PROVE  Fit(ys, n).residual = 0 /\ Fit(ys, n).mad = 0
  <1>1. /\ n \in Nat /\ Period \in Nat \ {0, 1} /\ half \in Nat
        /\ n >= 2 * Period /\ half <= Period
    BY PeriodFacts DEF chooseMethod
  <1>2. \A i \in 0 .. n - 1 : ys[i] \in Int
    BY DEF Regular, Ints
  <1>3. CASE chooseMethod(n) = "holt_winters"
    <2> DEFINE inSample == HoltWinters(ys, n)
               rest == [k \in 1 .. n - Period |-> ys[Period + k - 1] - inSample[Period + k - 1]]
    <2>1. \A u \in Period - 1 .. n - 1 : u \in 0 .. n - 1 /\ inSample[u] = ys[u]
      <3>1. \A u \in Period - 1 .. n - 1 : u \in 0 .. n - 1
        BY <1>1
      <3> QED  BY <1>1, <3>1, RegularHoltWinters
    <2>2. /\ Fit(ys, n).residual = ys[n - 1] - inSample[n - 1]
          /\ Fit(ys, n).mad = MAD(rest)
      BY <1>3 DEF Fit
    <2> HIDE DEF inSample
    <2>3. ys[n - 1] - inSample[n - 1] = 0
      <3>1. n - 1 \in Period - 1 .. n - 1
        BY <1>1
      <3> QED  BY <1>2, <2>1, <3>1
    <2>4. rest = [k \in 1 .. n - Period |-> 0]
      <3>1. ASSUME NEW k \in 1 .. n - Period PROVE ys[Period + k - 1] - inSample[Period + k - 1] = 0
        <4>1. Period + k - 1 \in Period - 1 .. n - 1
          BY <1>1
        <4> QED  BY <1>2, <2>1, <4>1
      <3> QED  BY <3>1
    <2>5. n - Period \in Nat
      BY <1>1
    <2> QED  BY <2>2, <2>3, <2>4, <2>5, MADOfZeros
  <1>4. CASE chooseMethod(n) = "seasonal_decompose"
    <2> DEFINE dec == Decompose(ys, n)
               rest == [k \in 1 .. n - 2 * half |-> dec.residual[half + k - 1]]
    <2>1. n >= 4 * Period
      BY <1>1, <1>4 DEF chooseMethod
    <2>2. /\ ys[n - 1] - (dec.trend[n - half - 1] + dec.season[n - 1]) = 0
          /\ \A i \in Valid(n) : dec.residual[i] = 0
      BY <2>1, RegularDecompose
    <2>3. /\ Fit(ys, n).residual = ys[n - 1] - (dec.trend[n - half - 1] + dec.season[n - 1])
          /\ Fit(ys, n).mad = MAD(rest)
      BY <1>4 DEF Fit
    <2> HIDE DEF dec
    <2>4. rest = [k \in 1 .. n - 2 * half |-> 0]
      <3>1. ASSUME NEW k \in 1 .. n - 2 * half PROVE dec.residual[half + k - 1] = 0
        <4>1. half + k - 1 \in Valid(n)
          BY <1>1 DEF Valid
        <4> QED  BY <2>2, <4>1
      <3> QED  BY <3>1
    <2>5. n - 2 * half \in Nat
      BY <1>1, <2>1
    <2> QED  BY <2>2, <2>3, <2>4, <2>5, MADOfZeros
  <1>5. chooseMethod(n) \in {"insufficient_data", "holt_winters", "seasonal_decompose"}
    BY DEF chooseMethod
  <1> QED  BY <1>3, <1>4, <1>5

-----------------------------------------------------------------------------
(***************************************************************************)
(* The types, and the verdict that is to be written: it is one of the      *)
(* detector's, of a point no later than now.                               *)
(***************************************************************************)
Point == [at : Nat, value : Int]

Shape ==
    /\ TypeOK
    /\ history \in [Tests -> Seq(Point)]
    /\ rows \in [Tests -> Verdict]
    /\ row.at <= now

Covered(at) == \E i \in DOMAIN Windows : at \in Windows[i].start .. Windows[i].end - 1

Sound(v) ==
    /\ Covered(v.at) => v.severity \in {"none", "watch"}
    /\ v.suppressed => Covered(v.at)

SoundInv == Sound(row) /\ \A u \in Tests : Sound(rows[u])

\* The test being evaluated is one of those listed.
LEMMA TestListed ==
    ASSUME listed \subseteq Tests, listed # {}
    PROVE  t \in listed /\ t \in Tests
<1>1. listed \subseteq Nat
  BY AnomalyAssumption DEF AnomalyAssumption
<1>2. \E x \in listed : \A y \in listed : x <= y
  BY <1>1, LeastOf
<1> QED BY <1>2 DEF t, Min

\* The test stays the same where the list does.
LEMMA SameTest == ASSUME listed' = listed PROVE t' = t
BY DEF t

\* The series of a test is the end of its history: its last point is the last one.
LEMMA SeriesEnd ==
    ASSUME Shape, NEW u \in Tests
    PROVE  /\ Series(u) \in Seq(Point)
           /\ Series(u) # <<>> => Series(u)[Len(Series(u))].at \in 1 .. now
<1> DEFINE h == history[u]
           early == {i \in DOMAIN h : h[i].at <= now - Window}
           old == Cardinality(early)
<1>1. h \in Seq(Point) /\ \A i \in DOMAIN h : h[i].at \in 1 .. now
  BY DEF Shape, TypeOK
<1>2. Series(u) = SubSeq(h, old + 1, Len(h))
  BY DEF Series
<1>3. Len(h) \in Nat /\ DOMAIN h = 1 .. Len(h)
  BY <1>1
<1>4. old \in Nat
  <2>1. early \in SUBSET (1 .. Len(h))
    BY <1>3
  <2>2. IsFiniteSet(1 .. Len(h))
    BY <1>3, FS_Interval
  <2> HIDE DEF early
  <2>3. IsFiniteSet(early)
    BY <2>1, <2>2, FS_Subset
  <2> QED BY <2>3, FS_CardinalityType
<1> HIDE DEF h, old
<1>a. /\ SubSeq(h, old + 1, Len(h)) \in Seq(Point)
      /\ Len(SubSeq(h, old + 1, Len(h))) = IF old + 1 <= Len(h) THEN Len(h) - (old + 1) + 1 ELSE 0
      /\ \A i \in 1 .. Len(h) - (old + 1) + 1 : SubSeq(h, old + 1, Len(h))[i] = h[old + 1 + i - 1]
  <2>1. \A i \in 1 .. Len(h) : h[i] \in Point
    BY <1>1, ElementOfSeq
  <2>2. \A i \in old + 1 .. Len(h) : h[i] \in Point
    BY <1>3, <1>4, <2>1
  <2> QED BY <1>3, <1>4, <2>2, SubSeqProperties
<1> DEFINE s == Series(u)
<1>b. s \in Seq(Point)
  BY <1>2, <1>a
<1> SUFFICES ASSUME s # <<>> PROVE s[Len(s)].at \in 1 .. now
  BY <1>b
<1>5. s \in Seq(Point) /\ s # <<>> /\ (Len(s) = IF old + 1 <= Len(h) THEN Len(h) - (old + 1) + 1 ELSE 0)
  BY <1>2, <1>a
<1>6. \A i \in 1 .. Len(h) - (old + 1) + 1 : s[i] = h[old + 1 + i - 1]
  BY <1>2, <1>a
<1> HIDE DEF s
<1>7. Len(s) \in Nat \ {0}
  BY <1>5, EmptySeq
<1>8. Len(s) = Len(h) - old /\ old + 1 + Len(s) - 1 = Len(h) /\ Len(h) \in 1 .. Len(h)
  <2>1. CASE old + 1 <= Len(h)
    BY <1>3, <1>4, <1>5, <2>1
  <2>2. CASE ~(old + 1 <= Len(h))
    BY <1>5, <1>7, <2>2
  <2> QED BY <2>1, <2>2
<1>9. s[Len(s)] = h[Len(h)] /\ Len(h) \in DOMAIN h
  <2> DEFINE k == Len(s)
             m == Len(h)
  <2>0. k \in Nat \ {0} /\ m \in Nat /\ k = m - old
    BY <1>3, <1>7, <1>8
  <2> HIDE DEF k, m
  <2>a. k \in 1 .. m - (old + 1) + 1
    BY <1>4, <2>0
  <2>1. Len(s) \in 1 .. Len(h) - (old + 1) + 1
    BY <2>a DEF k, m
  <2>2. s[Len(s)] = h[old + 1 + Len(s) - 1]
    BY <1>6, <2>1
  <2> QED BY <1>3, <1>8, <2>2
<1> QED BY <1>1, <1>9

-----------------------------------------------------------------------------
(***************************************************************************)
(* The types.                                                              *)
(***************************************************************************)

\* Any verdict of a series is one, of its last point, and sound (Suppresses in detector.go).
LEMMA DetectOK ==
    ASSUME NEW s, s[Len(s)].at \in Nat, NEW v \in Detect(s)
    PROVE  v \in Verdict /\ v.at = s[Len(s)].at /\ Sound(v)
<1> DEFINE n == Len(s)
           suppressed == Suppresses(s[n].at)
           method == chooseMethod(n)
           verdict(severity) ==
             [method |-> method, suppressed |-> suppressed, at |-> s[n].at,
              severity |-> IF suppressed /\ severity \in {"anomaly", "critical"} THEN "watch" ELSE severity]
<1>1. suppressed \in BOOLEAN
  BY DEF Suppresses
<1>2. suppressed <=> Covered(s[n].at)
  <2>1. \A i \in DOMAIN Windows : s[n].at \in Windows[i].start .. Windows[i].end - 1
                                    <=> Windows[i].start <= s[n].at /\ s[n].at < Windows[i].end
    BY WindowsShape
  <2> QED BY <2>1, SuppressesIsCoverage DEF Covered
<1>3. method \in Methods
  BY DEF chooseMethod, Methods
<1>4. CASE method = "insufficient_data"
  <2>1. v = [method |-> "insufficient_data", severity |-> "none", suppressed |-> FALSE, at |-> s[n].at]
    BY <1>4 DEF Detect
  <2>2. s[n].at \in Nat
    OBVIOUS
  <2> HIDE DEF n
  <2> QED BY <2>1, <2>2 DEF Verdict, Sound, Severities, Methods, n
<1>5. CASE method # "insufficient_data"
  <2>1. \E g \in Fits(Values(s), n) : v = verdict(classifySeverity(Abs(g.residual), g.mad))
    BY <1>5 DEF Detect
  <2>2. PICK severity \in Severities : v = verdict(severity)
    <3>1. \A r, m : classifySeverity(r, m) \in Severities
      BY DEF classifySeverity, Severities
    <3> HIDE DEF verdict
    <3> QED BY <2>1, <3>1
  <2>3. s[n].at \in Nat
    OBVIOUS
  <2> HIDE DEF n, suppressed, method
  <2>4. CASE suppressed /\ severity \in {"anomaly", "critical"}
    <3>1. v = [method |-> method, suppressed |-> TRUE, at |-> s[n].at, severity |-> "watch"]
      BY <1>1, <2>2, <2>4
    <3>2. "watch" \in Severities /\ Covered(s[n].at)
      BY <1>2, <2>4 DEF Severities
    <3> QED BY <1>3, <2>3, <3>1, <3>2 DEF Verdict, Sound, n
  <2>5. CASE ~(suppressed /\ severity \in {"anomaly", "critical"})
    <3>1. v = [method |-> method, suppressed |-> suppressed, at |-> s[n].at, severity |-> severity]
      BY <2>2, <2>5
    <3>2. suppressed => severity \in {"none", "watch"}
      BY <2>5 DEF Severities
    <3> QED BY <1>1, <1>2, <1>3, <2>3, <3>1, <3>2 DEF Verdict, Sound, n
  <2> QED BY <2>4, <2>5
<1> QED BY <1>4, <1>5

LEMMA NoRowOK == NoRow \in Verdict /\ NoRow.at = 0 /\ NoRow.severity = "none" /\ ~NoRow.suppressed
BY DEF NoRow, Verdict, Methods, Severities

\* The steps that end the evaluation of the test.
LEMMA DoneShape ==
    ASSUME Shape, Done, pc # "idle", UNCHANGED <<now, catalog>>,
           rows' \in [Tests -> Verdict], \A u \in Tests : rows'[u].at <= now,
           announced' \in [Tests -> Severities], missed' \subseteq Tests
    PROVE  Shape'
<1>1. /\ pc' = (IF listed = {t} THEN "idle" ELSE "series") /\ listed' = listed \ {t}
      /\ row' = NoRow /\ prev' = "none"
  BY DEF Done
<1>2. t \in listed
  BY TestListed DEF Shape, TypeOK
<1>3. now \in Nat
  BY DEF Shape, TypeOK
<1>4. \A u \in Tests : rows'[u] \in Verdict
  OBVIOUS
<1> QED BY <1>1, <1>2, <1>3, <1>4, NoRowOK DEF Shape, TypeOK, catalog, Severities

\* The row that is written is a verdict, and what was announced a severity.
LEMMA StoredShape ==
    ASSUME Shape, Stored, pc # "idle"
    PROVE  /\ rows' \in [Tests -> Verdict] /\ \A u \in Tests : rows'[u].at <= now
           /\ announced' \in [Tests -> Severities]
<1>1. /\ rows' = [rows EXCEPT ![t] = row]
      /\ announced' = [announced EXCEPT ![t] = IF row.severity = "none" THEN "none" ELSE @]
  BY DEF Stored
<1>2. t \in Tests /\ row \in Verdict /\ row.at <= now
  BY TestListed DEF Shape, TypeOK
<1> QED BY <1>1, <1>2 DEF Shape, TypeOK, Severities

LEMMA ShapeInit == ASSUME Init PROVE Shape /\ SoundInv
<1>1. /\ now = 0 /\ history = [u \in Tests |-> <<>>] /\ enabled = Tests
      /\ rows = [u \in Tests |-> NoRow] /\ pc = "idle" /\ listed = {} /\ row = NoRow
      /\ prev = "none" /\ announced = [u \in Tests |-> "none"] /\ missed = {}
  BY DEF Init
<1>2. <<>> \in Seq(Point) /\ DOMAIN <<>> = {}
  OBVIOUS
<1>3. 0 \in 0 .. MaxTime
  BY AnomalyAssumption DEF AnomalyAssumption
<1>4. history \in [Tests -> Seq(Point)] /\ rows \in [Tests -> Verdict]
  BY <1>1, <1>2, NoRowOK
<1>5. \A u \in Tests : DOMAIN history[u] = {} /\ rows[u] \in Verdict /\ rows[u].at = 0
  BY <1>1, <1>2, NoRowOK
<1>6. TypeOK
  BY <1>1, <1>3, <1>5, NoRowOK DEF TypeOK, Severities
<1> QED BY <1>1, <1>4, <1>6, NoRowOK DEF Shape, SoundInv, Sound

\* Another bucket of results.
LEMMA BucketShape == ASSUME Shape, Bucket PROVE Shape'
<1>1. /\ now < MaxTime /\ now' = now + 1 /\ UNCHANGED <<enabled, rows, process, announced, missed>>
      /\ \E h \in [Tests -> Levels] :
           history' = [u \in Tests |-> Append(history[u], [at |-> now + 1, value |-> h[u]])]
  BY DEF Bucket
<1>2. PICK h \in [Tests -> Levels] :
        history' = [u \in Tests |-> Append(history[u], [at |-> now + 1, value |-> h[u]])]
  BY <1>1
<1>3. now \in Nat /\ now' \in 0 .. MaxTime
  BY <1>1, AnomalyAssumption DEF AnomalyAssumption, Shape, TypeOK
<1>4. ASSUME NEW u \in Tests
      PROVE  /\ history'[u] \in Seq(Point)
             /\ \A i \in DOMAIN history'[u] : history'[u][i].at \in 1 .. now' /\ history'[u][i].value \in Levels
  <2> DEFINE new == [at |-> now + 1, value |-> h[u]]
             old == history[u]
  <2>1. history'[u] = Append(old, new)
    BY <1>2
  <2>a. h[u] \in Levels
    OBVIOUS
  <2>b. Levels \subseteq Int
    BY AnomalyAssumption DEF AnomalyAssumption
  <2>c. h[u] \in Int
    BY <2>a, <2>b, Zenon
  <2>d. now + 1 \in Nat
    BY <1>3
  <2>2. new \in Point /\ new.at = now + 1 /\ new.value \in Levels
    BY <2>a, <2>c, <2>d DEF Point
  <2>3. /\ old \in Seq(Point)
        /\ \A i \in DOMAIN old : old[i].at \in 1 .. now /\ old[i].value \in Levels
    BY DEF Shape, TypeOK
  <2> HIDE DEF new, old, Point
  <2>4. /\ Append(old, new) \in Seq(Point) /\ Len(old) \in Nat
        /\ DOMAIN Append(old, new) = 1 .. Len(old) + 1 /\ DOMAIN old = 1 .. Len(old)
        /\ \A i \in 1 .. Len(old) : Append(old, new)[i] = old[i]
        /\ Append(old, new)[Len(old) + 1] = new
    BY <2>2, <2>3, AppendProperties, LenProperties
  <2>5. ASSUME NEW i \in 1 .. Len(old) + 1
        PROVE  Append(old, new)[i].at \in 1 .. now' /\ Append(old, new)[i].value \in Levels
    <3>1. CASE i \in 1 .. Len(old)
      BY <1>1, <1>3, <2>3, <2>4, <3>1
    <3>2. CASE i = Len(old) + 1
      BY <1>1, <1>3, <2>2, <2>4, <3>2
    <3> QED BY <2>4, <3>1, <3>2
  <2> QED BY <2>1, <2>4, <2>5
<1>5. history' \in [Tests -> Seq(Point)]
  <2>1. history' = [u \in Tests |-> history'[u]]
    BY <1>2
  <2> QED BY <1>4, <2>1
<1>6. UNCHANGED <<enabled, rows, pc, listed, row, prev, announced, missed>>
  BY <1>1 DEF process
<1>7. \A u \in Tests : rows'[u].at <= now'
  <2>1. \A u \in Tests : rows[u].at \in Nat /\ rows[u].at <= now
    BY DEF Shape, TypeOK, Verdict
  <2> QED BY <1>1, <1>3, <1>6, <2>1
<1>8. row'.at <= now'
  <2>1. row.at \in Nat /\ row.at <= now
    BY DEF Shape, TypeOK, Verdict
  <2> QED BY <1>1, <1>3, <1>6, <2>1
<1> QED BY <1>3, <1>4, <1>5, <1>6, <1>7, <1>8 DEF Shape, TypeOK

\* What the detector is asked, it answers of the last point there is.
LEMMA EvaluateShape == ASSUME Shape, EvaluateOne PROVE Shape' /\ Sound(row')
<1>1. /\ pc = "series" /\ pc' = "get"
      /\ row' \in IF Series(t) = <<>> THEN {[NoRow EXCEPT !.at = now]} ELSE Detect(Series(t))
      /\ UNCHANGED <<now, history, enabled, rows, listed, prev, announced, missed>>
  BY DEF EvaluateOne, catalog
<1>2. t \in listed /\ t \in Tests
  BY <1>1, TestListed DEF Shape, TypeOK
<1>3. row' \in Verdict /\ row'.at <= now /\ Sound(row')
  <2>1. CASE Series(t) = <<>>
    <3>1. row' = [method |-> "insufficient_data", severity |-> "none", suppressed |-> FALSE, at |-> now]
      BY <1>1, <2>1 DEF NoRow
    <3>2. now \in Nat
      BY DEF Shape, TypeOK
    <3> QED BY <3>1, <3>2 DEF Verdict, Methods, Severities, Sound
  <2>2. CASE Series(t) # <<>>
    <3> DEFINE s == Series(t)
    <3>1. s[Len(s)].at \in 1 .. now /\ now \in Nat
      BY <1>2, <2>2, SeriesEnd DEF Shape, TypeOK
    <3>2. row' \in Detect(s)
      BY <1>1, <2>2
    <3> HIDE DEF s
    <3>3. s[Len(s)].at \in Nat /\ s[Len(s)].at <= now
      BY <3>1
    <3> QED BY <3>2, <3>3, DetectOK
  <2> QED BY <2>1, <2>2
<1>4. listed' # {} /\ pc' # "idle"
  BY <1>1, <1>2
<1> QED BY <1>1, <1>3, <1>4 DEF Shape, TypeOK

\* Every step keeps the types.
LEMMA ShapeStep == ASSUME Shape, Next \/ UNCHANGED vars PROVE Shape'
<1>1. CASE Bucket
  BY <1>1, BucketShape
<1>2. CASE Gap
  <2>1. now < MaxTime /\ now' = now + 1 /\ UNCHANGED <<history, enabled, rows, pc, listed, row, prev, announced, missed>>
    BY <1>2 DEF Gap, catalog, process
  <2>2. now \in Nat /\ now' \in 0 .. MaxTime
    BY <2>1, AnomalyAssumption DEF AnomalyAssumption, Shape, TypeOK
  <2>3. \A u \in Tests : rows'[u].at <= now'
    <3>1. \A u \in Tests : rows[u].at \in Nat /\ rows[u].at <= now
      BY DEF Shape, TypeOK, Verdict
    <3> QED BY <2>1, <2>2, <3>1
  <2>4. row'.at <= now'
    <3>1. row.at \in Nat /\ row.at <= now
      BY DEF Shape, TypeOK, Verdict
    <3> QED BY <2>1, <2>2, <3>1
  <2>5. \A k : k \in 1 .. now => k \in 1 .. now'
    BY <2>1, <2>2
  <2> QED BY <2>1, <2>2, <2>3, <2>4, <2>5 DEF Shape, TypeOK
<1>3. CASE \E u \in Tests : Disable(u)
  <2>1. enabled' \subseteq enabled /\ UNCHANGED <<now, history, rows, pc, listed, row, prev, announced, missed>>
    BY <1>3 DEF Disable, process
  <2> QED BY <2>1 DEF Shape, TypeOK
<1>4. CASE ListEnabledTests
  <2>1. /\ enabled # {} /\ listed' = enabled /\ pc' = "series"
        /\ UNCHANGED <<now, history, enabled, rows, row, prev, announced, missed>>
    BY <1>4 DEF ListEnabledTests, catalog
  <2> QED BY <2>1 DEF Shape, TypeOK
<1>5. CASE EvaluateOne
  BY <1>5, EvaluateShape
<1>6. CASE SeriesFails \/ UpsertVerdictFails
  <2>1. /\ Done /\ pc # "idle" /\ UNCHANGED <<now, catalog>>
        /\ \/ UNCHANGED <<rows, announced, missed>>
           \/ Stored /\ missed' = IF Transition THEN missed \cup {t} ELSE missed
    BY <1>6 DEF SeriesFails, UpsertVerdictFails
  <2>2. t \in Tests /\ missed \subseteq Tests
    BY <2>1, TestListed DEF Shape, TypeOK
  <2>3. /\ rows' \in [Tests -> Verdict] /\ \A u \in Tests : rows'[u].at <= now
        /\ announced' \in [Tests -> Severities]
    <3>1. CASE UNCHANGED <<rows, announced, missed>>
      BY <3>1 DEF Shape, TypeOK
    <3>2. CASE Stored
      BY <2>1, <3>2, StoredShape
    <3> QED BY <2>1, <3>1, <3>2
  <2>4. missed' \subseteq Tests
    BY <2>1, <2>2
  <2> QED BY <2>1, <2>3, <2>4, DoneShape
<1>7. CASE GetVerdict \/ GetVerdictFails
  <2>1. /\ pc = "get" /\ pc' = "upsert" /\ prev' \in {"none", rows[t].severity}
        /\ UNCHANGED <<now, history, enabled, rows, listed, row, announced, missed>>
    BY <1>7 DEF GetVerdict, GetVerdictFails, catalog
  <2>2. t \in listed /\ t \in Tests
    BY <2>1, TestListed DEF Shape, TypeOK
  <2>3. prev' \in Severities
    BY <2>1, <2>2 DEF Shape, TypeOK, Verdict, Severities
  <2> QED BY <2>1, <2>2, <2>3 DEF Shape, TypeOK
<1>8. CASE UpsertVerdict
  <2>1. /\ pc = "upsert" /\ pc' = "log" /\ Stored
        /\ UNCHANGED <<now, history, enabled, listed, row, prev, missed>>
    BY <1>8 DEF UpsertVerdict, catalog
  <2>2. /\ rows' \in [Tests -> Verdict] /\ \A u \in Tests : rows'[u] \in Verdict /\ rows'[u].at <= now
        /\ announced' \in [Tests -> Severities]
    BY <2>1, StoredShape
  <2> QED BY <2>1, <2>2 DEF Shape, TypeOK
<1>9. CASE LogTransition
  <2>1. /\ pc = "log" /\ Done /\ UNCHANGED <<now, catalog, rows>>
        /\ announced' = IF Transition THEN [announced EXCEPT ![t] = row.severity] ELSE announced
        /\ missed' = IF Transition THEN missed \ {t} ELSE missed
    BY <1>9 DEF LogTransition
  <2>2. row.severity \in Severities
    BY DEF Shape, TypeOK, Verdict
  <2>3. /\ announced' \in [Tests -> Severities] /\ missed' \subseteq Tests
        /\ rows' \in [Tests -> Verdict] /\ \A u \in Tests : rows'[u].at <= now
    BY <2>1, <2>2 DEF Shape, TypeOK
  <2> QED BY <2>1, <2>3, DoneShape
<1>10. CASE Crash
  <2>1. /\ pc # "idle" /\ pc' = "idle" /\ listed' = {} /\ row' = NoRow /\ prev' = "none"
        /\ missed' = IF pc = "log" /\ Transition THEN missed \cup {t} ELSE missed
        /\ UNCHANGED <<now, history, enabled, rows, announced>>
    BY <1>10 DEF Crash, catalog
  <2>2. t \in Tests /\ now \in Nat
    BY <2>1, TestListed DEF Shape, TypeOK
  <2> QED BY <2>1, <2>2, NoRowOK DEF Shape, TypeOK, Severities
<1>11. CASE UNCHANGED vars
  BY <1>11 DEF vars, Shape, TypeOK
<1> QED BY <1>1, <1>2, <1>3, <1>4, <1>5, <1>6, <1>7, <1>8, <1>9, <1>10, <1>11 DEF Next

\* No step stores, or gets ready to store, an unsound verdict.
LEMMA SoundStep == ASSUME Shape, SoundInv, Next \/ UNCHANGED vars PROVE SoundInv'
<1>1. CASE EvaluateOne
  <2>1. Sound(row') /\ rows' = rows
    BY <1>1, EvaluateShape DEF EvaluateOne
  <2> QED BY <2>1 DEF SoundInv
<1>2. CASE Stored /\ row' \in {row, NoRow}
  <2>1. rows' = [rows EXCEPT ![t] = row]
    BY <1>2 DEF Stored
  <2>2. \A u \in Tests : rows'[u] \in {rows[u], row}
    BY <2>1 DEF Shape
  <2>3. Sound(NoRow)
    BY NoRowOK DEF Sound
  <2> QED BY <1>2, <2>2, <2>3 DEF SoundInv
<1>3. CASE rows' = rows /\ row' \in {row, NoRow}
  <2>1. Sound(NoRow)
    BY NoRowOK DEF Sound
  <2> QED BY <1>3, <2>1 DEF SoundInv
<1>4. Bucket \/ Gap \/ (\E u \in Tests : Disable(u)) \/ UNCHANGED vars => rows' = rows /\ row' = row
  BY DEF Bucket, Gap, Disable, vars, process
<1>5. ListEnabledTests \/ GetVerdict \/ GetVerdictFails => rows' = rows /\ row' = row
  BY DEF ListEnabledTests, GetVerdict, GetVerdictFails
<1>6. SeriesFails \/ LogTransition \/ Crash => rows' = rows /\ row' = NoRow
  BY DEF SeriesFails, LogTransition, Crash, Done
<1>7. UpsertVerdict => Stored /\ row' = row
  BY DEF UpsertVerdict
<1>8. UpsertVerdictFails => (rows' = rows \/ Stored) /\ row' = NoRow
  BY DEF UpsertVerdictFails, Done
<1> QED BY <1>1, <1>2, <1>3, <1>4, <1>5, <1>6, <1>7, <1>8 DEF Next

\* The evaluator's state has its types, a stored verdict is of a point that has been, and a
\* tick is over exactly when no test is left.
THEOREM TypeCorrect == Spec => []TypeOK
<1>1. Init => Shape
  BY ShapeInit
<1>2. Shape /\ [Next]_vars => Shape'
  BY ShapeStep
<1>3. Shape => TypeOK
  BY DEF Shape
<1> QED BY <1>1, <1>2, <1>3, PTL DEF Spec

\* types.go:83-86: nothing above watch is ever stored of a point that a window of the
\* calendar covers, and no verdict says suppressed of one that none covers: for any calendar.
THEOREM CoveredStaysBelow == Spec => []SuppressedStaysBelow
<1>1. Init => Shape /\ SoundInv
  BY ShapeInit
<1>2. Shape /\ SoundInv /\ [Next]_vars => (Shape /\ SoundInv)'
  BY ShapeStep, SoundStep
<1>3. SoundInv => SuppressedStaysBelow
  BY DEF SoundInv, Sound, Covered, SuppressedStaysBelow
<1> QED BY <1>1, <1>2, <1>3, PTL DEF Spec

-----------------------------------------------------------------------------
(***************************************************************************)
(* What the detector says of the series of the store.                      *)
(***************************************************************************)
LEMMA SeriesValues ==
    ASSUME Shape, NEW u \in Tests
    PROVE  /\ Len(Series(u)) \in Nat /\ (Series(u) # <<>> => Len(Series(u)) \in Nat \ {0})
           /\ \A i \in 1 .. Len(Series(u)) : Series(u)[i].value \in Int
           /\ Ints(Values(Series(u)), Len(Series(u)))
<1> DEFINE s == Series(u)
<1>1. s \in Seq(Point)
  BY SeriesEnd
<1> HIDE DEF s
<1>2. Len(s) \in Nat /\ (s # <<>> => Len(s) \in Nat \ {0})
  BY <1>1, EmptySeq
<1>3. \A i \in 1 .. Len(s) : s[i] \in Point
  BY <1>1, ElementOfSeq
<1>4. \A i \in 1 .. Len(s) : s[i].value \in Int
  BY <1>3 DEF Point
<1>5. Ints(Values(s), Len(s))
  <2> SUFFICES ASSUME NEW i \in 0 .. Len(s) - 1 PROVE Values(s)[i] \in Int
    BY DEF Ints
  <2>1. i + 1 \in 1 .. Len(s) /\ i \in Indexes(Len(s))
    BY <1>2 DEF Indexes
  <2>2. Values(s)[i] = s[i + 1].value
    BY <2>1 DEF Values
  <2> QED BY <1>4, <2>1, <2>2
<1> QED BY <1>2, <1>4, <1>5 DEF s

\* Of a series that repeats itself exactly, whatever the period, the smoothing parameters
\* and the values, both what the detector takes for the residual and what it takes for the
\* MAD are rounding (detector.go:136-139): the severity is that of their ratio.
THEOREM RegularSeriesLeaveRounding == Spec => []RegularIsRounding
<1>1. Init => Shape
  BY ShapeInit
<1>2. Shape /\ [Next]_vars => Shape'
  BY ShapeStep
<1>3. Shape => RegularIsRounding
  <2> SUFFICES ASSUME Shape, NEW u \in Tests, chooseMethod(Len(Series(u))) # "insufficient_data",
                      \A i \in 1 .. Len(Series(u)) - Period : Series(u)[i].value = Series(u)[i + Period].value,
                      NEW f \in Fits(Values(Series(u)), Len(Series(u)))
               PROVE  f.residual \in -Noise .. Noise /\ f.mad \in 0 .. Noise
    BY DEF RegularIsRounding
  <2> DEFINE s == Series(u)
             n == Len(s)
             ys == Values(s)
  <2>1. n \in Nat /\ Ints(ys, n) /\ chooseMethod(n) # "insufficient_data" /\ f \in Fits(ys, n)
    BY SeriesValues
  <2>2. Regular(ys, n)
    <3> SUFFICES ASSUME NEW i \in 0 .. n - Period - 1 PROVE ys[i] = ys[i + Period]
      BY <2>1 DEF Regular
    <3> DEFINE k == i + 1
    <3>1. /\ k \in 1 .. n - Period /\ i \in Indexes(n) /\ i + Period \in Indexes(n)
          /\ k + Period = (i + Period) + 1
      BY <2>1, PeriodFacts DEF Indexes
    <3>2. s[k].value = s[k + Period].value
      BY <3>1
    <3>3. ys[i] = s[k].value /\ ys[i + Period] = s[(i + Period) + 1].value
      BY <3>1 DEF Values
    <3> QED BY <3>1, <3>2, <3>3
  <2> HIDE DEF n, ys
  <2>3. Fit(ys, n).residual = 0 /\ Fit(ys, n).mad = 0
    BY <2>1, <2>2, RegularFitsExactly
  <2>4. Noise \in Nat
    BY DetectorAssumption DEF DetectorAssumption
  <2>5. f \in [residual : 0 - Noise .. 0 + Noise, mad : 0 - Noise .. 0 + Noise] /\ f.mad >= 0
    BY <2>1, <2>3 DEF Fits
  <2> QED BY <2>4, <2>5
<1> QED BY <1>1, <1>2, <1>3, PTL DEF Spec

\* detector.go:123-132 with stl.go: a straight line under a series leaves the MAD as it is
\* and adds to the latest residual what it rises by in half a period, for any period, slope
\* and series: the edge, and only the edge, mistakes a drift for an anomaly.
THEOREM DriftShowsAtTheEdge == Spec => []DriftShowsHalfAPeriod
<1>1. Init => Shape
  BY ShapeInit
<1>2. Shape /\ [Next]_vars => Shape'
  BY ShapeStep
<1>3. Shape => DriftShowsHalfAPeriod
  <2> SUFFICES ASSUME Shape, pc = "series", chooseMethod(Len(Series(t))) = "seasonal_decompose",
                      NEW b \in {-1, 2}
               PROVE  LET n == Len(Series(t))
                          ys == Values(Series(t))
                          f == Fit(ys, n)
                          g == Fit([i \in Indexes(n) |-> ys[i] + b * 2 * Period * i], n)
                      IN  g.mad = f.mad /\ g.residual = f.residual + b * 2 * Period * half
    BY DEF DriftShowsHalfAPeriod
  <2> DEFINE n == Len(Series(t))
             ys == Values(Series(t))
  <2>0. t \in Tests
    BY TestListed DEF Shape, TypeOK
  <2>1. n \in Nat /\ Ints(ys, n) /\ b \in Int /\ chooseMethod(n) = "seasonal_decompose"
    BY <2>0, SeriesValues
  <2> HIDE DEF n, ys
  <2>2. /\ Fit(Drifted(ys, n, b), n).mad = Fit(ys, n).mad
        /\ Fit(Drifted(ys, n, b), n).residual = Fit(ys, n).residual + b * 2 * Period * half
    BY <2>1, DriftShowsInFit
  <2> QED BY <2>2 DEF Drifted, n, ys
<1> QED BY <1>1, <1>2, <1>3, PTL DEF Spec

-----------------------------------------------------------------------------
(***************************************************************************)
(* The log. What the evaluator takes for the last severity is the stored   *)
(* one or none, so that where it sees no transition the stored severity    *)
(* had been announced or missed before.                                    *)
(***************************************************************************)
Memory ==
    /\ pc = "upsert" => prev \in {"none", rows[t].severity}
    /\ pc = "log" => /\ rows[t] = row
                     /\ \/ Transition
                        \/ row.severity \in {"none", announced[t]}
                        \/ t \in missed

IInv == Shape /\ Memory /\ TransitionsAnnounced

LEMMA InvInit == ASSUME Init PROVE IInv
<1>1. Shape
  BY ShapeInit
<1>2. \A u \in Tests : rows[u].severity = "none"
  BY DEF Init, NoRow
<1> QED BY <1>1, <1>2 DEF Init, IInv, Memory, TransitionsAnnounced

\* Every step keeps the invariant.
LEMMA InvStep == ASSUME IInv, Next \/ UNCHANGED vars PROVE IInv'
<1>0. Shape'
  BY ShapeStep DEF IInv
<1>1. CASE UNCHANGED <<rows, process, announced, missed>>
  <2>1. t' = t
    BY <1>1, SameTest DEF process
  <2>2. Transition' = Transition
    BY <1>1 DEF Transition, process
  <2> QED BY <1>0, <1>1, <2>1, <2>2 DEF IInv, Memory, TransitionsAnnounced, process
<1>2. CASE /\ pc \in {"idle", "series", "upsert"} /\ pc' \in {"idle", "series", "get"}
           /\ UNCHANGED <<rows, announced, missed>>
  BY <1>0, <1>2 DEF IInv, Memory, TransitionsAnnounced
<1>a. ListEnabledTests \/ EvaluateOne \/ SeriesFails
      => /\ pc \in {"idle", "series", "upsert"} /\ pc' \in {"idle", "series", "get"}
         /\ UNCHANGED <<rows, announced, missed>>
  BY DEF ListEnabledTests, EvaluateOne, SeriesFails, Done
<1>3. CASE GetVerdict \/ GetVerdictFails
  <2>1. pc = "get" /\ pc' = "upsert" /\ prev' \in {"none", rows[t].severity}
        /\ UNCHANGED <<rows, listed, announced, missed>>
    BY <1>3 DEF GetVerdict, GetVerdictFails
  <2>2. t' = t
    BY <2>1, SameTest
  <2> QED BY <1>0, <2>1, <2>2 DEF IInv, Memory, TransitionsAnnounced
<1>b. ASSUME pc = "upsert", Stored
      PROVE  /\ t \in Tests
             /\ \A u \in Tests : rows'[u] = IF u = t THEN row ELSE rows[u]
             /\ \A u \in Tests \ {t} : announced'[u] = announced[u]
             /\ Transition \/ row.severity \in {"none", announced'[t]} \/ t \in missed
  <2>1. /\ rows' = [rows EXCEPT ![t] = row]
        /\ announced' = [announced EXCEPT ![t] = IF row.severity = "none" THEN "none" ELSE @]
    BY <1>b DEF Stored
  <2>2. t \in Tests
    BY <1>b, TestListed DEF IInv, Shape, TypeOK
  <2>3. rows = [u \in Tests |-> rows[u]] /\ announced = [u \in Tests |-> announced[u]]
    BY DEF IInv, Shape, TypeOK
  <2>4. /\ \A u \in Tests : rows'[u] = IF u = t THEN row ELSE rows[u]
        /\ \A u \in Tests \ {t} : announced'[u] = announced[u]
        /\ row.severity # "none" => announced'[t] = announced[t]
    BY <2>1, <2>2, <2>3
  <2>5. rows[t].severity \in {"none", announced[t]} \/ t \in missed
    BY <1>b, <2>2 DEF IInv, TransitionsAnnounced
  <2>6. prev \in {"none", rows[t].severity}
    BY <1>b DEF IInv, Memory
  <2> QED BY <2>2, <2>4, <2>5, <2>6 DEF Transition
<1>4. CASE UpsertVerdict
  <2>1. pc = "upsert" /\ pc' = "log" /\ Stored /\ UNCHANGED <<listed, row, prev, missed>>
    BY <1>4 DEF UpsertVerdict
  <2>2. t' = t /\ Transition' = Transition
    BY <2>1, SameTest DEF Transition
  <2>3. Memory'
    BY <1>b, <2>1, <2>2 DEF Memory
  <2>4. TransitionsAnnounced'
    BY <1>b, <2>1, <2>2 DEF IInv, TransitionsAnnounced
  <2> QED BY <1>0, <2>3, <2>4 DEF IInv
<1>c. CASE UpsertVerdictFails
  <2>1. pc = "upsert" /\ pc' \in {"idle", "series"}
    BY <1>c DEF UpsertVerdictFails, Done
  <2>2. CASE UNCHANGED <<rows, announced, missed>>
    BY <1>2, <2>1, <2>2
  <2>3. CASE Stored /\ missed' = IF Transition THEN missed \cup {t} ELSE missed
    <3>1. ASSUME NEW u \in Tests PROVE rows'[u].severity \in {"none", announced'[u]} \/ u \in missed'
      <4>1. CASE u = t
        BY <1>b, <2>1, <2>3, <4>1
      <4>2. CASE u # t
        <5>1. rows'[u] = rows[u] /\ announced'[u] = announced[u]
          BY <1>b, <2>1, <2>3, <4>2
        <5> QED BY <2>1, <2>3, <5>1 DEF IInv, TransitionsAnnounced
      <4> QED BY <4>1, <4>2
    <3> QED BY <1>0, <2>1, <3>1 DEF IInv, Memory, TransitionsAnnounced
  <2> QED BY <1>c, <2>2, <2>3 DEF UpsertVerdictFails
<1>5. CASE LogTransition
  <2>1. /\ pc = "log" /\ pc' \in {"idle", "series"} /\ rows' = rows
        /\ announced' = IF Transition THEN [announced EXCEPT ![t] = row.severity] ELSE announced
        /\ missed' = IF Transition THEN missed \ {t} ELSE missed
    BY <1>5 DEF LogTransition, Done
  <2>2. announced = [u \in Tests |-> announced[u]]
    BY DEF IInv, Shape, TypeOK
  <2>3. rows[t] = row /\ (Transition \/ row.severity \in {"none", announced[t]} \/ t \in missed)
    BY <2>1 DEF IInv, Memory
  <2>4. ASSUME NEW u \in Tests PROVE rows[u].severity \in {"none", announced'[u]} \/ u \in missed'
    <3>1. CASE u = t
      <4>1. Transition => announced'[t] = row.severity
        BY <2>1, <2>2, <3>1
      <4> QED BY <2>1, <2>3, <3>1, <4>1
    <3>2. CASE u # t
      <4>1. announced'[u] = announced[u]
        BY <2>1, <2>2, <3>2
      <4> QED BY <2>1, <3>2, <4>1 DEF IInv, TransitionsAnnounced
    <3> QED BY <3>1, <3>2
  <2> QED BY <1>0, <2>1, <2>4 DEF IInv, Memory, TransitionsAnnounced
<1>6. CASE Crash
  <2>1. /\ pc' = "idle" /\ UNCHANGED <<rows, announced>>
        /\ missed' = IF pc = "log" /\ Transition THEN missed \cup {t} ELSE missed
    BY <1>6 DEF Crash
  <2>2. ASSUME NEW u \in Tests PROVE rows[u].severity \in {"none", announced'[u]} \/ u \in missed'
    <3>1. CASE pc = "log" /\ u = t
      BY <2>1, <3>1 DEF IInv, Memory
    <3>2. CASE ~(pc = "log" /\ u = t)
      BY <2>1, <3>2 DEF IInv, TransitionsAnnounced
    <3> QED BY <3>1, <3>2
  <2> QED BY <1>0, <2>1, <2>2 DEF IInv, Memory, TransitionsAnnounced
<1>7. Bucket \/ Gap \/ (\E u \in Tests : Disable(u)) \/ UNCHANGED vars
      => UNCHANGED <<rows, process, announced, missed>>
  BY DEF Bucket, Gap, Disable, vars, process
<1> QED BY <1>1, <1>2, <1>3, <1>4, <1>5, <1>6, <1>7, <1>a, <1>c DEF Next

\* A severity that is stored was logged (recordTransition), for every test, through failed
\* reads and writes and tests paused and deleted, save where the evaluator was kept from
\* the log after the commit: by a crash, or by a write that came back as an error.
THEOREM EveryTransitionAnnounced == Spec => []TransitionsAnnounced
<1>1. Init => IInv
  BY InvInit
<1>2. IInv /\ [Next]_vars => IInv'
  BY InvStep
<1>3. IInv => TransitionsAnnounced
  BY DEF IInv
<1> QED BY <1>1, <1>2, <1>3, PTL DEF Spec
=============================================================================
