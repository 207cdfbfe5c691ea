----------------------- MODULE NetQLCompletionProofs ------------------------
(***************************************************************************)
(* What Suggest offers, the parser does not refuse: of every query and for any*)
(* registry and words, a query with an offered word behind it is parsed, or is*)
(* only too short. A parse that stops within the query never sees the word put*)
(* behind it; one that gets to the end of the query is followed through the*)
(* functions of the recursive descent, from the token they look at to the  *)
(* clauses of Parse, and then it is compared with what Suggest reads off the*)
(* last tokens of the query.                                               *)
(***************************************************************************)
EXTENDS NetQLProofs

\* t is s with the word w typed behind it.
Extends(s, w, t) ==
    /\ Len(t) = Len(s) + 1 /\ t[Len(s) + 1] = w
    /\ \A i \in 1 .. Len(s) : t[i] = s[i]

\* A parse r of s from p takes words of the set only; and rt, of the longer t, is the same
\* unless r got to the end of s.
Takes(s, p, r, set) == InPlace(s, p, r) /\ \A i \in p .. r.pos - 1 : s[i] \in set
Settled(s, r, rt) == r.pos <= Len(s) => rt = r
Steady(s, p, r, rt, set) == Takes(s, p, r, set) /\ Settled(s, r, rt)

\* What is appended is the last word.
LEMMA ExtendsBy ==
    ASSUME NEW s \in Seq(STRING), NEW w \in STRING
    PROVE  Append(s, w) \in Seq(STRING) /\ Extends(s, w, Append(s, w))
  <1>1. ASSUME NEW S, NEW q \in Seq(S), NEW e \in S
        PROVE  Append(q, e) \in Seq(S) /\ Len(Append(q, e)) = Len(q) + 1 /\ Append(q, e)[Len(q) + 1] = e
    BY AppendProperties
  <1>2. Append(s, w) \in Seq(STRING)
    BY <1>1
  <1>3. Len(Append(s, w)) = Len(s) + 1
    BY <1>1
  <1>4. Append(s, w)[Len(s) + 1] = w
    BY <1>1
  <1>5. \A i \in 1 .. Len(s) : Append(s, w)[i] = s[i]
    OBVIOUS
  <1> QED  BY <1>2, <1>3, <1>4, <1>5, Zenon DEF Extends

\* What the parser sees of a query with one word more.
LEMMA ExtendsSees ==
    ASSUME NEW s \in Seq(STRING), NEW w, NEW t \in Seq(STRING), Extends(s, w, t)
    PROVE  /\ Len(s) \in Nat /\ Len(t) = Len(s) + 1
           /\ \A p \in Places(s) : p \in Places(t) /\ p + 1 \in Places(t)
           /\ Len(s) + 1 \in Places(s) /\ Len(s) + 2 \in Places(t)
           /\ \A p \in Places(s) : p <= Len(s) => /\ p \in Nat /\ 1 <= p /\ p + 1 \in Places(s) /\ t[p] = s[p]
                                                  /\ peek(t, p) = peek(s, p) /\ kind(t, p) = kind(s, p)
           /\ peek(t, Len(s) + 1) = w /\ kind(t, Len(s) + 1) = next(w) /\ t[Len(s) + 1] = w
           /\ peek(t, Len(s) + 2) = "EOF" /\ kind(t, Len(s) + 2) = "EOF"
           /\ \A p \in Places(s) : ~(p <= Len(s)) => p = Len(s) + 1
  BY DEF Extends, Places, peek, kind

\* A place behind the start of a parse, up to its end.
LEMMA TakesLast ==
    ASSUME NEW s \in Seq(STRING), NEW p \in Places(s), NEW r, NEW set, Takes(s, p, r, set)
    PROVE  /\ r.pos \in Places(s) /\ r.pos \in Nat /\ p <= r.pos /\ r.pos <= Len(s) + 1 /\ r.ok \in BOOLEAN
           /\ ~(r.pos <= Len(s)) => r.pos = Len(s) + 1
           /\ r.pos = Len(s) + 1 /\ p <= Len(s) => s[Len(s)] \in set
           /\ r.pos = Len(s) + 1 /\ p <= Len(s) - 1 => s[Len(s) - 1] \in set
  BY DEF Takes, InPlace, Places

\* expect looks at one token.
LEMMA ExpectSteady ==
    ASSUME NEW s \in Seq(STRING), NEW w, NEW t \in Seq(STRING), Extends(s, w, t),
           NEW p \in Places(s), NEW kinds, NEW set, Tells(kinds, set)
    PROVE  /\ Steady(s, p, expect(s, p, kinds), expect(t, p, kinds), set)
           /\ p <= Len(s) => expect(t, p, kinds) = expect(s, p, kinds)
           /\ p = Len(s) + 1 => /\ expect(s, p, kinds) = ParseError(p)
                                /\ expect(t, p, kinds) = IF w \in set THEN Parsed(p + 1, w) ELSE ParseError(p)
  <1>1. p \in Nat /\ 1 <= p /\ Len(s) \in Nat /\ p <= Len(s) + 1
    BY DEF Places
  <1>2. expect(s, p, kinds) = IF p <= Len(s) /\ s[p] \in set THEN Parsed(p + 1, s[p]) ELSE ParseError(p)
    BY <1>1, Expect
  <1>3. expect(t, p, kinds) = IF p <= Len(t) /\ t[p] \in set THEN Parsed(p + 1, t[p]) ELSE ParseError(p)
    BY <1>1, Expect
  <1>4. p <= Len(s) => expect(t, p, kinds) = expect(s, p, kinds)
    BY <1>1, <1>2, <1>3 DEF Extends
  <1>5. p = Len(s) + 1 => /\ expect(s, p, kinds) = ParseError(p)
                          /\ expect(t, p, kinds) = IF w \in set THEN Parsed(p + 1, w) ELSE ParseError(p)
    BY <1>1, <1>2, <1>3 DEF Extends
  <1>6. Takes(s, p, expect(s, p, kinds), set)
    <2> DEFINE e == expect(s, p, kinds)
    <2>1. e = IF p <= Len(s) /\ s[p] \in set THEN Parsed(p + 1, s[p]) ELSE ParseError(p)
      BY <1>2
    <2> HIDE DEF e
    <2>2. CASE p <= Len(s) /\ s[p] \in set
      <3>1. e = Parsed(p + 1, s[p])
        BY <2>1, <2>2
      <3>2. e.ok = TRUE /\ e.pos = p + 1
        BY <3>1 DEF Parsed
      <3>3. ASSUME NEW i \in p .. e.pos - 1 PROVE s[i] \in set
        <4>1. i = p
          BY <1>1, <3>2
        <4> QED  BY <2>2, <4>1
      <3>4. p + 1 \in Places(s) /\ p <= p + 1
        BY <1>1, <2>2 DEF Places
      <3> QED  BY <3>2, <3>3, <3>4 DEF Takes, InPlace, e
    <2>3. CASE ~(p <= Len(s) /\ s[p] \in set)
      <3>1. e = ParseError(p)
        BY <2>1, <2>3
      <3>2. e.ok = FALSE /\ e.pos = p /\ p <= p
        BY <1>1, <3>1 DEF ParseError
      <3>3. \A i \in p .. e.pos - 1 : s[i] \in set
        BY <1>1, <3>2
      <3> QED  BY <3>2, <3>3, Zenon DEF Takes, InPlace, e
    <2> QED  BY <2>2, <2>3
  <1>7. expect(s, p, kinds).pos <= Len(s) => p <= Len(s)
    BY <1>1, <1>6 DEF Takes, InPlace, Places
  <1> QED  BY <1>4, <1>5, <1>6, <1>7, Zenon DEF Steady, Settled

-----------------------------------------------------------------------------
(***************************************************************************)
(* Lists and values                                                        *)
(***************************************************************************)

\* A number is even or odd.
LEMMA EvenOrOdd ==
    ASSUME NEW d \in Nat
    PROVE  \E k \in Nat : d = 2*k \/ d = 2*k + 1
  <1>1. d \div 2 \in Nat /\ (d = 2*(d \div 2) \/ d = 2*(d \div 2) + 1)
    OBVIOUS
  <1> QED  BY <1>1

\* The loop over a list stops at one place.
LEMMA ItemsStopThere ==
    ASSUME NEW kinds, NEW s, NEW p, NEW r, NEW m \in Nat, NEW n \in Nat, 1 <= m, 1 <= n, EndsAfter(kinds, s, p, m, r),
           ~ItemAt(kinds, s, p, n) \/ ~CommaAt(s, p, n),
           \A k \in 1 .. n - 1 : ItemAt(kinds, s, p, k) /\ CommaAt(s, p, k)
    PROVE  m = n
  <1>1. ~ItemAt(kinds, s, p, m) \/ ~CommaAt(s, p, m)
    BY Zenon DEF EndsAfter
  <1>2. \A k \in 1 .. m - 1 : ItemAt(kinds, s, p, k) /\ CommaAt(s, p, k)
    BY Zenon DEF EndsAfter
  <1>3. ~(m < n)
    BY <1>1
  <1>4. ~(n < m)
    BY <1>2
  <1> QED  BY <1>3, <1>4

\* What is seen at the k-th item and behind it does not change with a word at the end.
LEMMA ItemKept ==
    ASSUME NEW s \in Seq(STRING), NEW w, NEW t \in Seq(STRING), Extends(s, w, t),
           NEW p \in Places(s), NEW kinds, NEW k \in Nat, 1 <= k
    PROVE  /\ p + 2*k - 2 <= Len(s) => (ItemAt(kinds, t, p, k) <=> ItemAt(kinds, s, p, k))
           /\ p + 2*k - 1 <= Len(s) => (CommaAt(t, p, k) <=> CommaAt(s, p, k))
  <1>1. p \in Nat /\ 1 <= p /\ Len(s) \in Nat
    BY DEF Places
  <1>2. \A a \in Nat : 1 <= a /\ a <= Len(s) => peek(t, a) = peek(s, a) /\ kind(t, a) = kind(s, a)
    BY <1>1, ExtendsSees DEF Places
  <1>3. p + 2*k - 2 \in Nat /\ 1 <= p + 2*k - 2 /\ p + 2*k - 1 \in Nat /\ 1 <= p + 2*k - 1
    BY <1>1
  <1> QED  BY <1>2, <1>3, Zenon DEF ItemAt, CommaAt

\* A list that got to the end of s ends in an item, or waits for one, as w may be.
Waits(s, w, p, r, rt, set) ==
    /\ r.pos = Len(s) + 1 /\ r.ok => p <= Len(s) /\ s[Len(s)] \in set
    /\ r.pos = Len(s) + 1 /\ ~r.ok => p = Len(s) + 1 \/ s[Len(s)] = ","
    /\ r.pos = Len(s) + 1 /\ ~r.ok /\ w \in set => rt.pos = Len(s) + 2

\* The loop over a list reads items and commas, looks at no word behind the one it stops at,
\* and at the end of the query it waits for an item behind a comma.
LEMMA ItemsSteady ==
    ASSUME NEW s \in Seq(STRING), NEW w, NEW t \in Seq(STRING), Extends(s, w, t),
           NEW p \in Places(s), NEW kinds, NEW set, Tells(kinds, set)
    PROVE  /\ Steady(s, p, Items(kinds, s, p), Items(kinds, t, p), set \cup {","})
           /\ Waits(s, w, p, Items(kinds, s, p), Items(kinds, t, p), set)
  <1> DEFINE r == Items(kinds, s, p)
             rt == Items(kinds, t, p)
             is(k) == ItemAt(kinds, s, p, k)
             it(k) == ItemAt(kinds, t, p, k)
             cs(k) == CommaAt(s, p, k)
             ct(k) == CommaAt(t, p, k)
  <1>1. Len(s) \in Nat /\ Len(t) = Len(s) + 1 /\ p \in Nat /\ 1 <= p /\ p <= Len(s) + 1 /\ "EOF" \notin kinds /\ p \in Places(t)
    BY ExtendsSees DEF Places, Tells
  <1>2. t[Len(s) + 1] = w /\ \A i \in 1 .. Len(s) : t[i] = s[i]
    BY DEF Extends
  <1>3. PICK n \in 1 .. Len(s) + 1 : EndsAfter(kinds, s, p, n, r)
    BY <1>1, ItemsStop
  <1>4. PICK m \in 1 .. Len(t) + 1 : EndsAfter(kinds, t, p, m, rt)
    BY <1>1, ItemsStop
  <1>5. n \in Nat /\ 1 <= n /\ m \in Nat /\ 1 <= m
    BY <1>1
  <1>6. \A k \in Nat : 1 <= k => /\ is(k) <=> p + 2*k - 2 <= Len(s) /\ s[p + 2*k - 2] \in set
                                 /\ cs(k) <=> p + 2*k - 1 <= Len(s) /\ s[p + 2*k - 1] = ","
    BY ItemThere
  <1>7. \A k \in Nat : 1 <= k => /\ it(k) <=> p + 2*k - 2 <= Len(t) /\ t[p + 2*k - 2] \in set
                                 /\ ct(k) <=> p + 2*k - 1 <= Len(t) /\ t[p + 2*k - 1] = ","
    BY <1>1, ItemThere
  <1>8. InPlace(s, p, r)
    BY ItemsSound
  <1>9. /\ ~is(n) \/ ~cs(n)
        /\ \A k \in 1 .. n - 1 : is(k) /\ cs(k)
        /\ is(n) => r = Parsed(p + 2*n - 1, [k \in 1 .. n |-> s[p + 2*k - 2]])
        /\ ~is(n) => r = ParseError(p + 2*n - 2)
    BY <1>3, Zenon DEF EndsAfter
  <1>10. m = n => /\ it(n) => rt = Parsed(p + 2*n - 1, [k \in 1 .. n |-> t[p + 2*k - 2]])
                  /\ ~it(n) => rt = ParseError(p + 2*n - 2)
    BY <1>4, Zenon DEF EndsAfter
  <1>11. (~it(n) \/ ~ct(n)) /\ (\A k \in 1 .. n - 1 : it(k) /\ ct(k)) => m = n
    BY <1>4, <1>5, ItemsStopThere
  <1> HIDE DEF r, rt, is, it, cs, ct
  <1>12. r.pos \in Nat /\ p <= r.pos /\ r.pos <= Len(s) + 1
    BY <1>8 DEF InPlace, Places
  <1>13. \A k \in Nat : 1 <= k => /\ p + 2*k - 2 <= Len(s) => (it(k) <=> is(k))
                                  /\ p + 2*k - 1 <= Len(s) => (ct(k) <=> cs(k))
    BY ItemKept DEF it, is, ct, cs
  <1>15. ASSUME NEW k \in 1 .. n - 1
         PROVE  /\ s[p + 2*k - 2] \in set /\ s[p + 2*k - 1] = "," /\ k \in Nat /\ 1 <= k
                /\ p + 2*k - 2 <= Len(s) /\ p + 2*k - 1 <= Len(s)
    <2>1. is(k) /\ cs(k)
      BY <1>9
    <2>2. k \in Nat /\ 1 <= k
      BY <1>5
    <2> QED  BY <1>6, <2>1, <2>2
  <1>14. ASSUME NEW k \in 1 .. n - 1 PROVE it(k) /\ ct(k)
    <2>1. is(k) /\ cs(k)
      BY <1>9
    <2> QED  BY <1>13, <1>15, <2>1
  <1>16. CASE is(n)
    <2>1. r = Parsed(p + 2*n - 1, [k \in 1 .. n |-> s[p + 2*k - 2]])
      BY <1>9, <1>16
    <2>2. r.ok = TRUE /\ r.pos = p + 2*n - 1
      BY <2>1 DEF Parsed
    <2>3. p + 2*n - 2 <= Len(s) /\ s[p + 2*n - 2] \in set
      BY <1>5, <1>6, <1>16
    <2>4. ASSUME r.pos <= Len(s) PROVE rt = r
      <3>1. ~ct(n) /\ it(n)
        BY <1>5, <1>9, <1>13, <1>16, <2>2, <2>3, <2>4
      <3>2. rt = Parsed(p + 2*n - 1, [k \in 1 .. n |-> t[p + 2*k - 2]])
        BY <1>10, <1>11, <1>14, <3>1
      <3>3. \A k \in 1 .. n : t[p + 2*k - 2] = s[p + 2*k - 2]
        <4> SUFFICES ASSUME NEW k \in 1 .. n PROVE t[p + 2*k - 2] = s[p + 2*k - 2]
          OBVIOUS
        <4>1. PICK a \in 1 .. Len(s) : a = p + 2*k - 2
          BY <1>1, <1>5, <2>3
        <4> QED  BY <1>2, <4>1
      <3>4. [k \in 1 .. n |-> t[p + 2*k - 2]] = [k \in 1 .. n |-> s[p + 2*k - 2]]
        BY <3>3, Zenon
      <3> QED  BY <2>1, <3>2, <3>4
    <2>5. ASSUME NEW i \in p .. r.pos - 1 PROVE s[i] \in set \cup {","}
      <3>1. PICK k \in Nat : i - p = 2*k \/ i - p = 2*k + 1
        <4>1. i - p \in Nat
          BY <1>1, <1>12
        <4> QED  BY <4>1, EvenOrOdd
      <3>2. CASE i = p + 2*(k + 1) - 2
        <4>1. k + 1 = n \/ k + 1 \in 1 .. n - 1
          BY <1>1, <1>5, <2>2, <3>2
        <4> QED  BY <1>15, <2>3, <3>2, <4>1
      <3>3. CASE i = p + 2*(k + 1) - 1
        <4>1. k + 1 \in 1 .. n - 1
          BY <1>1, <1>5, <2>2, <3>3
        <4> QED  BY <1>15, <3>3, <4>1
      <3>4. i = p + 2*(k + 1) - 2 \/ i = p + 2*(k + 1) - 1
        BY <1>1, <1>12, <3>1
      <3> QED  BY <3>2, <3>3, <3>4
    <2>6. r.pos = Len(s) + 1 => p <= Len(s) /\ s[Len(s)] \in set
      <3> SUFFICES ASSUME r.pos = Len(s) + 1 PROVE p <= Len(s) /\ s[Len(s)] \in set
        OBVIOUS
      <3>1. p + 2*n - 2 = Len(s)
        BY <1>1, <1>5, <2>2
      <3> QED  BY <1>1, <1>5, <2>3, <3>1
    <2>7. Steady(s, p, r, rt, set \cup {","})
      BY <1>8, <2>4, <2>5, Zenon DEF Steady, Settled, Takes
    <2> QED  BY <2>2, <2>6, <2>7 DEF r, rt, Waits
  <1>17. CASE ~is(n)
    <2>1. r = ParseError(p + 2*n - 2)
      BY <1>9, <1>17
    <2>2. r.ok = FALSE /\ r.pos = p + 2*n - 2
      BY <2>1 DEF ParseError
    <2>3. ASSUME r.pos <= Len(s) PROVE rt = r
      <3>1. ~it(n)
        BY <1>5, <1>13, <1>17, <2>2, <2>3
      <3> QED  BY <1>10, <1>11, <1>14, <2>1, <3>1
    <2>4. ASSUME NEW i \in p .. r.pos - 1 PROVE s[i] \in set \cup {","}
      <3>1. PICK k \in Nat : i - p = 2*k \/ i - p = 2*k + 1
        <4>1. i - p \in Nat
          BY <1>1, <1>12
        <4> QED  BY <4>1, EvenOrOdd
      <3>2. k + 1 \in 1 .. n - 1
        BY <1>1, <1>5, <2>2, <3>1
      <3>3. i = p + 2*(k + 1) - 2 \/ i = p + 2*(k + 1) - 1
        BY <1>1, <3>1
      <3> QED  BY <1>15, <3>2, <3>3
    <2>5. ASSUME r.pos = Len(s) + 1 PROVE p = Len(s) + 1 \/ s[Len(s)] = ","
      <3>1. CASE n = 1
        <4>1. p + 2*n - 2 = p
          BY <1>1, <3>1
        <4> QED  BY <2>2, <2>5, <4>1
      <3>2. CASE n # 1
        <4>1. n - 1 \in 1 .. n - 1 /\ p + 2*(n - 1) - 1 = Len(s)
          BY <1>1, <1>5, <2>2, <2>5, <3>2
        <4> QED  BY <1>15, <4>1
      <3> QED  BY <3>1, <3>2
    <2>6. ASSUME r.pos = Len(s) + 1, w \in set PROVE rt.pos = Len(s) + 2
      <3>1. p + 2*n - 2 = Len(s) + 1 /\ p + 2*n - 1 = Len(s) + 2
        BY <1>1, <1>5, <2>2, <2>6
      <3>2. it(n) /\ ~ct(n)
        <4>1. it(n) <=> p + 2*n - 2 <= Len(t) /\ t[p + 2*n - 2] \in set
          BY <1>5, <1>7
        <4>2. ct(n) => p + 2*n - 1 <= Len(t)
          BY <1>5, <1>7
        <4>3. ~(Len(s) + 2 <= Len(t)) /\ Len(s) + 1 <= Len(t)
          BY <1>1
        <4> QED  BY <1>2, <2>6, <3>1, <4>1, <4>2, <4>3
      <3>3. rt = Parsed(p + 2*n - 1, [k \in 1 .. n |-> t[p + 2*k - 2]])
        BY <1>10, <1>11, <1>14, <3>2
      <3> QED  BY <3>1, <3>3 DEF Parsed
    <2>7. Steady(s, p, r, rt, set \cup {","})
      BY <1>8, <2>3, <2>4, Zenon DEF Steady, Settled, Takes
    <2> QED  BY <2>2, <2>5, <2>6, <2>7 DEF r, rt, Waits
  <1> QED  BY <1>16, <1>17

\* What is taken from a set is taken from a larger one.
LEMMA TakesMore ==
    ASSUME NEW s, NEW p, NEW r, NEW rt, NEW small, NEW large, small \subseteq large
    PROVE  /\ Takes(s, p, r, small) => Takes(s, p, r, large)
           /\ Steady(s, p, r, rt, small) => Steady(s, p, r, rt, large)
  <1>1. Takes(s, p, r, small) => Takes(s, p, r, large)
    BY DEF Takes
  <1> QED  BY <1>1, Zenon DEF Steady

\* A parse and the one that follows it, as Then composes them.
LEMMA ThenSteady ==
    ASSUME NEW s \in Seq(STRING), NEW p \in Places(s), NEW set,
           NEW a, NEW at, Steady(s, p, a, at, set),
           NEW b, a.ok => Takes(s, a.pos, b, set), NEW bt, a.ok /\ at = a => Settled(s, b, bt),
           NEW r, r = (IF a.ok THEN b ELSE a), NEW rt, rt = (IF at.ok THEN bt ELSE at)
    PROVE  Steady(s, p, r, rt, set)
  <1>1. /\ a.ok \in BOOLEAN /\ a.pos \in Places(s) /\ p <= a.pos /\ a.pos \in Nat /\ p \in Nat
        /\ (\A i \in p .. a.pos - 1 : s[i] \in set) /\ (a.pos <= Len(s) => at = a) /\ Len(s) \in Nat
    BY DEF Steady, Takes, InPlace, Settled, Places
  <1>2. CASE ~a.ok
    <2>1. r = a /\ (at = a => rt = a)
      BY <1>2
    <2> QED  BY <1>1, <2>1 DEF Steady, Takes, InPlace, Settled
  <1>3. CASE a.ok
    <2>1. r = b /\ (at = a => rt = bt)
      BY <1>3
    <2>2. /\ b.ok \in BOOLEAN /\ b.pos \in Places(s) /\ a.pos <= b.pos /\ b.pos \in Nat
          /\ \A i \in a.pos .. b.pos - 1 : s[i] \in set
      BY <1>3 DEF Takes, InPlace, Places
    <2>3. ASSUME NEW i \in p .. b.pos - 1 PROVE s[i] \in set
      <3>1. i \in p .. a.pos - 1 \/ i \in a.pos .. b.pos - 1
        BY <1>1, <2>2
      <3> QED  BY <1>1, <2>2, <3>1
    <2>4. p <= b.pos /\ (b.pos <= Len(s) => a.pos <= Len(s))
      BY <1>1, <2>2
    <2>5. b.pos <= Len(s) => rt = b
      BY <1>1, <1>3, <2>1, <2>4 DEF Settled
    <2>6. Takes(s, p, b, set)
      BY <2>2, <2>3, <2>4, Zenon DEF Takes, InPlace
    <2>7. Settled(s, b, rt)
      BY <2>5, Zenon DEF Settled
    <2> QED  BY <2>1, <2>6, <2>7, Zenon DEF Steady
  <1> QED  BY <1>1, <1>2, <1>3

\* A parse whose tree is made into another ends where it did.
LEMMA MapEnd ==
    ASSUME NEW a, NEW x, NEW r, r = (IF a.ok THEN Parsed(a.pos, x) ELSE a)
    PROVE  r.pos = a.pos /\ (a.ok \in BOOLEAN => r.ok = a.ok)
  <1>1. CASE a.ok
    <2>1. r = Parsed(a.pos, x)
      BY <1>1
    <2> QED  BY <1>1, <2>1 DEF Parsed
  <1>2. CASE ~a.ok
    BY <1>2
  <1> QED  BY <1>1, <1>2

\* It takes what it took.
LEMMA MapTakes ==
    ASSUME NEW s, NEW p, NEW set, NEW a, Takes(s, p, a, set), NEW x, NEW r, r = (IF a.ok THEN Parsed(a.pos, x) ELSE a)
    PROVE  Takes(s, p, r, set)
  <1>1. r.pos = a.pos /\ r.ok = a.ok
    BY MapEnd DEF Takes, InPlace
  <1> QED  BY <1>1, Zenon DEF Takes, InPlace

\* It is settled if it was.
LEMMA MapSettled ==
    ASSUME NEW s, NEW a, NEW at, Settled(s, a, at), NEW x, NEW xt, at = a => xt = x,
           NEW r, r = (IF a.ok THEN Parsed(a.pos, x) ELSE a), NEW rt, rt = (IF at.ok THEN Parsed(at.pos, xt) ELSE at)
    PROVE  Settled(s, r, rt)
  <1>1. r.pos = a.pos
    BY MapEnd
  <1>2. at = a => rt = r
    BY Zenon
  <1> QED  BY <1>1, <1>2, Zenon DEF Settled

\* The words a value is made of.
ValueWords == {"(", ",", ")"} \cup Strings \cup DOMAIN Numbers

\* A list and its closing bracket.
LEMMA ListSteady ==
    ASSUME NEW s \in Seq(STRING), NEW w, NEW t \in Seq(STRING), Extends(s, w, t),
           NEW p \in Places(s), NEW kinds, NEW set, Tells(kinds, set), set \subseteq ValueWords, NEW vk
    PROVE  Steady(s, p, parseList(kinds, vk, s, p), parseList(kinds, vk, t, p), ValueWords)
  <1> DEFINE l == Items(kinds, s, p)
             lt == Items(kinds, t, p)
             c == expect(s, l.pos, {")"})
             ct == expect(t, lt.pos, {")"})
             b == IF c.ok THEN Parsed(c.pos, Value(vk, l.ast)) ELSE c
             bt == IF ct.ok THEN Parsed(ct.pos, Value(vk, lt.ast)) ELSE ct
             r == parseList(kinds, vk, s, p)
             rt == parseList(kinds, vk, t, p)
  <1>1. r = IF l.ok THEN b ELSE l
    BY Zenon DEF parseList, Then
  <1>2. rt = IF lt.ok THEN bt ELSE lt
    BY Zenon DEF parseList, Then
  <1>3. set \cup {","} \subseteq ValueWords /\ {")"} \subseteq ValueWords
    BY DEF ValueWords
  <1>4. Steady(s, p, l, lt, ValueWords)
    <2>1. Steady(s, p, l, lt, set \cup {","})
      BY ItemsSteady
    <2> HIDE DEF l, lt
    <2> QED  BY <1>3, <2>1, TakesMore
  <1>5. l.pos \in Places(s)
    BY <1>4, Zenon DEF Steady, Takes, InPlace
  <1> HIDE DEF l, lt
  <1>6. Steady(s, l.pos, c, expect(t, l.pos, {")"}), ValueWords)
    <2>1. Steady(s, l.pos, c, expect(t, l.pos, {")"}), {")"})
      BY <1>5, Kinds, ExpectSteady
    <2> HIDE DEF c
    <2> QED  BY <1>3, <2>1, TakesMore
  <1>7. lt = l => ct = expect(t, l.pos, {")"})
    BY Zenon
  <1> HIDE DEF c, ct
  <1> DEFINE x == Value(vk, l.ast)
             xt == Value(vk, lt.ast)
  <1>8. b = (IF c.ok THEN Parsed(c.pos, x) ELSE c) /\ bt = (IF ct.ok THEN Parsed(ct.pos, xt) ELSE ct) /\ (lt = l => xt = x)
    BY Zenon
  <1> HIDE DEF b, bt, x, xt, r, rt
  <1>9. Takes(s, l.pos, b, ValueWords)
    <2>1. Takes(s, l.pos, c, ValueWords)
      BY <1>6, Zenon DEF Steady
    <2> QED  BY <1>8, <2>1, MapTakes
  <1>10. ASSUME lt = l PROVE Settled(s, b, bt)
    <2>1. Settled(s, c, ct)
      BY <1>6, <1>7, <1>10, Zenon DEF Steady
    <2> QED  BY <1>10, <1>8, <2>1, MapSettled
  <1>11. Steady(s, p, r, rt, ValueWords)
    BY <1>1, <1>2, <1>4, <1>9, <1>10, ThenSteady
  <1> QED  BY <1>11 DEF r, rt

\* A list in brackets, of strings or of numbers as its first item is.
LEMMA ValueListSteady ==
    ASSUME NEW s \in Seq(STRING), NEW w, NEW t \in Seq(STRING), Extends(s, w, t), NEW p \in Places(s)
    PROVE  Steady(s, p, parseValueList(s, p), parseValueList(t, p), ValueWords)
  <1> DEFINE items(u, q) == IF kind(u, q) = "string" THEN parseList({"string"}, "strings", u, q)
                            ELSE parseList({"int", "number"}, "numbers", u, q)
             a == expect(s, p, {"("})
             at == expect(t, p, {"("})
             b == items(s, a.pos)
             bt == items(t, at.pos)
             r == parseValueList(s, p)
             rt == parseValueList(t, p)
  <1>1. r = (IF a.ok THEN b ELSE a) /\ rt = (IF at.ok THEN bt ELSE at)
    BY Zenon DEF parseValueList, Then
  <1>2. Strings \subseteq ValueWords /\ DOMAIN Numbers \subseteq ValueWords /\ {"("} \subseteq ValueWords
    BY DEF ValueWords
  <1>3. Steady(s, p, a, at, ValueWords)
    <2>1. Steady(s, p, a, at, {"("})
      BY Kinds, ExpectSteady
    <2> HIDE DEF a, at
    <2> QED  BY <1>2, <2>1, TakesMore
  <1>4. \A q \in Places(s) : /\ Steady(s, q, parseList({"string"}, "strings", s, q), parseList({"string"}, "strings", t, q), ValueWords)
                             /\ Steady(s, q, parseList({"int", "number"}, "numbers", s, q),
                                       parseList({"int", "number"}, "numbers", t, q), ValueWords)
    BY <1>2, Kinds, ListSteady
  <1>5. ASSUME NEW q \in Places(s) PROVE Steady(s, q, items(s, q), items(t, q), ValueWords)
    <2>1. Takes(s, q, items(s, q), ValueWords)
      BY <1>4, Zenon DEF Steady
    <2>2. CASE q <= Len(s)
      <3>1. kind(t, q) = kind(s, q)
        BY <2>2, ExtendsSees
      <3> QED  BY <1>4, <3>1, Zenon
    <2>3. CASE ~(q <= Len(s))
      <3> HIDE DEF items
      <3>1. ~(items(s, q).pos <= Len(s))
        BY <2>1, <2>3 DEF Takes, InPlace, Places
      <3> QED  BY <2>1, <3>1, Zenon DEF Steady, Settled
    <2> QED  BY <2>2, <2>3
  <1> HIDE DEF items
  <1>6. a.pos \in Places(s)
    BY <1>3, Zenon DEF Steady, Takes, InPlace
  <1>7. Takes(s, a.pos, b, ValueWords) /\ (at = a => Settled(s, b, bt))
    BY <1>5, <1>6, Zenon DEF Steady
  <1> HIDE DEF a, at, b, bt, r, rt
  <1>8. Steady(s, p, r, rt, ValueWords)
    BY <1>1, <1>3, <1>7, ThenSteady
  <1> QED  BY <1>8 DEF r, rt

\* The value behind an operator.
LEMMA ValueSteady ==
    ASSUME NEW s \in Seq(STRING), NEW w, NEW t \in Seq(STRING), Extends(s, w, t), NEW p \in Places(s), NEW op
    PROVE  Steady(s, p, parseValue(op, s, p), parseValue(op, t, p), ValueWords)
  <1>1. CASE op = "in"
    <2>1. parseValue(op, s, p) = parseValueList(s, p) /\ parseValue(op, t, p) = parseValueList(t, p)
      BY <1>1 DEF parseValue
    <2> QED  BY <2>1, ValueListSteady
  <1>2. CASE op # "in"
    <2> DEFINE made(v) == Value(IF v.ast \in Strings THEN "string" ELSE "number", <<v.ast>>)
               a == expect(s, p, {"string", "int", "number"})
               at == expect(t, p, {"string", "int", "number"})
               r == parseValue(op, s, p)
               rt == parseValue(op, t, p)
               x == made(a)
               xt == made(at)
    <2>1. r = (IF a.ok THEN Parsed(a.pos, x) ELSE a) /\ rt = (IF at.ok THEN Parsed(at.pos, xt) ELSE at)
      BY <1>2, Zenon DEF parseValue, Then
    <2>2. at = a => xt = x
      BY Zenon
    <2>3. Steady(s, p, a, at, ValueWords)
      <3>1. Steady(s, p, a, at, Strings \cup DOMAIN Numbers)
        BY Kinds, ExpectSteady
      <3>2. Strings \cup DOMAIN Numbers \subseteq ValueWords
        BY DEF ValueWords
      <3> HIDE DEF a, at
      <3> QED  BY <3>1, <3>2, TakesMore
    <2>4. Takes(s, p, a, ValueWords) /\ Settled(s, a, at)
      BY <2>3, Zenon DEF Steady
    <2> HIDE DEF a, at, x, xt, r, rt
    <2>5. Takes(s, p, r, ValueWords)
      BY <2>1, <2>4, MapTakes
    <2>6. Settled(s, r, rt)
      BY <2>1, <2>2, <2>4, MapSettled
    <2> QED  BY <2>5, <2>6, Zenon DEF Steady, r, rt
  <1> QED  BY <1>1, <1>2

\* parseOp looks at one token.
LEMMA OpSteady ==
    ASSUME NEW s \in Seq(STRING), NEW w, NEW t \in Seq(STRING), Extends(s, w, t), NEW p \in Places(s)
    PROVE  /\ Steady(s, p, parseOp(s, p), parseOp(t, p), operatorSuggestions)
           /\ p = Len(s) + 1 => /\ parseOp(s, p) = ParseError(p)
                                /\ w \in operatorSuggestions => parseOp(t, p) = Parsed(p + 1, w)
  <1> DEFINE e == parseOp(s, p)
  <1>1. p \in Nat /\ 1 <= p /\ Len(s) \in Nat /\ p <= Len(s) + 1 /\ Len(t) = Len(s) + 1
    BY DEF Places, Extends
  <1>2. e = IF p <= Len(s) /\ s[p] \in operatorSuggestions THEN Parsed(p + 1, s[p]) ELSE ParseError(p)
    BY <1>1, OpAt
  <1>3. parseOp(t, p) = IF p <= Len(t) /\ t[p] \in operatorSuggestions THEN Parsed(p + 1, t[p]) ELSE ParseError(p)
    BY <1>1, OpAt
  <1>4. p <= Len(s) => t[p] = s[p]
    BY <1>1 DEF Extends
  <1>5. p <= Len(s) => parseOp(t, p) = e
    BY <1>1, <1>2, <1>3, <1>4
  <1>6. p = Len(s) + 1 => e = ParseError(p) /\ (w \in operatorSuggestions => parseOp(t, p) = Parsed(p + 1, w))
    BY <1>1, <1>2, <1>3 DEF Extends
  <1> HIDE DEF e
  <1>7. Takes(s, p, e, operatorSuggestions)
    <2>1. CASE p <= Len(s) /\ s[p] \in operatorSuggestions
      <3>1. e = Parsed(p + 1, s[p])
        BY <1>2, <2>1
      <3>2. e.ok = TRUE /\ e.pos = p + 1
        BY <3>1 DEF Parsed
      <3>3. ASSUME NEW i \in p .. e.pos - 1 PROVE s[i] \in operatorSuggestions
        <4>1. i = p
          BY <1>1, <3>2
        <4> QED  BY <2>1, <4>1
      <3>4. p + 1 \in Places(s) /\ p <= p + 1
        BY <1>1, <2>1 DEF Places
      <3> QED  BY <3>2, <3>3, <3>4 DEF Takes, InPlace
    <2>2. CASE ~(p <= Len(s) /\ s[p] \in operatorSuggestions)
      <3>1. e = ParseError(p)
        BY <1>2, <2>2
      <3>2. e.ok = FALSE /\ e.pos = p /\ p <= p
        BY <1>1, <3>1 DEF ParseError
      <3>3. \A i \in p .. e.pos - 1 : s[i] \in operatorSuggestions
        BY <1>1, <3>2
      <3> QED  BY <3>2, <3>3, Zenon DEF Takes, InPlace
    <2> QED  BY <2>1, <2>2
  <1>8. e.pos <= Len(s) => p <= Len(s)
    BY <1>1, <1>7 DEF Takes, InPlace, Places
  <1> QED  BY <1>5, <1>6, <1>7, <1>8, Zenon DEF Steady, Settled, e

-----------------------------------------------------------------------------
(***************************************************************************)
(* Expressions                                                             *)
(***************************************************************************)

\* The words of an expression, and the words of a query that are none of them.
ExprWords == Idents \cup operatorSuggestions \cup ValueWords \cup {"and", "or", "not"}
QueryWords == ClauseWords \cup {"asc", "desc"}

\* A word w that an expression begun at p can take behind s: a field behind a connective, or
\* where the expression begins, and an operator behind a field.
Fits(s, w, p) ==
    \/ w \in Idents /\ (p = Len(s) + 1 \/ s[Len(s)] \in {"and", "or"})
    \/ w \in operatorSuggestions /\ p <= Len(s) /\ s[Len(s)] \in Idents

\* A parse of an expression from p that takes a word that fits.
Grows(s, w, p, r, rt) ==
    /\ Steady(s, p, r, rt, ExprWords)
    /\ r.pos = Len(s) + 1 /\ Fits(s, w, p) => rt.pos = Len(s) + 2

\* The words of expressions are apart from each other and from those of the clauses.
LEMMA ExprWordsApart ==
    /\ Idents \cap (operatorSuggestions \cup ValueWords \cup {"and", "or", "not", "(", ")", ","} \cup QueryWords) = {}
    /\ {"and", "or"} \cap (operatorSuggestions \cup ValueWords \cup {"not", "(", ")", ","} \cup QueryWords) = {}
    /\ ExprWords \cap QueryWords = {}
    /\ (DOMAIN Durations \cup Ints) \cap (Idents \cup keywords \cup Punctuation) = {}
    /\ "," \notin keywords /\ QueryWords \subseteq keywords
  <1>1. QueryWords \cup {"and", "or", "not"} \subseteq keywords /\ {"(", ")", ","} \subseteq Punctuation /\ "," \notin keywords
    BY DEF QueryWords, ClauseWords, keywords, Punctuation
  <1>2. operatorSuggestions \subseteq keywords \cup Punctuation
    BY OpsApart
  <1>3. operatorSuggestions \cap (QueryWords \cup {"and", "or", "not"}) = {}
    BY DEF operatorSuggestions, Comparisons, QueryWords, ClauseWords
  <1>4. Idents \cap (operatorSuggestions \cup ValueWords \cup {"and", "or", "not", "(", ")", ","} \cup QueryWords) = {}
    BY <1>1, <1>2, ClassesApart DEF ValueWords
  <1>5. (QueryWords \cup {"and", "or", "not"}) \cap ValueWords = {}
    BY <1>1, ClassesApart DEF ValueWords
  <1>6. {"and", "or"} \cap ({"not", "(", ")", ","} \cup QueryWords) = {}
    BY DEF QueryWords, ClauseWords
  <1>7. {"and", "or", "not"} \cap QueryWords = {}
    BY DEF QueryWords, ClauseWords
  <1>8. ExprWords \cap QueryWords = {}
    BY <1>3, <1>4, <1>5, <1>7 DEF ExprWords
  <1>9. (DOMAIN Durations \cup Ints) \cap (Idents \cup keywords \cup Punctuation) = {}
    BY ClassesApart, NetQLAssumption
  <1> QED  BY <1>1, <1>3, <1>4, <1>5, <1>6, <1>8, <1>9

\* Behind the end of the query no value is read.
LEMMA NoValue ==
    ASSUME NEW s \in Seq(STRING), NEW op
    PROVE  parseValue(op, s, Len(s) + 1).pos = Len(s) + 1
  <1>1. Len(s) + 1 \in Nat /\ 1 <= Len(s) + 1 /\ ~(Len(s) + 1 <= Len(s))
    OBVIOUS
  <1>2. /\ expect(s, Len(s) + 1, {"("}) = ParseError(Len(s) + 1)
        /\ expect(s, Len(s) + 1, {"string", "int", "number"}) = ParseError(Len(s) + 1)
    BY <1>1, Expect, Kinds
  <1>3. ParseError(Len(s) + 1).ok = FALSE /\ ParseError(Len(s) + 1).pos = Len(s) + 1
    BY DEF ParseError
  <1>4. parseValue(op, s, Len(s) + 1) = ParseError(Len(s) + 1)
    <2>1. CASE op = "in"
      <3>1. parseValueList(s, Len(s) + 1) = ParseError(Len(s) + 1)
        BY <1>2, <1>3, Zenon DEF parseValueList, Then
      <3> QED  BY <2>1, <3>1 DEF parseValue
    <2>2. CASE op # "in"
      BY <1>2, <1>3, <2>2, Zenon DEF parseValue, Then
    <2> QED  BY <2>1, <2>2
  <1> QED  BY <1>3, <1>4

\* What parsePredicate reads behind a field and an operator, and behind a field.
BehindOp(u, id, op) ==
    LET val == parseValue(op.ast, u, op.pos)
    IN IF val.ok THEN Parsed(val.pos, <<Predicate(id.ast, op.ast, val.ast)>>) ELSE val
BehindField(u, id) ==
    LET op == parseOp(u, id.pos) IN IF op.ok THEN BehindOp(u, id, op) ELSE op

\* parsePredicate, call by call.
LEMMA PredicateUnfold ==
    ASSUME NEW u, NEW p
    PROVE  parsePredicate(u, p) = IF Ident(u, p).ok THEN BehindField(u, Ident(u, p)) ELSE Ident(u, p)
  BY Zenon DEF parsePredicate, Then, BehindField, BehindOp

\* The words of a predicate that are not its field.
TailWords == operatorSuggestions \cup ValueWords

\* The value, behind the operator.
LEMMA BehindOpSteady ==
    ASSUME NEW s \in Seq(STRING), NEW w, NEW t \in Seq(STRING), Extends(s, w, t), NEW id, NEW op, op.pos \in Places(s)
    PROVE  Steady(s, op.pos, BehindOp(s, id, op), BehindOp(t, id, op), TailWords)
  <1> DEFINE a == parseValue(op.ast, s, op.pos)
             at == parseValue(op.ast, t, op.pos)
             x == <<Predicate(id.ast, op.ast, a.ast)>>
             xt == <<Predicate(id.ast, op.ast, at.ast)>>
             r == BehindOp(s, id, op)
             rt == BehindOp(t, id, op)
  <1>1. r = (IF a.ok THEN Parsed(a.pos, x) ELSE a) /\ rt = (IF at.ok THEN Parsed(at.pos, xt) ELSE at)
    BY Zenon DEF BehindOp
  <1>2. at = a => xt = x
    BY Zenon
  <1>3. Steady(s, op.pos, a, at, TailWords)
    <2>1. Steady(s, op.pos, a, at, ValueWords)
      BY ValueSteady
    <2>2. ValueWords \subseteq TailWords
      BY DEF TailWords
    <2> HIDE DEF a, at
    <2> QED  BY <2>1, <2>2, TakesMore
  <1>4. Takes(s, op.pos, a, TailWords) /\ Settled(s, a, at)
    BY <1>3, Zenon DEF Steady
  <1> HIDE DEF a, at, x, xt, r, rt
  <1>5. Takes(s, op.pos, r, TailWords)
    BY <1>1, <1>4, MapTakes
  <1>6. Settled(s, r, rt)
    BY <1>1, <1>2, <1>4, MapSettled
  <1> QED  BY <1>5, <1>6, Zenon DEF Steady, r, rt

\* The operator and the value, behind the field.
LEMMA BehindFieldSteady ==
    ASSUME NEW s \in Seq(STRING), NEW w, NEW t \in Seq(STRING), Extends(s, w, t), NEW id, id.pos \in Places(s)
    PROVE  Steady(s, id.pos, BehindField(s, id), BehindField(t, id), TailWords)
  <1> DEFINE a == parseOp(s, id.pos)
             at == parseOp(t, id.pos)
             b == BehindOp(s, id, a)
             bt == BehindOp(t, id, at)
             r == BehindField(s, id)
             rt == BehindField(t, id)
  <1>1. r = (IF a.ok THEN b ELSE a) /\ rt = (IF at.ok THEN bt ELSE at)
    BY Zenon DEF BehindField
  <1>2. Steady(s, id.pos, a, at, TailWords)
    <2>1. Steady(s, id.pos, a, at, operatorSuggestions)
      BY OpSteady
    <2>2. operatorSuggestions \subseteq TailWords
      BY DEF TailWords
    <2> HIDE DEF a, at
    <2> QED  BY <2>1, <2>2, TakesMore
  <1>3. a.pos \in Places(s)
    BY <1>2, Zenon DEF Steady, Takes, InPlace
  <1> HIDE DEF a, at
  <1>4. Steady(s, a.pos, b, BehindOp(t, id, a), TailWords)
    BY <1>3, BehindOpSteady
  <1>5. Takes(s, a.pos, b, TailWords) /\ (at = a => Settled(s, b, bt))
    BY <1>4, Zenon DEF Steady
  <1> HIDE DEF b, bt, r, rt
  <1>6. Steady(s, id.pos, r, rt, TailWords)
    BY <1>1, <1>2, <1>5, ThenSteady
  <1> QED  BY <1>6 DEF r, rt

\* A predicate takes a field where it begins, and an operator behind its field.
LEMMA PredicateGrows ==
    ASSUME NEW s \in Seq(STRING), NEW w, NEW t \in Seq(STRING), Extends(s, w, t), NEW p \in Places(s)
    PROVE  Grows(s, w, p, parsePredicate(s, p), parsePredicate(t, p))
  <1> DEFINE a == Ident(s, p)
             at == Ident(t, p)
             b == BehindField(s, a)
             bt == BehindField(t, at)
             r == parsePredicate(s, p)
             rt == parsePredicate(t, p)
  <1>1. r = (IF a.ok THEN b ELSE a) /\ rt = (IF at.ok THEN bt ELSE at)
    BY PredicateUnfold
  <1>2. /\ Steady(s, p, a, at, Idents) /\ (p <= Len(s) => at = a)
        /\ p = Len(s) + 1 => a = ParseError(p) /\ at = IF w \in Idents THEN Parsed(p + 1, w) ELSE ParseError(p)
    BY Kinds, ExpectSteady DEF Ident
  <1>3. a = IF p <= Len(s) /\ s[p] \in Idents THEN Parsed(p + 1, s[p]) ELSE ParseError(p)
    BY Expect, Kinds DEF Ident, Places
  <1>4. Len(s) \in Nat /\ p \in Nat /\ 1 <= p /\ p <= Len(s) + 1 /\ Len(t) = Len(s) + 1
    BY DEF Places, Extends
  <1>5. a.pos \in Places(s)
    BY <1>2, Zenon DEF Steady, Takes, InPlace
  <1>6. Idents \subseteq ExprWords /\ TailWords \subseteq ExprWords
    BY DEF ExprWords, TailWords
  <1>7. Steady(s, p, a, at, ExprWords)
    <2> HIDE DEF a, at
    <2> QED  BY <1>2, <1>6, TakesMore
  <1> HIDE DEF a, at
  <1>8. Steady(s, a.pos, b, BehindField(t, a), TailWords)
    BY <1>5, BehindFieldSteady
  <1>9. Takes(s, a.pos, b, ExprWords) /\ (at = a => Settled(s, b, bt))
    <2>1. Takes(s, a.pos, b, TailWords) /\ (at = a => Settled(s, b, bt))
      BY <1>8, Zenon DEF Steady
    <2> HIDE DEF b
    <2>2. Takes(s, a.pos, b, ExprWords)
      BY <1>6, <2>1, TakesMore
    <2> QED  BY <2>1, <2>2
  <1> HIDE DEF b, bt, r, rt
  <1>10. Steady(s, p, r, rt, ExprWords)
    BY <1>1, <1>7, <1>9, ThenSteady
  <1>11. ASSUME r.pos = Len(s) + 1, Fits(s, w, p) PROVE rt.pos = Len(s) + 2
    <2>1. CASE p = Len(s) + 1
      <3>1. w \in Idents
        BY <1>4, <1>11, <2>1 DEF Fits
      <3>2. at = Parsed(Len(s) + 2, w)
        BY <1>2, <1>4, <2>1, <3>1
      <3>3. at.ok = TRUE /\ at.pos = Len(s) + 2 /\ rt = bt
        BY <1>1, <3>2 DEF Parsed
      <3>4. parseOp(t, Len(s) + 2) = ParseError(Len(s) + 2)
        BY <1>4, OpAt
      <3>5. ParseError(Len(s) + 2).ok = FALSE /\ ParseError(Len(s) + 2).pos = Len(s) + 2
        BY DEF ParseError
      <3> QED  BY <3>3, <3>4, <3>5, Zenon DEF bt, BehindField
    <2>2. CASE p = Len(s)
      <3>1. a.ok /\ s[p] \in Idents
        <4>1. CASE ~(p <= Len(s) /\ s[p] \in Idents)
          <5>1. a = ParseError(p)
            BY <1>3, <4>1
          <5>2. r.pos = p
            BY <1>1, <5>1 DEF ParseError
          <5> QED  BY <1>4, <1>11, <2>2, <5>2
        <4>2. CASE p <= Len(s) /\ s[p] \in Idents
          <5>1. a = Parsed(p + 1, s[p])
            BY <1>3, <4>2
          <5> QED  BY <4>2, <5>1 DEF Parsed
        <4> QED  BY <4>1, <4>2
      <3>2. w \in operatorSuggestions
        <4>1. s[Len(s)] \in Idents /\ p # Len(s) + 1
          BY <1>4, <2>2, <3>1
        <4>2. s[Len(s)] \notin {"and", "or"}
          BY <4>1, ExprWordsApart
        <4> QED  BY <1>11, <4>1, <4>2, Zenon DEF Fits
      <3>3. a = Parsed(Len(s) + 1, s[p])
        BY <1>3, <1>4, <2>2, <3>1
      <3>4. at = a /\ a.pos = Len(s) + 1 /\ a.ok
        BY <1>2, <1>4, <2>2, <3>1, <3>3 DEF Parsed
      <3>5. rt = BehindField(t, a)
        BY <1>1, <3>4 DEF bt
      <3>6. parseOp(t, a.pos) = Parsed(Len(s) + 2, w)
        <4>1. parseOp(t, Len(s) + 1) = Parsed(Len(s) + 1 + 1, w)
          BY <1>5, <3>2, <3>4, OpSteady
        <4>2. Len(s) + 1 + 1 = Len(s) + 2
          BY <1>4
        <4> QED  BY <3>4, <4>1, <4>2
      <3> DEFINE o == parseOp(t, a.pos)
      <3>7. o.ok = TRUE /\ o.pos = Len(s) + 2
        BY <3>6 DEF Parsed
      <3>8. rt = BehindOp(t, a, o)
        BY <3>5, <3>7, Zenon DEF BehindField
      <3> DEFINE v == parseValue(o.ast, t, o.pos)
      <3>9. v.pos = Len(s) + 2
        <4>1. o.pos = Len(t) + 1
          BY <1>4, <3>7
        <4> HIDE DEF o
        <4>2. v.pos = Len(t) + 1
          BY <4>1, NoValue
        <4> QED  BY <1>4, <4>2
      <3>10. rt = IF v.ok THEN Parsed(v.pos, <<Predicate(a.ast, o.ast, v.ast)>>) ELSE v
        BY <3>8, Zenon DEF BehindOp
      <3> HIDE DEF v, o
      <3>11. rt.pos = v.pos
        BY <3>10, MapEnd
      <3> QED  BY <3>9, <3>11
    <2>3. CASE p < Len(s)
      <3>1. a.ok
        <4> SUFFICES ASSUME ~a.ok PROVE FALSE
          OBVIOUS
        <4>1. CASE p <= Len(s) /\ s[p] \in Idents
          <5>1. a = Parsed(p + 1, s[p])
            BY <1>3, <4>1
          <5> QED  BY <5>1 DEF Parsed
        <4>2. CASE ~(p <= Len(s) /\ s[p] \in Idents)
          <5>1. a = ParseError(p)
            BY <1>3, <4>2
          <5>2. r.pos = p
            BY <1>1, <5>1 DEF ParseError
          <5> QED  BY <1>4, <1>11, <2>3, <5>2
        <4> QED  BY <4>1, <4>2
      <3>2. a.pos = p + 1
        <4>1. a = Parsed(p + 1, s[p])
          <5>1. ParseError(p).ok = FALSE
            BY DEF ParseError
          <5> QED  BY <1>3, <3>1, <5>1
        <4> QED  BY <4>1 DEF Parsed
      <3>3. Takes(s, a.pos, r, TailWords)
        BY <1>1, <1>8, <3>1, Zenon DEF Steady
      <3>4. s[Len(s)] \in TailWords
        <4>1. a.pos <= Len(s)
          BY <1>4, <2>3, <3>2
        <4> QED  BY <1>5, <1>11, <3>3, <4>1, TakesLast
      <3>5. s[Len(s)] \notin {"and", "or"} /\ s[Len(s)] \notin Idents
        BY <3>4, ExprWordsApart DEF TailWords
      <3> QED  BY <1>4, <1>11, <2>3, <3>5 DEF Fits
    <2> QED  BY <1>4, <2>1, <2>2, <2>3
  <1> QED  BY <1>10, <1>11, Zenon DEF Grows, r, rt

\* The parses behind p take a word that fits.
GrowsBehind(s, w, g, h, p) ==
    \A q \in Places(s) : p < q => Grows(s, w, q, g[q].ands, h[q].ands) /\ Grows(s, w, q, g[q].ors, h[q].ors)

\* What a parse that takes words of expressions tells.
LEMMA GrowsTells ==
    ASSUME NEW s \in Seq(STRING), NEW w, NEW p \in Places(s), NEW r, NEW rt, Grows(s, w, p, r, rt)
    PROVE  /\ r.ok \in BOOLEAN /\ r.pos \in Places(s) /\ r.pos \in Nat /\ p <= r.pos /\ r.pos <= Len(s) + 1
           /\ Takes(s, p, r, ExprWords) /\ Settled(s, r, rt)
           /\ r.pos <= Len(s) => rt = r
           /\ r.pos = Len(s) + 1 /\ Fits(s, w, p) => rt.pos = Len(s) + 2
  BY DEF Grows, Steady, Takes, InPlace, Settled, Places

\* A word that fits behind s from p fits from a later place, unless what is between is no
\* connective.
LEMMA FitsLater ==
    ASSUME NEW s \in Seq(STRING), NEW w, NEW p \in Places(s), NEW q \in Places(s), p < q, Fits(s, w, p),
           q = Len(s) + 1 => s[Len(s)] \in {"and", "or"}
    PROVE  Fits(s, w, q)
  <1>1. p \in Nat /\ q \in Nat /\ Len(s) \in Nat /\ p <= Len(s) /\ q <= Len(s) + 1
    BY DEF Places
  <1>2. CASE q = Len(s) + 1
    <2>1. s[Len(s)] \notin Idents
      BY <1>2, ExprWordsApart
    <2> QED  BY <1>1, <1>2, <2>1 DEF Fits
  <1>3. CASE q # Len(s) + 1
    BY <1>1, <1>3 DEF Fits
  <1> QED  BY <1>2, <1>3

\* The word behind s is neither a bracket nor a connective, if it fits where an expression begins.
LEMMA FitsBegin ==
    ASSUME NEW s \in Seq(STRING), NEW w, Fits(s, w, Len(s) + 1)
    PROVE  w \in Idents /\ w \notin {"(", "not"}
  <1>1. ~(Len(s) + 1 <= Len(s))
    OBVIOUS
  <1>2. w \in Idents
    BY <1>1 DEF Fits
  <1> QED  BY <1>2, ExprWordsApart

\* parseTerm.
LEMMA TermGrows ==
    ASSUME NEW s \in Seq(STRING), NEW w, NEW t \in Seq(STRING), Extends(s, w, t),
           NEW p \in Places(s), NEW g, NEW h, GrowsBehind(s, w, g, h, p)
    PROVE  Grows(s, w, p, parseTerm(g, s, p), parseTerm(h, t, p))
  <1> DEFINE r == parseTerm(g, s, p)
             rt == parseTerm(h, t, p)
             o == g[p + 1].ors
             ot == h[p + 1].ors
             f == Joined("or", o)
             ft == Joined("or", ot)
             c == expect(s, f.pos, {")"})
             ct == expect(t, ft.pos, {")"})
  <1>1. p \in Nat /\ 1 <= p /\ Len(s) \in Nat /\ p <= Len(s) + 1 /\ Len(t) = Len(s) + 1
    BY DEF Places, Extends
  <1>2. r = IF ~At(s, p, "(") THEN parsePredicate(s, p)
            ELSE IF ~f.ok THEN f ELSE IF ~c.ok THEN c ELSE Parsed(c.pos, f.ast)
    BY TermUnfold
  <1>3. rt = IF ~At(t, p, "(") THEN parsePredicate(t, p)
             ELSE IF ~ft.ok THEN ft ELSE IF ~ct.ok THEN ct ELSE Parsed(ct.pos, ft.ast)
    BY TermUnfold
  <1>4. At(s, p, "(") <=> p <= Len(s) /\ s[p] = "("
    BY AtWord
  <1>5. p <= Len(s) => (At(t, p, "(") <=> At(s, p, "("))
    BY ExtendsSees DEF At
  <1> HIDE DEF r, rt, o, ot
  <1>6. CASE ~At(s, p, "(")
    <2>1. r = parsePredicate(s, p)
      BY <1>2, <1>6
    <2>2. Grows(s, w, p, r, parsePredicate(t, p))
      BY <2>1, PredicateGrows
    <2>3. CASE At(t, p, "(")
      <3>1. p = Len(s) + 1 /\ w = "("
        <4>1. p = Len(s) + 1
          BY <1>1, <1>5, <1>6, <2>3
        <4>2. peek(t, Len(s) + 1) = w
          BY ExtendsSees
        <4> QED  BY <2>3, <4>1, <4>2 DEF At
      <3>2. ~Fits(s, w, p)
        BY <3>1, FitsBegin
      <3>3. ~(r.pos <= Len(s))
        <4>1. r.pos \in Nat /\ p <= r.pos
          BY <2>2, GrowsTells
        <4> QED  BY <1>1, <3>1, <4>1
      <3>4. Settled(s, r, rt)
        BY <3>3 DEF Settled
      <3> QED  BY <2>2, <3>2, <3>4, Zenon DEF Grows, Steady, r, rt
    <2>4. CASE ~At(t, p, "(")
      <3>1. rt = parsePredicate(t, p)
        BY <1>3, <2>4
      <3> QED  BY <2>2, <3>1 DEF r, rt
    <2> QED  BY <2>3, <2>4
  <1>7. CASE At(s, p, "(")
    <2>1. p <= Len(s) /\ s[p] = "(" /\ At(t, p, "(")
      BY <1>4, <1>5, <1>7
    <2>2. PICK q \in Places(s) : q = p + 1 /\ p < q
      BY <1>1, <2>1 DEF Places
    <2>3. Grows(s, w, q, o, ot)
      BY <2>2 DEF GrowsBehind, o, ot
    <2>4. /\ f.ok = o.ok /\ f.pos = o.pos /\ ft.pos = ot.pos /\ (ot = o => ft = f)
      <3>1. o.ok \in BOOLEAN
        BY <2>3, GrowsTells
      <3>2. f.ok = o.ok /\ f.pos = o.pos
        BY <3>1, JoinedEnd
      <3>3. ft.pos = ot.pos
        BY DEF Joined, Parsed, ParseError
      <3> QED  BY <3>2, <3>3, Zenon
    <2>5. /\ Takes(s, q, f, ExprWords) /\ Settled(s, f, ft) /\ f.pos \in Places(s) /\ f.ok \in BOOLEAN
          /\ f.pos \in Nat /\ q <= f.pos /\ f.pos <= Len(s) + 1
      <3>1. Takes(s, q, o, ExprWords) /\ Settled(s, o, ot) /\ o.pos \in Places(s)
        BY <2>3, GrowsTells
      <3>2. Takes(s, q, f, ExprWords) /\ Settled(s, f, ft)
        BY <2>4, <3>1, Zenon DEF Takes, InPlace, Settled
      <3>3. o.ok \in BOOLEAN /\ o.pos \in Nat /\ q <= o.pos /\ o.pos <= Len(s) + 1
        BY <2>3, GrowsTells
      <3> QED  BY <2>4, <3>1, <3>2, <3>3
    <2> HIDE DEF f, ft
    <2>6. r = (IF f.ok THEN (IF c.ok THEN Parsed(c.pos, f.ast) ELSE c) ELSE f)
      BY <1>2, <1>7
    <2>7. rt = (IF ft.ok THEN (IF ct.ok THEN Parsed(ct.pos, ft.ast) ELSE ct) ELSE ft)
      BY <1>3, <2>1
    <2> DEFINE b == IF c.ok THEN Parsed(c.pos, f.ast) ELSE c
               bt == IF ct.ok THEN Parsed(ct.pos, ft.ast) ELSE ct
    <2>8. Steady(s, f.pos, c, expect(t, f.pos, {")"}), {")"})
      BY <2>5, Kinds, ExpectSteady
    <2>9. ft = f => ct = expect(t, f.pos, {")"})
      BY Zenon
    <2>10. c = IF f.pos <= Len(s) /\ s[f.pos] = ")" THEN Parsed(f.pos + 1, s[f.pos]) ELSE ParseError(f.pos)
      BY <2>5, CloseAt
    <2>11. ft.pos = Len(s) + 2 => ct = ParseError(Len(s) + 2)
      <3> SUFFICES ASSUME ft.pos = Len(s) + 2 PROVE ct = ParseError(Len(s) + 2)
        OBVIOUS
      <3>1. ft.pos \in Places(t) /\ ~(ft.pos <= Len(t))
        BY <1>1 DEF Places
      <3> QED  BY <3>1, CloseAt
    <2> HIDE DEF c, ct
    <2>12. Takes(s, f.pos, b, {")"})
      <3>1. Takes(s, f.pos, c, {")"})
        BY <2>8, Zenon DEF Steady
      <3> QED  BY <3>1, MapTakes
    <2>13. ASSUME ft = f PROVE Settled(s, b, bt)
      <3>1. Settled(s, c, ct)
        BY <2>8, <2>9, <2>13, Zenon DEF Steady
      <3>2. ct = c => ft.ast = f.ast
        BY <2>13
      <3> QED  BY <3>1, <3>2, MapSettled
    <2>14. b.pos = c.pos /\ bt.pos = ct.pos
      BY MapEnd
    <2>15. r = (IF f.ok THEN b ELSE f) /\ rt = (IF ft.ok THEN bt ELSE ft)
      BY <2>6, <2>7
    <2> HIDE DEF b, bt
    <2>16. {")"} \subseteq ExprWords
      BY DEF ExprWords, ValueWords
    <2>17. Takes(s, f.pos, b, ExprWords)
      BY <2>12, <2>16, TakesMore
    <2>18. Steady(s, q, f, ft, ExprWords)
      BY <2>5, Zenon DEF Steady
    <2>19. Steady(s, q, r, rt, ExprWords)
      BY <2>13, <2>15, <2>17, <2>18, ThenSteady
    <2>20. Steady(s, p, r, rt, ExprWords)
      <3>1. /\ r.ok \in BOOLEAN /\ r.pos \in Places(s) /\ q <= r.pos /\ Settled(s, r, rt)
            /\ \A i \in q .. r.pos - 1 : s[i] \in ExprWords
        BY <2>19, Zenon DEF Steady, Takes, InPlace
      <3>2. r.pos \in Nat /\ p <= r.pos
        BY <1>1, <2>2, <3>1 DEF Places
      <3>3. s[p] \in ExprWords
        BY <2>1 DEF ExprWords, ValueWords
      <3>4. ASSUME NEW i \in p .. r.pos - 1 PROVE s[i] \in ExprWords
        <4>1. i = p \/ i \in q .. r.pos - 1
          BY <1>1, <2>2, <3>2
        <4> QED  BY <3>1, <3>3, <4>1
      <3> QED  BY <3>1, <3>2, <3>4, Zenon DEF Steady, Takes, InPlace
    <2>21. ASSUME r.pos = Len(s) + 1, Fits(s, w, p) PROVE rt.pos = Len(s) + 2
      <3>1. s[Len(s)] # "(" /\ s[Len(s)] # ")"
        <4>1. s[Len(s)] \in {"and", "or"} \/ s[Len(s)] \in Idents
          BY <1>1, <2>1, <2>21 DEF Fits
        <4> QED  BY <4>1, ExprWordsApart
      <3>2. q # Len(s) + 1
        BY <1>1, <2>1, <2>2, <3>1
      <3>3. f.pos = Len(s) + 1
        <4> SUFFICES ASSUME f.pos <= Len(s) PROVE FALSE
          BY <1>1, <2>5
        <4>1. f.ok
          BY <1>1, <2>15, <2>21
        <4>2. c.pos = Len(s) + 1
          BY <2>14, <2>15, <2>21, <4>1
        <4>3. s[f.pos] = ")"
          <5> SUFFICES ASSUME s[f.pos] # ")" PROVE FALSE
            OBVIOUS
          <5>1. c = ParseError(f.pos)
            BY <2>10
          <5>2. c.pos = f.pos
            BY <5>1 DEF ParseError
          <5> QED  BY <1>1, <4>2, <5>2
        <4>4. c.pos = f.pos + 1
          <5>1. c = Parsed(f.pos + 1, s[f.pos])
            BY <2>10, <4>3
          <5> QED  BY <5>1 DEF Parsed
        <4>5. f.pos = Len(s)
          BY <1>1, <2>5, <4>2, <4>4
        <4> QED  BY <3>1, <4>3, <4>5
      <3>4. Fits(s, w, q)
        BY <2>2, <2>21, <3>2, FitsLater
      <3>5. ft.pos = Len(s) + 2
        <4>1. o.pos = Len(s) + 1
          BY <2>4, <3>3
        <4>2. ot.pos = Len(s) + 2
          BY <2>3, <3>4, <4>1, GrowsTells
        <4> QED  BY <2>4, <4>2
      <3>6. ct.pos = Len(s) + 2
        BY <2>11, <3>5 DEF ParseError
      <3> QED  BY <2>14, <2>15, <3>5, <3>6
    <2> QED  BY <2>20, <2>21, Zenon DEF Grows, r, rt
  <1> QED  BY <1>6, <1>7

\* parseUnary.
LEMMA UnaryGrows ==
    ASSUME NEW s \in Seq(STRING), NEW w, NEW t \in Seq(STRING), Extends(s, w, t),
           NEW p \in Places(s), NEW g, NEW h, GrowsBehind(s, w, g, h, p)
    PROVE  Grows(s, w, p, parseUnary(g, s, p), parseUnary(h, t, p))
  <1> DEFINE r == parseUnary(g, s, p)
             rt == parseUnary(h, t, p)
             f == parseTerm(g, s, p + 1)
             ft == parseTerm(h, t, p + 1)
             x == Append(f.ast, Node("not", 1))
             xt == Append(ft.ast, Node("not", 1))
  <1>1. p \in Nat /\ 1 <= p /\ Len(s) \in Nat /\ p <= Len(s) + 1 /\ Len(t) = Len(s) + 1
    BY DEF Places, Extends
  <1>2. r = IF ~At(s, p, "not") THEN parseTerm(g, s, p) ELSE IF ~f.ok THEN f ELSE Parsed(f.pos, x)
    BY UnaryUnfold
  <1>3. rt = IF ~At(t, p, "not") THEN parseTerm(h, t, p) ELSE IF ~ft.ok THEN ft ELSE Parsed(ft.pos, xt)
    BY UnaryUnfold
  <1>4. At(s, p, "not") <=> p <= Len(s) /\ s[p] = "not"
    BY AtWord
  <1>5. p <= Len(s) => (At(t, p, "not") <=> At(s, p, "not"))
    BY ExtendsSees DEF At
  <1>6. Grows(s, w, p, parseTerm(g, s, p), parseTerm(h, t, p))
    BY TermGrows
  <1> HIDE DEF r, rt, f, ft
  <1>7. CASE ~At(s, p, "not")
    <2>1. r = parseTerm(g, s, p)
      BY <1>2, <1>7
    <2>2. Grows(s, w, p, r, parseTerm(h, t, p))
      BY <1>6, <2>1
    <2>3. CASE At(t, p, "not")
      <3>1. p = Len(s) + 1 /\ w = "not"
        <4>1. p = Len(s) + 1
          BY <1>1, <1>5, <1>7, <2>3
        <4>2. peek(t, Len(s) + 1) = w
          BY ExtendsSees
        <4> QED  BY <2>3, <4>1, <4>2 DEF At
      <3>2. ~Fits(s, w, p)
        BY <3>1, FitsBegin
      <3>3. ~(r.pos <= Len(s))
        <4>1. r.pos \in Nat /\ p <= r.pos
          BY <2>2, GrowsTells
        <4> QED  BY <1>1, <3>1, <4>1
      <3>4. Settled(s, r, rt)
        BY <3>3 DEF Settled
      <3> QED  BY <2>2, <3>2, <3>4, Zenon DEF Grows, Steady, r, rt
    <2>4. CASE ~At(t, p, "not")
      <3>1. rt = parseTerm(h, t, p)
        BY <1>3, <2>4
      <3> QED  BY <2>2, <3>1 DEF r, rt
    <2> QED  BY <2>3, <2>4
  <1>8. CASE At(s, p, "not")
    <2>1. p <= Len(s) /\ s[p] = "not" /\ At(t, p, "not")
      BY <1>4, <1>5, <1>8
    <2>2. PICK q \in Places(s) : q = p + 1 /\ p < q
      BY <1>1, <2>1 DEF Places
    <2>3. GrowsBehind(s, w, g, h, q)
      <3> SUFFICES ASSUME NEW i \in Places(s), q < i PROVE p < i
        BY Zenon DEF GrowsBehind
      <3> QED  BY <1>1, <2>2 DEF Places
    <2>4. Grows(s, w, q, f, ft)
      BY <2>2, <2>3, TermGrows DEF f, ft
    <2>5. /\ f.ok \in BOOLEAN /\ f.pos \in Places(s) /\ f.pos \in Nat /\ q <= f.pos /\ f.pos <= Len(s) + 1
          /\ Takes(s, q, f, ExprWords) /\ Settled(s, f, ft)
      BY <2>4, GrowsTells
    <2>6. r = (IF f.ok THEN Parsed(f.pos, x) ELSE f) /\ rt = (IF ft.ok THEN Parsed(ft.pos, xt) ELSE ft) /\ (ft = f => xt = x)
      <3>1. ft = f => xt = x
        BY Zenon
      <3> QED  BY <1>2, <1>3, <1>8, <2>1, <3>1
    <2> HIDE DEF x, xt
    <2>7. Takes(s, q, r, ExprWords)
      BY <2>5, <2>6, MapTakes
    <2>8. Settled(s, r, rt)
      BY <2>5, <2>6, MapSettled
    <2>9. r.pos = f.pos /\ rt.pos = ft.pos
      BY <2>6, MapEnd
    <2>10. Steady(s, p, r, rt, ExprWords)
      <3>1. r.ok \in BOOLEAN /\ r.pos \in Places(s) /\ q <= r.pos /\ \A i \in q .. r.pos - 1 : s[i] \in ExprWords
        BY <2>7, Zenon DEF Takes, InPlace
      <3>2. r.pos \in Nat /\ p <= r.pos
        BY <1>1, <2>2, <3>1 DEF Places
      <3>3. s[p] \in ExprWords
        BY <2>1 DEF ExprWords
      <3>4. ASSUME NEW i \in p .. r.pos - 1 PROVE s[i] \in ExprWords
        <4>1. i = p \/ i \in q .. r.pos - 1
          BY <1>1, <2>2, <3>2
        <4> QED  BY <3>1, <3>3, <4>1
      <3> QED  BY <2>8, <3>1, <3>2, <3>4, Zenon DEF Steady, Takes, InPlace
    <2>11. ASSUME r.pos = Len(s) + 1, Fits(s, w, p) PROVE rt.pos = Len(s) + 2
      <3>1. q # Len(s) + 1
        <4>1. s[Len(s)] \in {"and", "or"} \/ s[Len(s)] \in Idents
          BY <1>1, <2>1, <2>11 DEF Fits
        <4>2. s[Len(s)] # "not"
          BY <4>1, ExprWordsApart
        <4> QED  BY <1>1, <2>1, <2>2, <4>2
      <3>2. Fits(s, w, q)
        BY <2>2, <2>11, <3>1, FitsLater
      <3>3. f.pos = Len(s) + 1
        BY <2>9, <2>11
      <3>4. ft.pos = Len(s) + 2
        BY <2>4, <3>2, <3>3, GrowsTells
      <3> QED  BY <2>9, <3>4
    <2> QED  BY <2>10, <2>11, Zenon DEF Grows, r, rt
  <1> QED  BY <1>7, <1>8

\* One round of the loops of parseAndExpr and parseExpr, as Terms writes it.
Loop(f, word, u, z) ==
    IF ~f.ok \/ ~At(u, f.pos, word) THEN [ok |-> f.ok, pos |-> f.pos, ast |-> f.ast, terms |-> 1]
    ELSE [ok |-> z.ok, pos |-> z.pos, ast |-> f.ast \o z.ast, terms |-> z.terms + 1]

\* A loop, from its first term on and what it reads behind the connective.
LEMMA LoopGrows ==
    ASSUME NEW s \in Seq(STRING), NEW w, NEW t \in Seq(STRING), Extends(s, w, t),
           NEW p \in Places(s), NEW f, NEW ft, Grows(s, w, p, f, ft), NEW word \in {"and", "or"},
           NEW z, NEW y, f.ok /\ At(s, f.pos, word) => Grows(s, w, f.pos + 1, z, y),
           NEW zt, ft = f => zt = y
    PROVE  Grows(s, w, p, Loop(f, word, s, z), Loop(ft, word, t, zt))
  <1> DEFINE r == Loop(f, word, s, z)
             rt == Loop(ft, word, t, zt)
  <1>1. p \in Nat /\ 1 <= p /\ Len(s) \in Nat /\ p <= Len(s) + 1 /\ Len(t) = Len(s) + 1
    BY DEF Places, Extends
  <1>2. r = IF ~f.ok \/ ~At(s, f.pos, word) THEN [ok |-> f.ok, pos |-> f.pos, ast |-> f.ast, terms |-> 1]
            ELSE [ok |-> z.ok, pos |-> z.pos, ast |-> f.ast \o z.ast, terms |-> z.terms + 1]
    BY DEF Loop
  <1>3. rt = IF ~ft.ok \/ ~At(t, ft.pos, word) THEN [ok |-> ft.ok, pos |-> ft.pos, ast |-> ft.ast, terms |-> 1]
             ELSE [ok |-> zt.ok, pos |-> zt.pos, ast |-> ft.ast \o zt.ast, terms |-> zt.terms + 1]
    BY DEF Loop
  <1>4. /\ f.ok \in BOOLEAN /\ f.pos \in Places(s) /\ f.pos \in Nat /\ p <= f.pos /\ f.pos <= Len(s) + 1
        /\ Takes(s, p, f, ExprWords) /\ (f.pos <= Len(s) => ft = f)
    <2>1. /\ f.ok \in BOOLEAN /\ f.pos \in Places(s) /\ f.pos \in Nat /\ p <= f.pos /\ f.pos <= Len(s) + 1
          /\ Takes(s, p, f, ExprWords) /\ Settled(s, f, ft)
      BY GrowsTells
    <2> QED  BY <2>1, Zenon DEF Settled
  <1>5. At(s, f.pos, word) <=> f.pos <= Len(s) /\ s[f.pos] = word
    BY <1>4, AtWord
  <1>6. f.pos <= Len(s) => (At(t, f.pos, word) <=> At(s, f.pos, word))
    BY <1>4, ExtendsSees DEF At
  <1> HIDE DEF r, rt
  <1>7. CASE ~f.ok \/ ~At(s, f.pos, word)
    <2>1. r = [ok |-> f.ok, pos |-> f.pos, ast |-> f.ast, terms |-> 1]
      BY <1>2, <1>7
    <2>2. r.ok = f.ok /\ r.pos = f.pos
      BY <2>1
    <2>3. ASSUME f.pos <= Len(s) PROVE rt = r
      <3>1. ft = f /\ (~f.ok \/ ~At(t, f.pos, word))
        BY <1>4, <1>6, <1>7, <2>3
      <3>2. rt = [ok |-> f.ok, pos |-> f.pos, ast |-> f.ast, terms |-> 1]
        BY <1>3, <3>1
      <3> QED  BY <2>1, <3>2
    <2>4. ASSUME f.pos = Len(s) + 1, Fits(s, w, p) PROVE rt.pos = Len(s) + 2
      <3>1. ft.pos = Len(s) + 2
        BY <2>4, GrowsTells
      <3>2. ~At(t, Len(s) + 2, word)
        BY ExtendsSees DEF At
      <3>3. rt = [ok |-> ft.ok, pos |-> ft.pos, ast |-> ft.ast, terms |-> 1]
        BY <1>3, <3>1, <3>2
      <3> QED  BY <3>1, <3>3
    <2>5. Takes(s, p, r, ExprWords) /\ Settled(s, r, rt)
      BY <1>4, <2>2, <2>3, Zenon DEF Takes, InPlace, Settled
    <2> QED  BY <2>2, <2>4, <2>5, Zenon DEF Grows, Steady, r, rt
  <1>8. CASE f.ok /\ At(s, f.pos, word)
    <2>1. f.pos <= Len(s) /\ s[f.pos] = word /\ ft = f /\ zt = y
      BY <1>4, <1>5, <1>8
    <2>2. PICK q \in Places(s) : q = f.pos + 1 /\ p < q /\ q - 1 = f.pos /\ q \in Nat
      BY <1>1, <1>4, <2>1 DEF Places
    <2>3. Grows(s, w, q, z, y)
      BY <1>8, <2>2
    <2>4. r = [ok |-> z.ok, pos |-> z.pos, ast |-> f.ast \o z.ast, terms |-> z.terms + 1]
      BY <1>2, <1>8
    <2>5. rt = [ok |-> y.ok, pos |-> y.pos, ast |-> f.ast \o y.ast, terms |-> y.terms + 1]
      <3>1. ft.ok /\ At(t, ft.pos, word)
        BY <1>6, <1>8, <2>1
      <3> QED  BY <1>3, <2>1, <3>1
    <2>6. r.ok = z.ok /\ r.pos = z.pos /\ rt.pos = y.pos /\ (y = z => rt = r)
      BY <2>4, <2>5
    <2>7. /\ z.ok \in BOOLEAN /\ z.pos \in Places(s) /\ z.pos \in Nat /\ q <= z.pos /\ z.pos <= Len(s) + 1
          /\ Takes(s, q, z, ExprWords) /\ (z.pos <= Len(s) => y = z)
      <3>1. /\ z.ok \in BOOLEAN /\ z.pos \in Places(s) /\ z.pos \in Nat /\ q <= z.pos /\ z.pos <= Len(s) + 1
            /\ Takes(s, q, z, ExprWords) /\ Settled(s, z, y)
        BY <2>3, GrowsTells
      <3> QED  BY <3>1, Zenon DEF Settled
    <2>8. Settled(s, r, rt)
      BY <2>6, <2>7 DEF Settled
    <2>9. ASSUME NEW i \in p .. z.pos - 1 PROVE s[i] \in ExprWords
      <3>1. i \in p .. f.pos - 1 \/ i = f.pos \/ i \in q .. z.pos - 1
        BY <1>1, <1>4, <2>2, <2>7
      <3>2. word \in ExprWords
        BY DEF ExprWords
      <3> QED  BY <1>4, <2>1, <2>7, <3>1, <3>2 DEF Takes
    <2>10. Takes(s, p, r, ExprWords)
      <3>1. p <= z.pos
        BY <1>1, <2>2, <2>7
      <3> QED  BY <2>6, <2>7, <2>9, <3>1 DEF Takes, InPlace
    <2>11. ASSUME r.pos = Len(s) + 1, Fits(s, w, p) PROVE rt.pos = Len(s) + 2
      <3>1. q = Len(s) + 1 => s[Len(s)] \in {"and", "or"}
        BY <1>1, <2>1, <2>2
      <3>2. Fits(s, w, q)
        BY <2>2, <2>11, <3>1, FitsLater
      <3>3. z.pos = Len(s) + 1
        BY <2>6, <2>11
      <3>4. y.pos = Len(s) + 2
        BY <2>3, <3>2, <3>3, GrowsTells
      <3> QED  BY <2>6, <3>4
    <2> QED  BY <2>8, <2>10, <2>11, Zenon DEF Grows, Steady, r, rt
  <1> QED  BY <1>4, <1>7, <1>8

\* A node of its terms grows as they do.
LEMMA JoinedGrows ==
    ASSUME NEW s \in Seq(STRING), NEW w, NEW p \in Places(s), NEW r, NEW rt, Grows(s, w, p, r, rt), NEW node
    PROVE  Grows(s, w, p, Joined(node, r), Joined(node, rt))
  <1>1. /\ r.ok \in BOOLEAN /\ Takes(s, p, r, ExprWords) /\ Settled(s, r, rt)
        /\ r.pos = Len(s) + 1 /\ Fits(s, w, p) => rt.pos = Len(s) + 2
    BY GrowsTells
  <1> DEFINE j == Joined(node, r)
             jt == Joined(node, rt)
  <1>2. j.ok = r.ok /\ j.pos = r.pos
    BY <1>1, JoinedEnd
  <1>3. jt.pos = rt.pos
    BY DEF Joined, Parsed, ParseError
  <1>4. rt = r => jt = j
    BY Zenon
  <1> HIDE DEF j, jt
  <1>5. Takes(s, p, j, ExprWords) /\ Settled(s, j, jt)
    BY <1>1, <1>2, <1>4, Zenon DEF Takes, InPlace, Settled
  <1> QED  BY <1>1, <1>2, <1>3, <1>5, Zenon DEF Grows, Steady, j, jt

\* parseAndExpr.
LEMMA AndGrows ==
    ASSUME NEW s \in Seq(STRING), NEW w, NEW t \in Seq(STRING), Extends(s, w, t),
           NEW p \in Places(s), NEW g, NEW h, GrowsBehind(s, w, g, h, p)
    PROVE  Grows(s, w, p, parseAndExpr(g, s, p), parseAndExpr(h, t, p))
  <1> DEFINE f == parseUnary(g, s, p)
             ft == parseUnary(h, t, p)
             z == g[f.pos + 1].ands
             y == h[f.pos + 1].ands
             zt == h[ft.pos + 1].ands
  <1>1. parseAndExpr(g, s, p) = Loop(f, "and", s, z) /\ parseAndExpr(h, t, p) = Loop(ft, "and", t, zt)
    BY Zenon DEF parseAndExpr, Terms, At, Loop
  <1>2. Grows(s, w, p, f, ft)
    BY UnaryGrows
  <1> HIDE DEF f, ft
  <1>3. ASSUME f.ok /\ At(s, f.pos, "and") PROVE Grows(s, w, f.pos + 1, z, y)
    <2>1. f.pos \in Places(s) /\ p <= f.pos
      BY <1>2, GrowsTells
    <2>2. f.pos <= Len(s)
      BY <1>3, <2>1, AtWord
    <2>3. f.pos + 1 \in Places(s) /\ p < f.pos + 1
      BY <2>1, <2>2 DEF Places
    <2> QED  BY <2>3, Zenon DEF GrowsBehind
  <1>4. ft = f => zt = y
    BY Zenon
  <1> HIDE DEF z, y, zt
  <1>5. Grows(s, w, p, Loop(f, "and", s, z), Loop(ft, "and", t, zt))
    BY <1>2, <1>3, <1>4, LoopGrows
  <1> QED  BY <1>1, <1>5

\* parseExpr.
LEMMA OrGrows ==
    ASSUME NEW s \in Seq(STRING), NEW w, NEW t \in Seq(STRING), Extends(s, w, t),
           NEW p \in Places(s), NEW g, NEW h, GrowsBehind(s, w, g, h, p)
    PROVE  Grows(s, w, p, parseOrExpr(g, s, p), parseOrExpr(h, t, p))
  <1> DEFINE f == Joined("and", parseAndExpr(g, s, p))
             ft == Joined("and", parseAndExpr(h, t, p))
             z == g[f.pos + 1].ors
             y == h[f.pos + 1].ors
             zt == h[ft.pos + 1].ors
  <1>1. parseOrExpr(g, s, p) = Loop(f, "or", s, z) /\ parseOrExpr(h, t, p) = Loop(ft, "or", t, zt)
    BY Zenon DEF parseOrExpr, Terms, At, Loop
  <1>2. Grows(s, w, p, f, ft)
    BY AndGrows, JoinedGrows
  <1> HIDE DEF f, ft
  <1>3. ASSUME f.ok /\ At(s, f.pos, "or") PROVE Grows(s, w, f.pos + 1, z, y)
    <2>1. f.pos \in Places(s) /\ p <= f.pos
      BY <1>2, GrowsTells
    <2>2. f.pos <= Len(s)
      BY <1>3, <2>1, AtWord
    <2>3. f.pos + 1 \in Places(s) /\ p < f.pos + 1
      BY <2>1, <2>2 DEF Places
    <2> QED  BY <2>3, Zenon DEF GrowsBehind
  <1>4. ft = f => zt = y
    BY Zenon
  <1> HIDE DEF z, y, zt
  <1>5. Grows(s, w, p, Loop(f, "or", s, z), Loop(ft, "or", t, zt))
    BY <1>2, <1>3, <1>4, LoopGrows
  <1> QED  BY <1>1, <1>5

\* Every expression of the parser takes a word that fits.
LEMMA ExprGrows ==
    ASSUME NEW s \in Seq(STRING), NEW w, NEW t \in Seq(STRING), Extends(s, w, t), NEW p \in Places(s)
    PROVE  Grows(s, w, p, parseExpr(s, p), parseExpr(t, p))
  <1> DEFINE g == Exprs(s)
             h == Exprs(t)
             grows(q) == Grows(s, w, q, g[q].ands, h[q].ands) /\ Grows(s, w, q, g[q].ors, h[q].ors)
             K == {k \in Nat : \A q \in Places(s) : Len(s) + 1 - k < q => grows(q)}
  <1>1. Len(s) \in Nat /\ \A q \in Places(s) : q \in Nat /\ 1 <= q /\ q <= Len(s) + 1 /\ q \in Places(t)
    BY ExtendsSees DEF Places
  <1>2. \A q \in Places(s) : /\ g[q].ands = parseAndExpr(g, s, q) /\ g[q].ors = parseOrExpr(g, s, q)
                             /\ h[q].ands = parseAndExpr(h, t, q) /\ h[q].ors = parseOrExpr(h, t, q)
    <2> SUFFICES ASSUME NEW q \in Places(s)
                 PROVE  /\ g[q].ands = parseAndExpr(g, s, q) /\ g[q].ors = parseOrExpr(g, s, q)
                        /\ h[q].ands = parseAndExpr(h, t, q) /\ h[q].ors = parseOrExpr(h, t, q)
      OBVIOUS
    <2>1. g[q] = Body(s, g, q)
      BY MarksRight, ExprsRight
    <2>2. h[q] = Body(t, h, q)
      BY <1>1, MarksRight, ExprsRight
    <2> HIDE DEF g, h
    <2> QED  BY <2>1, <2>2 DEF Body
  <1> HIDE DEF g, h
  <1>3. 0 \in K
    <2>1. \A q \in Places(s) : ~(Len(s) + 1 - 0 < q)
      BY <1>1
    <2> HIDE DEF grows
    <2> QED  BY <2>1
  <1>4. ASSUME NEW k \in K PROVE k + 1 \in K
    <2>1. k \in Nat /\ \A q \in Places(s) : Len(s) + 1 - k < q => grows(q)
      OBVIOUS
    <2>2. ASSUME NEW q \in Places(s), Len(s) + 1 - (k + 1) < q PROVE grows(q)
      <3> HIDE DEF grows
      <3>1. \A i \in Places(s) : q < i => Len(s) + 1 - k < i
        BY <1>1, <2>1, <2>2
      <3>2. \A i \in Places(s) : q < i => grows(i)
        BY <2>1, <3>1
      <3>3. GrowsBehind(s, w, g, h, q)
        BY <3>2 DEF GrowsBehind, grows
      <3>4. Grows(s, w, q, parseAndExpr(g, s, q), parseAndExpr(h, t, q))
        BY <3>3, AndGrows
      <3>5. Grows(s, w, q, parseOrExpr(g, s, q), parseOrExpr(h, t, q))
        BY <3>3, OrGrows
      <3> QED  BY <1>2, <3>4, <3>5 DEF grows
    <2> HIDE DEF grows
    <2> QED  BY <2>1, <2>2
  <1>5. K = Nat
    <2>1. K \in SUBSET Nat
      OBVIOUS
    <2> HIDE DEF K
    <2> QED  BY <1>3, <1>4, <2>1, SetInduction
  <1>6. grows(p)
    <2> HIDE DEF grows
    <2>1. Len(s) + 1 \in K /\ Len(s) + 1 - (Len(s) + 1) < p
      BY <1>1, <1>5
    <2> QED  BY <2>1
  <1>7. Grows(s, w, p, Joined("or", g[p].ors), Joined("or", h[p].ors))
    BY <1>6, JoinedGrows
  <1> QED  BY <1>7 DEF parseExpr, g, h

-----------------------------------------------------------------------------
(***************************************************************************)
(* Clauses                                                                 *)
(***************************************************************************)

\* A word that the completer offers behind a query of two words or more.
Offered(s, w) ==
    LET last == s[Len(s)] IN
    \/ w \in Idents /\ (last \in {"by", "where", "and", "or"} \/ (last = "," /\ inGroupByList(s)))
    \/ w \in operatorSuggestions /\ last \in Idents /\ s[Len(s) - 1] \in {"where", "and", "or", "not"}
    \/ w = "by" /\ last = "order"
    \/ w = "limit" /\ last \in {"asc", "desc"}

\* What is read behind the word of a clause goes on with w, or, being complete, leaves it to
\* the clause behind.
Continues(word, s, w, r, rt) ==
    /\ Settled(s, r, rt)
    /\ r.pos = Len(s) + 1 => rt.pos = Len(s) + 2 \/ (word = "order" /\ w = "limit" /\ r.ok /\ rt = r)

\* What the completer offers, by the last word of the query.
LEMMA OfferedBehind ==
    ASSUME NEW s \in Seq(STRING), NEW w, Offered(s, w)
    PROVE  /\ s[Len(s)] \in {"by", "where", "and", "or", ","} => w \in Idents
           /\ s[Len(s)] = "," => inGroupByList(s)
           /\ s[Len(s)] \in Idents => w \in operatorSuggestions /\ s[Len(s) - 1] \in {"where", "and", "or", "not"}
           /\ s[Len(s)] = "order" => w = "by"
           /\ s[Len(s)] \in {"asc", "desc"} => w = "limit"
           /\ s[Len(s)] \in Idents \cup {"by", "where", "and", "or", ",", "order", "asc", "desc"}
  <1>1. \A x \in {"by", "where", "and", "or", ",", "order", "asc", "desc"} : x \notin Idents
    BY ExprWordsApart DEF QueryWords, ClauseWords
  <1>2. PICK last : last = s[Len(s)]
    OBVIOUS
  <1> QED  BY <1>1, <1>2 DEF Offered

\* The list behind by.
LEMMA ByContinues ==
    ASSUME NEW s \in Seq(STRING), NEW w, NEW t \in Seq(STRING), Extends(s, w, t), Offered(s, w),
           NEW p \in Places(s), p <= Len(s), s[p] = "by"
    PROVE  Continues("by", s, w, parseGroupBy(s, p + 1), parseGroupBy(t, p + 1))
  <1> DEFINE r == Items({"ident"}, s, p + 1)
             rt == Items({"ident"}, t, p + 1)
  <1>1. p \in Nat /\ 1 <= p /\ Len(s) \in Nat /\ p + 1 \in Places(s)
    BY DEF Places
  <1>2. Steady(s, p + 1, r, rt, Idents \cup {","}) /\ Waits(s, w, p + 1, r, rt, Idents)
    <2>1. Tells({"ident"}, Idents)
      BY Kinds
    <2> QED  BY <1>1, <2>1, ItemsSteady
  <1> HIDE DEF r, rt
  <1>3. ASSUME r.pos = Len(s) + 1 PROVE rt.pos = Len(s) + 2
    <2>1. CASE r.ok
      <3>1. s[Len(s) - 1] \in {"where", "and", "or", "not"}
        BY <1>2, <1>3, <2>1, OfferedBehind DEF Waits
      <3>2. Takes(s, p + 1, r, Idents \cup {","})
        BY <1>2, Zenon DEF Steady
      <3>3. s[Len(s) - 1] \in Idents \cup {",", "by"}
        <4>1. CASE p + 1 <= Len(s) - 1
          <5>1. s[Len(s) - 1] \in Idents \cup {","}
            BY <1>1, <1>3, <3>2, <4>1, TakesLast
          <5> QED  BY <5>1
        <4>2. CASE ~(p + 1 <= Len(s) - 1)
          <5>1. p + 1 <= Len(s)
            BY <1>2, <1>3, <2>1 DEF Waits
          <5>2. p = Len(s) - 1
            BY <1>1, <4>2, <5>1
          <5> QED  BY <5>2
        <4> QED  BY <4>1, <4>2
      <3>4. {"where", "and", "or", "not"} \cap Idents = {}
        BY ExprWordsApart DEF QueryWords, ClauseWords
      <3> QED  BY <3>1, <3>3, <3>4
    <2>2. CASE ~r.ok
      <3>1. s[Len(s)] \in {"by", ","}
        <4>1. p + 1 = Len(s) + 1 => p = Len(s)
          BY <1>1
        <4> QED  BY <1>2, <1>3, <2>2, <4>1 DEF Waits
      <3>2. w \in Idents
        BY <3>1, OfferedBehind
      <3> QED  BY <1>2, <1>3, <2>2, <3>2 DEF Waits
    <2> QED  BY <2>1, <2>2
  <1>4. Settled(s, r, rt)
    BY <1>2, Zenon DEF Steady
  <1> QED  BY <1>3, <1>4, Zenon DEF Continues, parseGroupBy, r, rt

\* Within a filter is no list of a by.
LEMMA FilterIsNoList ==
    ASSUME NEW s \in Seq(STRING), NEW p \in 1 .. Len(s), s[p] = "where", \A i \in p + 1 .. Len(s) : s[i] \in ExprWords
    PROVE  ~inGroupByList(s)
  <1> DEFINE marks == {i \in DOMAIN s : s[i] \in {"by", "where", "over", "step", "order", "limit"}}
  <1>1. p \in Nat /\ Len(s) \in Nat /\ DOMAIN s = 1 .. Len(s)
    OBVIOUS
  <1>2. {"by", "where", "over", "step", "order", "limit"} \cap ExprWords = {}
    BY ExprWordsApart DEF QueryWords, ClauseWords
  <1>3. p \in marks
    BY <1>1
  <1>4. ASSUME NEW i \in marks PROVE i \in Nat /\ i <= p
    <2>1. i \in 1 .. Len(s) /\ s[i] \notin ExprWords
      BY <1>1, <1>2
    <2> QED  BY <1>1, <2>1
  <1> HIDE DEF marks
  <1>5. Max(marks) = p
    <2>1. \A x \in marks : (\A y \in marks : x >= y) => x = p
      BY <1>1, <1>3, <1>4
    <2>2. \A y \in marks : p >= y
      BY <1>1, <1>4
    <2> QED  BY <1>3, <2>1, <2>2, Zenon DEF Max
  <1>6. inGroupByList(s) => s[Max(marks)] = "by"
    BY Zenon DEF inGroupByList, marks
  <1> QED  BY <1>5, <1>6

\* The expression behind where.
LEMMA WhereContinues ==
    ASSUME NEW s \in Seq(STRING), NEW w, NEW t \in Seq(STRING), Extends(s, w, t), Offered(s, w),
           NEW p \in Places(s), p <= Len(s), s[p] = "where"
    PROVE  Continues("where", s, w, parseExpr(s, p + 1), parseExpr(t, p + 1))
  <1> DEFINE r == parseExpr(s, p + 1)
             rt == parseExpr(t, p + 1)
  <1>1. p \in Nat /\ 1 <= p /\ Len(s) \in Nat /\ p + 1 \in Places(s)
    BY DEF Places
  <1>2. Grows(s, w, p + 1, r, rt)
    BY <1>1, ExprGrows
  <1> HIDE DEF r, rt
  <1>3. /\ Takes(s, p + 1, r, ExprWords) /\ Settled(s, r, rt)
        /\ r.pos = Len(s) + 1 /\ Fits(s, w, p + 1) => rt.pos = Len(s) + 2
    BY <1>2, Zenon DEF Grows, Steady
  <1>4. ASSUME r.pos = Len(s) + 1 PROVE Fits(s, w, p + 1)
    <2>1. \A i \in p + 1 .. Len(s) : s[i] \in ExprWords
      <3>1. r.pos - 1 = Len(s)
        BY <1>1, <1>4
      <3> QED  BY <1>3, <3>1 DEF Takes
    <2>2. ~inGroupByList(s)
      <3>1. p \in 1 .. Len(s)
        BY <1>1
      <3> QED  BY <2>1, <3>1, FilterIsNoList
    <2>3. CASE p = Len(s)
      <3>1. w \in Idents
        BY <2>3, OfferedBehind
      <3> QED  BY <1>1, <2>3, <3>1 DEF Fits
    <2>4. CASE p # Len(s)
      <3>1. s[Len(s)] \in ExprWords /\ p + 1 <= Len(s)
        BY <1>1, <2>1, <2>4
      <3>2. s[Len(s)] \notin {"by", "where", "order", "asc", "desc"}
        BY <3>1, ExprWordsApart DEF QueryWords, ClauseWords
      <3>3. s[Len(s)] \in Idents \cup {"and", "or"}
        BY <2>2, <3>2, OfferedBehind
      <3>4. CASE s[Len(s)] \in Idents
        BY <3>1, <3>4, OfferedBehind DEF Fits
      <3>5. CASE s[Len(s)] \in {"and", "or"}
        BY <3>5, OfferedBehind DEF Fits
      <3> QED  BY <3>3, <3>4, <3>5
    <2> QED  BY <2>3, <2>4
  <1> QED  BY <1>3, <1>4, Zenon DEF Continues, r, rt

\* Behind a duration or a number nothing is offered, nor behind the word that asks for one.
LEMMA NothingOffered ==
    ASSUME NEW s, NEW w, Offered(s, w)
    PROVE  s[Len(s)] \notin DOMAIN Durations \cup Ints \cup {"over", "step", "limit"}
  <1>1. s[Len(s)] \in Idents \cup {"by", "where", "and", "or", ",", "order", "asc", "desc"}
    <2>1. PICK last : last = s[Len(s)]
      OBVIOUS
    <2> QED  BY <2>1 DEF Offered
  <1>2. {"by", "where", "and", "or", "order", "asc", "desc", "over", "step", "limit"} \subseteq keywords /\ "," \in Punctuation
    BY DEF keywords, Punctuation
  <1>3. (DOMAIN Durations \cup Ints) \cap (Idents \cup keywords \cup Punctuation) = {}
    BY ExprWordsApart
  <1>4. {"over", "step", "limit"} \cap Idents = {}
    BY <1>2, ClassesApart
  <1> QED  BY <1>1, <1>2, <1>3, <1>4

\* One token of a class behind which nothing is offered, as what is read behind a word that
\* asks for it.
LEMMA TokenContinues ==
    ASSUME NEW s \in Seq(STRING), NEW w, NEW t \in Seq(STRING), Extends(s, w, t), Offered(s, w),
           NEW p \in Places(s), p <= Len(s), s[p] \in {"over", "step", "limit"},
           NEW kinds, NEW set, Tells(kinds, set), set \subseteq DOMAIN Durations \cup Ints
    PROVE  /\ p + 1 <= Len(s) /\ expect(t, p + 1, kinds) = expect(s, p + 1, kinds)
           /\ expect(s, p + 1, kinds).pos <= Len(s)
  <1>1. p \in Nat /\ 1 <= p /\ Len(s) \in Nat /\ p + 1 \in Places(s) /\ p + 1 \in Nat /\ 1 <= p + 1
    BY DEF Places
  <1>2. p + 1 <= Len(s)
    <2>1. p # Len(s)
      BY NothingOffered
    <2> QED  BY <1>1, <2>1
  <1>3. expect(t, p + 1, kinds) = expect(s, p + 1, kinds)
    BY <1>1, <1>2, ExpectSteady
  <1>4. expect(s, p + 1, kinds) = IF p + 1 <= Len(s) /\ s[p + 1] \in set THEN Parsed(p + 1 + 1, s[p + 1]) ELSE ParseError(p + 1)
    BY <1>1, Expect
  <1>5. CASE s[p + 1] \in set
    <2>1. expect(s, p + 1, kinds).pos = p + 2
      BY <1>1, <1>2, <1>4, <1>5 DEF Parsed
    <2>2. p + 1 # Len(s)
      BY <1>5, NothingOffered
    <2> QED  BY <1>1, <1>2, <1>3, <2>1, <2>2
  <1>6. CASE s[p + 1] \notin set
    <2>1. expect(s, p + 1, kinds).pos = p + 1
      BY <1>4, <1>6 DEF ParseError
    <2> QED  BY <1>2, <1>3, <2>1
  <1> QED  BY <1>5, <1>6

\* The duration behind over and step.
LEMMA DurationContinues ==
    ASSUME NEW s \in Seq(STRING), NEW w, NEW t \in Seq(STRING), Extends(s, w, t), Offered(s, w),
           NEW p \in Places(s), p <= Len(s), s[p] \in {"over", "step"}, NEW word
    PROVE  Continues(word, s, w, parseDurationToken(s, p + 1), parseDurationToken(t, p + 1))
  <1> DEFINE d == expect(s, p + 1, {"duration"})
             dt == expect(t, p + 1, {"duration"})
             r == parseDurationToken(s, p + 1)
             rt == parseDurationToken(t, p + 1)
  <1>1. p + 1 <= Len(s) /\ dt = d /\ d.pos <= Len(s) /\ Len(s) \in Nat
    <2>1. Tells({"duration"}, DOMAIN Durations)
      BY Kinds
    <2>2. DOMAIN Durations \subseteq DOMAIN Durations \cup Ints /\ s[p] \in {"over", "step", "limit"} /\ Len(s) \in Nat
      OBVIOUS
    <2> QED  BY <2>1, <2>2, TokenContinues
  <1>2. r = IF ~d.ok THEN d ELSE IF Lasts(d.ast) THEN Parsed(d.pos, Durations[d.ast]) ELSE ParseError(p + 1)
    BY Zenon DEF parseDurationToken, Then, Lasts
  <1>3. rt = IF ~dt.ok THEN dt ELSE IF Lasts(dt.ast) THEN Parsed(dt.pos, Durations[dt.ast]) ELSE ParseError(p + 1)
    BY Zenon DEF parseDurationToken, Then, Lasts
  <1> HIDE DEF d, dt, r, rt
  <1>4. rt = r
    BY <1>1, <1>2, <1>3
  <1>5. r.pos = d.pos \/ r.pos = p + 1
    BY <1>2 DEF Parsed, ParseError
  <1>6. r.pos # Len(s) + 1
    <2>1. CASE r.pos = d.pos
      <3>1. ~(Len(s) + 1 <= Len(s))
        BY <1>1
      <3> QED  BY <1>1, <2>1, <3>1
    <2>2. CASE r.pos = p + 1
      <3>1. ~(Len(s) + 1 <= Len(s))
        BY <1>1
      <3> QED  BY <1>1, <2>2, <3>1
    <2> QED  BY <1>5, <2>1, <2>2
  <1> QED  BY <1>4, <1>6, Zenon DEF Continues, Settled, r, rt

\* The number behind limit.
LEMMA LimitContinues ==
    ASSUME NEW s \in Seq(STRING), NEW w, NEW t \in Seq(STRING), Extends(s, w, t), Offered(s, w),
           NEW p \in Places(s), p <= Len(s), s[p] = "limit", NEW word
    PROVE  Continues(word, s, w, parseLimit(s, p + 1), parseLimit(t, p + 1))
  <1> DEFINE d == expect(s, p + 1, {"int"})
             dt == expect(t, p + 1, {"int"})
             r == parseLimit(s, p + 1)
             rt == parseLimit(t, p + 1)
  <1>1. p + 1 <= Len(s) /\ dt = d /\ d.pos <= Len(s) /\ Len(s) \in Nat
    <2>1. Tells({"int"}, Ints)
      BY Kinds
    <2>2. Ints \subseteq DOMAIN Durations \cup Ints /\ s[p] \in {"over", "step", "limit"} /\ Len(s) \in Nat
      OBVIOUS
    <2> QED  BY <2>1, <2>2, TokenContinues
  <1>2. /\ r = IF ~d.ok THEN d ELSE IF d.ast \notin AtoiFails THEN Parsed(d.pos, Numbers[d.ast]) ELSE ParseError(p + 1)
        /\ rt = IF ~dt.ok THEN dt ELSE IF dt.ast \notin AtoiFails THEN Parsed(dt.pos, Numbers[dt.ast]) ELSE ParseError(p + 1)
    BY Zenon DEF parseLimit, Then
  <1> HIDE DEF d, dt, r, rt
  <1>3. rt = r
    BY <1>1, <1>2
  <1>4. r.pos = d.pos \/ r.pos = p + 1
    BY <1>2 DEF Parsed, ParseError
  <1>5. r.pos # Len(s) + 1
    <2>1. ~(Len(s) + 1 <= Len(s))
      BY <1>1
    <2> QED  BY <1>1, <1>4, <2>1
  <1> QED  BY <1>3, <1>5, Zenon DEF Continues, Settled, r, rt

\* What parseOrderBy makes of a field and the word behind it.
Direction(u, id) ==
    IF At(u, id.pos, "asc") \/ At(u, id.pos, "desc")
      THEN Parsed(id.pos + 1, [field |-> id.ast, direction |-> u[id.pos]])
      ELSE Parsed(id.pos, [field |-> id.ast, direction |-> "asc"])

\* parseOrderBy, call by call.
LEMMA OrderUnfold ==
    ASSUME NEW u, NEW q
    PROVE  parseOrderBy(u, q) = IF ~At(u, q, "by") THEN ParseError(q)
                                ELSE IF ~Ident(u, q + 1).ok THEN Ident(u, q + 1) ELSE Direction(u, Ident(u, q + 1))
  <1>1. \A i : peek(u, i) \in {"asc", "desc"} <=> At(u, i, "asc") \/ At(u, i, "desc")
    BY Zenon DEF At
  <1> QED  BY <1>1, Zenon DEF parseOrderBy, Then, At, Direction

\* The order is asked for with by.
LEMMA OrderWaitsForBy ==
    ASSUME NEW s \in Seq(STRING), NEW w, NEW t \in Seq(STRING), Extends(s, w, t), Offered(s, w), s # <<>>, s[Len(s)] = "order"
    PROVE  /\ parseOrderBy(s, Len(s) + 1).pos = Len(s) + 1
           /\ parseOrderBy(t, Len(s) + 1).pos = Len(s) + 2
  <1>1. Len(s) \in Nat /\ Len(t) = Len(s) + 1 /\ Len(s) + 1 \in Places(s) /\ Len(s) + 1 \in Places(t) /\ w = "by"
    <2>1. w = "by"
      BY OfferedBehind
    <2> QED  BY <2>1, ExtendsSees
  <1>2. ~At(s, Len(s) + 1, "by")
    BY <1>1, AtWord
  <1>3. parseOrderBy(s, Len(s) + 1) = ParseError(Len(s) + 1)
    BY <1>2, OrderUnfold
  <1>4. At(t, Len(s) + 1, "by")
    BY <1>1, ExtendsSees DEF At
  <1>5. Ident(t, Len(s) + 2) = ParseError(Len(s) + 2)
    <2>1. Len(s) + 2 \in Nat /\ 1 <= Len(s) + 2 /\ ~(Len(s) + 2 <= Len(t))
      BY <1>1
    <2> QED  BY <2>1, Expect, Kinds DEF Ident
  <1>6. Len(s) + 1 + 1 = Len(s) + 2
    BY <1>1
  <1>7. ParseError(Len(s) + 2).ok = FALSE
    BY DEF ParseError
  <1>8. parseOrderBy(t, Len(s) + 1) = ParseError(Len(s) + 2)
    BY <1>4, <1>5, <1>6, <1>7, OrderUnfold
  <1> QED  BY <1>3, <1>8 DEF ParseError

\* Behind by a field is read.
LEMMA OrderWaitsForField ==
    ASSUME NEW s \in Seq(STRING), NEW w, NEW t \in Seq(STRING), Extends(s, w, t), Offered(s, w), s # <<>>, s[Len(s)] = "by"
    PROVE  /\ parseOrderBy(s, Len(s)).pos = Len(s) + 1
           /\ parseOrderBy(t, Len(s)).pos = Len(s) + 2
  <1>1. Len(s) \in Nat /\ 1 <= Len(s) /\ Len(t) = Len(s) + 1 /\ Len(s) \in Places(s) /\ Len(s) + 2 \in Places(t) /\ w \in Idents
        /\ Len(s) + 1 \in Places(s)
    <2>1. w \in Idents
      BY OfferedBehind
    <2>2. Len(s) \in Nat /\ 1 <= Len(s) /\ Len(t) = Len(s) + 1
      BY DEF Extends
    <2> QED  BY <2>1, <2>2 DEF Places
  <1>2. At(s, Len(s), "by") /\ At(t, Len(s), "by")
    <2>1. At(s, Len(s), "by")
      BY <1>1, AtWord
    <2>2. peek(t, Len(s)) = peek(s, Len(s))
      BY <1>1, ExtendsSees
    <2> QED  BY <2>1, <2>2 DEF At
  <1>3. Ident(s, Len(s) + 1) = ParseError(Len(s) + 1) /\ Ident(t, Len(s) + 1) = Parsed(Len(s) + 1 + 1, w)
    BY <1>1, ExpectSteady, Kinds DEF Ident
  <1>4. parseOrderBy(s, Len(s)) = ParseError(Len(s) + 1)
    <2>1. ParseError(Len(s) + 1).ok = FALSE
      BY DEF ParseError
    <2> QED  BY <1>2, <1>3, <2>1, OrderUnfold
  <1> DEFINE id == Ident(t, Len(s) + 1)
  <1>5. id.ok = TRUE /\ id.pos = Len(s) + 2
    BY <1>1, <1>3 DEF Parsed
  <1>6. parseOrderBy(t, Len(s)) = Direction(t, id)
    BY <1>2, <1>5, OrderUnfold
  <1> HIDE DEF id
  <1>7. ~At(t, Len(s) + 2, "asc") /\ ~At(t, Len(s) + 2, "desc")
    BY ExtendsSees DEF At
  <1>8. Direction(t, id) = Parsed(Len(s) + 2, [field |-> id.ast, direction |-> "asc"])
    BY <1>5, <1>7 DEF Direction
  <1> QED  BY <1>4, <1>6, <1>8 DEF Parsed, ParseError

\* The order behind its word.
LEMMA OrderContinues ==
    ASSUME NEW s \in Seq(STRING), NEW w, NEW t \in Seq(STRING), Extends(s, w, t), Offered(s, w),
           NEW p \in Places(s), p <= Len(s), s[p] = "order"
    PROVE  Continues("order", s, w, parseOrderBy(s, p + 1), parseOrderBy(t, p + 1))
  <1> DEFINE q == p + 1
             r == parseOrderBy(s, q)
             rt == parseOrderBy(t, q)
             id == Ident(s, q + 1)
             idt == Ident(t, q + 1)
  <1>1. /\ p \in Nat /\ 1 <= p /\ Len(s) \in Nat /\ q \in Places(s) /\ q \in Nat /\ q <= Len(s) + 1
        /\ s # <<>> /\ Len(t) = Len(s) + 1
    BY DEF Places, Extends
  <1>2. ~(Len(s) + 1 <= Len(s)) /\ ~(Len(s) + 2 <= Len(s))
    BY <1>1
  <1>3. CASE q = Len(s) + 1
    <2>1. p = Len(s)
      BY <1>1, <1>3
    <2>2. r.pos = Len(s) + 1 /\ rt.pos = Len(s) + 2
      BY <1>1, <1>3, <2>1, OrderWaitsForBy
    <2> QED  BY <1>2, <2>2 DEF Continues, Settled
  <1>4. CASE q = Len(s) /\ s[q] = "by"
    <2>1. r.pos = Len(s) + 1 /\ rt.pos = Len(s) + 2
      BY <1>1, <1>4, OrderWaitsForField
    <2> QED  BY <1>2, <2>1 DEF Continues, Settled
  <1>5. CASE q <= Len(s) /\ s[q] # "by"
    <2>1. ~At(s, q, "by")
      BY <1>1, <1>5, AtWord
    <2>2. peek(t, q) = peek(s, q)
      BY <1>1, <1>5, ExtendsSees
    <2>3. ~At(t, q, "by")
      BY <2>1, <2>2 DEF At
    <2>4. r = ParseError(q) /\ rt = ParseError(q)
      BY <2>1, <2>3, OrderUnfold
    <2>5. rt = r /\ r.pos = q
      BY <2>4 DEF ParseError
    <2> QED  BY <1>1, <1>5, <2>5 DEF Continues, Settled
  <1>6. CASE q < Len(s) /\ s[q] = "by"
    <2>1. q + 1 \in Places(s) /\ q + 1 <= Len(s) /\ q + 1 \in Nat /\ 1 <= q + 1
      BY <1>1, <1>6 DEF Places
    <2>2. At(s, q, "by") /\ At(t, q, "by")
      <3>1. At(s, q, "by")
        BY <1>1, <1>6, AtWord
      <3>2. peek(t, q) = peek(s, q)
        BY <1>1, <1>6, ExtendsSees
      <3> QED  BY <3>1, <3>2 DEF At
    <2>3. r = (IF ~id.ok THEN id ELSE Direction(s, id)) /\ rt = (IF ~idt.ok THEN idt ELSE Direction(t, idt))
      BY <2>2, OrderUnfold, Zenon
    <2>4. idt = id
      BY <2>1, ExpectSteady, Kinds DEF Ident
    <2>5. id = IF s[q + 1] \in Idents THEN Parsed(q + 1 + 1, s[q + 1]) ELSE ParseError(q + 1)
      BY <2>1, Expect, Kinds DEF Ident
    <2> HIDE DEF r, rt, id, idt, q
    <2>6. CASE s[q + 1] \notin Idents
      <3>1. id = ParseError(q + 1)
        BY <2>5, <2>6
      <3>2. id.ok = FALSE /\ id.pos = q + 1
        BY <3>1 DEF ParseError
      <3>3. r = id /\ rt = id
        BY <2>3, <2>4, <3>2
      <3>4. rt = r /\ r.pos # Len(s) + 1
        BY <1>1, <2>1, <3>2, <3>3
      <3> QED  BY <3>4, Zenon DEF Continues, Settled, r, rt, q
    <2>7. CASE s[q + 1] \in Idents
      <3>1. id = Parsed(q + 1 + 1, s[q + 1])
        BY <2>5, <2>7
      <3>2. id.ok = TRUE /\ id.pos = q + 2
        BY <1>1, <3>1 DEF Parsed
      <3>3. r = Direction(s, id) /\ rt = Direction(t, id)
        BY <2>3, <2>4, <3>2
      <3>4. q + 2 <= Len(s)
        <4>1. q + 1 # Len(s)
          <5> SUFFICES ASSUME q + 1 = Len(s) PROVE FALSE
            OBVIOUS
          <5>1. s[Len(s) - 1] \in {"where", "and", "or", "not"}
            BY <2>7, OfferedBehind
          <5>2. Len(s) - 1 = q
            BY <1>1
          <5> QED  BY <1>6, <5>1, <5>2
        <4> QED  BY <1>1, <2>1, <4>1
      <3>5. q + 2 \in Places(s)
        BY <1>1, <3>4 DEF Places
      <3>6. peek(t, q + 2) = peek(s, q + 2) /\ t[q + 2] = s[q + 2]
        BY <3>4, <3>5, ExtendsSees
      <3>7. rt = r
        BY <3>2, <3>3, <3>6, Zenon DEF Direction, At
      <3>8. ASSUME r.pos = Len(s) + 1 PROVE w = "limit" /\ r.ok
        <4>1. CASE At(s, q + 2, "asc") \/ At(s, q + 2, "desc")
          <5>1. s[q + 2] \in {"asc", "desc"}
            BY <3>5, <4>1, AtWord
          <5>2. r = Parsed(q + 2 + 1, [field |-> id.ast, direction |-> s[q + 2]])
            BY <3>2, <3>3, <4>1 DEF Direction
          <5>3. r.ok = TRUE /\ r.pos = q + 3
            BY <1>1, <5>2 DEF Parsed
          <5>4. q + 2 = Len(s)
            BY <1>1, <3>8, <5>3
          <5> QED  BY <5>1, <5>3, <5>4, OfferedBehind
        <4>2. CASE ~(At(s, q + 2, "asc") \/ At(s, q + 2, "desc"))
          <5>1. r = Parsed(q + 2, [field |-> id.ast, direction |-> "asc"])
            BY <3>2, <3>3, <4>2 DEF Direction
          <5>2. r.pos = q + 2
            BY <5>1 DEF Parsed
          <5> QED  BY <1>1, <3>4, <3>8, <5>2
        <4> QED  BY <4>1, <4>2
      <3> QED  BY <3>7, <3>8, Zenon DEF Continues, Settled, r, rt, q
    <2> QED  BY <2>6, <2>7
  <1>7. (q = Len(s) + 1) \/ (q = Len(s) /\ s[q] = "by") \/ (q <= Len(s) /\ s[q] # "by") \/ (q < Len(s) /\ s[q] = "by")
    BY <1>1
  <1> QED  BY <1>3, <1>4, <1>5, <1>6, <1>7

\* What is read behind the word of a clause, whichever.
LEMMA PhraseContinues ==
    ASSUME NEW s \in Seq(STRING), NEW w, NEW t \in Seq(STRING), Extends(s, w, t), Offered(s, w),
           NEW word \in ClauseWords, NEW p \in Places(s), p <= Len(s), s[p] = word
    PROVE  Continues(word, s, w, PhraseOf(word, s, p + 1), PhraseOf(word, t, p + 1))
  <1>1. CASE word = "by"
    BY <1>1, ByContinues DEF PhraseOf
  <1>2. CASE word = "where"
    BY <1>2, WhereContinues DEF PhraseOf
  <1>3. CASE word \in {"over", "step"}
    <2>1. Continues(word, s, w, parseDurationToken(s, p + 1), parseDurationToken(t, p + 1))
      BY <1>3, DurationContinues
    <2> QED  BY <1>3, <2>1 DEF PhraseOf
  <1>4. CASE word = "order"
    BY <1>4, OrderContinues DEF PhraseOf
  <1>5. CASE word = "limit"
    BY <1>5, LimitContinues DEF PhraseOf
  <1> QED  BY <1>1, <1>2, <1>3, <1>4, <1>5 DEF ClauseWords

\* A clause that begins within s.
LEMMA ClauseContinues ==
    ASSUME NEW s \in Seq(STRING), NEW w, NEW t \in Seq(STRING), Extends(s, w, t), Offered(s, w),
           NEW word \in ClauseWords, NEW p \in Places(s), p <= Len(s)
    PROVE  /\ Continues(word, s, w, ClauseOf(word, s, p), ClauseOf(word, t, p))
           /\ ClauseOf(word, s, p).pos \in Places(s)
  <1> DEFINE c == ClauseOf(word, s, p)
             ct == ClauseOf(word, t, p)
             r == PhraseOf(word, s, p + 1)
             rt == PhraseOf(word, t, p + 1)
  <1>1. p \in Nat /\ Len(s) \in Nat /\ word # "EOF"
    BY DEF Places, ClauseWords
  <1>2. c = (IF ~At(s, p, word) THEN Parsed(p, <<>>) ELSE IF r.ok THEN Parsed(r.pos, <<r.ast>>) ELSE r)
    BY DEF ClauseOf, Given
  <1>3. ct = (IF ~At(t, p, word) THEN Parsed(p, <<>>) ELSE IF rt.ok THEN Parsed(rt.pos, <<rt.ast>>) ELSE rt)
    BY DEF ClauseOf, Given
  <1>4. At(t, p, word) <=> At(s, p, word)
    <2>1. peek(t, p) = peek(s, p)
      BY ExtendsSees
    <2> QED  BY <2>1 DEF At
  <1>5. c.pos \in Places(s)
    BY ClauseSound, Zenon DEF InPlace
  <1> HIDE DEF c, ct
  <1>6. CASE ~At(s, p, word)
    <2>1. ct = c /\ c.pos = p
      BY <1>2, <1>3, <1>4, <1>6 DEF Parsed
    <2>2. p # Len(s) + 1
      BY <1>1
    <2> QED  BY <1>5, <2>1, <2>2, Zenon DEF Continues, Settled, c, ct
  <1>7. CASE At(s, p, word)
    <2>1. s[p] = word
      BY <1>1, <1>7, AtWord
    <2>2. Continues(word, s, w, r, rt)
      BY <2>1, PhraseContinues
    <2> DEFINE x == <<r.ast>>
               xt == <<rt.ast>>
    <2>3. c = (IF r.ok THEN Parsed(r.pos, x) ELSE r) /\ ct = (IF rt.ok THEN Parsed(rt.pos, xt) ELSE rt) /\ (rt = r => xt = x)
      BY <1>2, <1>3, <1>4, <1>7
    <2> HIDE DEF r, rt, x, xt
    <2>4. c.pos = r.pos /\ ct.pos = rt.pos
      BY <2>3, MapEnd
    <2>5. rt = r => ct = c
      BY <2>3
    <2>6. r.ok => c.ok
      BY <2>3 DEF Parsed
    <2>7. Continues(word, s, w, c, ct)
      BY <2>2, <2>4, <2>5, <2>6, Zenon DEF Continues, Settled
    <2> QED  BY <1>5, <2>7 DEF c, ct
  <1> QED  BY <1>6, <1>7

\* Where the parse of what follows a clause c ends, and of the clauses from one on.
Through(c, end) == IF c.ok THEN end ELSE c.pos
EndL(u, p) == ClauseOf("limit", u, p).pos
EndB(u, p) == Through(ClauseOf("order", u, p), EndL(u, ClauseOf("order", u, p).pos))
EndT(u, p) == Through(ClauseOf("step", u, p), EndB(u, ClauseOf("step", u, p).pos))
EndO(u, p) == Through(ClauseOf("over", u, p), EndT(u, ClauseOf("over", u, p).pos))
EndF(u, p) == Through(ClauseOf("where", u, p), EndO(u, ClauseOf("where", u, p).pos))
EndG(u, p) == Through(ClauseOf("by", u, p), EndF(u, ClauseOf("by", u, p).pos))

\* The parse of a query ends behind the clauses.
LEMMA ParseEnds ==
    ASSUME NEW s \in Seq(STRING)
    PROVE  Parse(s).pos = IF Metric(s) THEN EndG(s, 2) ELSE 1
  <1>1. Parse(s).pos = parseQuery(s).pos
    <2> DEFINE q == parseQuery(s)
               n == Len(s)
    <2>1. Parse(s) = IF q.ok THEN IF q.pos <= n THEN ParseError(q.pos) ELSE q ELSE q
      BY ParseUnfold, Zenon
    <2>2. ParseError(q.pos).pos = q.pos
      BY DEF ParseError
    <2> HIDE DEF q, n
    <2>3. CASE q.ok /\ q.pos <= n
      BY <2>1, <2>2, <2>3 DEF q
    <2>4. CASE ~(q.ok /\ q.pos <= n)
      <3>1. Parse(s) = q
        BY <2>1, <2>4
      <3> QED  BY <3>1 DEF q
    <2> QED  BY <2>3, <2>4
  <1>2. CASE ~Metric(s)
    <2>1. M(s) = IF 1 <= Len(s) /\ s[1] \in Idents THEN Parsed(1 + 1, s[1]) ELSE ParseError(1)
      BY Expect, Kinds DEF M, Ident
    <2>2. s # <<>> <=> 1 <= Len(s)
      OBVIOUS
    <2>3. M(s) = ParseError(1)
      BY <1>2, <2>1, <2>2 DEF Metric
    <2>4. M(s).ok = FALSE /\ M(s).pos = 1
      BY <2>3 DEF ParseError
    <2>5. parseQuery(s) = M(s)
      BY <2>4, QueryUnfold
    <2> QED  BY <1>1, <1>2, <2>4, <2>5
  <1>3. CASE Metric(s)
    <2>1. M(s).ok /\ M(s).pos = 2
      BY <1>3, MetricAt
    <2>2. /\ G(s) = ClauseOf("by", s, 2) /\ F(s) = ClauseOf("where", s, G(s).pos)
          /\ O(s) = ClauseOf("over", s, F(s).pos) /\ T(s) = ClauseOf("step", s, O(s).pos)
          /\ B(s) = ClauseOf("order", s, T(s).pos) /\ L(s) = ClauseOf("limit", s, B(s).pos)
      <3>1. G(s) = ClauseOf("by", s, 2)
        BY <2>1, ClausesOf DEF G
      <3>2. F(s) = ClauseOf("where", s, G(s).pos)
        BY ClausesOf, Zenon DEF F
      <3>3. O(s) = ClauseOf("over", s, F(s).pos)
        BY ClausesOf, Zenon DEF O
      <3>4. T(s) = ClauseOf("step", s, O(s).pos)
        BY ClausesOf, Zenon DEF T
      <3>5. B(s) = ClauseOf("order", s, T(s).pos)
        BY ClausesOf, Zenon DEF B
      <3>6. L(s) = ClauseOf("limit", s, B(s).pos)
        BY ClausesOf, Zenon DEF L
      <3> QED  BY <3>1, <3>2, <3>3, <3>4, <3>5, <3>6
    <2> DEFINE m == M(s)
               g == G(s)
               f == F(s)
               o == O(s)
               v == T(s)
               b == B(s)
               l == L(s)
               ast == QueryAst(s)
               q == parseQuery(s)
    <2>3. q = IF m.ok THEN IF g.ok THEN IF f.ok THEN IF o.ok THEN IF v.ok THEN IF b.ok
              THEN IF l.ok THEN Parsed(l.pos, ast) ELSE l ELSE b ELSE v ELSE o ELSE f ELSE g ELSE m
      BY QueryUnfold, Zenon
    <2>4. EndG(s, 2) = Through(g, Through(f, Through(o, Through(v, Through(b, l.pos)))))
      BY <2>2, Zenon DEF EndG, EndF, EndO, EndT, EndB, EndL
    <2>5. m.ok
      BY <2>1
    <2>6. Parsed(l.pos, ast).pos = l.pos
      BY DEF Parsed
    <2> HIDE DEF m, g, f, o, v, b, l, ast, q
    <2>7. q.pos = Through(g, Through(f, Through(o, Through(v, Through(b, l.pos)))))
      BY <2>3, <2>5, <2>6 DEF Through
    <2> QED  BY <1>1, <1>3, <2>4, <2>7 DEF q
  <1> QED  BY <1>2, <1>3

\* Behind the last word no clause begins.
LEMMA NoClauseBehind ==
    ASSUME NEW u \in Seq(STRING), NEW p, p = Len(u) + 1
    PROVE  /\ EndL(u, p) = p /\ EndB(u, p) = p /\ EndT(u, p) = p
           /\ EndO(u, p) = p /\ EndF(u, p) = p /\ EndG(u, p) = p
  <1>1. ASSUME NEW word \in ClauseWords PROVE ClauseOf(word, u, p).ok /\ ClauseOf(word, u, p).pos = p
    <2>1. p \in Places(u) /\ ~(p <= Len(u)) /\ word # "EOF"
      BY DEF Places, ClauseWords
    <2>2. ~At(u, p, word)
      BY <2>1, AtWord
    <2>3. ClauseOf(word, u, p) = Parsed(p, <<>>)
      BY <2>2 DEF ClauseOf
    <2> QED  BY <2>3 DEF Parsed
  <1>2. /\ "by" \in ClauseWords /\ "where" \in ClauseWords /\ "over" \in ClauseWords
        /\ "step" \in ClauseWords /\ "order" \in ClauseWords /\ "limit" \in ClauseWords
    BY DEF ClauseWords
  <1>3. EndL(u, p) = p
    BY <1>1, <1>2, Zenon DEF EndL
  <1>4. EndB(u, p) = p
    BY <1>1, <1>2, <1>3, Zenon DEF EndB, Through
  <1>5. EndT(u, p) = p
    BY <1>1, <1>2, <1>4, Zenon DEF EndT, Through
  <1>6. EndO(u, p) = p
    BY <1>1, <1>2, <1>5, Zenon DEF EndO, Through
  <1>7. EndF(u, p) = p
    BY <1>1, <1>2, <1>6, Zenon DEF EndF, Through
  <1>8. EndG(u, p) = p
    BY <1>1, <1>2, <1>7, Zenon DEF EndG, Through
  <1> QED  BY <1>3, <1>4, <1>5, <1>6, <1>7, <1>8, Zenon

\* The word of a clause begins it, and other clauses pass it by.
LEMMA WordBegins ==
    ASSUME NEW u \in Seq(STRING), u # <<>>, NEW word \in ClauseWords
    PROVE  LET c == ClauseOf(word, u, Len(u)) IN
           /\ u[Len(u)] = word => c.pos = Len(u) + 1
           /\ u[Len(u)] # word => c.ok /\ c.pos = Len(u)
  <1> DEFINE p == Len(u)
             c == ClauseOf(word, u, p)
             r == PhraseOf(word, u, p + 1)
             x == <<r.ast>>
  <1>1. p \in Nat /\ 1 <= p /\ p \in Places(u) /\ p + 1 \in Places(u) /\ word # "EOF"
    BY DEF Places, ClauseWords
  <1>2. c = (IF ~At(u, p, word) THEN Parsed(p, <<>>) ELSE IF r.ok THEN Parsed(r.pos, x) ELSE r)
    BY DEF ClauseOf, Given
  <1>3. At(u, p, word) <=> u[p] = word
    BY <1>1, AtWord
  <1>4. InPlace(u, p + 1, r)
    BY <1>1, PhrasesRight, Zenon DEF PhraseRight
  <1> HIDE DEF c, r, x
  <1>5. CASE u[p] = word
    <2>1. r.pos = p + 1
      BY <1>1, <1>4 DEF InPlace, Places
    <2>2. c = IF r.ok THEN Parsed(r.pos, x) ELSE r
      BY <1>2, <1>3, <1>5
    <2>3. c.pos = r.pos
      BY <2>2, MapEnd
    <2> QED  BY <1>5, <2>1, <2>3 DEF c
  <1>6. CASE u[p] # word
    <2>1. c = Parsed(p, <<>>)
      BY <1>2, <1>3, <1>6
    <2>2. c.ok = TRUE /\ c.pos = p
      BY <2>1 DEF Parsed
    <2> QED  BY <1>6, <2>2 DEF c
  <1> QED  BY <1>5, <1>6

\* A query that ends in the word of a clause is read to its end.
LEMMA ClauseOpens ==
    ASSUME NEW u \in Seq(STRING), u # <<>>
    PROVE  /\ u[Len(u)] = "limit" => EndL(u, Len(u)) = Len(u) + 1
           /\ u[Len(u)] \in ClauseWords => EndG(u, Len(u)) = Len(u) + 1
  <1> DEFINE p == Len(u)
             last == u[p]
             n == p + 1
  <1>1. /\ EndL(u, n) = n /\ EndB(u, n) = n /\ EndT(u, n) = n /\ EndO(u, n) = n /\ EndF(u, n) = n
    BY NoClauseBehind
  <1>2. ASSUME NEW word \in ClauseWords
        PROVE  /\ last = word => ClauseOf(word, u, p).pos = n
               /\ last # word => ClauseOf(word, u, p).ok /\ ClauseOf(word, u, p).pos = p
    BY WordBegins
  <1>3. /\ "by" \in ClauseWords /\ "where" \in ClauseWords /\ "over" \in ClauseWords
        /\ "step" \in ClauseWords /\ "order" \in ClauseWords /\ "limit" \in ClauseWords
    BY DEF ClauseWords
  <1> HIDE DEF p, last, n
  <1>4. last = "limit" => EndL(u, p) = n
    BY <1>2, <1>3, Zenon DEF EndL
  <1>5. last \in {"order", "limit"} => EndB(u, p) = n
    <2>1. CASE last = "order"
      BY <1>1, <1>2, <1>3, <2>1, Zenon DEF EndB, Through
    <2>2. CASE last # "order"
      <3>1. EndB(u, p) = EndL(u, p)
        BY <1>2, <1>3, <2>2, Zenon DEF EndB, Through
      <3> QED  BY <1>4, <2>2, <3>1
    <2> QED  BY <2>1, <2>2
  <1>6. last \in {"step", "order", "limit"} => EndT(u, p) = n
    <2>1. CASE last = "step"
      BY <1>1, <1>2, <1>3, <2>1, Zenon DEF EndT, Through
    <2>2. CASE last # "step"
      <3>1. EndT(u, p) = EndB(u, p)
        BY <1>2, <1>3, <2>2, Zenon DEF EndT, Through
      <3> QED  BY <1>5, <2>2, <3>1
    <2> QED  BY <2>1, <2>2
  <1>7. last \in {"over", "step", "order", "limit"} => EndO(u, p) = n
    <2>1. CASE last = "over"
      BY <1>1, <1>2, <1>3, <2>1, Zenon DEF EndO, Through
    <2>2. CASE last # "over"
      <3>1. EndO(u, p) = EndT(u, p)
        BY <1>2, <1>3, <2>2, Zenon DEF EndO, Through
      <3> QED  BY <1>6, <2>2, <3>1
    <2> QED  BY <2>1, <2>2
  <1>8. last \in {"where", "over", "step", "order", "limit"} => EndF(u, p) = n
    <2>1. CASE last = "where"
      BY <1>1, <1>2, <1>3, <2>1, Zenon DEF EndF, Through
    <2>2. CASE last # "where"
      <3>1. EndF(u, p) = EndO(u, p)
        BY <1>2, <1>3, <2>2, Zenon DEF EndF, Through
      <3> QED  BY <1>7, <2>2, <3>1
    <2> QED  BY <2>1, <2>2
  <1>9. last \in {"by", "where", "over", "step", "order", "limit"} => EndG(u, p) = n
    <2>1. CASE last = "by"
      BY <1>1, <1>2, <1>3, <2>1, Zenon DEF EndG, Through
    <2>2. CASE last # "by"
      <3>1. EndG(u, p) = EndF(u, p)
        BY <1>2, <1>3, <2>2, Zenon DEF EndG, Through
      <3> QED  BY <1>8, <2>2, <3>1
    <2> QED  BY <2>1, <2>2
  <1> QED  BY <1>4, <1>9 DEF ClauseWords, p, last, n

\* The clauses from one on, when those behind it take the word.
LEMMA ThroughGrows ==
    ASSUME NEW s \in Seq(STRING), NEW w, NEW word, NEW c, NEW ct, c.pos \in Places(s), Continues(word, s, w, c, ct),
           NEW e, NEW et, Through(c, e) = Len(s) + 1,
           ct = c /\ c.pos <= Len(s) /\ e = Len(s) + 1 => et = Len(s) + 2,
           ct.pos = Len(s) + 2 => et = Len(s) + 2,
           word = "order" /\ w = "limit" /\ ct.pos = Len(s) + 1 => et = Len(s) + 2
    PROVE  Through(ct, et) = Len(s) + 2
  <1>1. c.pos \in Nat /\ Len(s) \in Nat /\ c.pos <= Len(s) + 1 /\ ~(Len(s) + 1 <= Len(s))
    BY DEF Places
  <1>2. CASE c.pos <= Len(s)
    <2>1. ct = c
      BY <1>2 DEF Continues, Settled
    <2>2. c.ok /\ e = Len(s) + 1
      BY <1>1, <1>2 DEF Through
    <2> QED  BY <1>2, <2>1, <2>2 DEF Through
  <1>3. CASE c.pos = Len(s) + 1
    <2>1. CASE ct.pos = Len(s) + 2
      BY <2>1 DEF Through
    <2>2. CASE word = "order" /\ w = "limit" /\ c.ok /\ ct = c
      BY <1>3, <2>2 DEF Through
    <2> QED  BY <1>3, <2>1, <2>2, Zenon DEF Continues
  <1> QED  BY <1>1, <1>2, <1>3

\* The last clause.
LEMMA EndLGrows ==
    ASSUME NEW s \in Seq(STRING), NEW w, NEW t \in Seq(STRING), Extends(s, w, t), Offered(s, w),
           NEW p \in Places(s), p <= Len(s), EndL(s, p) = Len(s) + 1
    PROVE  EndL(t, p) = Len(s) + 2
  <1>1. "limit" \in ClauseWords
    BY DEF ClauseWords
  <1>2. Continues("limit", s, w, ClauseOf("limit", s, p), ClauseOf("limit", t, p))
    BY <1>1, ClauseContinues
  <1> QED  BY <1>2 DEF Continues, EndL

\* The clauses from order on.
LEMMA EndBGrows ==
    ASSUME NEW s \in Seq(STRING), NEW w, NEW t \in Seq(STRING), Extends(s, w, t), Offered(s, w),
           NEW p \in Places(s), p <= Len(s), EndB(s, p) = Len(s) + 1
    PROVE  EndB(t, p) = Len(s) + 2
  <1> DEFINE c == ClauseOf("order", s, p)
             ct == ClauseOf("order", t, p)
             e == EndL(s, c.pos)
             et == EndL(t, ct.pos)
  <1>1. Continues("order", s, w, c, ct) /\ c.pos \in Places(s)
    <2>1. "order" \in ClauseWords
      BY DEF ClauseWords
    <2> QED  BY <2>1, ClauseContinues
  <1>2. Through(c, e) = Len(s) + 1
    BY Zenon DEF EndB
  <1>3. ct = c /\ c.pos <= Len(s) /\ e = Len(s) + 1 => et = Len(s) + 2
    <2> HIDE DEF c, ct
    <2> QED  BY <1>1, EndLGrows
  <1>4. ct.pos = Len(s) + 2 => et = Len(s) + 2
    <2>1. Len(s) + 2 = Len(t) + 1
      BY DEF Extends
    <2> HIDE DEF c, ct
    <2> QED  BY <2>1, NoClauseBehind
  <1>5. w = "limit" /\ ct.pos = Len(s) + 1 => et = Len(s) + 2
    <2>1. Len(s) + 1 = Len(t) /\ Len(s) + 2 = Len(t) + 1 /\ t # <<>> /\ t[Len(t)] = w
      BY DEF Extends
    <2> HIDE DEF c, ct
    <2> QED  BY <2>1, ClauseOpens
  <1> HIDE DEF c, ct, e, et
  <1>6. Through(ct, et) = Len(s) + 2
    BY <1>1, <1>2, <1>3, <1>4, <1>5, ThroughGrows
  <1> QED  BY <1>6, Zenon DEF EndB, ct, et

\* The clauses from step on.
LEMMA EndTGrows ==
    ASSUME NEW s \in Seq(STRING), NEW w, NEW t \in Seq(STRING), Extends(s, w, t), Offered(s, w),
           NEW p \in Places(s), p <= Len(s), EndT(s, p) = Len(s) + 1
    PROVE  EndT(t, p) = Len(s) + 2
  <1> DEFINE c == ClauseOf("step", s, p)
             ct == ClauseOf("step", t, p)
             e == EndB(s, c.pos)
             et == EndB(t, ct.pos)
  <1>1. Continues("step", s, w, c, ct) /\ c.pos \in Places(s)
    <2>1. "step" \in ClauseWords
      BY DEF ClauseWords
    <2> QED  BY <2>1, ClauseContinues
  <1>2. Through(c, e) = Len(s) + 1
    BY Zenon DEF EndT
  <1>3. ct = c /\ c.pos <= Len(s) /\ e = Len(s) + 1 => et = Len(s) + 2
    <2> HIDE DEF c, ct
    <2> QED  BY <1>1, EndBGrows
  <1>4. ct.pos = Len(s) + 2 => et = Len(s) + 2
    <2>1. Len(s) + 2 = Len(t) + 1
      BY DEF Extends
    <2> HIDE DEF c, ct
    <2> QED  BY <2>1, NoClauseBehind
  <1>5. "step" # "order"
    OBVIOUS
  <1> HIDE DEF c, ct, e, et
  <1>6. Through(ct, et) = Len(s) + 2
    BY <1>1, <1>2, <1>3, <1>4, <1>5, ThroughGrows
  <1> QED  BY <1>6, Zenon DEF EndT, ct, et

\* The clauses from over on.
LEMMA EndOGrows ==
    ASSUME NEW s \in Seq(STRING), NEW w, NEW t \in Seq(STRING), Extends(s, w, t), Offered(s, w),
           NEW p \in Places(s), p <= Len(s), EndO(s, p) = Len(s) + 1
    PROVE  EndO(t, p) = Len(s) + 2
  <1> DEFINE c == ClauseOf("over", s, p)
             ct == ClauseOf("over", t, p)
             e == EndT(s, c.pos)
             et == EndT(t, ct.pos)
  <1>1. Continues("over", s, w, c, ct) /\ c.pos \in Places(s)
    <2>1. "over" \in ClauseWords
      BY DEF ClauseWords
    <2> QED  BY <2>1, ClauseContinues
  <1>2. Through(c, e) = Len(s) + 1
    BY Zenon DEF EndO
  <1>3. ct = c /\ c.pos <= Len(s) /\ e = Len(s) + 1 => et = Len(s) + 2
    <2> HIDE DEF c, ct
    <2> QED  BY <1>1, EndTGrows
  <1>4. ct.pos = Len(s) + 2 => et = Len(s) + 2
    <2>1. Len(s) + 2 = Len(t) + 1
      BY DEF Extends
    <2> HIDE DEF c, ct
    <2> QED  BY <2>1, NoClauseBehind
  <1>5. "over" # "order"
    OBVIOUS
  <1> HIDE DEF c, ct, e, et
  <1>6. Through(ct, et) = Len(s) + 2
    BY <1>1, <1>2, <1>3, <1>4, <1>5, ThroughGrows
  <1> QED  BY <1>6, Zenon DEF EndO, ct, et

\* The clauses from where on.
LEMMA EndFGrows ==
    ASSUME NEW s \in Seq(STRING), NEW w, NEW t \in Seq(STRING), Extends(s, w, t), Offered(s, w),
           NEW p \in Places(s), p <= Len(s), EndF(s, p) = Len(s) + 1
    PROVE  EndF(t, p) = Len(s) + 2
  <1> DEFINE c == ClauseOf("where", s, p)
             ct == ClauseOf("where", t, p)
             e == EndO(s, c.pos)
             et == EndO(t, ct.pos)
  <1>1. Continues("where", s, w, c, ct) /\ c.pos \in Places(s)
    <2>1. "where" \in ClauseWords
      BY DEF ClauseWords
    <2> QED  BY <2>1, ClauseContinues
  <1>2. Through(c, e) = Len(s) + 1
    BY Zenon DEF EndF
  <1>3. ct = c /\ c.pos <= Len(s) /\ e = Len(s) + 1 => et = Len(s) + 2
    <2> HIDE DEF c, ct
    <2> QED  BY <1>1, EndOGrows
  <1>4. ct.pos = Len(s) + 2 => et = Len(s) + 2
    <2>1. Len(s) + 2 = Len(t) + 1
      BY DEF Extends
    <2> HIDE DEF c, ct
    <2> QED  BY <2>1, NoClauseBehind
  <1>5. "where" # "order"
    OBVIOUS
  <1> HIDE DEF c, ct, e, et
  <1>6. Through(ct, et) = Len(s) + 2
    BY <1>1, <1>2, <1>3, <1>4, <1>5, ThroughGrows
  <1> QED  BY <1>6, Zenon DEF EndF, ct, et

\* All the clauses.
LEMMA EndGGrows ==
    ASSUME NEW s \in Seq(STRING), NEW w, NEW t \in Seq(STRING), Extends(s, w, t), Offered(s, w),
           NEW p \in Places(s), p <= Len(s), EndG(s, p) = Len(s) + 1
    PROVE  EndG(t, p) = Len(s) + 2
  <1> DEFINE c == ClauseOf("by", s, p)
             ct == ClauseOf("by", t, p)
             e == EndF(s, c.pos)
             et == EndF(t, ct.pos)
  <1>1. Continues("by", s, w, c, ct) /\ c.pos \in Places(s)
    <2>1. "by" \in ClauseWords
      BY DEF ClauseWords
    <2> QED  BY <2>1, ClauseContinues
  <1>2. Through(c, e) = Len(s) + 1
    BY Zenon DEF EndG
  <1>3. ct = c /\ c.pos <= Len(s) /\ e = Len(s) + 1 => et = Len(s) + 2
    <2> HIDE DEF c, ct
    <2> QED  BY <1>1, EndFGrows
  <1>4. ct.pos = Len(s) + 2 => et = Len(s) + 2
    <2>1. Len(s) + 2 = Len(t) + 1
      BY DEF Extends
    <2> HIDE DEF c, ct
    <2> QED  BY <2>1, NoClauseBehind
  <1>5. "by" # "order"
    OBVIOUS
  <1> HIDE DEF c, ct, e, et
  <1>6. Through(ct, et) = Len(s) + 2
    BY <1>1, <1>2, <1>3, <1>4, <1>5, ThroughGrows
  <1> QED  BY <1>6, Zenon DEF EndG, ct, et

-----------------------------------------------------------------------------
(***************************************************************************)
(* The completer                                                           *)
(***************************************************************************)

\* Parses end within the query or behind its last word.
LEMMA ParsePlace ==
    ASSUME NEW s \in Seq(STRING), NEW p \in Places(s)
    PROVE  EndG(s, p) \in Places(s)
  <1>1. ASSUME NEW q \in Places(s), NEW word \in ClauseWords PROVE ClauseOf(word, s, q).pos \in Places(s)
    BY ClauseSound, Zenon DEF InPlace
  <1>2. /\ "by" \in ClauseWords /\ "where" \in ClauseWords /\ "over" \in ClauseWords
        /\ "step" \in ClauseWords /\ "order" \in ClauseWords /\ "limit" \in ClauseWords
    BY DEF ClauseWords
  <1>3. \A q \in Places(s) : EndL(s, q) \in Places(s)
    BY <1>1, <1>2, Zenon DEF EndL
  <1>4. \A q \in Places(s) : EndB(s, q) \in Places(s)
    BY <1>1, <1>2, <1>3, Zenon DEF EndB, Through
  <1>5. \A q \in Places(s) : EndT(s, q) \in Places(s)
    BY <1>1, <1>2, <1>4, Zenon DEF EndT, Through
  <1>6. \A q \in Places(s) : EndO(s, q) \in Places(s)
    BY <1>1, <1>2, <1>5, Zenon DEF EndO, Through
  <1>7. \A q \in Places(s) : EndF(s, q) \in Places(s)
    BY <1>1, <1>2, <1>6, Zenon DEF EndF, Through
  <1> QED  BY <1>1, <1>2, <1>7, Zenon DEF EndG, Through

\* Behind a query without a lexical error a word that is none leaves it so.
LEMMA NoLexError ==
    ASSUME NEW s \in Seq(STRING), NEW w, NEW t \in Seq(STRING), Extends(s, w, t), ~LexError(s), next(w) # "error"
    PROVE  ~LexError(t)
  <1>1. ASSUME NEW i \in DOMAIN t PROVE next(t[i]) # "error"
    <2>1. i \in 1 .. Len(s) + 1 /\ Len(s) \in Nat /\ DOMAIN s = 1 .. Len(s)
      BY DEF Extends
    <2>2. CASE i = Len(s) + 1
      BY <2>2 DEF Extends
    <2>3. CASE i # Len(s) + 1
      <3>1. i \in DOMAIN s
        BY <2>1, <2>3
      <3>2. t[i] = s[i]
        BY <2>1, <3>1 DEF Extends
      <3> QED  BY <3>1, <3>2 DEF LexError
    <2> QED  BY <2>2, <2>3
  <1> QED  BY <1>1 DEF LexError

\* What is offered behind a query of two words or more leaves one that may be finished.
LEMMA OfferedIsViable ==
    ASSUME NEW s \in Seq(STRING), NEW w, NEW t \in Seq(STRING), Extends(s, w, t),
           Viable(s), 2 <= Len(s), next(w) # "error", Offered(s, w)
    PROVE  Viable(t)
  <1>1. ~LexError(t)
    BY NoLexError DEF Viable
  <1>2. Len(s) \in Nat /\ Len(t) = Len(s) + 1 /\ t # <<>> /\ 1 \in 1 .. Len(s) /\ 2 \in Places(s) /\ s # <<>>
    BY DEF Extends, Places
  <1>3. Parse(s).pos > Len(s)
    BY DEF Viable
  <1>4. Metric(s) /\ Parse(s).pos = EndG(s, 2)
    <2>1. ~(1 > Len(s))
      BY <1>2
    <2>2. Parse(s).pos = IF Metric(s) THEN EndG(s, 2) ELSE 1
      BY ParseEnds
    <2> QED  BY <1>3, <2>1, <2>2
  <1>5. EndG(s, 2) = Len(s) + 1
    <2>1. EndG(s, 2) \in Places(s)
      BY <1>2, ParsePlace
    <2> QED  BY <1>2, <1>3, <1>4, <2>1 DEF Places
  <1>6. EndG(t, 2) = Len(s) + 2
    BY <1>2, <1>5, EndGGrows
  <1>7. Metric(t)
    <2>1. t[1] = s[1]
      BY <1>2 DEF Extends
    <2> QED  BY <1>2, <1>4, <2>1 DEF Metric
  <1>8. Parse(t).pos = Len(s) + 2
    BY <1>6, <1>7, ParseEnds
  <1> QED  BY <1>1, <1>2, <1>8 DEF Viable

\* Fields and the words of clauses are tokens.
LEMMA TokensOffered ==
    ASSUME NEW w
    PROVE  /\ w \in Idents => next(w) = "ident"
           /\ w \in Idents \cup operatorSuggestions \cup ClauseWords => next(w) # "error" /\ w \in STRING
  <1>1. w \in Idents => w \in STRING
    BY WordsAssumption
  <1>2. w \in Idents => next(w) = "ident"
    BY Kinds DEF Tells
  <1>3. operatorSuggestions \cup ClauseWords \subseteq keywords \cup Punctuation
    <2>1. operatorSuggestions \subseteq keywords \cup Punctuation
      BY OpsApart
    <2>2. ClauseWords \subseteq keywords
      BY DEF ClauseWords, keywords
    <2> QED  BY <2>1, <2>2
  <1>4. w \in keywords => next(w) = "keyword" /\ w \in STRING
    BY WordsAssumption DEF next
  <1>5. w \in Punctuation => w \in STRING /\ w # "error" /\ w \notin keywords
    <2>1. "error" \notin Punctuation
      BY DEF Punctuation, Comparisons
    <2> QED  BY <2>1, ClassesApart, WordsAssumption
  <1>6. w \in Punctuation => next(w) = w
    BY <1>5 DEF next
  <1> QED  BY <1>1, <1>2, <1>3, <1>4, <1>5, <1>6

\* A metric alone may be finished.
LEMMA MetricIsViable ==
    ASSUME NEW w \in Idents, NEW t \in Seq(STRING), Len(t) = 1, t[1] = w
    PROVE  Viable(t)
  <1>1. t # <<>> /\ Metric(t)
    BY DEF Metric
  <1>2. EndG(t, 2) = 2
    <2>1. 2 = Len(t) + 1
      OBVIOUS
    <2> QED  BY <2>1, NoClauseBehind
  <1>3. Parse(t).pos = 2
    BY <1>1, <1>2, ParseEnds
  <1>4. ~LexError(t)
    <2>1. DOMAIN t = {1}
      OBVIOUS
    <2>2. next(t[1]) # "error"
      BY TokensOffered
    <2> QED  BY <2>1, <2>2 DEF LexError
  <1> QED  BY <1>3, <1>4 DEF Viable

\* So may a metric and the word of a clause.
LEMMA ClauseIsViable ==
    ASSUME NEW s \in Seq(STRING), Viable(s), Len(s) = 1, s[1] \in Idents, NEW w \in ClauseWords,
           NEW t \in Seq(STRING), Extends(s, w, t)
    PROVE  Viable(t)
  <1>1. Len(t) = 2 /\ t[2] = w /\ t[1] = s[1] /\ t # <<>>
    BY DEF Extends
  <1>2. EndG(t, 2) = 3
    BY <1>1, ClauseOpens
  <1>3. Parse(t).pos = 3
    BY <1>1, <1>2, ParseEnds DEF Metric
  <1>4. ~LexError(t)
    BY TokensOffered, NoLexError DEF Viable
  <1> QED  BY <1>1, <1>3, <1>4 DEF Viable

\* What Autocomplete offers behind a query of one word, and behind a longer one.
LEMMA FirstWords ==
    ASSUME NEW s \in Seq(STRING), ~LexError(s), Len(s) = 1, NEW space \in BOOLEAN, NEW w \in Autocomplete(s, space)
    PROVE  s[1] \in Idents /\ IF space THEN w \in ClauseWords ELSE w \in DOMAIN Registry
  <1>1. s # <<>> /\ s[Len(s)] = s[1]
    OBVIOUS
  <1>2. DOMAIN Registry \subseteq Idents
    BY DEF Idents
  <1>3. next(s[1]) = "ident" <=> s[1] \in Idents
    BY KindOf
  <1>4. CASE s[1] \notin Idents
    <2>1. Autocomplete(s, space) = {}
      BY <1>1, <1>2, <1>3, <1>4 DEF Autocomplete
    <2> QED  BY <2>1
  <1>5. CASE s[1] \in Idents
    <2>1. CASE space
      <3>1. Autocomplete(s, space) = clauseKeywordsAfterMetric
        BY <1>1, <1>3, <1>5, <2>1 DEF Autocomplete
      <3> QED  BY <1>5, <2>1, <3>1 DEF clauseKeywordsAfterMetric, ClauseWords
    <2>2. CASE ~space
      <3>1. Autocomplete(s, space) = metricSuggestions
        BY <1>1, <1>3, <1>5, <2>2 DEF Autocomplete
      <3> QED  BY <1>5, <2>2, <3>1 DEF metricSuggestions
    <2> QED  BY <2>1, <2>2
  <1> QED  BY <1>4, <1>5

\* Before the first word.
LEMMA NoWords ==
    ASSUME NEW s \in Seq(STRING), s = <<>>, NEW space \in BOOLEAN
    PROVE  Autocomplete(s, space) = DOMAIN Registry
  BY DEF Autocomplete, metricSuggestions

\* What Autocomplete looks at behind a query of two words or more.
Suggested(s, spec, last, field) ==
    CASE last = "by" /\ isOrderByContext(s) -> DOMAIN spec.groupBy \cup {s[1]}
      [] last = "by" /\ ~isOrderByContext(s) -> DOMAIN spec.groupBy
      [] last \in {"where", "and", "or"} -> DOMAIN spec.filter
      [] last = "," /\ inGroupByList(s) -> DOMAIN spec.groupBy
      [] field /\ s[Len(s) - 1] \in {"where", "and", "or", "not"} -> operatorSuggestions
      [] last = "order" -> {"by"}
      [] last \in {"asc", "desc"} -> {"limit"}
      [] OTHER -> {}

\* Behind two words or more.
LEMMA LaterWords ==
    ASSUME NEW s \in Seq(STRING), ~LexError(s), 2 <= Len(s), NEW space \in BOOLEAN, NEW w \in Autocomplete(s, space)
    PROVE  Offered(s, w)
  <1> DEFINE last == s[Len(s)]
             field == next(last) = "ident"
             spec == Registry[s[1]]
  <1>1. s # <<>> /\ Len(s) # 1 /\ Len(s) >= 2
    <2>1. \A n \in Nat : 2 <= n => n # 0 /\ n # 1 /\ n >= 2
      OBVIOUS
    <2>2. Len(s) \in Nat /\ (s = <<>> => Len(s) = 0)
      OBVIOUS
    <2> QED  BY <2>1, <2>2
  <1>2. Autocomplete(s, space) = IF s[1] \notin DOMAIN Registry THEN {} ELSE Suggested(s, spec, last, field)
    <2>1. (IF Len(s) >= 2 THEN s[Len(s) - 1] ELSE "") = s[Len(s) - 1]
      BY <1>1
    <2>2. CASE s[1] \notin DOMAIN Registry
      BY <1>1, <2>2 DEF Autocomplete
    <2>3. CASE s[1] \in DOMAIN Registry
      <3>1. Autocomplete(s, space) = Suggested(s, spec, last, field)
        BY <1>1, <2>1, <2>3 DEF Autocomplete, Suggested
      <3> QED  BY <2>3, <3>1
    <2> QED  BY <2>2, <2>3
  <1>3. s[1] \in DOMAIN Registry /\ w \in Suggested(s, spec, last, field)
    BY <1>2
  <1>4. DOMAIN spec.groupBy \subseteq Idents /\ DOMAIN spec.filter \subseteq Idents /\ s[1] \in Idents
    BY <1>3 DEF Idents, Fields
  <1>5. field <=> last \in Idents
    BY KindOf
  <1>6. \A x \in {"by", "where", "and", "or", ",", "order", "asc", "desc"} : x \notin Idents
    BY ExprWordsApart DEF QueryWords, ClauseWords
  <1> HIDE DEF last, field, spec
  <1>7. CASE last = "by"
    <2>1. w \in Idents
      BY <1>3, <1>4, <1>5, <1>6, <1>7 DEF Suggested
    <2> QED  BY <1>7, <2>1 DEF Offered, last
  <1>8. CASE last \in {"where", "and", "or"}
    <2>1. w \in Idents
      BY <1>3, <1>4, <1>5, <1>6, <1>8 DEF Suggested
    <2> QED  BY <1>8, <2>1 DEF Offered, last
  <1>9. CASE last = ","
    <2>1. w \in Idents /\ inGroupByList(s)
      BY <1>3, <1>4, <1>5, <1>6, <1>9 DEF Suggested
    <2> QED  BY <1>9, <2>1 DEF Offered, last
  <1>10. CASE last \in Idents
    <2>1. w \in operatorSuggestions /\ s[Len(s) - 1] \in {"where", "and", "or", "not"}
      BY <1>3, <1>5, <1>6, <1>10 DEF Suggested
    <2> QED  BY <1>10, <2>1 DEF Offered, last
  <1>11. CASE last = "order"
    <2>1. w = "by"
      BY <1>3, <1>5, <1>6, <1>11 DEF Suggested
    <2> QED  BY <1>11, <2>1 DEF Offered, last
  <1>12. CASE last \in {"asc", "desc"}
    <2>1. w = "limit"
      BY <1>3, <1>5, <1>6, <1>12 DEF Suggested
    <2> QED  BY <1>12, <2>1 DEF Offered, last
  <1>13. CASE last \notin Idents \cup {"by", "where", "and", "or", ",", "order", "asc", "desc"}
    <2>1. Suggested(s, spec, last, field) = {}
      BY <1>5, <1>13 DEF Suggested
    <2> QED  BY <1>3, <2>1
  <1> QED  BY <1>7, <1>8, <1>9, <1>10, <1>11, <1>12, <1>13

\* What the completer offers behind a query of which the parser refused nothing, the parser
\* does not refuse: Autocomplete looks at the last two words and the last keyword of a
\* clause only, and the parser, at any of the places where it may be, takes what is offered
\* there.
THEOREM SuggestionsAreAcceptedHolds == Spec => []SuggestionsAreAccepted
  <1>1. Answered => SuggestionsAreAccepted
    <2> DEFINE s == Lex(typed)
    <2> SUFFICES ASSUME Answered, Viable(s), NEW space \in BOOLEAN, NEW w \in Autocomplete(s, space)
                 PROVE  Viable(Append(IF Len(s) = 1 /\ ~space THEN <<>> ELSE s, w))
      BY Zenon DEF SuggestionsAreAccepted
    <2>1. s \in Seq(STRING)
      BY LexTyped DEF Answered
    <2>2. ~LexError(s)
      BY DEF Viable
    <2> HIDE DEF s
    <2>3. Len(s) \in Nat /\ (Len(s) = 0 => s = <<>>)
      BY <2>1
    <2>4. ASSUME w \in DOMAIN Registry PROVE Viable(Append(<<>>, w))
      <3>1. w \in Idents /\ w \in STRING
        BY <2>4, WordsAssumption DEF Idents
      <3>2. Append(<<>>, w) \in Seq(STRING) /\ Len(Append(<<>>, w)) = 1 /\ Append(<<>>, w)[1] = w
        <4>1. <<>> \in Seq(STRING) /\ Len(<<>>) = 0
          OBVIOUS
        <4>2. PICK e \in Seq(STRING) : e = <<>> /\ Len(e) = 0
          BY <4>1
        <4>3. Append(e, w) \in Seq(STRING) /\ Extends(e, w, Append(e, w))
          BY <3>1, ExtendsBy
        <4> QED  BY <4>2, <4>3 DEF Extends
      <3> QED  BY <3>1, <3>2, MetricIsViable
    <2>5. CASE s = <<>>
      <3>1. w \in DOMAIN Registry
        BY <2>1, <2>5, NoWords
      <3> QED  BY <2>4, <2>5, <3>1
    <2>6. CASE Len(s) = 1 /\ ~space
      <3>1. w \in DOMAIN Registry
        BY <2>1, <2>2, <2>6, FirstWords
      <3> QED  BY <2>4, <2>6, <3>1
    <2>7. CASE Len(s) = 1 /\ space
      <3>1. s[1] \in Idents /\ w \in ClauseWords
        BY <2>1, <2>2, <2>7, FirstWords
      <3>2. w \in STRING
        BY <3>1, TokensOffered
      <3>3. Append(s, w) \in Seq(STRING) /\ Extends(s, w, Append(s, w))
        BY <2>1, <3>2, ExtendsBy
      <3>4. Viable(Append(s, w))
        BY <2>1, <2>7, <3>1, <3>3, ClauseIsViable
      <3> QED  BY <2>7, <3>4
    <2>8. CASE 2 <= Len(s)
      <3>1. Offered(s, w)
        BY <2>1, <2>2, <2>8, LaterWords
      <3>2. w \in Idents \cup operatorSuggestions \cup ClauseWords
        BY <3>1 DEF Offered, ClauseWords
      <3>3. next(w) # "error" /\ w \in STRING
        BY <3>2, TokensOffered
      <3>4. Append(s, w) \in Seq(STRING) /\ Extends(s, w, Append(s, w))
        BY <2>1, <3>3, ExtendsBy
      <3>5. Viable(Append(s, w))
        <4>1. PICK t \in Seq(STRING) : t = Append(s, w) /\ Extends(s, w, t)
          BY <3>4
        <4>2. Viable(t)
          BY <2>1, <2>8, <3>1, <3>3, <4>1, OfferedIsViable
        <4> QED  BY <4>1, <4>2
      <3>6. ~(Len(s) = 1 /\ ~space)
        <4>1. \A n \in Nat : 2 <= n => n # 1
          OBVIOUS
        <4> QED  BY <2>3, <2>8, <4>1
      <3> QED  BY <3>5, <3>6
    <2>9. s = <<>> \/ Len(s) = 1 \/ 2 <= Len(s)
      <3>1. \A n \in Nat : n = 0 \/ n = 1 \/ 2 <= n
        OBVIOUS
      <3> QED  BY <2>3, <3>1
    <2> QED  BY <2>5, <2>6, <2>7, <2>8, <2>9
  <1> QED  BY <1>1, AnsweredInvariant, PTL
=============================================================================
