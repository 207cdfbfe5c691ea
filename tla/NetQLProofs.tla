---------------------------- MODULE NetQLProofs -----------------------------
(***************************************************************************)
(* That the parser accepts what the grammar derives, for any registry,     *)
(* words and query, that a boolean expression is read in one way, and that *)
(* both translations select what the query asks for. The first proof       *)
(* follows the recursive descent: what each function reads and where it    *)
(* stops; the others follow the tree it returns. The library's induction   *)
(* principles have a predicate as a parameter; the inductions here are     *)
(* over a set of naturals instead.                                         *)
(***************************************************************************)
EXTENDS NetQLMeaning, SequenceTheorems, FiniteSetTheorems, WellFoundedInduction, TLAPS

\* A set of naturals has a least element.
LEMMA LeastOf ==
    ASSUME NEW S \in SUBSET Nat, S # {}
    PROVE  \E x \in S : \A y \in S : x <= y
  <1> DEFINE R == OpToRel(<, Nat)
  <1>1. IsWellFoundedOn(R, Nat)  BY NatLessThanWellFounded
  <1>2. R = {ss \in Nat \X Nat : ss[1] < ss[2]}  BY DEF OpToRel
  <1> HIDE DEF R
  <1>3. PICK x \in S : \A y \in S : ~(<<y, x>> \in R)  BY <1>1, WFMin
  <1>4. ASSUME NEW y \in S PROVE x <= y
    <2>1. x \in Nat /\ y \in Nat  OBVIOUS
    <2>2. <<y, x>> \in Nat \X Nat /\ <<y, x>>[1] = y /\ <<y, x>>[2] = x  BY <2>1
    <2> QED  BY <1>2, <1>3, <2>1, <2>2
  <1> QED  BY <1>4

\* Induction over the naturals for a set of them: one that has 0 and every successor is all.
LEMMA SetInduction ==
    ASSUME NEW S \in SUBSET Nat, 0 \in S, \A n \in S : n + 1 \in S
    PROVE  S = Nat
  <1> SUFFICES ASSUME Nat \ S # {} PROVE FALSE
    OBVIOUS
  <1>1. PICK m \in Nat \ S : \A y \in Nat \ S : m <= y
    BY LeastOf
  <1>2. m - 1 \in Nat /\ m - 1 \in S
    BY <1>1
  <1> QED  BY <1>1, <1>2

-----------------------------------------------------------------------------
(***************************************************************************)
(* Readings: the recursion of the meaning has a solution, rule by rule.    *)
(***************************************************************************)
Rules == {"term", "unary", "and", "or"}
Rank(rule) == IF rule = "term" THEN 0 ELSE IF rule = "unary" THEN 1 ELSE IF rule = "and" THEN 2 ELSE 3
Derivables(words) == Rules \X Places(words) \X Places(words)
Sets == SUBSET SUBSET Rows

\* How far a span is from the smallest.
Size(rule, i, j) == IF i <= j THEN 4*(j - i) + Rank(rule) ELSE Rank(rule)

\* What a conjunction of readings reads.
LEMMA Meeting ==
    ASSUME NEW A, NEW B, NEW v
    PROVE  v \in Meets(A, B) <=> \E a \in A, b \in B : v = a \cap b
  <1>1. ASSUME NEW a \in A, NEW b \in B PROVE a \cap b \in Meets(A, B)
    <2>1. <<a, b>> \in A \X B /\ <<a, b>>[1] = a /\ <<a, b>>[2] = b
      OBVIOUS
    <2> QED  BY <2>1 DEF Meets
  <1>2. ASSUME v \in Meets(A, B) PROVE \E a \in A, b \in B : v = a \cap b
    <2>1. PICK p \in A \X B : v = p[1] \cap p[2]
      BY <1>2 DEF Meets
    <2> QED  BY <2>1
  <1> QED  BY <1>1, <1>2

\* What a disjunction of readings reads.
LEMMA Joining ==
    ASSUME NEW A, NEW B, NEW v
    PROVE  v \in Joins(A, B) <=> \E a \in A, b \in B : v = a \cup b
  <1>1. ASSUME NEW a \in A, NEW b \in B PROVE a \cup b \in Joins(A, B)
    <2>1. <<a, b>> \in A \X B /\ <<a, b>>[1] = a /\ <<a, b>>[2] = b
      OBVIOUS
    <2> QED  BY <2>1 DEF Joins
  <1>2. ASSUME v \in Joins(A, B) PROVE \E a \in A, b \in B : v = a \cup b
    <2>1. PICK p \in A \X B : v = p[1] \cup p[2]
      BY <1>2 DEF Joins
    <2> QED  BY <2>1
  <1> QED  BY <1>1, <1>2

\* The readings of a conjunction: those of a unary, or of one with an and behind it.
LEMMA AndReadings ==
    ASSUME NEW words, NEW g, NEW i, NEW j, NEW v
    PROVE  v \in And(words, g, i, j) <=>
             \/ v \in g[<<"unary", i, j>>]
             \/ \E k \in Between(words, i, j, "and") :
                  v \in Meets(g[<<"unary", i, k>>], g[<<"and", k + 1, j>>])
  BY DEF And

\* The readings of a disjunction: those of a conjunction, or of one with an or behind it.
LEMMA OrReadings ==
    ASSUME NEW words, NEW g, NEW i, NEW j, NEW v
    PROVE  v \in Or(words, g, i, j) <=>
             \/ v \in g[<<"and", i, j>>]
             \/ \E k \in Between(words, i, j, "or") :
                  v \in Joins(g[<<"and", i, k>>], g[<<"or", k + 1, j>>])
  BY DEF Or

\* A rule makes readings of readings.
LEMMA ByRuleType ==
    ASSUME NEW W, NEW words \in Seq(W), NEW atoms \in [Spans(words) -> Sets],
           NEW g \in [Derivables(words) -> Sets],
           NEW rule \in Rules, NEW i \in Places(words), NEW j \in Places(words)
    PROVE  ByRule(words, atoms, g, rule, i, j) \in Sets
  <1> USE DEF Sets, Rules
  <1>1. Len(words) \in Nat
    OBVIOUS
  <1>2. \A r \in Rules, a, b \in Places(words) : g[<<r, a, b>>] \in Sets
    BY DEF Derivables
  <1>3. Term(words, atoms, g, i, j) \in Sets
    <2>1. atoms[<<i, j>>] \in Sets
      BY DEF Spans
    <2>2. i + 1 < j => g[<<"or", i + 1, j - 1>>] \in Sets
      BY <1>1, <1>2 DEF Places
    <2> QED  BY <2>1, <2>2 DEF Term
  <1>4. Unary(words, g, i, j) \in Sets
    <2>1. g[<<"term", i, j>>] \in Sets
      BY <1>2
    <2> QED  BY <2>1 DEF Unary
  <1>5. And(words, g, i, j) \in Sets
    <2>1. g[<<"unary", i, j>>] \in Sets
      BY <1>2
    <2>2. \A k \in Between(words, i, j, "and") : g[<<"unary", i, k>>] \in Sets
      BY <1>1, <1>2 DEF Places, Between
    <2>3. ASSUME NEW v \in And(words, g, i, j) PROVE v \in SUBSET Rows
      <3>1. \/ v \in g[<<"unary", i, j>>]
            \/ \E k \in Between(words, i, j, "and") : v \in Meets(g[<<"unary", i, k>>], g[<<"and", k + 1, j>>])
        BY <2>3, AndReadings
      <3>2. ASSUME NEW k \in Between(words, i, j, "and"), v \in Meets(g[<<"unary", i, k>>], g[<<"and", k + 1, j>>])
            PROVE  v \in SUBSET Rows
        <4>1. PICK a \in g[<<"unary", i, k>>], b \in g[<<"and", k + 1, j>>] : v = a \cap b
          BY <3>2, Meeting
        <4> QED  BY <2>2, <4>1
      <3> QED  BY <2>1, <3>1, <3>2
    <2> QED  BY <2>3
  <1>6. Or(words, g, i, j) \in Sets
    <2>1. g[<<"and", i, j>>] \in Sets
      BY <1>2
    <2>2. \A k \in Between(words, i, j, "or") : g[<<"and", i, k>>] \in Sets /\ g[<<"or", k + 1, j>>] \in Sets
      BY <1>1, <1>2 DEF Places, Between
    <2>3. ASSUME NEW v \in Or(words, g, i, j) PROVE v \in SUBSET Rows
      <3>1. \/ v \in g[<<"and", i, j>>]
            \/ \E k \in Between(words, i, j, "or") : v \in Joins(g[<<"and", i, k>>], g[<<"or", k + 1, j>>])
        BY <2>3, OrReadings
      <3>2. ASSUME NEW k \in Between(words, i, j, "or"), v \in Joins(g[<<"and", i, k>>], g[<<"or", k + 1, j>>])
            PROVE  v \in SUBSET Rows
        <4>1. PICK a \in g[<<"and", i, k>>], b \in g[<<"or", k + 1, j>>] : v = a \cup b
          BY <3>2, Joining
        <4> QED  BY <2>2, <4>1
      <3> QED  BY <2>1, <3>1, <3>2
    <2> QED  BY <2>3
  <1> QED  BY <1>3, <1>4, <1>5, <1>6 DEF ByRule

\* g and h are the same below a size.
Agree(words, g, h, n) ==
    \A r \in Rules, a, b \in Places(words) : Size(r, a, b) < n => g[<<r, a, b>>] = h[<<r, a, b>>]

\* The readings of a span depend on those of smaller spans, and of the rules before its own.
LEMMA ByRuleLocal ==
    ASSUME NEW W, NEW words \in Seq(W), NEW atoms \in [Spans(words) -> Sets], NEW g, NEW h,
           NEW rule \in Rules, NEW i \in Places(words), NEW j \in Places(words),
           Agree(words, g, h, Size(rule, i, j))
    PROVE  ByRule(words, atoms, g, rule, i, j) = ByRule(words, atoms, h, rule, i, j)
  <1>1. Len(words) \in Nat
    OBVIOUS
  <1> USE DEF Agree
  <1>2. CASE rule = "term"
    <2>1. i + 1 < j => g[<<"or", i + 1, j - 1>>] = h[<<"or", i + 1, j - 1>>]
      <3> SUFFICES ASSUME i + 1 < j PROVE g[<<"or", i + 1, j - 1>>] = h[<<"or", i + 1, j - 1>>]
        OBVIOUS
      <3>1. i + 1 \in Places(words) /\ j - 1 \in Places(words) /\ "or" \in Rules
        BY <1>1 DEF Places, Rules
      <3>2. Size("or", i + 1, j - 1) < Size(rule, i, j)
        BY <1>2 DEF Size, Rank, Places
      <3> QED  BY <3>1, <3>2
    <2> QED  BY <1>2, <2>1 DEF ByRule, Term
  <1>3. CASE rule = "unary"
    <2>1. g[<<"term", i, j>>] = h[<<"term", i, j>>]
      <3>1. Size("term", i, j) < Size(rule, i, j)
        BY <1>3 DEF Size, Rank, Places
      <3> QED  BY <3>1 DEF Rules
    <2>2. i < j => g[<<"term", i + 1, j>>] = h[<<"term", i + 1, j>>]
      <3> SUFFICES ASSUME i < j PROVE g[<<"term", i + 1, j>>] = h[<<"term", i + 1, j>>]
        OBVIOUS
      <3>1. i + 1 \in Places(words) /\ "term" \in Rules
        BY <1>1 DEF Places, Rules
      <3>2. Size("term", i + 1, j) < Size(rule, i, j)
        BY <1>3 DEF Size, Rank, Places
      <3> QED  BY <3>1, <3>2
    <2> QED  BY <1>3, <2>1, <2>2 DEF ByRule, Unary
  <1>4. CASE rule = "and"
    <2>1. g[<<"unary", i, j>>] = h[<<"unary", i, j>>]
      <3>1. Size("unary", i, j) < Size(rule, i, j)
        BY <1>4 DEF Size, Rank, Places
      <3> QED  BY <3>1 DEF Rules
    <2>2. ASSUME NEW k \in Between(words, i, j, "and")
          PROVE  /\ g[<<"unary", i, k>>] = h[<<"unary", i, k>>]
                 /\ g[<<"and", k + 1, j>>] = h[<<"and", k + 1, j>>]
      <3>1. /\ k \in Places(words) /\ k + 1 \in Places(words) /\ i <= k /\ k < j /\ k \in Int
            /\ "and" \in Rules /\ "unary" \in Rules
        BY <1>1 DEF Places, Rules, Between
      <3>2. Size("unary", i, k) < Size(rule, i, j) /\ Size("and", k + 1, j) < Size(rule, i, j)
        BY <1>4, <3>1 DEF Size, Rank, Places
      <3> QED  BY <3>1, <3>2
    <2>3. ASSUME NEW v PROVE v \in And(words, g, i, j) <=> v \in And(words, h, i, j)
      <3>1. \A f : v \in And(words, f, i, j) <=>
                    \/ v \in f[<<"unary", i, j>>]
                    \/ \E k \in Between(words, i, j, "and") :
                         v \in Meets(f[<<"unary", i, k>>], f[<<"and", k + 1, j>>])
        BY AndReadings
      <3> QED  BY <2>1, <2>2, <3>1, Zenon
    <2>4. And(words, g, i, j) = And(words, h, i, j)
      BY <2>3
    <2> QED  BY <1>4, <2>4 DEF ByRule
  <1>5. CASE rule = "or"
    <2>1. g[<<"and", i, j>>] = h[<<"and", i, j>>]
      <3>1. Size("and", i, j) < Size(rule, i, j)
        BY <1>5 DEF Size, Rank, Places
      <3> QED  BY <3>1 DEF Rules
    <2>2. ASSUME NEW k \in Between(words, i, j, "or")
          PROVE  /\ g[<<"and", i, k>>] = h[<<"and", i, k>>]
                 /\ g[<<"or", k + 1, j>>] = h[<<"or", k + 1, j>>]
      <3>1. /\ k \in Places(words) /\ k + 1 \in Places(words) /\ i <= k /\ k < j /\ k \in Int
            /\ "and" \in Rules /\ "or" \in Rules
        BY <1>1 DEF Places, Rules, Between
      <3>2. Size("and", i, k) < Size(rule, i, j) /\ Size("or", k + 1, j) < Size(rule, i, j)
        BY <1>5, <3>1 DEF Size, Rank, Places
      <3> QED  BY <3>1, <3>2
    <2>3. ASSUME NEW v PROVE v \in Or(words, g, i, j) <=> v \in Or(words, h, i, j)
      <3>1. \A f : v \in Or(words, f, i, j) <=>
                    \/ v \in f[<<"and", i, j>>]
                    \/ \E k \in Between(words, i, j, "or") :
                         v \in Joins(f[<<"and", i, k>>], f[<<"or", k + 1, j>>])
        BY OrReadings
      <3> QED  BY <2>1, <2>2, <3>1, Zenon
    <2>4. Or(words, g, i, j) = Or(words, h, i, j)
      BY <2>3
    <2> QED  BY <1>5, <2>4 DEF ByRule
  <1> QED  BY <1>2, <1>3, <1>4, <1>5 DEF Rules

\* So there are such readings.
LEMMA ReadingsExist ==
    ASSUME NEW W, NEW words \in Seq(W), NEW atoms \in [Spans(words) -> Sets]
    PROVE  \E g \in [Derivables(words) -> Sets] :
             g = [x \in Derivables(words) |-> ByRule(words, atoms, g, x[1], x[2], x[3])]
  <1> DEFINE X == Derivables(words)
             size(x) == Size(x[1], x[2], x[3])
             upTo(g, n) == \A x \in X : size(x) < n => g[x] = ByRule(words, atoms, g, x[1], x[2], x[3])
             N == {n \in Nat : \E g \in [X -> Sets] : upTo(g, n)}
  <1>1. Len(words) \in Nat
    OBVIOUS
  <1>2. \A x \in X : /\ size(x) \in Nat /\ size(x) <= 4 * Len(words) + 3
                     /\ x[1] \in Rules /\ x[2] \in Places(words) /\ x[3] \in Places(words)
                     /\ x = <<x[1], x[2], x[3]>>
    BY <1>1 DEF Derivables, Size, Rank, Places, Rules
  <1>3. 0 \in N
    <2> DEFINE g == [x \in X |-> {}]
    <2>1. g \in [X -> Sets]
      BY DEF Sets
    <2> HIDE DEF g
    <2>2. upTo(g, 0)
      BY <1>2
    <2> HIDE DEF upTo
    <2> QED  BY <2>1, <2>2
  <1>4. ASSUME NEW n \in N PROVE n + 1 \in N
    <2>1. n \in Nat
      OBVIOUS
    <2>2. PICK g \in [X -> Sets] : upTo(g, n)
      OBVIOUS
    <2> DEFINE h == [x \in X |-> IF size(x) < n THEN g[x] ELSE ByRule(words, atoms, g, x[1], x[2], x[3])]
    <2>3. h \in [X -> Sets]
      <3>1. ASSUME NEW r \in Rules, NEW a \in Places(words), NEW b \in Places(words)
            PROVE  ByRule(words, atoms, g, r, a, b) \in Sets
        BY ByRuleType
      <3>2. \A x \in X : ByRule(words, atoms, g, x[1], x[2], x[3]) \in Sets
        BY <1>2, <3>1
      <3> QED  BY <3>2
    <2>4. ASSUME NEW x \in X, size(x) < n + 1
          PROVE  h[x] = ByRule(words, atoms, h, x[1], x[2], x[3])
      <3>1. h[x] = ByRule(words, atoms, g, x[1], x[2], x[3])
        BY <2>2
      <3>2. Agree(words, g, h, Size(x[1], x[2], x[3]))
        <4> SUFFICES ASSUME NEW r \in Rules, NEW a \in Places(words), NEW b \in Places(words),
                            Size(r, a, b) < Size(x[1], x[2], x[3])
                     PROVE  g[<<r, a, b>>] = h[<<r, a, b>>]
          BY DEF Agree
        <4>1. <<r, a, b>> \in X
          BY DEF Derivables
        <4>2. size(<<r, a, b>>) < n
          BY <1>2, <2>1, <2>4, <4>1
        <4> QED  BY <4>1, <4>2
      <3> HIDE DEF h
      <3>3. ByRule(words, atoms, g, x[1], x[2], x[3]) = ByRule(words, atoms, h, x[1], x[2], x[3])
        BY <1>2, <3>2, ByRuleLocal
      <3> QED  BY <3>1, <3>3
    <2> HIDE DEF h
    <2>5. upTo(h, n + 1)
      BY <2>4
    <2> QED  BY <2>1, <2>3, <2>5
  <1>5. 4 * Len(words) + 4 \in N
    <2>1. N \in SUBSET Nat
      OBVIOUS
    <2> HIDE DEF N
    <2>2. N = Nat
      BY <1>3, <1>4, <2>1, SetInduction
    <2> QED  BY <1>1, <2>2
  <1>6. PICK g \in [X -> Sets] : upTo(g, 4 * Len(words) + 4)
    BY <1>5
  <1>7. \A x \in X : g[x] = ByRule(words, atoms, g, x[1], x[2], x[3])
    BY <1>1, <1>2, <1>6
  <1> QED  BY <1>6, <1>7

\* The recursion of Readings has a solution, and unfolds rule by rule.
LEMMA ReadingsUnfold ==
    ASSUME NEW W, NEW words \in Seq(W), NEW atoms \in [Spans(words) -> Sets]
    PROVE  /\ Readings(words, atoms) \in [Derivables(words) -> Sets]
           /\ \A rule \in Rules, i, j \in Places(words) :
                Readings(words, atoms)[<<rule, i, j>>]
                  = ByRule(words, atoms, Readings(words, atoms), rule, i, j)
  <1> DEFINE R == Readings(words, atoms)
  <1>1. PICK g \in [Derivables(words) -> Sets] :
          g = [x \in Derivables(words) |-> ByRule(words, atoms, g, x[1], x[2], x[3])]
    BY ReadingsExist
  <1>2. R = [x \in Derivables(words) |-> ByRule(words, atoms, R, x[1], x[2], x[3])]
    BY <1>1 DEF Readings, Derivables, Rules
  <1> HIDE DEF R
  <1> DEFINE N == {n \in Nat : Agree(words, R, g, n)}
  <1>3. Len(words) \in Nat
    OBVIOUS
  <1>4. \A r \in Rules, a, b \in Places(words) :
          Size(r, a, b) \in Nat /\ Size(r, a, b) < 4 * Len(words) + 4
    BY <1>3 DEF Size, Rank, Places, Rules
  <1>5. \A r \in Rules, a, b \in Places(words) :
          /\ R[<<r, a, b>>] = ByRule(words, atoms, R, r, a, b)
          /\ g[<<r, a, b>>] = ByRule(words, atoms, g, r, a, b)
    BY <1>1, <1>2 DEF Derivables
  <1>6. 0 \in N
    BY <1>4 DEF Agree
  <1>7. ASSUME NEW n \in N PROVE n + 1 \in N
    <2>1. n \in Nat /\ Agree(words, R, g, n)
      OBVIOUS
    <2>2. ASSUME NEW r \in Rules, NEW a \in Places(words), NEW b \in Places(words), Size(r, a, b) < n + 1
          PROVE  R[<<r, a, b>>] = g[<<r, a, b>>]
      <3>1. Agree(words, R, g, Size(r, a, b))
        <4> SUFFICES ASSUME NEW r1 \in Rules, NEW a1 \in Places(words), NEW b1 \in Places(words),
                            Size(r1, a1, b1) < Size(r, a, b)
                     PROVE  R[<<r1, a1, b1>>] = g[<<r1, a1, b1>>]
          BY DEF Agree
        <4>1. Size(r, a, b) \in Nat /\ Size(r1, a1, b1) \in Nat
          BY <1>4
        <4>2. Size(r1, a1, b1) < n
          BY <2>1, <2>2, <4>1
        <4> QED  BY <2>1, <4>2 DEF Agree
      <3>2. ByRule(words, atoms, R, r, a, b) = ByRule(words, atoms, g, r, a, b)
        BY <3>1, ByRuleLocal
      <3>3. R[<<r, a, b>>] = ByRule(words, atoms, R, r, a, b) /\ g[<<r, a, b>>] = ByRule(words, atoms, g, r, a, b)
        BY <1>5
      <3> QED  BY <3>2, <3>3
    <2> QED  BY <2>1, <2>2 DEF Agree
  <1>8. Agree(words, R, g, 4 * Len(words) + 4)
    <2>1. N \in SUBSET Nat
      OBVIOUS
    <2>2. N = Nat
      <3> HIDE DEF N
      <3> QED  BY <1>6, <1>7, <2>1, SetInduction
    <2> QED  BY <1>3, <2>2
  <1>9. \A x \in Derivables(words) : R[x] = g[x]
    BY <1>4, <1>8 DEF Derivables, Agree
  <1>10. R \in [Derivables(words) -> Sets]
    BY <1>1, <1>2, <1>9
  <1> QED  BY <1>5, <1>10 DEF R

-----------------------------------------------------------------------------
(***************************************************************************)
(* Whatever the words and the conditions, an expression is read in one way *)
(* at most.                                                                *)
(***************************************************************************)
Reads(words, atoms, rule, i, j) == Readings(words, atoms)[<<rule, i, j>>]

\* Readings are sets of rows.
LEMMA ReadsType ==
    ASSUME NEW W, NEW words \in Seq(W), NEW atoms \in [Spans(words) -> Sets],
           NEW rule \in Rules, NEW i \in Places(words), NEW j \in Places(words)
    PROVE  Reads(words, atoms, rule, i, j) \in Sets
  <1>1. Readings(words, atoms) \in [Derivables(words) -> Sets]
    BY ReadingsUnfold
  <1> QED  BY <1>1 DEF Reads, Derivables

\* The four rules.
LEMMA TermRule ==
    ASSUME NEW W, NEW words \in Seq(W), NEW atoms \in [Spans(words) -> Sets],
           NEW i \in Places(words), NEW j \in Places(words), NEW v
    PROVE  v \in Reads(words, atoms, "term", i, j) <=>
             \/ v \in atoms[<<i, j>>]
             \/ /\ i + 1 < j /\ words[i] = "(" /\ words[j - 1] = ")"
                /\ v \in Reads(words, atoms, "or", i + 1, j - 1)
  <1>1. Reads(words, atoms, "term", i, j) = Term(words, atoms, Readings(words, atoms), i, j)
    BY ReadingsUnfold DEF Reads, ByRule, Rules
  <1> QED  BY <1>1 DEF Term, Reads

\* The readings of a unary, in the form the proofs use.
LEMMA UnaryRule ==
    ASSUME NEW W, NEW words \in Seq(W), NEW atoms \in [Spans(words) -> Sets],
           NEW i \in Places(words), NEW j \in Places(words), NEW v
    PROVE  v \in Reads(words, atoms, "unary", i, j) <=>
             \/ v \in Reads(words, atoms, "term", i, j)
             \/ /\ i < j /\ words[i] = "not"
                /\ \E a \in Reads(words, atoms, "term", i + 1, j) : v = Rows \ a
  <1>1. Reads(words, atoms, "unary", i, j) = Unary(words, Readings(words, atoms), i, j)
    BY ReadingsUnfold DEF Reads, ByRule, Rules
  <1> QED  BY <1>1 DEF Unary, Reads

\* The readings of a conjunction, in the form the proofs use.
LEMMA AndRule ==
    ASSUME NEW W, NEW words \in Seq(W), NEW atoms \in [Spans(words) -> Sets],
           NEW i \in Places(words), NEW j \in Places(words), NEW v
    PROVE  v \in Reads(words, atoms, "and", i, j) <=>
             \/ v \in Reads(words, atoms, "unary", i, j)
             \/ \E k \in i .. j - 1 :
                  /\ words[k] = "and"
                  /\ v \in Meets(Reads(words, atoms, "unary", i, k), Reads(words, atoms, "and", k + 1, j))
  <1>1. Reads(words, atoms, "and", i, j) = And(words, Readings(words, atoms), i, j)
    BY ReadingsUnfold DEF Reads, ByRule, Rules
  <1> DEFINE R == Readings(words, atoms)
  <1>2. v \in And(words, R, i, j) <=>
          \/ v \in R[<<"unary", i, j>>]
          \/ \E k \in Between(words, i, j, "and") : v \in Meets(R[<<"unary", i, k>>], R[<<"and", k + 1, j>>])
    BY AndReadings
  <1> QED  BY <1>1, <1>2 DEF Reads, Between

\* The readings of a disjunction, in the form the proofs use.
LEMMA OrRule ==
    ASSUME NEW W, NEW words \in Seq(W), NEW atoms \in [Spans(words) -> Sets],
           NEW i \in Places(words), NEW j \in Places(words), NEW v
    PROVE  v \in Reads(words, atoms, "or", i, j) <=>
             \/ v \in Reads(words, atoms, "and", i, j)
             \/ \E k \in i .. j - 1 :
                  /\ words[k] = "or"
                  /\ v \in Joins(Reads(words, atoms, "and", i, k), Reads(words, atoms, "or", k + 1, j))
  <1>1. Reads(words, atoms, "or", i, j) = Or(words, Readings(words, atoms), i, j)
    BY ReadingsUnfold DEF Reads, ByRule, Rules
  <1> DEFINE R == Readings(words, atoms)
  <1>2. v \in Or(words, R, i, j) <=>
          \/ v \in R[<<"and", i, j>>]
          \/ \E k \in Between(words, i, j, "or") : v \in Joins(R[<<"and", i, k>>], R[<<"or", k + 1, j>>])
    BY OrReadings
  <1> QED  BY <1>1, <1>2 DEF Reads, Between

-----------------------------------------------------------------------------
(***************************************************************************)
(* The grammar is read in one way, if its conditions are.                  *)
(***************************************************************************)

\* Where a condition ends, and what it selects, is decided by where it starts; brackets and
\* negations do not start one.
Atomic(words, atoms) ==
    /\ \A i, j \in Places(words) : atoms[<<i, j>>] # {} => i < j /\ words[i] \notin {"(", "not"}
    /\ \A i, j, k \in Places(words) : \A a \in atoms[<<i, j>>], b \in atoms[<<i, k>>] : j = k /\ a = b

\* What ends a phrase of the rule: anything but a word that would go on with it.
GoesOn(rule) == IF rule = "and" THEN {"and"} ELSE IF rule = "or" THEN {"and", "or"} ELSE {}

Determined(words, atoms, rule, i, j) ==
    \A a \in Reads(words, atoms, rule, i, j) :
      /\ i < j
      /\ \A k \in Places(words) : \A b \in Reads(words, atoms, rule, i, k) :
           peek(words, j) \notin GoesOn(rule) /\ peek(words, k) \notin GoesOn(rule) => j = k /\ a = b

\* A term is read in one way when what is in its brackets is.
LEMMA TermDetermined ==
    ASSUME NEW W, NEW words \in Seq(W), NEW atoms \in [Spans(words) -> Sets], Atomic(words, atoms),
           NEW i \in Places(words), NEW j \in Places(words),
           i + 1 < j => Determined(words, atoms, "or", i + 1, j - 1)
    PROVE  Determined(words, atoms, "term", i, j)
  <1>1. Len(words) \in Nat /\ i \in Nat /\ j \in Nat
    BY DEF Places
  <1> SUFFICES ASSUME NEW a \in Reads(words, atoms, "term", i, j)
               PROVE  /\ i < j
                      /\ \A k \in Places(words) : \A b \in Reads(words, atoms, "term", i, k) : j = k /\ a = b
    BY DEF Determined
  <1>2. CASE a \in atoms[<<i, j>>]
    <2>1. i < j /\ words[i] \notin {"(", "not"}
      BY <1>2 DEF Atomic
    <2>2. ASSUME NEW k \in Places(words), NEW b \in Reads(words, atoms, "term", i, k) PROVE j = k /\ a = b
      <3>1. b \in atoms[<<i, k>>]
        BY <2>1, TermRule
      <3> QED  BY <1>2, <3>1 DEF Atomic
    <2> QED  BY <2>1, <2>2
  <1>3. CASE a \notin atoms[<<i, j>>]
    <2>1. /\ i + 1 < j /\ words[i] = "(" /\ words[j - 1] = ")"
          /\ a \in Reads(words, atoms, "or", i + 1, j - 1)
      BY <1>3, TermRule
    <2>2. ASSUME NEW k \in Places(words), NEW b \in Reads(words, atoms, "term", i, k) PROVE j = k /\ a = b
      <3>1. b \notin atoms[<<i, k>>]
        BY <2>1 DEF Atomic
      <3>2. i + 1 < k /\ words[k - 1] = ")" /\ b \in Reads(words, atoms, "or", i + 1, k - 1)
        BY <3>1, TermRule
      <3>3. k \in Nat /\ k - 1 \in Places(words) /\ j - 1 \in Places(words) /\ k - 1 <= Len(words) /\ j - 1 <= Len(words)
        BY <1>1, <2>1, <3>2 DEF Places
      <3>4. peek(words, j - 1) = ")" /\ peek(words, k - 1) = ")"
        BY <2>1, <3>2, <3>3 DEF peek
      <3>5. j - 1 = k - 1 /\ a = b
        BY <2>1, <3>2, <3>3, <3>4 DEF Determined, GoesOn
      <3> QED  BY <1>1, <3>3, <3>5
    <2> QED  BY <1>1, <2>1, <2>2
  <1> QED  BY <1>2, <1>3

\* No term starts with a not.
LEMMA TermStarts ==
    ASSUME NEW W, NEW words \in Seq(W), NEW atoms \in [Spans(words) -> Sets], Atomic(words, atoms),
           NEW i \in Places(words), NEW j \in Places(words), NEW a \in Reads(words, atoms, "term", i, j)
    PROVE  words[i] # "not"
  <1>1. a \in atoms[<<i, j>>] \/ words[i] = "("
    BY TermRule
  <1> QED  BY <1>1 DEF Atomic

\* A unary is read in one way when its terms are.
LEMMA UnaryDetermined ==
    ASSUME NEW W, NEW words \in Seq(W), NEW atoms \in [Spans(words) -> Sets], Atomic(words, atoms),
           NEW i \in Places(words), NEW j \in Places(words),
           Determined(words, atoms, "term", i, j),
           i < j => Determined(words, atoms, "term", i + 1, j)
    PROVE  Determined(words, atoms, "unary", i, j)
  <1>1. Len(words) \in Nat /\ i \in Nat /\ j \in Nat
    BY DEF Places
  <1> SUFFICES ASSUME NEW a \in Reads(words, atoms, "unary", i, j)
               PROVE  /\ i < j
                      /\ \A k \in Places(words) : \A b \in Reads(words, atoms, "unary", i, k) : j = k /\ a = b
    BY DEF Determined
  <1>2. CASE a \in Reads(words, atoms, "term", i, j)
    <2>1. i < j /\ words[i] # "not"
      BY <1>2, TermStarts DEF Determined
    <2>2. ASSUME NEW k \in Places(words), NEW b \in Reads(words, atoms, "unary", i, k) PROVE j = k /\ a = b
      <3>1. b \in Reads(words, atoms, "term", i, k)
        BY <2>1, UnaryRule
      <3> QED  BY <1>2, <3>1 DEF Determined, GoesOn
    <2> QED  BY <2>1, <2>2
  <1>3. CASE a \notin Reads(words, atoms, "term", i, j)
    <2>1. i < j /\ words[i] = "not"
      BY <1>3, UnaryRule
    <2>2. PICK c \in Reads(words, atoms, "term", i + 1, j) : a = Rows \ c
      BY <1>3, UnaryRule
    <2>3. ASSUME NEW k \in Places(words), NEW b \in Reads(words, atoms, "unary", i, k) PROVE j = k /\ a = b
      <3>1. b \notin Reads(words, atoms, "term", i, k)
        BY <2>1, TermStarts
      <3>2. PICK d \in Reads(words, atoms, "term", i + 1, k) : b = Rows \ d
        BY <3>1, UnaryRule
      <3>3. j = k /\ c = d
        BY <2>1, <2>2, <3>2 DEF Determined, GoesOn
      <3> QED  BY <2>2, <3>2, <3>3
    <2> QED  BY <2>1, <2>3
  <1> QED  BY <1>2, <1>3

\* A conjunction is its first unary, or that and what is behind its first and.
LEMMA AndSplits ==
    ASSUME NEW W, NEW words \in Seq(W), NEW atoms \in [Spans(words) -> Sets],
           NEW i \in Places(words), NEW j \in Places(words), NEW a \in Reads(words, atoms, "and", i, j)
    PROVE  \E k \in Places(words) : \E b \in Reads(words, atoms, "unary", i, k) :
             \/ k = j /\ a = b
             \/ /\ i <= k /\ k < j /\ words[k] = "and"
                /\ \E c \in Reads(words, atoms, "and", k + 1, j) : a = b \cap c
  <1>1. Len(words) \in Nat /\ i \in Nat /\ j \in Nat
    BY DEF Places
  <1>2. CASE a \in Reads(words, atoms, "unary", i, j)
    BY <1>2
  <1>3. CASE a \notin Reads(words, atoms, "unary", i, j)
    <2>1. PICK k \in i .. j - 1 :
            /\ words[k] = "and"
            /\ a \in Meets(Reads(words, atoms, "unary", i, k), Reads(words, atoms, "and", k + 1, j))
      BY <1>3, AndRule
    <2>2. PICK b \in Reads(words, atoms, "unary", i, k), c \in Reads(words, atoms, "and", k + 1, j) : a = b \cap c
      BY <2>1, Meeting
    <2>3. k \in Places(words) /\ i <= k /\ k < j
      BY <1>1, <2>1 DEF Places
    <2> QED  BY <2>1, <2>2, <2>3
  <1> QED  BY <1>2, <1>3

\* A conjunction is read in one way when its unaries and the shorter conjunctions are.
LEMMA AndDetermined ==
    ASSUME NEW W, NEW words \in Seq(W), NEW atoms \in [Spans(words) -> Sets],
           NEW i \in Places(words), NEW j \in Places(words),
           \A k \in Places(words) : k <= j => Determined(words, atoms, "unary", i, k),
           \A k \in Places(words) : i < k /\ k <= j => Determined(words, atoms, "and", k, j)
    PROVE  Determined(words, atoms, "and", i, j)
  <1>1. Len(words) \in Nat /\ \A k \in Places(words) : k \in Nat /\ k <= Len(words) + 1 /\ 1 <= k
    BY DEF Places
  <1> SUFFICES ASSUME NEW a \in Reads(words, atoms, "and", i, j)
               PROVE  /\ i < j
                      /\ \A l \in Places(words) : \A b \in Reads(words, atoms, "and", i, l) :
                           peek(words, j) \notin {"and"} /\ peek(words, l) \notin {"and"} => j = l /\ a = b
    BY DEF Determined, GoesOn
  <1>2a. PICK k \in Places(words) : \E b \in Reads(words, atoms, "unary", i, k) :
          \/ k = j /\ a = b
          \/ /\ i <= k /\ k < j /\ words[k] = "and"
             /\ \E c \in Reads(words, atoms, "and", k + 1, j) : a = b \cap c
    BY AndSplits
  <1>2. PICK a1 \in Reads(words, atoms, "unary", i, k) :
          \/ k = j /\ a = a1
          \/ /\ i <= k /\ k < j /\ words[k] = "and"
             /\ \E c \in Reads(words, atoms, "and", k + 1, j) : a = a1 \cap c
    BY <1>2a
  <1>3. k <= j /\ Determined(words, atoms, "unary", i, k)
    BY <1>1, <1>2
  <1>4. i < k
    BY <1>2, <1>3 DEF Determined
  <1>5. i < j
    BY <1>1, <1>3, <1>4
  <1>6. ASSUME NEW l \in Places(words), NEW b \in Reads(words, atoms, "and", i, l),
               peek(words, j) \notin {"and"}, peek(words, l) \notin {"and"}
        PROVE  j = l /\ a = b
    <2>1a. PICK m \in Places(words) : \E c1 \in Reads(words, atoms, "unary", i, m) :
            \/ m = l /\ b = c1
            \/ /\ i <= m /\ m < l /\ words[m] = "and"
               /\ \E c \in Reads(words, atoms, "and", m + 1, l) : b = c1 \cap c
      BY AndSplits
    <2>1. PICK b1 \in Reads(words, atoms, "unary", i, m) :
            \/ m = l /\ b = b1
            \/ /\ i <= m /\ m < l /\ words[m] = "and"
               /\ \E c \in Reads(words, atoms, "and", m + 1, l) : b = b1 \cap c
      BY <2>1a
    <2>2. \A p \in Places(words) : p < j \/ p < l => peek(words, p) = words[p]
      BY <1>1 DEF peek
    <2>3. k = m /\ a1 = b1
      <3>1. peek(words, k) \notin GoesOn("unary") /\ peek(words, m) \notin GoesOn("unary")
        BY <1>2, <1>6, <2>1, <2>2 DEF GoesOn
      <3> QED  BY <1>3, <3>1 DEF Determined
    <2>4. CASE k = j
      BY <1>2, <1>6, <2>1, <2>2, <2>3, <2>4, <1>1
    <2>5. CASE k # j
      <3>1. k < j /\ words[k] = "and" /\ m < l
        BY <1>2, <1>6, <2>1, <2>2, <2>3, <2>5
      <3>2. PICK c \in Reads(words, atoms, "and", k + 1, j) : a = a1 \cap c
        BY <1>2, <2>5
      <3>3. PICK d \in Reads(words, atoms, "and", k + 1, l) : b = b1 \cap d
        BY <1>1, <2>1, <2>3, <3>1
      <3>4. k + 1 \in Places(words) /\ i < k + 1 /\ k + 1 <= j
        BY <1>1, <1>4, <3>1 DEF Places
      <3>5. j = l /\ c = d
        BY <1>6, <3>2, <3>3, <3>4 DEF Determined, GoesOn
      <3> QED  BY <2>3, <3>2, <3>3, <3>5
    <2> QED  BY <2>4, <2>5
  <1> QED  BY <1>5, <1>6

\* A disjunction is its first and, or that and what is behind its first or.
LEMMA OrSplits ==
    ASSUME NEW W, NEW words \in Seq(W), NEW atoms \in [Spans(words) -> Sets],
           NEW i \in Places(words), NEW j \in Places(words), NEW a \in Reads(words, atoms, "or", i, j)
    PROVE  \E k \in Places(words) : \E b \in Reads(words, atoms, "and", i, k) :
             \/ k = j /\ a = b
             \/ /\ i <= k /\ k < j /\ words[k] = "or"
                /\ \E c \in Reads(words, atoms, "or", k + 1, j) : a = b \cup c
  <1>1. Len(words) \in Nat /\ i \in Nat /\ j \in Nat
    BY DEF Places
  <1>2. CASE a \in Reads(words, atoms, "and", i, j)
    BY <1>2
  <1>3. CASE a \notin Reads(words, atoms, "and", i, j)
    <2>1. PICK k \in i .. j - 1 :
            /\ words[k] = "or"
            /\ a \in Joins(Reads(words, atoms, "and", i, k), Reads(words, atoms, "or", k + 1, j))
      BY <1>3, OrRule
    <2>2. PICK b \in Reads(words, atoms, "and", i, k), c \in Reads(words, atoms, "or", k + 1, j) : a = b \cup c
      BY <2>1, Joining
    <2>3. k \in Places(words) /\ i <= k /\ k < j
      BY <1>1, <2>1 DEF Places
    <2> QED  BY <2>1, <2>2, <2>3
  <1> QED  BY <1>2, <1>3

\* A disjunction is read in one way when its conjunctions and the shorter disjunctions are.
LEMMA OrDetermined ==
    ASSUME NEW W, NEW words \in Seq(W), NEW atoms \in [Spans(words) -> Sets],
           NEW i \in Places(words), NEW j \in Places(words),
           \A k \in Places(words) : k <= j => Determined(words, atoms, "and", i, k),
           \A k \in Places(words) : i < k /\ k <= j => Determined(words, atoms, "or", k, j)
    PROVE  Determined(words, atoms, "or", i, j)
  <1>1. Len(words) \in Nat /\ \A k \in Places(words) : k \in Nat /\ k <= Len(words) + 1 /\ 1 <= k
    BY DEF Places
  <1> SUFFICES ASSUME NEW a \in Reads(words, atoms, "or", i, j)
               PROVE  /\ i < j
                      /\ \A l \in Places(words) : \A b \in Reads(words, atoms, "or", i, l) :
                           peek(words, j) \notin {"and", "or"} /\ peek(words, l) \notin {"and", "or"} => j = l /\ a = b
    BY DEF Determined, GoesOn
  <1>2a. PICK k \in Places(words) : \E b \in Reads(words, atoms, "and", i, k) :
          \/ k = j /\ a = b
          \/ /\ i <= k /\ k < j /\ words[k] = "or"
             /\ \E c \in Reads(words, atoms, "or", k + 1, j) : a = b \cup c
    BY OrSplits
  <1>2. PICK a1 \in Reads(words, atoms, "and", i, k) :
          \/ k = j /\ a = a1
          \/ /\ i <= k /\ k < j /\ words[k] = "or"
             /\ \E c \in Reads(words, atoms, "or", k + 1, j) : a = a1 \cup c
    BY <1>2a
  <1>3. k <= j /\ Determined(words, atoms, "and", i, k)
    BY <1>1, <1>2
  <1>4. i < k
    BY <1>2, <1>3 DEF Determined
  <1>5. i < j
    BY <1>1, <1>3, <1>4
  <1>6. ASSUME NEW l \in Places(words), NEW b \in Reads(words, atoms, "or", i, l),
               peek(words, j) \notin {"and", "or"}, peek(words, l) \notin {"and", "or"}
        PROVE  j = l /\ a = b
    <2>1a. PICK m \in Places(words) : \E c1 \in Reads(words, atoms, "and", i, m) :
            \/ m = l /\ b = c1
            \/ /\ i <= m /\ m < l /\ words[m] = "or"
               /\ \E c \in Reads(words, atoms, "or", m + 1, l) : b = c1 \cup c
      BY OrSplits
    <2>1. PICK b1 \in Reads(words, atoms, "and", i, m) :
            \/ m = l /\ b = b1
            \/ /\ i <= m /\ m < l /\ words[m] = "or"
               /\ \E c \in Reads(words, atoms, "or", m + 1, l) : b = b1 \cup c
      BY <2>1a
    <2>2. \A p \in Places(words) : p < j \/ p < l => peek(words, p) = words[p]
      BY <1>1 DEF peek
    <2>3. k = m /\ a1 = b1
      <3>1. peek(words, k) \notin GoesOn("and") /\ peek(words, m) \notin GoesOn("and")
        BY <1>2, <1>6, <2>1, <2>2 DEF GoesOn
      <3> QED  BY <1>3, <3>1 DEF Determined
    <2>4. CASE k = j
      BY <1>2, <1>6, <2>1, <2>2, <2>3, <2>4, <1>1
    <2>5. CASE k # j
      <3>1. k < j /\ words[k] = "or" /\ m < l
        BY <1>2, <1>6, <2>1, <2>2, <2>3, <2>5
      <3>2. PICK c \in Reads(words, atoms, "or", k + 1, j) : a = a1 \cup c
        BY <1>2, <2>5
      <3>3. PICK d \in Reads(words, atoms, "or", k + 1, l) : b = b1 \cup d
        BY <1>1, <2>1, <2>3, <3>1
      <3>4. k + 1 \in Places(words) /\ i < k + 1 /\ k + 1 <= j
        BY <1>1, <1>4, <3>1 DEF Places
      <3>5. j = l /\ c = d
        BY <1>6, <3>2, <3>3, <3>4 DEF Determined, GoesOn
      <3> QED  BY <2>3, <3>2, <3>3, <3>5
    <2> QED  BY <2>4, <2>5
  <1> QED  BY <1>5, <1>6

DeterminedBelow(words, atoms, n) ==
    \A r \in Rules, a, b \in Places(words) : Size(r, a, b) < n => Determined(words, atoms, r, a, b)

\* What a span reads as, and where a phrase that starts at a place ends, is decided.
THEOREM ReadInOneWay ==
    ASSUME NEW W, NEW words \in Seq(W), NEW atoms \in [Spans(words) -> Sets], Atomic(words, atoms),
           NEW rule \in Rules, NEW i \in Places(words), NEW j \in Places(words)
    PROVE  Determined(words, atoms, rule, i, j)
  <1> DEFINE N == {n \in Nat : DeterminedBelow(words, atoms, n)}
  <1>1. Len(words) \in Nat /\ \A k \in Places(words) : k \in Nat /\ k <= Len(words) + 1 /\ 1 <= k
    BY DEF Places
  <1>2. \A r \in Rules, a, b \in Places(words) : Size(r, a, b) \in Nat
    BY <1>1 DEF Size, Rank, Rules
  <1>3. 0 \in N
    <2>1. ASSUME NEW r \in Rules, NEW a \in Places(words), NEW b \in Places(words), Size(r, a, b) < 0
          PROVE  FALSE
      <3>1. Size(r, a, b) \in Nat
        BY <1>2
      <3> QED  BY <2>1, <3>1
    <2> QED  BY <2>1 DEF DeterminedBelow
  <1>4. ASSUME NEW n \in N PROVE n + 1 \in N
    <2>1. n \in Nat /\ DeterminedBelow(words, atoms, n)
      OBVIOUS
    <2>2. ASSUME NEW r \in Rules, NEW a \in Places(words), NEW b \in Places(words), Size(r, a, b) < n + 1
          PROVE  Determined(words, atoms, r, a, b)
      <3>1. \A s \in Rules, c, d \in Places(words) :
              Size(s, c, d) < Size(r, a, b) => Determined(words, atoms, s, c, d)
        <4> SUFFICES ASSUME NEW s \in Rules, NEW c \in Places(words), NEW d \in Places(words),
                            Size(s, c, d) < Size(r, a, b)
                     PROVE  Determined(words, atoms, s, c, d)
          OBVIOUS
        <4>1. Size(r, a, b) \in Nat /\ Size(s, c, d) \in Nat
          BY <1>2
        <4>2. Size(s, c, d) < n
          BY <2>1, <2>2, <4>1
        <4> QED  BY <2>1, <4>2 DEF DeterminedBelow
      <3>2. CASE r = "term"
        <4>1. a + 1 < b => Determined(words, atoms, "or", a + 1, b - 1)
          <5> SUFFICES ASSUME a + 1 < b PROVE Determined(words, atoms, "or", a + 1, b - 1)
            OBVIOUS
          <5>1. a + 1 \in Places(words) /\ b - 1 \in Places(words) /\ "or" \in Rules
            BY <1>1 DEF Places, Rules
          <5>2. Size("or", a + 1, b - 1) < Size(r, a, b)
            BY <1>1, <3>2 DEF Size, Rank
          <5> QED  BY <3>1, <5>1, <5>2
        <4> QED  BY <3>2, <4>1, TermDetermined
      <3>3. CASE r = "unary"
        <4>1. Size("term", a, b) < Size(r, a, b) /\ "term" \in Rules
          BY <1>1, <3>3 DEF Size, Rank, Rules
        <4>2. a < b => a + 1 \in Places(words) /\ Size("term", a + 1, b) < Size(r, a, b)
          BY <1>1, <3>3 DEF Size, Rank, Places
        <4> QED  BY <3>1, <3>3, <4>1, <4>2, UnaryDetermined
      <3>4. CASE r = "and"
        <4>1. ASSUME NEW k \in Places(words), k <= b PROVE Determined(words, atoms, "unary", a, k)
          <5>1. Size("unary", a, k) < Size(r, a, b) /\ "unary" \in Rules
            BY <1>1, <3>4, <4>1 DEF Size, Rank, Rules
          <5> QED  BY <3>1, <5>1
        <4>2. ASSUME NEW k \in Places(words), a < k, k <= b PROVE Determined(words, atoms, "and", k, b)
          <5>1. Size("and", k, b) < Size(r, a, b) /\ "and" \in Rules
            BY <1>1, <3>4, <4>2 DEF Size, Rank, Rules
          <5> QED  BY <3>1, <5>1
        <4> QED  BY <3>4, <4>1, <4>2, AndDetermined
      <3>5. CASE r = "or"
        <4>1. ASSUME NEW k \in Places(words), k <= b PROVE Determined(words, atoms, "and", a, k)
          <5>1. Size("and", a, k) < Size(r, a, b) /\ "and" \in Rules
            BY <1>1, <3>5, <4>1 DEF Size, Rank, Rules
          <5> QED  BY <3>1, <5>1
        <4>2. ASSUME NEW k \in Places(words), a < k, k <= b PROVE Determined(words, atoms, "or", k, b)
          <5>1. Size("or", k, b) < Size(r, a, b) /\ "or" \in Rules
            BY <1>1, <3>5, <4>2 DEF Size, Rank, Rules
          <5> QED  BY <3>1, <5>1
        <4> QED  BY <3>5, <4>1, <4>2, OrDetermined
      <3> QED  BY <3>2, <3>3, <3>4, <3>5 DEF Rules
    <2>3. DeterminedBelow(words, atoms, n + 1)
      BY <2>2 DEF DeterminedBelow
    <2> QED  BY <2>1, <2>3
  <1>5. N = Nat
    <2>1. N \in SUBSET Nat
      OBVIOUS
    <2> HIDE DEF N
    <2> QED  BY <1>3, <1>4, <2>1, SetInduction
  <1>6. Size(rule, i, j) \in Nat
    BY <1>2
  <1>7. DeterminedBelow(words, atoms, Size(rule, i, j) + 1)
    BY <1>5, <1>6
  <1> QED  BY <1>6, <1>7 DEF DeterminedBelow

-----------------------------------------------------------------------------
(***************************************************************************)
(* The classes of words, and what the parser sees of them.                 *)
(***************************************************************************)
\* The classes of words are apart, two by two.
LEMMA ClassesApart ==
    /\ \A w \in keywords : w \notin Punctuation \cup Idents \cup Strings \cup DOMAIN Numbers \cup DOMAIN Durations
    /\ \A w \in Punctuation : w \notin Idents \cup Strings \cup DOMAIN Numbers \cup DOMAIN Durations
    /\ \A w \in Idents : w \notin Strings \cup DOMAIN Numbers \cup DOMAIN Durations
    /\ \A w \in Strings : w \notin DOMAIN Numbers \cup DOMAIN Durations
    /\ \A w \in DOMAIN Numbers : w \notin DOMAIN Durations
    /\ \A w \in Overflows :
         w \notin keywords \cup Punctuation \cup Idents \cup Strings \cup DOMAIN Numbers \cup DOMAIN Durations
  <1> DEFINE classes == <<keywords, Punctuation, Idents, Strings, DOMAIN Numbers, DOMAIN Durations, Overflows>>
  <1>1. \A i, j \in 1 .. 7 : i # j => classes[i] \cap classes[j] = {}
    BY TokensAssumption
  <1>2. /\ classes[1] = keywords /\ classes[2] = Punctuation /\ classes[3] = Idents
        /\ classes[4] = Strings /\ classes[5] = DOMAIN Numbers /\ classes[6] = DOMAIN Durations
        /\ classes[7] = Overflows
    OBVIOUS
  <1> HIDE DEF classes
  <1>3. \A w : \A i, j \in 1 .. 7 : i # j /\ w \in classes[i] => w \notin classes[j]
    BY <1>1
  <1>4. \A w \in keywords : w \notin Punctuation \cup Idents \cup Strings \cup DOMAIN Numbers \cup DOMAIN Durations
    BY <1>2, <1>3
  <1>5. \A w \in Punctuation : w \notin Idents \cup Strings \cup DOMAIN Numbers \cup DOMAIN Durations
    BY <1>2, <1>3
  <1>6. \A w \in Idents : w \notin Strings \cup DOMAIN Numbers \cup DOMAIN Durations
    BY <1>2, <1>3
  <1>7. \A w \in Strings : w \notin DOMAIN Numbers \cup DOMAIN Durations
    BY <1>2, <1>3
  <1>8. \A w \in DOMAIN Numbers : w \notin DOMAIN Durations
    BY <1>2, <1>3
  <1>9. \A w \in Overflows :
          w \notin keywords \cup Punctuation \cup Idents \cup Strings \cup DOMAIN Numbers \cup DOMAIN Durations
    BY <1>2, <1>3
  <1> QED  BY <1>4, <1>5, <1>6, <1>7, <1>8, <1>9

\* The kind of a token is its class.
LEMMA KindOf ==
    ASSUME NEW tok
    PROVE  /\ next(tok) = "ident" <=> tok \in Idents
           /\ next(tok) = "string" <=> tok \in Strings
           /\ next(tok) \in {"int", "number"} <=> tok \in DOMAIN Numbers
           /\ next(tok) = "int" <=> tok \in Ints
           /\ next(tok) = "duration" <=> tok \in DOMAIN Durations
           /\ next(tok) = "(" <=> tok = "("
           /\ next(tok) = ")" <=> tok = ")"
           /\ next(tok) # "EOF"
  <1>1. CASE tok \in keywords
    <2>1. next(tok) = "keyword"
      BY <1>1 DEF next
    <2>2. tok \notin Punctuation \cup Idents \cup Strings \cup DOMAIN Numbers \cup DOMAIN Durations \cup Ints
      BY <1>1, ClassesApart, NetQLAssumption
    <2> QED  BY <2>1, <2>2 DEF Punctuation
  <1>2. CASE tok \in Punctuation
    <2>1. next(tok) = tok
      BY <1>2, ClassesApart DEF next
    <2>2. tok \notin Idents \cup Strings \cup DOMAIN Numbers \cup DOMAIN Durations \cup Ints
      BY <1>2, ClassesApart, NetQLAssumption
    <2> QED  BY <1>2, <2>1, <2>2 DEF Punctuation, Comparisons
  <1>3. CASE tok \notin keywords /\ tok \notin Punctuation
    <2>1. tok # "(" /\ tok # ")"
      BY <1>3 DEF Punctuation
    <2>2. next(tok) = IF tok \in Idents THEN "ident" ELSE IF tok \in Strings THEN "string"
                      ELSE IF tok \in Ints THEN "int" ELSE IF tok \in DOMAIN Numbers THEN "number"
                      ELSE IF tok \in DOMAIN Durations THEN "duration"
                      ELSE IF tok \in Overflows THEN "overflow" ELSE "error"
      BY <1>3 DEF next
    <2>3. /\ tok \in Idents => tok \notin Strings \cup DOMAIN Numbers \cup DOMAIN Durations
          /\ tok \in Strings => tok \notin DOMAIN Numbers \cup DOMAIN Durations
          /\ tok \in DOMAIN Numbers => tok \notin DOMAIN Durations
          /\ tok \in Ints => tok \in DOMAIN Numbers
      BY ClassesApart, NetQLAssumption
    <2> QED  BY <2>1, <2>2, <2>3
  <1> QED  BY <1>1, <1>2, <1>3

\* The words of the grammar, and where they are not.
LEMMA Words ==
    /\ \A w \in keywords \cup Punctuation :
         w \notin Idents \cup Strings \cup DOMAIN Numbers \cup DOMAIN Durations \cup Ints
    /\ keywords \cap Punctuation = {}
  BY ClassesApart, NetQLAssumption

\* What the parser sees at a place.
LEMMA Peek ==
    ASSUME NEW s \in Seq(STRING), NEW p \in Places(s)
    PROVE  /\ p \in Nat /\ Len(s) \in Nat /\ 1 <= p /\ p <= Len(s) + 1
           /\ p <= Len(s) => s[p] \in STRING /\ peek(s, p) = s[p] /\ kind(s, p) = next(s[p])
           /\ p = Len(s) + 1 => peek(s, p) = "EOF" /\ kind(s, p) = "EOF"
  BY DEF Places, peek, kind

\* A list of tokens ends at the first place that is not an item, or has no comma behind it.
LEMMA ItemsEnd ==
    ASSUME NEW s \in Seq(STRING), NEW p \in Places(s), NEW kinds, "EOF" \notin kinds
    PROVE  \E n \in 1 .. Len(s) + 1 :
             /\ kind(s, p + 2*n - 2) \notin kinds \/ peek(s, p + 2*n - 1) # ","
             /\ \A k \in 1 .. n - 1 : kind(s, p + 2*k - 2) \in kinds /\ peek(s, p + 2*k - 1) = ","
             /\ Items(kinds, s, p) =
                  IF kind(s, p + 2*n - 2) \in kinds
                    THEN Parsed(p + 2*n - 1, [k \in 1 .. n |-> s[p + 2*k - 2]])
                    ELSE ParseError(p + 2*n - 2)
  <1> DEFINE ends(k) == kind(s, p + 2*k - 2) \notin kinds \/ peek(s, p + 2*k - 1) # ","
             S == {k \in 1 .. Len(s) + 1 : ends(k)}
  <1>1. Len(s) \in Nat /\ p \in Nat /\ 1 <= p /\ p <= Len(s) + 1
    BY DEF Places
  <1>2. Len(s) + 1 \in S
    <2>1. kind(s, p + 2*(Len(s) + 1) - 2) = "EOF"
      BY <1>1 DEF kind
    <2>2. ends(Len(s) + 1)
      BY <2>1
    <2> HIDE DEF ends
    <2> QED  BY <1>1, <2>2
  <1>3. PICK n \in S : n = Min(S) /\ \A k \in S : n <= k
    <2>1. S \in SUBSET Nat /\ S # {}
      <3> HIDE DEF ends
      <3> QED  BY <1>1, <1>2
    <2> HIDE DEF S
    <2>2. PICK m \in S : \A k \in S : m <= k
      BY <2>1, LeastOf
    <2>3. \A k \in S : m >= m /\ k >= m
      BY <2>1, <2>2
    <2> QED  BY <2>2, <2>1 DEF Min
  <1>4. n \in 1 .. Len(s) + 1 /\ ends(n)
    <2> HIDE DEF ends
    <2> QED  BY <1>3
  <1>5. ASSUME NEW k \in 1 .. n - 1 PROVE ~ends(k)
    <2> HIDE DEF ends
    <2> QED  BY <1>1, <1>3, <1>4
  <1>7. p + 2*n - 2 + 1 = p + 2*n - 1
    <2> HIDE DEF ends
    <2> QED  BY <1>1, <1>4
  <1>6. Items(kinds, s, p) = IF kind(s, p + 2*n - 2) \in kinds
                               THEN Parsed(p + 2*n - 2 + 1, [k \in 1 .. n |-> s[p + 2*k - 2]])
                               ELSE ParseError(p + 2*n - 2)
    BY Zenon, <1>3 DEF Items
  <1>8. Items(kinds, s, p) = IF kind(s, p + 2*n - 2) \in kinds
                               THEN Parsed(p + 2*n - 1, [k \in 1 .. n |-> s[p + 2*k - 2]])
                               ELSE ParseError(p + 2*n - 2)
    BY <1>6, <1>7
  <1> HIDE DEF S
  <1> QED  BY <1>4, <1>5, <1>8

\* An item, and a comma behind it, where the k-th of a list from p would be.
ItemAt(kinds, s, p, k) == kind(s, p + 2*k - 2) \in kinds
CommaAt(s, p, k) == peek(s, p + 2*k - 1) = ","
EndsAfter(kinds, s, p, n, r) ==
    /\ ~ItemAt(kinds, s, p, n) \/ ~CommaAt(s, p, n)
    /\ \A k \in 1 .. n - 1 : ItemAt(kinds, s, p, k) /\ CommaAt(s, p, k)
    /\ r = IF ItemAt(kinds, s, p, n) THEN Parsed(p + 2*n - 1, [k \in 1 .. n |-> s[p + 2*k - 2]])
           ELSE ParseError(p + 2*n - 2)
\* The tokens of these kinds are those of the set.
InPlace(s, p, r) == r.ok \in BOOLEAN /\ r.pos \in Places(s) /\ p <= r.pos
ItemsRead(s, p, n, set, r) ==
    /\ r.pos = p + 2*n - 1 /\ r.ast = [k \in 1 .. n |-> s[p + 2*k - 2]]
    /\ \A k \in 1 .. n : s[p + 2*k - 2] \in set
    /\ \A k \in 1 .. n - 1 : s[p + 2*k - 1] = ","
NoComma(s, p) == peek(s, p) # ","
Tells(kinds, set) == "EOF" \notin kinds /\ \A tok : next(tok) \in kinds <=> tok \in set

\* A token that is not the end of the input is there.
LEMMA KindThere ==
    ASSUME NEW s \in Seq(STRING), NEW p \in Nat, 1 <= p
    PROVE  /\ kind(s, p) # "EOF" => p <= Len(s)
           /\ peek(s, p) # "EOF" => p <= Len(s)
           /\ p <= Len(s) => kind(s, p) = next(s[p]) /\ peek(s, p) = s[p]
  BY DEF kind, peek

\* The loop over a list stops somewhere.
LEMMA ItemsStop ==
    ASSUME NEW s \in Seq(STRING), NEW p \in Places(s), NEW kinds, "EOF" \notin kinds
    PROVE  \E n \in 1 .. Len(s) + 1 : EndsAfter(kinds, s, p, n, Items(kinds, s, p))
  BY ItemsEnd, Zenon DEF EndsAfter, ItemAt, CommaAt

\* What the loop over a list sees at its k-th item and behind it.
LEMMA ItemThere ==
    ASSUME NEW s \in Seq(STRING), NEW p \in Places(s), NEW kinds, NEW set, Tells(kinds, set), NEW k \in Nat, 1 <= k
    PROVE  /\ ItemAt(kinds, s, p, k) <=> p + 2*k - 2 <= Len(s) /\ s[p + 2*k - 2] \in set
           /\ CommaAt(s, p, k) <=> p + 2*k - 1 <= Len(s) /\ s[p + 2*k - 1] = ","
  <1>1. Len(s) \in Nat /\ p \in Nat /\ 1 <= p
    BY DEF Places
  <1>2. PICK a \in Nat : a = p + 2*k - 2 /\ 1 <= a
    BY <1>1
  <1>3. PICK b \in Nat : b = p + 2*k - 1 /\ 1 <= b
    BY <1>1
  <1>4. kind(s, a) \in kinds <=> a <= Len(s) /\ s[a] \in set
    BY <1>1, <1>2, KindThere DEF Tells
  <1>5. peek(s, b) = "," <=> b <= Len(s) /\ s[b] = ","
    BY <1>1, <1>3, KindThere
  <1> QED  BY <1>2, <1>3, <1>4, <1>5, Zenon DEF ItemAt, CommaAt

\* What the loop reads is items with commas between them.
LEMMA ItemsSound ==
    ASSUME NEW s \in Seq(STRING), NEW p \in Places(s), NEW kinds, NEW set, Tells(kinds, set)
    PROVE  /\ InPlace(s, p, Items(kinds, s, p))
           /\ Items(kinds, s, p).ok => \E n \in 1 .. Len(s) : ItemsRead(s, p, n, set, Items(kinds, s, p))
  <1> DEFINE r == Items(kinds, s, p)
  <1>1. Len(s) \in Nat /\ p \in Nat /\ 1 <= p /\ p <= Len(s) + 1 /\ "EOF" \notin kinds
    BY DEF Places, Tells
  <1>2. PICK n \in 1 .. Len(s) + 1 : EndsAfter(kinds, s, p, n, r)
    BY <1>1, ItemsStop
  <1> HIDE DEF r
  <1>3. n \in Nat /\ 1 <= n
    BY <1>1
  <1>4. ASSUME NEW k \in 1 .. n - 1
        PROVE  s[p + 2*k - 2] \in set /\ s[p + 2*k - 1] = "," /\ p + 2*k - 1 <= Len(s)
    <2>1. k \in Nat /\ 1 <= k
      BY <1>3
    <2>2. ItemAt(kinds, s, p, k) /\ CommaAt(s, p, k)
      BY <1>2, Zenon DEF EndsAfter
    <2> QED  BY <2>1, <2>2, ItemThere
  <1>5. CASE ItemAt(kinds, s, p, n)
    <2>1. r = Parsed(p + 2*n - 1, [k \in 1 .. n |-> s[p + 2*k - 2]])
      BY <1>2, <1>5, Zenon DEF EndsAfter
    <2>2. p + 2*n - 2 <= Len(s) /\ s[p + 2*n - 2] \in set
      BY <1>3, <1>5, ItemThere
    <2>3. n \in 1 .. Len(s) /\ p + 2*n - 1 \in Places(s) /\ p <= p + 2*n - 1
      BY <1>1, <1>3, <2>2 DEF Places
    <2>4. \A k \in 1 .. n : k = n \/ k \in 1 .. n - 1
      BY <1>3
    <2>5. \A k \in 1 .. n : s[p + 2*k - 2] \in set
      BY <1>4, <2>2, <2>4
    <2>6. r.ok = TRUE /\ r.pos = p + 2*n - 1 /\ r.ast = [k \in 1 .. n |-> s[p + 2*k - 2]]
      BY <2>1 DEF Parsed
    <2> HIDE DEF r
    <2>7. \A k \in 1 .. n - 1 : s[p + 2*k - 1] = ","
      BY <1>4
    <2>8. ItemsRead(s, p, n, set, r) /\ InPlace(s, p, r)
      BY <2>3, <2>5, <2>6, <2>7 DEF ItemsRead, InPlace
    <2> QED  BY <2>3, <2>8 DEF r
  <1>6. CASE ~ItemAt(kinds, s, p, n)
    <2>1. r = ParseError(p + 2*n - 2)
      BY <1>2, <1>6, Zenon DEF EndsAfter
    <2>2. r.ok = FALSE /\ r.pos = p + 2*n - 2
      BY <2>1 DEF ParseError
    <2>3. p + 2*n - 2 \in Places(s) /\ p <= p + 2*n - 2
      <3>1. CASE n = 1
        BY <1>1, <3>1 DEF Places
      <3>2. CASE n # 1
        <4>1. n - 1 \in 1 .. n - 1
          BY <1>3, <3>2
        <4>2. p + 2*(n - 1) - 1 <= Len(s)
          BY <1>4, <4>1
        <4> QED  BY <1>1, <1>3, <3>2, <4>2 DEF Places
      <3> QED  BY <3>1, <3>2
    <2> QED  BY <2>2, <2>3 DEF r, InPlace
  <1> QED  BY <1>5, <1>6

\* The loop reads all of a list that no comma follows.
LEMMA ItemsComplete ==
    ASSUME NEW s \in Seq(STRING), NEW p \in Places(s), NEW j \in Places(s), NEW kinds, NEW set, Tells(kinds, set),
           AllOf(s, p, j, set), NoComma(s, j)
    PROVE  Items(kinds, s, p).ok /\ Items(kinds, s, p).pos = j
  <1> DEFINE r == Items(kinds, s, p)
  <1>1. Len(s) \in Nat /\ p \in Nat /\ 1 <= p /\ p <= Len(s) + 1 /\ j \in Nat /\ 1 <= j /\ j <= Len(s) + 1 /\ "EOF" \notin kinds
    BY DEF Places, Tells
  <1>2. PICK n \in 1 .. Len(s) + 1 : EndsAfter(kinds, s, p, n, r)
    BY <1>1, ItemsStop
  <1> HIDE DEF r
  <1>3. PICK m \in 1 .. Len(s) : /\ j = p + 2*m - 1
                                 /\ \A k \in 1 .. m : s[p + 2*k - 2] \in set
                                 /\ \A k \in 1 .. m - 1 : s[p + 2*k - 1] = ","
    BY DEF AllOf
  <1>4. n \in Nat /\ 1 <= n /\ m \in Nat /\ 1 <= m
    BY <1>1
  <1>5. ASSUME NEW k \in 1 .. m
        PROVE  ItemAt(kinds, s, p, k) /\ (CommaAt(s, p, k) <=> k < m)
    <2>1. k \in Nat /\ 1 <= k /\ k <= m
      BY <1>4
    <2>2. ItemAt(kinds, s, p, k) <=> p + 2*k - 2 <= Len(s) /\ s[p + 2*k - 2] \in set
      BY <2>1, ItemThere
    <2>3. p + 2*k - 2 <= Len(s) /\ (k < m => k \in 1 .. m - 1 /\ p + 2*k - 1 <= Len(s))
      <3>1. j = p + 2*m - 1
        BY <1>3
      <3> QED  BY <1>1, <1>4, <2>1, <3>1
    <2>4. CommaAt(s, p, k) <=> p + 2*k - 1 <= Len(s) /\ s[p + 2*k - 1] = ","
      BY <2>1, ItemThere
    <2>5. CASE k < m
      BY <1>3, <2>2, <2>3, <2>4, <2>5
    <2>6. CASE k = m
      <3>1. ~CommaAt(s, p, k)
        BY <1>3, <2>6, Zenon DEF CommaAt, NoComma
      <3>2. ~(k < m)
        BY <1>4, <2>6
      <3>3. ItemAt(kinds, s, p, k)
        BY <1>3, <2>2, <2>3
      <3> QED  BY <3>1, <3>2, <3>3
    <2> QED  BY <2>1, <2>5, <2>6, <1>4
  <1>6. ~(n < m)
    <2> SUFFICES ASSUME n < m PROVE FALSE
      OBVIOUS
    <2>1. n \in 1 .. m
      BY <1>4
    <2> QED  BY <1>2, <1>5, <2>1, Zenon DEF EndsAfter
  <1>7. ~(m < n)
    <2> SUFFICES ASSUME m < n PROVE FALSE
      OBVIOUS
    <2>1. m \in 1 .. n - 1 /\ m \in 1 .. m /\ ~(m < m)
      BY <1>4
    <2> QED  BY <1>2, <1>5, <2>1, Zenon DEF EndsAfter
  <1>8. n = m
    BY <1>4, <1>6, <1>7
  <1>9. ItemAt(kinds, s, p, n)
    <2>1. n \in 1 .. m
      BY <1>4, <1>8
    <2> QED  BY <1>5, <2>1
  <1>10. r = Parsed(p + 2*n - 1, [k \in 1 .. n |-> s[p + 2*k - 2]])
    BY <1>2, <1>9, Zenon DEF EndsAfter
  <1>11. r.ok = TRUE /\ r.pos = p + 2*n - 1
    BY <1>10 DEF Parsed
  <1> QED  BY <1>3, <1>8, <1>11 DEF r

-----------------------------------------------------------------------------
(***************************************************************************)
(* The parser, piece by piece: tokens, lists, predicates.                  *)
(***************************************************************************)
\* The kinds of tokens, and the words that have them.
LEMMA Kinds ==
    /\ Tells({"ident"}, Idents) /\ Tells({"string"}, Strings) /\ Tells({"int", "number"}, DOMAIN Numbers)
    /\ Tells({"string", "int", "number"}, Strings \cup DOMAIN Numbers)
    /\ Tells({"("}, {"("}) /\ Tells({")"}, {")"}) /\ Tells({"duration"}, DOMAIN Durations) /\ Tells({"int"}, Ints)
  <1>1. Tells({"ident"}, Idents) /\ Tells({"string"}, Strings)
    BY KindOf DEF Tells
  <1>2. Tells({"int", "number"}, DOMAIN Numbers)
    BY KindOf DEF Tells
  <1>3. Tells({"string", "int", "number"}, Strings \cup DOMAIN Numbers)
    <2>1. \A tok : next(tok) \in {"string", "int", "number"} <=> next(tok) = "string" \/ next(tok) \in {"int", "number"}
      OBVIOUS
    <2>2. \A tok : next(tok) \in {"string", "int", "number"} <=> tok \in Strings \cup DOMAIN Numbers
      BY <2>1, KindOf
    <2> QED  BY <2>2 DEF Tells
  <1>4. Tells({"("}, {"("}) /\ Tells({")"}, {")"})
    BY KindOf DEF Tells
  <1>5. Tells({"duration"}, DOMAIN Durations) /\ Tells({"int"}, Ints)
    BY KindOf DEF Tells
  <1> QED  BY <1>1, <1>2, <1>3, <1>4, <1>5

\* The fields of the outcomes of a parse.
LEMMA Results ==
    ASSUME NEW p, NEW ast
    PROVE  /\ Parsed(p, ast).ok = TRUE /\ Parsed(p, ast).pos = p /\ Parsed(p, ast).ast = ast
           /\ ParseError(p).ok = FALSE /\ ParseError(p).pos = p
  BY DEF Parsed, ParseError

\* expect takes a token of the kinds and refuses all others.
LEMMA Expect ==
    ASSUME NEW s \in Seq(STRING), NEW p \in Nat, 1 <= p, NEW kinds, NEW set, Tells(kinds, set)
    PROVE  expect(s, p, kinds) = IF p <= Len(s) /\ s[p] \in set THEN Parsed(p + 1, s[p]) ELSE ParseError(p)
  <1>1. kind(s, p) \in kinds <=> p <= Len(s) /\ s[p] \in set
    BY KindThere DEF Tells
  <1>2. p <= Len(s) => peek(s, p) = s[p]
    BY KindThere
  <1> QED  BY <1>1, <1>2 DEF expect

\* parseOp takes an operator and refuses all others.
LEMMA OpAt ==
    ASSUME NEW s \in Seq(STRING), NEW p \in Nat, 1 <= p
    PROVE  parseOp(s, p) = IF p <= Len(s) /\ s[p] \in operatorSuggestions THEN Parsed(p + 1, s[p]) ELSE ParseError(p)
  <1>1. "EOF" \notin operatorSuggestions
    BY DEF operatorSuggestions, Comparisons
  <1>2. parseOp(s, p) = IF peek(s, p) \in operatorSuggestions THEN Parsed(p + 1, s[p]) ELSE ParseError(p)
    BY DEF parseOp, operatorSuggestions
  <1>3. peek(s, p) \in operatorSuggestions <=> p <= Len(s) /\ s[p] \in operatorSuggestions
    BY <1>1, KindThere
  <1> QED  BY <1>2, <1>3

\* What a list from p of n items says.
ListOf(s, p, n, set) ==
    /\ n \in 1 .. Len(s) /\ p + 2*n \in Places(s)
    /\ \A k \in 1 .. n : s[p + 2*k - 2] \in set
    /\ \A k \in 1 .. n - 1 : s[p + 2*k - 1] = ","
    /\ s[p + 2*n - 1] = ")"
ListItems(s, p, n) == [k \in 1 .. n |-> Literal(s[p + 2*k - 2])]

\* parseList reads a list and its closing bracket, and reads every one there is.
LEMMA ListAt ==
    ASSUME NEW s \in Seq(STRING), NEW p \in Places(s), NEW kinds, NEW set, Tells(kinds, set), NEW vk
    PROVE  LET r == parseList(kinds, vk, s, p) IN
           /\ InPlace(s, p, r)
           /\ r.ok => \E n \in 1 .. Len(s) : /\ ListOf(s, p, n, set) /\ r.pos = p + 2*n
                                             /\ r.ast = [kind |-> vk, items |-> ListItems(s, p, n)]
           /\ \A j \in Places(s) : AllOf(s, p, j, set) /\ j <= Len(s) /\ s[j] = ")" => r.ok /\ r.pos = j + 1
  <1> DEFINE l == Items(kinds, s, p)
             r == parseList(kinds, vk, s, p)
             c == expect(s, l.pos, {")"})
  <1>1. InPlace(s, p, l) /\ (l.ok => \E n \in 1 .. Len(s) : ItemsRead(s, p, n, set, l))
    BY ItemsSound
  <1>2. r = IF ~l.ok THEN l ELSE IF ~c.ok THEN c ELSE Parsed(c.pos, Value(vk, l.ast))
    BY DEF parseList, Then
  <1>3. l.pos \in Nat /\ 1 <= l.pos /\ p \in Nat /\ 1 <= p /\ Len(s) \in Nat /\ l.pos <= Len(s) + 1
    BY <1>1 DEF Places, InPlace
  <1>4. c = IF l.pos <= Len(s) /\ s[l.pos] = ")" THEN Parsed(l.pos + 1, s[l.pos]) ELSE ParseError(l.pos)
    <2>1. c = IF l.pos <= Len(s) /\ s[l.pos] \in {")"} THEN Parsed(l.pos + 1, s[l.pos]) ELSE ParseError(l.pos)
      <3> HIDE DEF l
      <3> QED  BY <1>3, Expect, Kinds
    <2> QED  BY <2>1
  <1> HIDE DEF l, r, c
  <1>5. CASE ~l.ok
    <2>1. r = l
      BY <1>2, <1>5
    <2>2. ASSUME NEW j \in Places(s), AllOf(s, p, j, set), j <= Len(s), s[j] = ")" PROVE FALSE
      <3>1. NoComma(s, j)
        <4>1. peek(s, j) = ")"
          BY <2>2, KindThere DEF Places
        <4> QED  BY <4>1 DEF NoComma
      <3> QED  BY <2>2, <3>1, ItemsComplete, <1>5 DEF l
    <2> QED  BY <2>1, <2>2, <1>1, <1>5 DEF r, InPlace
  <1>6. CASE l.ok /\ ~(l.pos <= Len(s) /\ s[l.pos] = ")")
    <2>1. r = ParseError(l.pos)
      BY <1>2, <1>4, <1>6, Results
    <2>2. r.ok = FALSE /\ r.pos = l.pos
      BY <2>1, Results
    <2>3. ASSUME NEW j \in Places(s), AllOf(s, p, j, set), j <= Len(s), s[j] = ")" PROVE FALSE
      <3>1. NoComma(s, j)
        <4>1. peek(s, j) = ")"
          BY <2>3, KindThere DEF Places
        <4> QED  BY <4>1 DEF NoComma
      <3> QED  BY <2>3, <3>1, ItemsComplete, <1>6 DEF l
    <2> QED  BY <2>2, <2>3, <1>1 DEF r, InPlace
  <1>7. CASE l.ok /\ l.pos <= Len(s) /\ s[l.pos] = ")"
    <2>1. r = Parsed(l.pos + 1, Value(vk, l.ast))
      BY <1>2, <1>4, <1>7, Results
    <2>2. r.ok = TRUE /\ r.pos = l.pos + 1 /\ r.ast = Value(vk, l.ast)
      BY <2>1 DEF Parsed
    <2>3. PICK n \in 1 .. Len(s) : ItemsRead(s, p, n, set, l)
      BY <1>1, <1>7
    <2>4. r.pos = p + 2*n /\ p + 2*n \in Places(s) /\ p <= r.pos
      <3>1. l.pos = p + 2*n - 1
        BY <2>3 DEF ItemsRead
      <3> QED  BY <1>3, <1>7, <2>2, <3>1 DEF Places
    <2>5. ListOf(s, p, n, set)
      <3>1. s[p + 2*n - 1] = ")"
        BY <1>7, <2>3 DEF ItemsRead
      <3> QED  BY <2>3, <2>4, <3>1, Zenon DEF ListOf, ItemsRead
    <2>6. r.ast = [kind |-> vk, items |-> ListItems(s, p, n)]
      <3>1. l.ast = [k \in 1 .. n |-> s[p + 2*k - 2]]
        BY <2>3 DEF ItemsRead
      <3>2. [i \in DOMAIN l.ast |-> Literal(l.ast[i])] = ListItems(s, p, n)
        BY <3>1 DEF ListItems
      <3> QED  BY <2>2, <3>2 DEF Value
    <2>7. ASSUME NEW j \in Places(s), AllOf(s, p, j, set), j <= Len(s), s[j] = ")" PROVE l.pos = j
      <3>1. NoComma(s, j)
        <4>1. peek(s, j) = ")"
          BY <2>7, KindThere DEF Places
        <4> QED  BY <4>1 DEF NoComma
      <3> QED  BY <2>7, <3>1, ItemsComplete DEF l
    <2> QED  BY <2>2, <2>4, <2>5, <2>6, <2>7 DEF r, InPlace
  <1> QED  BY <1>1, <1>5, <1>6, <1>7

\* A list in brackets.
LEMMA ValueListAt ==
    ASSUME NEW s \in Seq(STRING), NEW p \in Places(s)
    PROVE  LET r == parseValueList(s, p) IN
           /\ InPlace(s, p, r)
           /\ r.ok => p <= Len(s) /\ s[p] = "(" /\ \E n \in 1 .. Len(s) :
                        /\ r.pos = p + 1 + 2*n
                        /\ \/ ListOf(s, p + 1, n, Strings) /\ r.ast = [kind |-> "strings", items |-> ListItems(s, p + 1, n)]
                           \/ ListOf(s, p + 1, n, DOMAIN Numbers) /\ r.ast = [kind |-> "numbers", items |-> ListItems(s, p + 1, n)]
           /\ \A j \in Places(s) :
                /\ p <= Len(s) /\ s[p] = "(" /\ p + 1 < j /\ s[j - 1] = ")"
                /\ AllOf(s, p + 1, j - 1, Strings) \/ AllOf(s, p + 1, j - 1, DOMAIN Numbers)
                => r.ok /\ r.pos = j
  <1> DEFINE r == parseValueList(s, p)
             o == expect(s, p, {"("})
  <1>1. p \in Nat /\ 1 <= p /\ Len(s) \in Nat /\ p <= Len(s) + 1
    BY DEF Places
  <1>2. o = IF p <= Len(s) /\ s[p] = "(" THEN Parsed(p + 1, s[p]) ELSE ParseError(p)
    <2>1. o = IF p <= Len(s) /\ s[p] \in {"("} THEN Parsed(p + 1, s[p]) ELSE ParseError(p)
      BY <1>1, Expect, Kinds
    <2> QED  BY <2>1
  <1>3. r = IF ~o.ok THEN o
            ELSE IF kind(s, o.pos) = "string" THEN parseList({"string"}, "strings", s, o.pos)
            ELSE parseList({"int", "number"}, "numbers", s, o.pos)
    BY DEF parseValueList, Then
  <1> HIDE DEF r, o
  <1>4. CASE ~(p <= Len(s) /\ s[p] = "(")
    <2>1. r.ok = FALSE /\ r.pos = p
      BY <1>2, <1>3, <1>4 DEF ParseError
    <2>3. p <= r.pos
      BY <1>1, <2>1
    <2>2. InPlace(s, p, r) /\ ~r.ok
      BY <2>1, <2>3, Zenon DEF InPlace
    <2> QED  BY <1>4, <2>2, Zenon DEF r
  <1>5. CASE p <= Len(s) /\ s[p] = "("
    <2>1. p + 1 \in Places(s) /\ o.ok = TRUE /\ o.pos = p + 1
      BY <1>1, <1>2, <1>5 DEF Parsed, Places
    <2> DEFINE a == parseList({"string"}, "strings", s, p + 1)
               b == parseList({"int", "number"}, "numbers", s, p + 1)
    <2>2. r = IF kind(s, p + 1) = "string" THEN a ELSE b
      BY <1>3, <2>1
    <2>3. /\ InPlace(s, p + 1, a)
          /\ a.ok => \E n \in 1 .. Len(s) : /\ ListOf(s, p + 1, n, Strings) /\ a.pos = p + 1 + 2*n
                                            /\ a.ast = [kind |-> "strings", items |-> ListItems(s, p + 1, n)]
          /\ \A j \in Places(s) : AllOf(s, p + 1, j, Strings) /\ j <= Len(s) /\ s[j] = ")" => a.ok /\ a.pos = j + 1
      BY <2>1, Kinds, ListAt
    <2>4. /\ InPlace(s, p + 1, b)
          /\ b.ok => \E n \in 1 .. Len(s) : /\ ListOf(s, p + 1, n, DOMAIN Numbers) /\ b.pos = p + 1 + 2*n
                                            /\ b.ast = [kind |-> "numbers", items |-> ListItems(s, p + 1, n)]
          /\ \A j \in Places(s) : AllOf(s, p + 1, j, DOMAIN Numbers) /\ j <= Len(s) /\ s[j] = ")" => b.ok /\ b.pos = j + 1
      BY <2>1, Kinds, ListAt
    <2> HIDE DEF a, b
    <2>5. InPlace(s, p, r)
      BY <1>1, <2>2, <2>3, <2>4 DEF InPlace, Places
    <2>6. r.ok => \E n \in 1 .. Len(s) :
                        /\ r.pos = p + 1 + 2*n
                        /\ \/ ListOf(s, p + 1, n, Strings) /\ r.ast = [kind |-> "strings", items |-> ListItems(s, p + 1, n)]
                           \/ ListOf(s, p + 1, n, DOMAIN Numbers) /\ r.ast = [kind |-> "numbers", items |-> ListItems(s, p + 1, n)]
      BY <2>2, <2>3, <2>4
    <2>7. ASSUME NEW j \in Places(s), p + 1 < j, s[j - 1] = ")",
                 AllOf(s, p + 1, j - 1, Strings) \/ AllOf(s, p + 1, j - 1, DOMAIN Numbers)
          PROVE  r.ok /\ r.pos = j
      <3>1. j - 1 \in Places(s) /\ j - 1 <= Len(s) /\ j - 1 + 1 = j
        BY <1>1, <2>7 DEF Places
      <3>2. \A set : AllOf(s, p + 1, j - 1, set) => p + 1 <= Len(s) /\ s[p + 1] \in set
        <4> SUFFICES ASSUME NEW set, AllOf(s, p + 1, j - 1, set) PROVE p + 1 <= Len(s) /\ s[p + 1] \in set
          OBVIOUS
        <4>1. PICK n \in 1 .. Len(s) : j - 1 = p + 1 + 2*n - 1 /\ \A k \in 1 .. n : s[p + 1 + 2*k - 2] \in set
          BY DEF AllOf
        <4>2. 1 \in 1 .. n /\ p + 1 + 2*1 - 2 = p + 1 /\ p + 1 <= Len(s)
          <5>1. j - 1 = p + 1 + 2*n - 1
            BY <4>1
          <5> QED  BY <1>1, <3>1, <5>1 DEF Places
        <4>3. s[p + 1 + 2*1 - 2] \in set
          BY <4>1, <4>2
        <4> QED  BY <4>2, <4>3
      <3>3. p + 1 <= Len(s)
        BY <2>7, <3>2
      <3>4. kind(s, p + 1) = next(s[p + 1])
        BY <1>1, <3>3, KindThere
      <3>5. CASE AllOf(s, p + 1, j - 1, Strings)
        <4>1. kind(s, p + 1) = "string"
          BY <3>2, <3>4, <3>5, KindOf
        <4>2. a.ok /\ a.pos = j
          BY <2>3, <2>7, <3>1, <3>5
        <4> QED  BY <2>2, <4>1, <4>2
      <3>6. CASE AllOf(s, p + 1, j - 1, DOMAIN Numbers)
        <4>1. kind(s, p + 1) # "string"
          <5>1. s[p + 1] \notin Strings
            BY <3>2, <3>6, ClassesApart
          <5> QED  BY <3>4, <5>1, KindOf
        <4>2. b.ok /\ b.pos = j
          BY <2>4, <2>7, <3>1, <3>6
        <4> QED  BY <2>2, <4>1, <4>2
      <3> QED  BY <2>7, <3>5, <3>6
    <2> QED  BY <1>5, <2>5, <2>6, <2>7 DEF r
  <1> QED  BY <1>4, <1>5

\* A predicate, and the value it holds.
ReadsPredicate(s, p, j, r) ==
    /\ DerivesPredicate(s, p, j)
    /\ r.pos = j
    /\ r.ast = <<Predicate(s[p], s[p + 1],
                   [kind |-> IF s[p + 1] = "in" THEN IF s[p + 3] \in Strings THEN "strings" ELSE "numbers"
                             ELSE IF s[p + 2] \in Strings THEN "string" ELSE "number",
                    items |-> Literals(s, p, j)])>>

\* A field, in, and a list in brackets are a predicate of the grammar.
LEMMA ListDerived ==
    ASSUME NEW s \in Seq(STRING), NEW p \in Places(s), NEW n \in 1 .. Len(s),
           NEW set, ListOf(s, p + 3, n, set), s[p] \in Idents, s[p + 1] = "in", s[p + 2] = "(",
           set = Strings \/ set = DOMAIN Numbers, NEW j, j = p + 3 + 2*n
    PROVE  /\ DerivesPredicate(s, p, j)
           /\ Literals(s, p, j) = ListItems(s, p + 3, n)
           /\ s[p + 3] \in set
  <1>1. p \in Nat /\ 1 <= p /\ Len(s) \in Nat /\ n \in Nat /\ 1 <= n
    BY DEF Places
  <1>2. /\ p + 3 <= j /\ p + 5 <= j /\ j - 1 = p + 3 + 2*n - 1
        /\ 1 \in 1 .. n /\ p + 3 + 2*1 - 2 = p + 3
    BY <1>1
  <1>3. AllOf(s, p + 3, j - 1, set)
    BY <1>2, Zenon DEF ListOf, AllOf
  <1>4. s[j - 1] = ")" /\ s[p + 3 + 2*1 - 2] \in set
    BY <1>2, Zenon DEF ListOf
  <1>5. DerivesPredicate(s, p, j)
    <2>1. AllOf(s, p + 3, j - 1, Strings) \/ AllOf(s, p + 3, j - 1, DOMAIN Numbers)
      BY <1>3, Zenon
    <2> QED  BY <1>2, <1>4, <2>1, Zenon DEF DerivesPredicate
  <1>6. (j - p - 3) \div 2 = n
    <2>1. j - p - 3 = 2*n
      BY <1>1
    <2> QED  BY <1>1, <2>1
  <1>7. ASSUME NEW k \in 1 .. n PROVE p + 2*k + 1 = p + 3 + 2*k - 2
    BY <1>1
  <1>8. Literals(s, p, j) = ListItems(s, p + 3, n)
    <2>1. Literals(s, p, j) = [k \in 1 .. (j - p - 3) \div 2 |-> Literal(s[p + 2*k + 1])]
      BY DEF Literals
    <2>2. Literals(s, p, j) = [k \in 1 .. n |-> Literal(s[p + 2*k + 1])]
      BY <1>6, <2>1, Zenon
    <2>3. [k \in 1 .. n |-> Literal(s[p + 2*k + 1])] = [k \in 1 .. n |-> Literal(s[p + 3 + 2*k - 2])]
      BY <1>7, Zenon
    <2> QED  BY <2>2, <2>3, Zenon DEF ListItems
  <1> QED  BY <1>2, <1>4, <1>5, <1>8

\* What parseValue reads behind an operator.
LEMMA ScalarAt ==
    ASSUME NEW s \in Seq(STRING), NEW p \in Places(s), NEW op, op # "in"
    PROVE  LET r == parseValue(op, s, p) IN
           IF p <= Len(s) /\ s[p] \in Strings \cup DOMAIN Numbers
             THEN r = Parsed(p + 1, [kind |-> IF s[p] \in Strings THEN "string" ELSE "number", items |-> <<Literal(s[p])>>])
             ELSE r = ParseError(p)
  <1> DEFINE r == parseValue(op, s, p)
             v == expect(s, p, {"string", "int", "number"})
  <1>1. p \in Nat /\ 1 <= p
    BY DEF Places
  <1>2. v = IF p <= Len(s) /\ s[p] \in Strings \cup DOMAIN Numbers THEN Parsed(p + 1, s[p]) ELSE ParseError(p)
    BY <1>1, Expect, Kinds
  <1>3. r = IF ~v.ok THEN v ELSE Parsed(v.pos, Value(IF v.ast \in Strings THEN "string" ELSE "number", <<v.ast>>))
    BY DEF parseValue, Then
  <1> HIDE DEF r, v
  <1>4. CASE p <= Len(s) /\ s[p] \in Strings \cup DOMAIN Numbers
    <2>1. v.ok = TRUE /\ v.pos = p + 1 /\ v.ast = s[p]
      BY <1>2, <1>4 DEF Parsed
    <2>2. r = Parsed(p + 1, Value(IF s[p] \in Strings THEN "string" ELSE "number", <<s[p]>>))
      BY <1>3, <2>1
    <2>3. [i \in DOMAIN <<s[p]>> |-> Literal(<<s[p]>>[i])] = <<Literal(s[p])>>
      OBVIOUS
    <2>4. r = Parsed(p + 1, [kind |-> IF s[p] \in Strings THEN "string" ELSE "number", items |-> <<Literal(s[p])>>])
      BY <2>2, <2>3, Zenon DEF Value
    <2> QED  BY <1>4, <2>4, Zenon DEF r
  <1>5. CASE ~(p <= Len(s) /\ s[p] \in Strings \cup DOMAIN Numbers)
    <2>1. v = ParseError(p) /\ v.ok = FALSE
      BY <1>2, <1>5, Results
    <2> QED  BY <1>3, <1>5, <2>1, Zenon DEF r
  <1> QED  BY <1>4, <1>5

\* Operators and brackets are keywords or punctuation.
LEMMA OpsApart ==
    /\ operatorSuggestions \subseteq keywords \cup Punctuation
    /\ "(" \notin operatorSuggestions /\ "(" \in Punctuation /\ ")" \in Punctuation /\ "," \in Punctuation
    /\ {"in", "contains", "matches", "and", "or", "not"} \subseteq keywords
  BY DEF operatorSuggestions, Punctuation, keywords, Comparisons

\* What parsePredicate reads, and that it reads every predicate.
PredicateParsed(s, p, r) ==
    /\ InPlace(s, p, r)
    /\ r.ok => p < r.pos /\ ReadsPredicate(s, p, r.pos, r)
    /\ \A j \in Places(s) : DerivesPredicate(s, p, j) => r.ok /\ r.pos = j

\* parsePredicate reads a predicate of the grammar, and reads every one there is.
LEMMA PredicateAt ==
    ASSUME NEW s \in Seq(STRING), NEW p \in Places(s)
    PROVE  PredicateParsed(s, p, parsePredicate(s, p))
  <1> DEFINE r == parsePredicate(s, p)
             id == Ident(s, p)
             op == parseOp(s, id.pos)
             val == parseValue(op.ast, s, op.pos)
  <1>1. p \in Nat /\ 1 <= p /\ Len(s) \in Nat /\ p <= Len(s) + 1
    BY DEF Places
  <1>2. r = IF ~id.ok THEN id ELSE IF ~op.ok THEN op ELSE IF ~val.ok THEN val
            ELSE Parsed(val.pos, <<Predicate(id.ast, op.ast, val.ast)>>)
    BY DEF parsePredicate, Then
  <1>3. id = IF p <= Len(s) /\ s[p] \in Idents THEN Parsed(p + 1, s[p]) ELSE ParseError(p)
    BY <1>1, Expect, Kinds DEF Ident
  <1>4. \A q \in Nat : 1 <= q =>
          parseOp(s, q) = IF q <= Len(s) /\ s[q] \in operatorSuggestions THEN Parsed(q + 1, s[q]) ELSE ParseError(q)
    BY OpAt
  <1> HIDE DEF r, id
  <1>5. CASE ~(p <= Len(s) /\ s[p] \in Idents)
    <2>1. id = ParseError(p) /\ ~id.ok
      BY <1>3, <1>5, Results
    <2>2. r = ParseError(p)
      BY <1>2, <2>1
    <2>3. r.ok = FALSE /\ r.pos = p
      BY <2>2, Results
    <2>4. \A j \in Places(s) : ~DerivesPredicate(s, p, j)
      BY <1>1, <1>5 DEF DerivesPredicate, Places
    <2>5. p <= p
      BY <1>1
    <2> QED  BY <2>3, <2>4, <2>5, Zenon DEF r, InPlace, PredicateParsed
  <1>6. CASE p <= Len(s) /\ s[p] \in Idents
    <2>1. id = Parsed(p + 1, s[p])
      BY <1>3, <1>6
    <2>2. id.ok = TRUE /\ id.pos = p + 1 /\ id.ast = s[p]
      BY <2>1 DEF Parsed
    <2>3. p + 1 \in Nat /\ 1 <= p + 1 /\ p + 1 \in Places(s) /\ p <= p + 1
      BY <1>1, <1>6 DEF Places
    <2>4. op = IF p + 1 <= Len(s) /\ s[p + 1] \in operatorSuggestions THEN Parsed(p + 1 + 1, s[p + 1]) ELSE ParseError(p + 1)
      BY <1>4, <2>2, <2>3
    <2>5. r = IF ~op.ok THEN op ELSE IF ~val.ok THEN val ELSE Parsed(val.pos, <<Predicate(s[p], op.ast, val.ast)>>)
      BY <1>2, <2>2
    <2> HIDE DEF op
    <2>6. CASE ~(p + 1 <= Len(s) /\ s[p + 1] \in operatorSuggestions)
      <3>1. op = ParseError(p + 1)
        BY <2>4, <2>6
      <3>2. op.ok = FALSE
        BY <3>1, Results
      <3>3. r = ParseError(p + 1)
        BY <2>5, <3>1, <3>2
      <3>4. r.ok = FALSE /\ r.pos = p + 1
        BY <3>3, Results
      <3>5. \A j \in Places(s) : ~DerivesPredicate(s, p, j)
        <4>1. \A j \in Places(s) : p + 3 <= j => p + 1 <= Len(s)
          BY <1>1 DEF Places
        <4>2. "in" \in operatorSuggestions
          BY DEF operatorSuggestions
        <4> QED  BY <2>6, <4>1, <4>2 DEF DerivesPredicate
      <3> QED  BY <2>3, <3>4, <3>5, Zenon DEF r, InPlace, PredicateParsed
    <2>7. CASE p + 1 <= Len(s) /\ s[p + 1] \in operatorSuggestions
      <3>1. op = Parsed(p + 2, s[p + 1])
        BY <1>1, <2>4, <2>7
      <3>2. op.ok = TRUE /\ op.pos = p + 2 /\ op.ast = s[p + 1]
        BY <3>1 DEF Parsed
      <3> DEFINE v == parseValue(s[p + 1], s, p + 2)
      <3>3. r = IF ~v.ok THEN v ELSE Parsed(v.pos, <<Predicate(s[p], s[p + 1], v.ast)>>)
        BY <2>5, <3>2
      <3>4. p + 2 \in Places(s) /\ p <= p + 2 /\ p + 2 \in Nat
        BY <1>1, <2>7 DEF Places
      <3>5. CASE s[p + 1] # "in"
        <4>1. IF p + 2 <= Len(s) /\ s[p + 2] \in Strings \cup DOMAIN Numbers
                THEN v = Parsed(p + 2 + 1, [kind |-> IF s[p + 2] \in Strings THEN "string" ELSE "number",
                                        items |-> <<Literal(s[p + 2])>>])
                ELSE v = ParseError(p + 2)
          BY <3>4, <3>5, ScalarAt
        <4> HIDE DEF v
        <4>2. CASE ~(p + 2 <= Len(s) /\ s[p + 2] \in Strings \cup DOMAIN Numbers)
          <5>1. v = ParseError(p + 2)
            BY <4>1, <4>2
          <5>2. v.ok = FALSE /\ v.pos = p + 2
            BY <5>1, Results
          <5>3. r.ok = FALSE /\ r.pos = p + 2
            BY <3>3, <5>2
          <5>4. \A j \in Places(s) : ~DerivesPredicate(s, p, j)
            <6>1. \A j \in Places(s) : p + 3 <= j => p + 2 <= Len(s)
              BY <1>1 DEF Places
            <6> QED  BY <3>5, <4>2, <6>1 DEF DerivesPredicate
          <5> QED  BY <3>4, <5>3, <5>4, Zenon DEF r, InPlace, PredicateParsed
        <4>3. CASE p + 2 <= Len(s) /\ s[p + 2] \in Strings \cup DOMAIN Numbers
          <5> DEFINE w == [kind |-> IF s[p + 2] \in Strings THEN "string" ELSE "number", items |-> <<Literal(s[p + 2])>>]
          <5>1. v = Parsed(p + 2 + 1, w) /\ p + 2 + 1 = p + 3
            BY <1>1, <4>1, <4>3
          <5> HIDE DEF w
          <5>2. v.ok = TRUE /\ v.pos = p + 3 /\ v.ast = w
            BY <5>1 DEF Parsed
          <5>3. r = Parsed(p + 3, <<Predicate(s[p], s[p + 1], w)>>)
            BY <3>3, <5>2
          <5>4. r.ok = TRUE /\ r.pos = p + 3 /\ r.ast = <<Predicate(s[p], s[p + 1], w)>>
            BY <5>3 DEF Parsed
          <5>5. p + 3 \in Places(s) /\ p < p + 3 /\ p <= p + 3 /\ p + 3 <= p + 3
            BY <1>1, <4>3 DEF Places
          <5>6. DerivesPredicate(s, p, p + 3)
            BY <1>6, <2>7, <3>5, <4>3, <5>5, Zenon DEF DerivesPredicate
          <5>7. ReadsPredicate(s, p, p + 3, r)
            <6>1. Literals(s, p, p + 3) = <<Literal(s[p + 2])>>
              BY <3>5 DEF Literals
            <6>2. w = [kind |-> IF s[p + 1] = "in" THEN IF s[p + 3] \in Strings THEN "strings" ELSE "numbers"
                                ELSE IF s[p + 2] \in Strings THEN "string" ELSE "number",
                       items |-> Literals(s, p, p + 3)]
              BY <3>5, <6>1 DEF w
            <6> QED  BY <5>4, <5>6, <6>2, Zenon DEF ReadsPredicate
          <5>8. \A j \in Places(s) : DerivesPredicate(s, p, j) => j = p + 3
            BY <3>5 DEF DerivesPredicate
          <5> QED  BY <5>4, <5>5, <5>7, <5>8, Zenon DEF r, InPlace, PredicateParsed
        <4> QED  BY <4>2, <4>3
      <3>6. CASE s[p + 1] = "in"
        <4>0. v = parseValueList(s, p + 2)
          BY <3>6 DEF parseValue
        <4>1. /\ InPlace(s, p + 2, v)
              /\ v.ok => p + 2 <= Len(s) /\ s[p + 2] = "(" /\ \E n \in 1 .. Len(s) :
                   /\ v.pos = p + 2 + 1 + 2*n
                   /\ \/ ListOf(s, p + 2 + 1, n, Strings) /\ v.ast = [kind |-> "strings", items |-> ListItems(s, p + 2 + 1, n)]
                      \/ ListOf(s, p + 2 + 1, n, DOMAIN Numbers) /\ v.ast = [kind |-> "numbers", items |-> ListItems(s, p + 2 + 1, n)]
              /\ \A j \in Places(s) :
                   /\ p + 2 <= Len(s) /\ s[p + 2] = "(" /\ p + 2 + 1 < j /\ s[j - 1] = ")"
                   /\ AllOf(s, p + 2 + 1, j - 1, Strings) \/ AllOf(s, p + 2 + 1, j - 1, DOMAIN Numbers)
                   => v.ok /\ v.pos = j
          BY <3>4, <4>0, ValueListAt
        <4> HIDE DEF v
        <4>2. p + 2 + 1 = p + 3
          BY <1>1
        <4>3. ASSUME NEW j \in Places(s), DerivesPredicate(s, p, j) PROVE v.ok /\ v.pos = j
          <5>1. /\ p + 5 <= j /\ s[p + 2] = "(" /\ s[j - 1] = ")"
                /\ AllOf(s, p + 3, j - 1, Strings) \/ AllOf(s, p + 3, j - 1, DOMAIN Numbers)
            BY <3>6, <4>3, Zenon DEF DerivesPredicate
          <5>2. p + 2 <= Len(s) /\ p + 3 < j
            BY <1>1, <5>1 DEF Places
          <5> QED  BY <4>1, <4>2, <5>1, <5>2
        <4>4. CASE ~v.ok
          <5>1. r = v
            BY <3>3, <4>4
          <5>2. \A j \in Places(s) : ~DerivesPredicate(s, p, j)
            BY <4>3, <4>4
          <5>3. p <= v.pos
            BY <1>1, <4>1 DEF InPlace, Places
          <5> QED  BY <4>1, <4>4, <5>1, <5>2, <5>3, Zenon DEF r, InPlace, PredicateParsed
        <4>5. CASE v.ok
          <5>1. PICK n \in 1 .. Len(s) :
                   /\ v.pos = p + 3 + 2*n
                   /\ \/ ListOf(s, p + 3, n, Strings) /\ v.ast = [kind |-> "strings", items |-> ListItems(s, p + 3, n)]
                      \/ ListOf(s, p + 3, n, DOMAIN Numbers) /\ v.ast = [kind |-> "numbers", items |-> ListItems(s, p + 3, n)]
            BY <4>1, <4>2, <4>5, Zenon
          <5>2. PICK j \in Places(s) : j = v.pos /\ j = p + 3 + 2*n
            BY <4>1, <5>1 DEF InPlace
          <5>3. p < j
            BY <1>1, <5>2 DEF Places
          <5>4. s[p + 2] = "("
            BY <4>1, <4>5, Zenon
          <5>5. r = Parsed(j, <<Predicate(s[p], s[p + 1], v.ast)>>)
            BY <3>3, <4>5, <5>2
          <5>6. r.ok = TRUE /\ r.pos = j /\ r.ast = <<Predicate(s[p], s[p + 1], v.ast)>>
            BY <5>5 DEF Parsed
          <5>7. ReadsPredicate(s, p, j, r)
            <6>1. CASE ListOf(s, p + 3, n, Strings) /\ v.ast = [kind |-> "strings", items |-> ListItems(s, p + 3, n)]
              <7>1. DerivesPredicate(s, p, j) /\ Literals(s, p, j) = ListItems(s, p + 3, n) /\ s[p + 3] \in Strings
                BY <1>6, <3>6, <5>2, <5>4, <6>1, ListDerived
              <7>2. v.ast = [kind |-> IF s[p + 1] = "in" THEN IF s[p + 3] \in Strings THEN "strings" ELSE "numbers"
                                      ELSE IF s[p + 2] \in Strings THEN "string" ELSE "number",
                             items |-> Literals(s, p, j)]
                BY <3>6, <6>1, <7>1
              <7> QED  BY <5>6, <7>1, <7>2, Zenon DEF ReadsPredicate
            <6>2. CASE ListOf(s, p + 3, n, DOMAIN Numbers) /\ v.ast = [kind |-> "numbers", items |-> ListItems(s, p + 3, n)]
              <7>1. DerivesPredicate(s, p, j) /\ Literals(s, p, j) = ListItems(s, p + 3, n) /\ s[p + 3] \in DOMAIN Numbers
                BY <1>6, <3>6, <5>2, <5>4, <6>2, ListDerived
              <7>2. s[p + 3] \notin Strings
                BY <7>1, ClassesApart
              <7>3. v.ast = [kind |-> IF s[p + 1] = "in" THEN IF s[p + 3] \in Strings THEN "strings" ELSE "numbers"
                                      ELSE IF s[p + 2] \in Strings THEN "string" ELSE "number",
                             items |-> Literals(s, p, j)]
                BY <3>6, <6>2, <7>1, <7>2
              <7> QED  BY <5>6, <7>1, <7>3, Zenon DEF ReadsPredicate
            <6> QED  BY <5>1, <6>1, <6>2
          <5>8. \A i \in Places(s) : DerivesPredicate(s, p, i) => i = j
            BY <4>3, <5>2
          <5>9. p <= j
            BY <1>1, <5>3 DEF Places
          <5> QED  BY <5>3, <5>6, <5>7, <5>8, <5>9, Zenon DEF r, InPlace, PredicateParsed
        <4> QED  BY <4>4, <4>5
      <3> QED  BY <3>5, <3>6
    <2> QED  BY <2>6, <2>7
  <1> QED  BY <1>5, <1>6

-----------------------------------------------------------------------------
(***************************************************************************)
(* Expressions. A parse from p is right if it is a reading of the grammar  *)
(* and takes every reading that ends where the rule cannot go on.          *)
(***************************************************************************)
At(s, p, word) == peek(s, p) = word
\* What ends a phrase of the rule is at p.
EndsAt(s, rule, p) == (rule \in {"and", "or"} => ~At(s, p, "and")) /\ (rule = "or" => ~At(s, p, "or"))
\* The atoms are the predicates.
PredicateAtoms(s, atoms) == \A i, j \in Places(s) : atoms[<<i, j>>] # {} <=> DerivesPredicate(s, i, j)
Reading(s, atoms, rule, i, j) == Reads(s, atoms, rule, i, j) # {}

\* A parse by the rule from p: it ends behind what the rule derives, and it gets to the end of
\* whatever the rule derives and that does not go on there.
Right(s, atoms, rule, p, r) ==
    /\ InPlace(s, p, r)
    /\ r.ok => p < r.pos /\ Reading(s, atoms, rule, p, r.pos) /\ EndsAt(s, rule, r.pos)
    /\ \A j \in Places(s) : Reading(s, atoms, rule, p, j) /\ EndsAt(s, rule, j) => r.ok /\ r.pos = j
RightBehind(s, atoms, g, p) ==
    \A q \in Places(s) : p < q => Right(s, atoms, "and", q, g[q].ands) /\ Right(s, atoms, "or", q, g[q].ors)

\* At a place is a word or the end.
LEMMA AtWord ==
    ASSUME NEW s \in Seq(STRING), NEW p \in Places(s), NEW word, word # "EOF"
    PROVE  At(s, p, word) <=> p <= Len(s) /\ s[p] = word
  <1>1. p \in Nat /\ 1 <= p /\ Len(s) \in Nat /\ p <= Len(s) + 1
    BY DEF Places
  <1>2. CASE p <= Len(s)
    <2>1. peek(s, p) = s[p]
      BY <1>2 DEF peek
    <2> QED  BY <1>2, <2>1 DEF At
  <1>3. CASE ~(p <= Len(s))
    <2>1. peek(s, p) = "EOF"
      BY <1>3 DEF peek
    <2> QED  BY <1>3, <2>1 DEF At
  <1> QED  BY <1>2, <1>3

\* Where an expression by a rule does not go on.
LEMMA EndsAtGoesOn ==
    ASSUME NEW s, NEW p, NEW rule \in Rules
    PROVE  EndsAt(s, rule, p) <=> peek(s, p) \notin GoesOn(rule)
  BY DEF EndsAt, At, GoesOn, Rules

\* There is a reading as a term of a predicate, and of a bracketed expression that has one.
LEMMA ReadingTerm ==
    ASSUME NEW s \in Seq(STRING), NEW atoms \in [Spans(s) -> Sets], PredicateAtoms(s, atoms),
           NEW i \in Places(s), NEW j \in Places(s)
    PROVE  Reading(s, atoms, "term", i, j) <=>
             \/ DerivesPredicate(s, i, j)
             \/ i + 1 < j /\ s[i] = "(" /\ s[j - 1] = ")" /\ Reading(s, atoms, "or", i + 1, j - 1)
  <1>1. \A v : v \in Reads(s, atoms, "term", i, j) <=>
             \/ v \in atoms[<<i, j>>]
             \/ /\ i + 1 < j /\ s[i] = "(" /\ s[j - 1] = ")"
                /\ v \in Reads(s, atoms, "or", i + 1, j - 1)
    BY TermRule
  <1>2. atoms[<<i, j>>] # {} <=> DerivesPredicate(s, i, j)
    BY DEF PredicateAtoms
  <1> QED  BY <1>1, <1>2, Zenon DEF Reading

\* There is a reading as a unary of a term that has one, with or without not.
LEMMA ReadingUnary ==
    ASSUME NEW s \in Seq(STRING), NEW atoms \in [Spans(s) -> Sets],
           NEW i \in Places(s), NEW j \in Places(s)
    PROVE  Reading(s, atoms, "unary", i, j) <=>
             \/ Reading(s, atoms, "term", i, j)
             \/ i < j /\ s[i] = "not" /\ Reading(s, atoms, "term", i + 1, j)
  <1>1. \A v : v \in Reads(s, atoms, "unary", i, j) <=>
             \/ v \in Reads(s, atoms, "term", i, j)
             \/ /\ i < j /\ s[i] = "not"
                /\ \E a \in Reads(s, atoms, "term", i + 1, j) : v = Rows \ a
    BY UnaryRule
  <1> QED  BY <1>1, Zenon DEF Reading

\* Two sides with readings have readings joined.
LEMMA MeetsAny ==
    ASSUME NEW A, NEW B
    PROVE  (Meets(A, B) # {} <=> A # {} /\ B # {}) /\ (Joins(A, B) # {} <=> A # {} /\ B # {})
  <1>1. ASSUME A # {}, B # {} PROVE Meets(A, B) # {} /\ Joins(A, B) # {}
    <2>1. PICK a : a \in A
      BY <1>1
    <2>2. PICK b : b \in B
      BY <1>1
    <2>3. a \cap b \in Meets(A, B)
      BY <2>1, <2>2, Meeting
    <2>4. a \cup b \in Joins(A, B)
      BY <2>1, <2>2, Joining
    <2> QED  BY <2>3, <2>4
  <1>2. ASSUME NEW v \in Meets(A, B) PROVE A # {} /\ B # {}
    <2>1. \E a \in A, b \in B : v = a \cap b
      BY Meeting
    <2> QED  BY <2>1
  <1>3. ASSUME NEW v \in Joins(A, B) PROVE A # {} /\ B # {}
    <2>1. \E a \in A, b \in B : v = a \cup b
      BY Joining
    <2> QED  BY <2>1
  <1> QED  BY <1>1, <1>2, <1>3

\* When there is a reading as a conjunction.
LEMMA ReadingAnd ==
    ASSUME NEW s \in Seq(STRING), NEW atoms \in [Spans(s) -> Sets],
           NEW i \in Places(s), NEW j \in Places(s)
    PROVE  Reading(s, atoms, "and", i, j) <=>
             \/ Reading(s, atoms, "unary", i, j)
             \/ \E k \in i .. j - 1 : /\ s[k] = "and" /\ Reading(s, atoms, "unary", i, k)
                                      /\ Reading(s, atoms, "and", k + 1, j)
  <1>1. \A v : v \in Reads(s, atoms, "and", i, j) <=>
             \/ v \in Reads(s, atoms, "unary", i, j)
             \/ \E k \in i .. j - 1 :
                  /\ s[k] = "and"
                  /\ v \in Meets(Reads(s, atoms, "unary", i, k), Reads(s, atoms, "and", k + 1, j))
    BY AndRule
  <1> DEFINE first(k) == Reads(s, atoms, "unary", i, k)
             rest(k) == Reads(s, atoms, "and", k + 1, j)
  <1>2. \A k : Meets(first(k), rest(k)) # {} <=> first(k) # {} /\ rest(k) # {}
    BY MeetsAny
  <1>3. \A v : v \in Reads(s, atoms, "and", i, j) <=>
             \/ v \in Reads(s, atoms, "unary", i, j)
             \/ \E k \in i .. j - 1 : s[k] = "and" /\ v \in Meets(first(k), rest(k))
    BY <1>1, Zenon
  <1> HIDE DEF first, rest
  <1>4. Reads(s, atoms, "and", i, j) # {} <=>
             \/ Reads(s, atoms, "unary", i, j) # {}
             \/ \E k \in i .. j - 1 : s[k] = "and" /\ Meets(first(k), rest(k)) # {}
    BY <1>3
  <1> QED  BY <1>2, <1>4, Zenon DEF Reading, first, rest

\* When there is a reading as a disjunction.
LEMMA ReadingOr ==
    ASSUME NEW s \in Seq(STRING), NEW atoms \in [Spans(s) -> Sets],
           NEW i \in Places(s), NEW j \in Places(s)
    PROVE  Reading(s, atoms, "or", i, j) <=>
             \/ Reading(s, atoms, "and", i, j)
             \/ \E k \in i .. j - 1 : /\ s[k] = "or" /\ Reading(s, atoms, "and", i, k)
                                      /\ Reading(s, atoms, "or", k + 1, j)
  <1>1. \A v : v \in Reads(s, atoms, "or", i, j) <=>
             \/ v \in Reads(s, atoms, "and", i, j)
             \/ \E k \in i .. j - 1 :
                  /\ s[k] = "or"
                  /\ v \in Joins(Reads(s, atoms, "and", i, k), Reads(s, atoms, "or", k + 1, j))
    BY OrRule
  <1> DEFINE first(k) == Reads(s, atoms, "and", i, k)
             rest(k) == Reads(s, atoms, "or", k + 1, j)
  <1>2. \A k : Joins(first(k), rest(k)) # {} <=> first(k) # {} /\ rest(k) # {}
    BY MeetsAny
  <1>3. \A v : v \in Reads(s, atoms, "or", i, j) <=>
             \/ v \in Reads(s, atoms, "and", i, j)
             \/ \E k \in i .. j - 1 : s[k] = "or" /\ v \in Joins(first(k), rest(k))
    BY <1>1, Zenon
  <1> HIDE DEF first, rest
  <1>4. Reads(s, atoms, "or", i, j) # {} <=>
             \/ Reads(s, atoms, "and", i, j) # {}
             \/ \E k \in i .. j - 1 : s[k] = "or" /\ Joins(first(k), rest(k)) # {}
    BY <1>3
  <1> QED  BY <1>2, <1>4, Zenon DEF Reading, first, rest

\* parseAndExpr, its loop unfolded once.
LEMMA AndUnfold ==
    ASSUME NEW s, NEW g, NEW p, NEW f, f = parseUnary(g, s, p), NEW r, r = g[f.pos + 1].ands
    PROVE  parseAndExpr(g, s, p) =
             IF ~f.ok \/ ~At(s, f.pos, "and") THEN [ok |-> f.ok, pos |-> f.pos, ast |-> f.ast, terms |-> 1]
             ELSE [ok |-> r.ok, pos |-> r.pos, ast |-> f.ast \o r.ast, terms |-> r.terms + 1]
  BY Zenon DEF parseAndExpr, Terms, At

\* parseExpr, its loop unfolded once.
LEMMA OrUnfold ==
    ASSUME NEW s, NEW g, NEW p, NEW f, f = Joined("and", parseAndExpr(g, s, p)), NEW r, r = g[f.pos + 1].ors
    PROVE  parseOrExpr(g, s, p) =
             IF ~f.ok \/ ~At(s, f.pos, "or") THEN [ok |-> f.ok, pos |-> f.pos, ast |-> f.ast, terms |-> 1]
             ELSE [ok |-> r.ok, pos |-> r.pos, ast |-> f.ast \o r.ast, terms |-> r.terms + 1]
  BY Zenon DEF parseOrExpr, Terms, At

\* parseTerm, call by call.
LEMMA TermUnfold ==
    ASSUME NEW s, NEW g, NEW p, NEW f, f = Joined("or", g[p + 1].ors), NEW c, c = expect(s, f.pos, {")"})
    PROVE  parseTerm(g, s, p) = IF ~At(s, p, "(") THEN parsePredicate(s, p)
                                ELSE IF ~f.ok THEN f ELSE IF ~c.ok THEN c ELSE Parsed(c.pos, f.ast)
  BY Zenon DEF parseTerm, Then, At

\* parseUnary, call by call.
LEMMA UnaryUnfold ==
    ASSUME NEW s, NEW g, NEW p, NEW f, f = parseTerm(g, s, p + 1)
    PROVE  parseUnary(g, s, p) = IF ~At(s, p, "not") THEN parseTerm(g, s, p)
                                 ELSE IF ~f.ok THEN f ELSE Parsed(f.pos, Append(f.ast, Node("not", 1)))
  BY Zenon DEF parseUnary, Then, At

\* A node joins the terms without moving on.
LEMMA JoinedEnd ==
    ASSUME NEW node, NEW r, r.ok \in BOOLEAN
    PROVE  Joined(node, r).ok = r.ok /\ Joined(node, r).pos = r.pos
  BY DEF Joined, Parsed, ParseError

\* Where expressions end, by rule.
LEMMA EndsThere ==
    ASSUME NEW s \in Seq(STRING), NEW p \in Places(s), NEW rule \in Rules
    PROVE  /\ p <= Len(s) /\ s[p] = ")" => EndsAt(s, rule, p)
           /\ rule \in {"term", "unary"} => EndsAt(s, rule, p)
           /\ EndsAt(s, "or", p) => EndsAt(s, "and", p)
           /\ At(s, p, "or") => EndsAt(s, "and", p)
  <1>1. p <= Len(s) /\ s[p] = ")" => ~At(s, p, "and") /\ ~At(s, p, "or")
    BY AtWord
  <1>2. At(s, p, "or") => ~At(s, p, "and")
    BY AtWord
  <1> QED  BY <1>1, <1>2 DEF EndsAt

\* The closing bracket is taken, or something else is refused.
LEMMA CloseAt ==
    ASSUME NEW s \in Seq(STRING), NEW p \in Places(s)
    PROVE  expect(s, p, {")"}) = IF p <= Len(s) /\ s[p] = ")" THEN Parsed(p + 1, s[p]) ELSE ParseError(p)
  <1>1. p \in Nat /\ 1 <= p
    BY DEF Places
  <1>2. expect(s, p, {")"}) = IF p <= Len(s) /\ s[p] \in {")"} THEN Parsed(p + 1, s[p]) ELSE ParseError(p)
    BY <1>1, Expect, Kinds
  <1> QED  BY <1>2

\* parseTerm reads a term and reads every one, if the parses behind it do so.
LEMMA RightTerm ==
    ASSUME NEW s \in Seq(STRING), NEW atoms \in [Spans(s) -> Sets], PredicateAtoms(s, atoms),
           NEW p \in Places(s), NEW g, RightBehind(s, atoms, g, p)
    PROVE  Right(s, atoms, "term", p, parseTerm(g, s, p))
  <1> DEFINE r == parseTerm(g, s, p)
             o == g[p + 1].ors
             f == Joined("or", o)
             c == expect(s, f.pos, {")"})
  <1>1. p \in Nat /\ 1 <= p /\ Len(s) \in Nat /\ p <= Len(s) + 1
    BY DEF Places
  <1>2. r = IF ~At(s, p, "(") THEN parsePredicate(s, p)
            ELSE IF ~f.ok THEN f ELSE IF ~c.ok THEN c ELSE Parsed(c.pos, f.ast)
    BY TermUnfold
  <1>3. \A j \in Places(s) : EndsAt(s, "term", j)
    BY DEF EndsAt
  <1>4. \A j \in Places(s) : Reading(s, atoms, "term", p, j) <=>
             \/ DerivesPredicate(s, p, j)
             \/ p + 1 < j /\ s[p] = "(" /\ s[j - 1] = ")" /\ Reading(s, atoms, "or", p + 1, j - 1)
    BY ReadingTerm
  <1>5. At(s, p, "(") <=> p <= Len(s) /\ s[p] = "("
    BY AtWord
  <1> HIDE DEF r, o
  <1>6. CASE ~At(s, p, "(")
    <2>1. r = parsePredicate(s, p)
      BY <1>2, <1>6
    <2>2. PredicateParsed(s, p, r)
      BY <2>1, PredicateAt
    <2>3. \A j \in Places(s) : p + 1 < j => p <= Len(s)
      BY <1>1 DEF Places
    <2>4. \A j \in Places(s) : Reading(s, atoms, "term", p, j) => DerivesPredicate(s, p, j)
      BY <1>4, <1>5, <1>6, <2>3
    <2>5. r.ok => DerivesPredicate(s, p, r.pos)
      BY <2>2, Zenon DEF PredicateParsed, ReadsPredicate
    <2>6. r.ok => Reading(s, atoms, "term", p, r.pos)
      BY <1>4, <2>2, <2>5 DEF PredicateParsed, InPlace
    <2>7. r.ok => EndsAt(s, "term", r.pos)
      BY <1>3, <2>2 DEF PredicateParsed, InPlace
    <2> QED  BY <2>2, <2>4, <2>6, <2>7, Zenon DEF Right, PredicateParsed, r
  <1>7. CASE At(s, p, "(")
    <2>1. p <= Len(s) /\ s[p] = "("
      BY <1>5, <1>7
    <2>2. p + 1 \in Places(s) /\ p < p + 1 /\ p + 1 \in Nat
      BY <1>1, <2>1 DEF Places
    <2>3. Right(s, atoms, "or", p + 1, o)
      BY <2>2 DEF RightBehind, o
    <2>4. f.ok = o.ok /\ f.pos = o.pos
      BY <2>3, JoinedEnd DEF Right, InPlace
    <2>5. /\ f.ok \in BOOLEAN /\ f.pos \in Places(s) /\ p + 1 <= f.pos
          /\ f.ok => p + 1 < f.pos /\ Reading(s, atoms, "or", p + 1, f.pos)
          /\ \A j \in Places(s) : Reading(s, atoms, "or", p + 1, j) /\ EndsAt(s, "or", j) => f.ok /\ f.pos = j
      BY <2>3, <2>4, Zenon DEF Right, InPlace
    <2> HIDE DEF f
    <2>6. r = IF ~f.ok THEN f ELSE IF ~c.ok THEN c ELSE Parsed(c.pos, f.ast)
      BY <1>2, <1>7
    <2>7. c = IF f.pos <= Len(s) /\ s[f.pos] = ")" THEN Parsed(f.pos + 1, s[f.pos]) ELSE ParseError(f.pos)
      BY <2>5, CloseAt
    <2> HIDE DEF c
    <2>8. p <= f.pos /\ f.pos \in Nat /\ f.pos <= Len(s) + 1
      BY <1>1, <2>5 DEF Places
    <2>9. ASSUME NEW j \in Places(s), Reading(s, atoms, "term", p, j)
          PROVE  f.ok /\ f.pos = j - 1 /\ f.pos <= Len(s) /\ s[f.pos] = ")" /\ f.pos + 1 = j
      <3>1. ~DerivesPredicate(s, p, j)
        <4>1. "(" \notin Idents
          BY Words, OpsApart
        <4> QED  BY <2>1, <4>1, Zenon DEF DerivesPredicate
      <3>2. p + 1 < j /\ s[j - 1] = ")" /\ Reading(s, atoms, "or", p + 1, j - 1)
        BY <1>4, <2>9, <3>1
      <3>3. j - 1 \in Places(s) /\ j - 1 <= Len(s) /\ j - 1 + 1 = j
        BY <1>1, <3>2 DEF Places
      <3>4. EndsAt(s, "or", j - 1)
        BY <3>2, <3>3, EndsThere DEF Rules
      <3>5. f.ok /\ f.pos = j - 1
        BY <2>5, <3>2, <3>3, <3>4
      <3> QED  BY <3>2, <3>3, <3>5
    <2>10. CASE ~f.ok
      <3>1. r = f
        BY <2>6, <2>10
      <3> QED  BY <2>5, <2>8, <2>9, <2>10, <3>1, Zenon DEF Right, InPlace, r
    <2>11. CASE f.ok /\ ~(f.pos <= Len(s) /\ s[f.pos] = ")")
      <3>1. c = ParseError(f.pos) /\ c.ok = FALSE
        BY <2>7, <2>11, Results
      <3>2. r = ParseError(f.pos)
        BY <2>6, <2>11, <3>1
      <3>3. r.ok = FALSE /\ r.pos = f.pos
        BY <3>2, Results
      <3> QED  BY <2>5, <2>8, <2>9, <2>11, <3>3, Zenon DEF Right, InPlace, r
    <2>12. CASE f.ok /\ f.pos <= Len(s) /\ s[f.pos] = ")"
      <3>1. c = Parsed(f.pos + 1, s[f.pos])
        BY <2>7, <2>12
      <3>2. c.ok = TRUE /\ c.pos = f.pos + 1
        BY <3>1 DEF Parsed
      <3>3. r = Parsed(f.pos + 1, f.ast)
        BY <2>6, <2>12, <3>2
      <3>4. r.ok = TRUE /\ r.pos = f.pos + 1
        BY <3>3 DEF Parsed
      <3>5. PICK e \in Places(s) : e = f.pos + 1 /\ e - 1 = f.pos /\ p < e /\ p <= e /\ p + 1 < e
        BY <1>1, <2>5, <2>8, <2>12 DEF Places
      <3>6. Reading(s, atoms, "term", p, e)
        BY <1>4, <2>1, <2>5, <2>12, <3>5
      <3> QED  BY <1>3, <2>9, <3>4, <3>5, <3>6, Zenon DEF Right, InPlace, r
    <2> QED  BY <2>5, <2>10, <2>11, <2>12
  <1> QED  BY <1>6, <1>7

\* parseUnary reads a unary and reads every one, if the parses behind it do so.
LEMMA RightUnary ==
    ASSUME NEW s \in Seq(STRING), NEW atoms \in [Spans(s) -> Sets], PredicateAtoms(s, atoms),
           NEW p \in Places(s), NEW g, RightBehind(s, atoms, g, p)
    PROVE  Right(s, atoms, "unary", p, parseUnary(g, s, p))
  <1> DEFINE r == parseUnary(g, s, p)
             f == parseTerm(g, s, p + 1)
  <1>1. p \in Nat /\ 1 <= p /\ Len(s) \in Nat /\ p <= Len(s) + 1
    BY DEF Places
  <1>2. r = IF ~At(s, p, "not") THEN parseTerm(g, s, p)
            ELSE IF ~f.ok THEN f ELSE Parsed(f.pos, Append(f.ast, Node("not", 1)))
    BY UnaryUnfold
  <1>3. \A j \in Places(s) : EndsAt(s, "term", j) /\ EndsAt(s, "unary", j)
    BY DEF EndsAt
  <1>4. \A j \in Places(s) : Reading(s, atoms, "unary", p, j) <=>
             \/ Reading(s, atoms, "term", p, j)
             \/ p < j /\ s[p] = "not" /\ Reading(s, atoms, "term", p + 1, j)
    BY ReadingUnary
  <1>5. At(s, p, "not") <=> p <= Len(s) /\ s[p] = "not"
    BY AtWord
  <1> HIDE DEF r, f
  <1>6. CASE ~At(s, p, "not")
    <2>1. r = parseTerm(g, s, p)
      BY <1>2, <1>6
    <2>2. Right(s, atoms, "term", p, r)
      BY <2>1, RightTerm
    <2>3. \A j \in Places(s) : Reading(s, atoms, "unary", p, j) => Reading(s, atoms, "term", p, j)
      <3>1. \A j \in Places(s) : p < j => p <= Len(s)
        BY <1>1 DEF Places
      <3> QED  BY <1>4, <1>5, <1>6, <3>1
    <2> QED  BY <1>3, <1>4, <2>2, <2>3, Zenon DEF Right, InPlace, r
  <1>7. CASE At(s, p, "not")
    <2>1. p <= Len(s) /\ s[p] = "not"
      BY <1>5, <1>7
    <2>2. p + 1 \in Places(s) /\ p < p + 1 /\ p + 1 \in Nat
      BY <1>1, <2>1 DEF Places
    <2>3. Right(s, atoms, "term", p + 1, f)
      <3>1. RightBehind(s, atoms, g, p + 1)
        <4>1. \A q \in Places(s) : p + 1 < q => p < q
          BY <1>1 DEF Places
        <4> QED  BY <4>1, Zenon DEF RightBehind
      <3> QED  BY <2>2, <3>1, RightTerm DEF f
    <2>4. /\ f.ok \in BOOLEAN /\ f.pos \in Places(s) /\ p + 1 <= f.pos
          /\ f.ok => Reading(s, atoms, "term", p + 1, f.pos)
          /\ \A j \in Places(s) : Reading(s, atoms, "term", p + 1, j) => f.ok /\ f.pos = j
      BY <1>3, <2>3, Zenon DEF Right, InPlace
    <2>5. p < f.pos /\ p <= f.pos
      BY <1>1, <2>4 DEF Places
    <2>6. ASSUME NEW j \in Places(s), Reading(s, atoms, "unary", p, j)
          PROVE  f.ok /\ f.pos = j
      <3>1. ~Reading(s, atoms, "term", p, j)
        <4>1. "not" \notin Idents
          BY Words, OpsApart
        <4>2. ~DerivesPredicate(s, p, j)
          BY <2>1, <4>1, Zenon DEF DerivesPredicate
        <4>3. s[p] # "("
          BY <2>1
        <4> QED  BY <4>2, <4>3, ReadingTerm
      <3> QED  BY <1>4, <2>4, <2>6, <3>1
    <2>7. CASE ~f.ok
      <3>1. r = f
        BY <1>2, <1>7, <2>7
      <3> QED  BY <2>4, <2>5, <2>6, <2>7, <3>1, Zenon DEF Right, InPlace, r
    <2>8. CASE f.ok
      <3>1. r = Parsed(f.pos, Append(f.ast, Node("not", 1)))
        BY <1>2, <1>7, <2>8
      <3>2. r.ok = TRUE /\ r.pos = f.pos
        BY <3>1 DEF Parsed
      <3>3. Reading(s, atoms, "unary", p, f.pos)
        BY <1>4, <2>1, <2>4, <2>5, <2>8
      <3> QED  BY <1>3, <2>4, <2>5, <2>6, <3>2, <3>3, Zenon DEF Right, InPlace, r
    <2> QED  BY <2>4, <2>7, <2>8
  <1> QED  BY <1>6, <1>7

\* parseAndExpr reads a conjunction and all of it, if the parses behind it do so.
LEMMA RightAnd ==
    ASSUME NEW s \in Seq(STRING), NEW atoms \in [Spans(s) -> Sets], PredicateAtoms(s, atoms),
           NEW p \in Places(s), NEW g, RightBehind(s, atoms, g, p)
    PROVE  Right(s, atoms, "and", p, parseAndExpr(g, s, p))
  <1> DEFINE r == parseAndExpr(g, s, p)
             f == parseUnary(g, s, p)
             t == g[f.pos + 1].ands
  <1>1. p \in Nat /\ 1 <= p /\ Len(s) \in Nat /\ p <= Len(s) + 1
    BY DEF Places
  <1>2. r = IF ~f.ok \/ ~At(s, f.pos, "and") THEN [ok |-> f.ok, pos |-> f.pos, ast |-> f.ast, terms |-> 1]
            ELSE [ok |-> t.ok, pos |-> t.pos, ast |-> f.ast \o t.ast, terms |-> t.terms + 1]
    BY Zenon DEF parseAndExpr, Terms, At
  <1>3. Right(s, atoms, "unary", p, f)
    BY RightUnary
  <1>4. \A j \in Places(s) : Reading(s, atoms, "and", p, j) <=>
             \/ Reading(s, atoms, "unary", p, j)
             \/ \E k \in p .. j - 1 : /\ s[k] = "and" /\ Reading(s, atoms, "unary", p, k)
                                      /\ Reading(s, atoms, "and", k + 1, j)
    BY ReadingAnd
  <1> HIDE DEF r, f
  <1>5. /\ f.ok \in BOOLEAN /\ f.pos \in Places(s) /\ p <= f.pos
        /\ f.ok => p < f.pos /\ Reading(s, atoms, "unary", p, f.pos)
        /\ \A j \in Places(s) : Reading(s, atoms, "unary", p, j) => f.ok /\ f.pos = j
    <2>1. \A j \in Places(s) : EndsAt(s, "unary", j)
      BY DEF EndsAt
    <2> QED  BY <1>3, <2>1, Zenon DEF Right, InPlace
  <1>6. At(s, f.pos, "and") <=> f.pos <= Len(s) /\ s[f.pos] = "and"
    BY <1>5, AtWord
  <1>7. \A j \in Places(s) : \A k \in p .. j - 1 : k \in Places(s) /\ k <= Len(s)
    BY <1>1 DEF Places
  <1>8. CASE ~f.ok \/ ~At(s, f.pos, "and")
    <2>1. r = [ok |-> f.ok, pos |-> f.pos, ast |-> f.ast, terms |-> 1]
      BY <1>2, <1>8
    <2>2. r.ok = f.ok /\ r.pos = f.pos
      BY <2>1
    <2>3. ASSUME NEW j \in Places(s), Reading(s, atoms, "and", p, j) PROVE f.ok /\ f.pos = j
      <3>1. ASSUME NEW k \in p .. j - 1, s[k] = "and", Reading(s, atoms, "unary", p, k) PROVE FALSE
        <4>1. f.ok /\ f.pos = k
          BY <1>5, <1>7, <3>1
        <4>2. k <= Len(s)
          BY <1>7
        <4> QED  BY <1>6, <1>8, <3>1, <4>1, <4>2
      <3> QED  BY <1>4, <1>5, <2>3, <3>1
    <2>4. f.ok => Reading(s, atoms, "and", p, f.pos) /\ EndsAt(s, "and", f.pos)
      BY <1>4, <1>5, <1>8 DEF EndsAt
    <2> QED  BY <1>5, <2>2, <2>3, <2>4, Zenon DEF Right, InPlace, r
  <1>9. CASE f.ok /\ At(s, f.pos, "and")
    <2>1. r = [ok |-> t.ok, pos |-> t.pos, ast |-> f.ast \o t.ast, terms |-> t.terms + 1]
      BY <1>2, <1>9
    <2>2. r.ok = t.ok /\ r.pos = t.pos
      BY <2>1
    <2>3. PICK q \in Places(s) : q = f.pos + 1 /\ p < q /\ q - 1 = f.pos
      BY <1>1, <1>5, <1>6, <1>9 DEF Places
    <2>4. Right(s, atoms, "and", q, t)
      BY <2>3 DEF RightBehind
    <2> HIDE DEF t
    <2>5. /\ t.ok \in BOOLEAN /\ t.pos \in Places(s) /\ q <= t.pos
          /\ t.ok => q < t.pos /\ Reading(s, atoms, "and", q, t.pos) /\ EndsAt(s, "and", t.pos)
          /\ \A j \in Places(s) : Reading(s, atoms, "and", q, j) /\ EndsAt(s, "and", j) => t.ok /\ t.pos = j
      BY <2>4, Zenon DEF Right, InPlace
    <2>6. p < t.pos /\ p <= t.pos /\ f.pos \in p .. t.pos - 1
      BY <1>1, <1>5, <2>3, <2>5 DEF Places
    <2>7. ASSUME NEW j \in Places(s), Reading(s, atoms, "and", p, j), EndsAt(s, "and", j) PROVE t.ok /\ t.pos = j
      <3>1. ~Reading(s, atoms, "unary", p, j)
        <4>1. ASSUME Reading(s, atoms, "unary", p, j) PROVE FALSE
          <5>1. f.pos = j
            BY <1>5, <4>1
          <5> QED  BY <1>9, <2>7, <5>1, Zenon DEF EndsAt
        <4> QED  BY <4>1
      <3>2. PICK k \in p .. j - 1 : /\ s[k] = "and" /\ Reading(s, atoms, "unary", p, k)
                                    /\ Reading(s, atoms, "and", k + 1, j)
        BY <1>4, <2>7, <3>1
      <3>3. k = f.pos
        BY <1>5, <1>7, <3>2
      <3> QED  BY <2>3, <2>5, <2>7, <3>2, <3>3
    <2>8. t.ok => Reading(s, atoms, "and", p, t.pos)
      <3> SUFFICES ASSUME t.ok PROVE Reading(s, atoms, "and", p, t.pos)
        OBVIOUS
      <3>1. s[f.pos] = "and"
        BY <1>6, <1>9
      <3> QED  BY <1>4, <1>5, <1>9, <2>3, <2>5, <2>6, <3>1
    <2> QED  BY <2>2, <2>5, <2>6, <2>7, <2>8, Zenon DEF Right, InPlace, r
  <1> QED  BY <1>5, <1>8, <1>9

\* parseExpr reads a disjunction and all of it, if the parses behind it do so.
LEMMA RightOr ==
    ASSUME NEW s \in Seq(STRING), NEW atoms \in [Spans(s) -> Sets], PredicateAtoms(s, atoms),
           NEW p \in Places(s), NEW g, RightBehind(s, atoms, g, p)
    PROVE  Right(s, atoms, "or", p, parseOrExpr(g, s, p))
  <1> DEFINE r == parseOrExpr(g, s, p)
             a == parseAndExpr(g, s, p)
             f == Joined("and", a)
             t == g[f.pos + 1].ors
  <1>1. p \in Nat /\ 1 <= p /\ Len(s) \in Nat /\ p <= Len(s) + 1
    BY DEF Places
  <1>2. r = IF ~f.ok \/ ~At(s, f.pos, "or") THEN [ok |-> f.ok, pos |-> f.pos, ast |-> f.ast, terms |-> 1]
            ELSE [ok |-> t.ok, pos |-> t.pos, ast |-> f.ast \o t.ast, terms |-> t.terms + 1]
    BY Zenon DEF parseOrExpr, Terms, At
  <1>3. Right(s, atoms, "and", p, a)
    BY RightAnd
  <1>4. \A j \in Places(s) : Reading(s, atoms, "or", p, j) <=>
             \/ Reading(s, atoms, "and", p, j)
             \/ \E k \in p .. j - 1 : /\ s[k] = "or" /\ Reading(s, atoms, "and", p, k)
                                      /\ Reading(s, atoms, "or", k + 1, j)
    BY ReadingOr
  <1> HIDE DEF r, a
  <1>5. f.ok = a.ok /\ f.pos = a.pos
    BY <1>3, JoinedEnd DEF Right, InPlace
  <1>6. /\ f.ok \in BOOLEAN /\ f.pos \in Places(s) /\ p <= f.pos
        /\ f.ok => p < f.pos /\ Reading(s, atoms, "and", p, f.pos) /\ EndsAt(s, "and", f.pos)
        /\ \A j \in Places(s) : Reading(s, atoms, "and", p, j) /\ EndsAt(s, "and", j) => f.ok /\ f.pos = j
    BY <1>3, <1>5, Zenon DEF Right, InPlace
  <1> HIDE DEF f
  <1>7. At(s, f.pos, "or") <=> f.pos <= Len(s) /\ s[f.pos] = "or"
    BY <1>6, AtWord
  <1>8. \A j \in Places(s) : \A k \in p .. j - 1 : k \in Places(s) /\ k <= Len(s)
    BY <1>1 DEF Places
  <1>9. \A j \in Places(s) : /\ EndsAt(s, "or", j) => EndsAt(s, "and", j)
                             /\ j <= Len(s) /\ s[j] = "or" => EndsAt(s, "and", j)
    BY EndsThere, AtWord DEF Rules
  <1>10. CASE ~f.ok \/ ~At(s, f.pos, "or")
    <2>1. r = [ok |-> f.ok, pos |-> f.pos, ast |-> f.ast, terms |-> 1]
      BY <1>2, <1>10
    <2>2. r.ok = f.ok /\ r.pos = f.pos
      BY <2>1
    <2>3. ASSUME NEW j \in Places(s), Reading(s, atoms, "or", p, j), EndsAt(s, "or", j) PROVE f.ok /\ f.pos = j
      <3>1. ASSUME NEW k \in p .. j - 1, s[k] = "or", Reading(s, atoms, "and", p, k) PROVE FALSE
        <4>1. f.ok /\ f.pos = k
          BY <1>6, <1>8, <1>9, <3>1
        <4>2. k <= Len(s)
          BY <1>8
        <4> QED  BY <1>7, <1>10, <3>1, <4>1, <4>2
      <3> QED  BY <1>4, <1>6, <1>9, <2>3, <3>1
    <2>4. f.ok => Reading(s, atoms, "or", p, f.pos) /\ EndsAt(s, "or", f.pos)
      BY <1>4, <1>6, <1>10 DEF EndsAt
    <2> QED  BY <1>6, <2>2, <2>3, <2>4, Zenon DEF Right, InPlace, r
  <1>11. CASE f.ok /\ At(s, f.pos, "or")
    <2>1. r = [ok |-> t.ok, pos |-> t.pos, ast |-> f.ast \o t.ast, terms |-> t.terms + 1]
      BY <1>2, <1>11
    <2>2. r.ok = t.ok /\ r.pos = t.pos
      BY <2>1
    <2>3. PICK q \in Places(s) : q = f.pos + 1 /\ p < q /\ q - 1 = f.pos
      BY <1>1, <1>6, <1>7, <1>11 DEF Places
    <2>4. Right(s, atoms, "or", q, t)
      BY <2>3 DEF RightBehind
    <2> HIDE DEF t
    <2>5. /\ t.ok \in BOOLEAN /\ t.pos \in Places(s) /\ q <= t.pos
          /\ t.ok => q < t.pos /\ Reading(s, atoms, "or", q, t.pos) /\ EndsAt(s, "or", t.pos)
          /\ \A j \in Places(s) : Reading(s, atoms, "or", q, j) /\ EndsAt(s, "or", j) => t.ok /\ t.pos = j
      BY <2>4, Zenon DEF Right, InPlace
    <2>6. p < t.pos /\ p <= t.pos /\ f.pos \in p .. t.pos - 1
      BY <1>1, <1>6, <2>3, <2>5 DEF Places
    <2>7. ASSUME NEW j \in Places(s), Reading(s, atoms, "or", p, j), EndsAt(s, "or", j) PROVE t.ok /\ t.pos = j
      <3>1. ~Reading(s, atoms, "and", p, j)
        <4>1. ASSUME Reading(s, atoms, "and", p, j) PROVE FALSE
          <5>1. f.pos = j
            BY <1>6, <1>9, <2>7, <4>1
          <5> QED  BY <1>11, <2>7, <5>1, Zenon DEF EndsAt
        <4> QED  BY <4>1
      <3>2. PICK k \in p .. j - 1 : /\ s[k] = "or" /\ Reading(s, atoms, "and", p, k)
                                    /\ Reading(s, atoms, "or", k + 1, j)
        BY <1>4, <2>7, <3>1
      <3>3. k = f.pos
        BY <1>6, <1>8, <1>9, <3>2
      <3> QED  BY <2>3, <2>5, <2>7, <3>2, <3>3
    <2>8. t.ok => Reading(s, atoms, "or", p, t.pos)
      <3> SUFFICES ASSUME t.ok PROVE Reading(s, atoms, "or", p, t.pos)
        OBVIOUS
      <3>1. s[f.pos] = "or"
        BY <1>7, <1>11
      <3> QED  BY <1>4, <1>6, <1>11, <2>3, <2>5, <2>6, <3>1
    <2> QED  BY <2>2, <2>5, <2>6, <2>7, <2>8, Zenon DEF Right, InPlace, r
  <1> QED  BY <1>6, <1>10, <1>11

Body(s, g, p) == [ands |-> parseAndExpr(g, s, p), ors |-> parseOrExpr(g, s, p)]
SameBehind(s, g, h, p) == \A q \in Places(s) : p < q => g[q] = h[q]
\* g holds the parses from every place behind m.
ParsesBehind(s, g, m) == \A p \in Places(s) : m < p => g[p] = Body(s, g, p)

\* A parse from a place depends on those from the places behind it only.
LEMMA BodyLocal ==
    ASSUME NEW s \in Seq(STRING), NEW atoms \in [Spans(s) -> Sets], PredicateAtoms(s, atoms),
           NEW p \in Places(s), NEW g, RightBehind(s, atoms, g, p), NEW h, SameBehind(s, g, h, p)
    PROVE  Body(s, g, p) = Body(s, h, p)
  <1>1. p \in Nat /\ 1 <= p /\ Len(s) \in Nat /\ p <= Len(s) + 1
    BY DEF Places
  <1>2. ASSUME NEW q \in Places(s), p <= q PROVE parseTerm(g, s, q) = parseTerm(h, s, q)
    <2>1. CASE ~At(s, q, "(")
      BY <2>1, TermUnfold
    <2>2. CASE At(s, q, "(")
      <3>1. q <= Len(s)
        BY <2>2, AtWord
      <3>2. q + 1 \in Places(s) /\ p < q + 1
        BY <1>1, <1>2, <3>1 DEF Places
      <3>3. g[q + 1] = h[q + 1]
        BY <3>2 DEF SameBehind
      <3> QED  BY <3>3, Zenon DEF parseTerm
    <2> QED  BY <2>1, <2>2
  <1>3. parseUnary(g, s, p) = parseUnary(h, s, p)
    <2>1. parseTerm(g, s, p) = parseTerm(h, s, p)
      BY <1>1, <1>2
    <2>2. CASE ~At(s, p, "not")
      BY <2>1, <2>2, UnaryUnfold
    <2>3. CASE At(s, p, "not")
      <3>1. p <= Len(s)
        BY <2>3, AtWord
      <3>2. p + 1 \in Places(s) /\ p <= p + 1
        BY <1>1, <3>1 DEF Places
      <3>3. parseTerm(g, s, p + 1) = parseTerm(h, s, p + 1)
        BY <1>2, <3>2
      <3> QED  BY <2>1, <3>3, Zenon DEF parseUnary
    <2> QED  BY <2>2, <2>3
  <1> DEFINE f == parseUnary(g, s, p)
             a == parseAndExpr(g, s, p)
             b == Joined("and", a)
  <1>4. parseAndExpr(g, s, p) = parseAndExpr(h, s, p)
    <2>1. Right(s, atoms, "unary", p, f)
      BY RightUnary
    <2>2. parseAndExpr(g, s, p) =
            IF ~f.ok \/ ~At(s, f.pos, "and") THEN [ok |-> f.ok, pos |-> f.pos, ast |-> f.ast, terms |-> 1]
            ELSE [ok |-> g[f.pos + 1].ands.ok, pos |-> g[f.pos + 1].ands.pos, ast |-> f.ast \o g[f.pos + 1].ands.ast,
                  terms |-> g[f.pos + 1].ands.terms + 1]
      BY Zenon DEF parseAndExpr, Terms, At
    <2>3. parseAndExpr(h, s, p) =
            IF ~f.ok \/ ~At(s, f.pos, "and") THEN [ok |-> f.ok, pos |-> f.pos, ast |-> f.ast, terms |-> 1]
            ELSE [ok |-> h[f.pos + 1].ands.ok, pos |-> h[f.pos + 1].ands.pos, ast |-> f.ast \o h[f.pos + 1].ands.ast,
                  terms |-> h[f.pos + 1].ands.terms + 1]
      BY <1>3, Zenon DEF parseAndExpr, Terms, At
    <2> HIDE DEF f
    <2>4. At(s, f.pos, "and") => g[f.pos + 1] = h[f.pos + 1]
      <3> SUFFICES ASSUME At(s, f.pos, "and") PROVE g[f.pos + 1] = h[f.pos + 1]
        OBVIOUS
      <3>1. f.pos \in Places(s) /\ p <= f.pos /\ f.pos <= Len(s)
        BY <2>1, AtWord DEF Right, InPlace
      <3>2. f.pos + 1 \in Places(s) /\ p < f.pos + 1
        BY <1>1, <3>1 DEF Places
      <3> QED  BY <3>2 DEF SameBehind
    <2>5. CASE ~f.ok \/ ~At(s, f.pos, "and")
      BY <2>2, <2>3, <2>5
    <2>6. CASE ~(~f.ok \/ ~At(s, f.pos, "and"))
      <3>1. g[f.pos + 1] = h[f.pos + 1]
        BY <2>4, <2>6
      <3> QED  BY <2>2, <2>3, <2>6, <3>1
    <2> QED  BY <2>5, <2>6
  <1>5. parseOrExpr(g, s, p) = parseOrExpr(h, s, p)
    <2>1. Right(s, atoms, "and", p, a)
      BY RightAnd
    <2>2. parseOrExpr(g, s, p) =
            IF ~b.ok \/ ~At(s, b.pos, "or") THEN [ok |-> b.ok, pos |-> b.pos, ast |-> b.ast, terms |-> 1]
            ELSE [ok |-> g[b.pos + 1].ors.ok, pos |-> g[b.pos + 1].ors.pos, ast |-> b.ast \o g[b.pos + 1].ors.ast,
                  terms |-> g[b.pos + 1].ors.terms + 1]
      BY Zenon DEF parseOrExpr, Terms, At
    <2>3. parseOrExpr(h, s, p) =
            IF ~b.ok \/ ~At(s, b.pos, "or") THEN [ok |-> b.ok, pos |-> b.pos, ast |-> b.ast, terms |-> 1]
            ELSE [ok |-> h[b.pos + 1].ors.ok, pos |-> h[b.pos + 1].ors.pos, ast |-> b.ast \o h[b.pos + 1].ors.ast,
                  terms |-> h[b.pos + 1].ors.terms + 1]
      BY <1>4, Zenon DEF parseOrExpr, Terms, At
    <2> HIDE DEF a
    <2>4. b.pos = a.pos
      BY <2>1, JoinedEnd DEF Right, InPlace
    <2> HIDE DEF b
    <2>5. At(s, b.pos, "or") => g[b.pos + 1] = h[b.pos + 1]
      <3> SUFFICES ASSUME At(s, b.pos, "or") PROVE g[b.pos + 1] = h[b.pos + 1]
        OBVIOUS
      <3>1. b.pos \in Places(s) /\ p <= b.pos /\ b.pos <= Len(s)
        BY <2>1, <2>4, AtWord DEF Right, InPlace
      <3>2. b.pos + 1 \in Places(s) /\ p < b.pos + 1
        BY <1>1, <3>1 DEF Places
      <3> QED  BY <3>2 DEF SameBehind
    <2>6. CASE ~b.ok \/ ~At(s, b.pos, "or")
      BY <2>2, <2>3, <2>6
    <2>7. CASE ~(~b.ok \/ ~At(s, b.pos, "or"))
      <3>1. g[b.pos + 1] = h[b.pos + 1]
        BY <2>5, <2>7
      <3> QED  BY <2>2, <2>3, <2>7, <3>1
    <2> QED  BY <2>6, <2>7
  <1> QED  BY <1>4, <1>5, Zenon DEF Body

\* Such parses are right.
LEMMA ParsesRight ==
    ASSUME NEW s \in Seq(STRING), NEW atoms \in [Spans(s) -> Sets], PredicateAtoms(s, atoms),
           NEW g, NEW m \in Int, ParsesBehind(s, g, m)
    PROVE  RightBehind(s, atoms, g, m)
  <1> DEFINE right(p) == Right(s, atoms, "and", p, g[p].ands) /\ Right(s, atoms, "or", p, g[p].ors)
             K == {k \in Nat : \A p \in Places(s) : m < p /\ Len(s) + 1 - k < p => right(p)}
  <1>1. Len(s) \in Nat /\ \A p \in Places(s) : p \in Nat /\ 1 <= p /\ p <= Len(s) + 1
    BY DEF Places
  <1>2. \A p \in Places(s) : ~(Len(s) + 1 - 0 < p)
    BY <1>1
  <1>3. 0 \in K
    <2> HIDE DEF right
    <2> QED  BY <1>2
  <1>4. ASSUME NEW k \in K PROVE k + 1 \in K
    <2>1. k \in Nat /\ \A p \in Places(s) : m < p /\ Len(s) + 1 - k < p => right(p)
      OBVIOUS
    <2>2. ASSUME NEW p \in Places(s), m < p, Len(s) + 1 - (k + 1) < p PROVE right(p)
      <3> HIDE DEF right
      <3>1. \A q \in Places(s) : p < q => m < q /\ Len(s) + 1 - k < q
        <4>1. k \in Nat
          BY <2>1
        <4> QED  BY <1>1, <2>2, <4>1
      <3>2. \A q \in Places(s) : p < q => right(q)
        BY <2>1, <3>1
      <3>3. RightBehind(s, atoms, g, p)
        BY <3>2 DEF RightBehind, right
      <3>4. g[p].ands = parseAndExpr(g, s, p) /\ g[p].ors = parseOrExpr(g, s, p)
        <4>1. g[p] = Body(s, g, p)
          BY <2>2, Zenon DEF ParsesBehind
        <4> QED  BY <4>1 DEF Body
      <3>5. Right(s, atoms, "and", p, parseAndExpr(g, s, p))
        BY <3>3, RightAnd
      <3>6. Right(s, atoms, "or", p, parseOrExpr(g, s, p))
        BY <3>3, RightOr
      <3> QED  BY <3>4, <3>5, <3>6 DEF right
    <2> HIDE DEF right
    <2> QED  BY <2>1, <2>2
  <1>5. K = Nat
    <2>1. K \in SUBSET Nat
      OBVIOUS
    <2> HIDE DEF K
    <2> QED  BY <1>3, <1>4, <2>1, SetInduction
  <1>6. \A p \in Places(s) : Len(s) + 1 - (Len(s) + 1) < p
    BY <1>1
  <1>7. ASSUME NEW p \in Places(s), m < p PROVE right(p)
    <2> HIDE DEF right
    <2>1. Len(s) + 1 \in K
      BY <1>1, <1>5
    <2> QED  BY <1>6, <1>7, <2>1
  <1> QED  BY <1>7 DEF RightBehind

\* There are the parses from all places.
LEMMA ExprsExist ==
    ASSUME NEW s \in Seq(STRING), NEW atoms \in [Spans(s) -> Sets], PredicateAtoms(s, atoms)
    PROVE  \E g : g = [p \in Places(s) |-> Body(s, g, p)]
  <1> DEFINE upTo(g, k) == g = [p \in Places(s) |-> g[p]] /\ ParsesBehind(s, g, Len(s) + 1 - k)
             K == {k \in Nat : \E g : upTo(g, k)}
  <1>1. Len(s) \in Nat /\ \A p \in Places(s) : p \in Nat /\ 1 <= p /\ p <= Len(s) + 1
    BY DEF Places
  <1>2. 0 \in K
    <2> DEFINE g == [p \in Places(s) |-> 0]
    <2>1. g = [p \in Places(s) |-> g[p]]
      OBVIOUS
    <2>2. \A p \in Places(s) : ~(Len(s) + 1 - 0 < p)
      BY <1>1
    <2>3. ParsesBehind(s, g, Len(s) + 1 - 0)
      BY <2>2, Zenon DEF ParsesBehind
    <2> HIDE DEF g
    <2>4. upTo(g, 0)
      BY <2>1, <2>3
    <2> HIDE DEF upTo
    <2> QED  BY <2>4
  <1>3. ASSUME NEW k \in K PROVE k + 1 \in K
    <2>1. k \in Nat
      OBVIOUS
    <2>2. PICK g : upTo(g, k)
      <3> HIDE DEF upTo
      <3> QED  OBVIOUS
    <2>3. PICK m \in Int : m = Len(s) + 1 - k /\ m - 1 = Len(s) + 1 - (k + 1)
      BY <1>1, <2>1
    <2>4. g = [p \in Places(s) |-> g[p]] /\ ParsesBehind(s, g, m)
      BY <2>2, <2>3
    <2> HIDE DEF upTo
    <2>5. RightBehind(s, atoms, g, m)
      BY <2>4, ParsesRight
    <2> DEFINE h == [p \in Places(s) |-> IF p = m THEN Body(s, g, p) ELSE g[p]]
    <2>6. \A p \in Places(s) : m <= p => SameBehind(s, g, h, p)
      <3> SUFFICES ASSUME NEW p \in Places(s), m <= p, NEW q \in Places(s), p < q PROVE g[q] = h[q]
        BY DEF SameBehind
      <3>1. q # m
        BY <1>1
      <3> QED  BY <3>1
    <2>7. \A p \in Places(s) : h[p] = IF p = m THEN Body(s, g, p) ELSE g[p]
      OBVIOUS
    <2>8. h = [p \in Places(s) |-> h[p]]
      OBVIOUS
    <2> HIDE DEF h
    <2>9. ASSUME NEW p \in Places(s), m - 1 < p PROVE h[p] = Body(s, h, p)
      <3>1. m <= p
        BY <1>1, <2>9
      <3>2. RightBehind(s, atoms, g, p)
        <4>1. \A q \in Places(s) : p < q => m < q
          BY <1>1, <3>1
        <4> QED  BY <2>5, <4>1, Zenon DEF RightBehind
      <3>3. SameBehind(s, g, h, p)
        BY <2>6, <3>1
      <3>4. Body(s, g, p) = Body(s, h, p)
        BY <3>2, <3>3, BodyLocal
      <3>5. p = m \/ m < p
        BY <1>1, <3>1
      <3>6. m < p => g[p] = Body(s, g, p) /\ p # m
        BY <1>1, <2>4 DEF ParsesBehind
      <3> QED  BY <2>7, <3>4, <3>5, <3>6, Zenon
    <2>10. ParsesBehind(s, h, m - 1)
      BY <2>9 DEF ParsesBehind
    <2>11. upTo(h, k + 1)
      BY <2>3, <2>8, <2>10, Zenon DEF upTo
    <2> QED  BY <2>1, <2>11
  <1>4. K = Nat
    <2>1. K \in SUBSET Nat
      OBVIOUS
    <2> HIDE DEF K
    <2> QED  BY <1>2, <1>3, <2>1, SetInduction
  <1>5. PICK g : upTo(g, Len(s) + 1)
    <2>1. Len(s) + 1 \in K
      <3> HIDE DEF K
      <3> QED  BY <1>1, <1>4
    <2> HIDE DEF upTo
    <2> QED  BY <2>1
  <1>6. \A p \in Places(s) : Len(s) + 1 - (Len(s) + 1) < p
    BY <1>1
  <1>7. \A p \in Places(s) : g[p] = Body(s, g, p)
    BY <1>5, <1>6, Zenon DEF ParsesBehind
  <1>8. g = [p \in Places(s) |-> g[p]]
    BY <1>5
  <1>9. [p \in Places(s) |-> g[p]] = [p \in Places(s) |-> Body(s, g, p)]
    BY <1>7, Zenon
  <1> QED  BY <1>8, <1>9, Zenon

\* The parser's functions are such parses, and right.
LEMMA ExprsRight ==
    ASSUME NEW s \in Seq(STRING), NEW atoms \in [Spans(s) -> Sets], PredicateAtoms(s, atoms), NEW p \in Places(s)
    PROVE  /\ Exprs(s)[p] = Body(s, Exprs(s), p)
           /\ Right(s, atoms, "and", p, Exprs(s)[p].ands)
           /\ Right(s, atoms, "or", p, Exprs(s)[p].ors)
  <1> DEFINE E == Exprs(s)
  <1>1. \E g : g = [q \in Places(s) |-> Body(s, g, q)]
    BY ExprsExist
  <1>3. E = [q \in Places(s) |-> Body(s, E, q)]
    BY <1>1 DEF Exprs, Places, Body
  <1> HIDE DEF E
  <1>4. \A q \in Places(s) : E[q] = Body(s, E, q)
    BY <1>3, Zenon
  <1>5. ParsesBehind(s, E, 0)
    BY <1>4 DEF ParsesBehind
  <1>6. RightBehind(s, atoms, E, 0)
    BY <1>5, ParsesRight
  <1>7. 0 < p
    BY DEF Places
  <1> QED  BY <1>4, <1>6, <1>7, Zenon DEF RightBehind, E

-----------------------------------------------------------------------------
(***************************************************************************)
(* The phrases behind the words of the clauses, and the clauses.           *)
(***************************************************************************)
ClauseWords == {"by", "where", "over", "step", "order", "limit"}
\* No phrase of a clause goes on at j.
Ended(s, j) == j = Len(s) + 1 \/ s[j] \in ClauseWords

\* A parse from p of what follows the word of a clause.
PhraseRight(word, s, p, r) ==
    /\ InPlace(s, p, r)
    /\ r.ok => DerivesClause(word, s, p, r.pos)
    /\ \A j \in Places(s) : DerivesClause(word, s, p, j) /\ Ended(s, j) => r.ok /\ r.pos = j

\* The words that start a clause end any phrase.
LEMMA EndedThere ==
    ASSUME NEW s \in Seq(STRING), NEW j \in Places(s), Ended(s, j)
    PROVE  NoComma(s, j) /\ EndsAt(s, "or", j) /\ ~At(s, j, "asc") /\ ~At(s, j, "desc")
  <1>1. j \in Nat /\ Len(s) \in Nat /\ (j <= Len(s) => s[j] \in ClauseWords)
    BY DEF Places, Ended
  <1>2. ASSUME NEW word, word # "EOF", word \notin ClauseWords PROVE ~At(s, j, word)
    <2>1. At(s, j, word) <=> j <= Len(s) /\ s[j] = word
      BY <1>2, AtWord
    <2> QED  BY <1>1, <1>2, <2>1
  <1>3. ~At(s, j, "and") /\ ~At(s, j, "or") /\ ~At(s, j, "asc") /\ ~At(s, j, "desc") /\ ~At(s, j, ",")
    BY <1>2 DEF ClauseWords
  <1>4. NoComma(s, j)
    BY <1>3, Zenon DEF NoComma, At
  <1> QED  BY <1>3, <1>4 DEF EndsAt

\* The predicates as atoms that stand for themselves.
Marks(s) == [x \in Spans(s) |-> IF DerivesPredicate(s, x[1], x[2]) THEN {{}} ELSE {}]

\* The atoms with which the grammar asks whether there is a reading.
LEMMA MarksRight ==
    ASSUME NEW s \in Seq(STRING)
    PROVE  /\ Marks(s) \in [Spans(s) -> Sets] /\ PredicateAtoms(s, Marks(s))
           /\ \A i, j : DerivesExpr(s, i, j) <=> Reading(s, Marks(s), "or", i, j)
  <1>1. {{}} \in Sets /\ {} \in Sets
    BY DEF Sets
  <1>2. Marks(s) \in [Spans(s) -> Sets]
    BY <1>1 DEF Marks
  <1>3. ASSUME NEW i \in Places(s), NEW j \in Places(s)
        PROVE  Marks(s)[<<i, j>>] # {} <=> DerivesPredicate(s, i, j)
    <2>1. <<i, j>> \in Spans(s) /\ <<i, j>>[1] = i /\ <<i, j>>[2] = j
      BY DEF Spans
    <2>2. Marks(s)[<<i, j>>] = IF DerivesPredicate(s, <<i, j>>[1], <<i, j>>[2]) THEN {{}} ELSE {}
      BY <2>1, Zenon DEF Marks
    <2>3. Marks(s)[<<i, j>>] = IF DerivesPredicate(s, i, j) THEN {{}} ELSE {}
      BY <2>1, <2>2
    <2> QED  BY <2>3
  <1>4. \A i, j : DerivesExpr(s, i, j) <=> Reading(s, Marks(s), "or", i, j)
    BY Zenon DEF DerivesExpr, Reading, Reads, Marks
  <1> QED  BY <1>2, <1>3, <1>4 DEF PredicateAtoms

\* parseExpr reads the phrase of where, and every one.
LEMMA WherePhrase ==
    ASSUME NEW s \in Seq(STRING), NEW p \in Places(s)
    PROVE  PhraseRight("where", s, p, parseExpr(s, p))
  <1> DEFINE r == parseExpr(s, p)
             o == Exprs(s)[p].ors
  <1>1. Right(s, Marks(s), "or", p, o)
    BY MarksRight, ExprsRight
  <1>2. r = Joined("or", o)
    BY DEF parseExpr
  <1> HIDE DEF r, o
  <1>3. r.ok = o.ok /\ r.pos = o.pos
    BY <1>1, <1>2, JoinedEnd DEF Right, InPlace
  <1>4. /\ InPlace(s, p, r)
        /\ r.ok => Reading(s, Marks(s), "or", p, r.pos)
        /\ \A j \in Places(s) : Reading(s, Marks(s), "or", p, j) /\ EndsAt(s, "or", j) => r.ok /\ r.pos = j
    BY <1>1, <1>3, Zenon DEF Right, InPlace
  <1>5. \A i, j : DerivesClause("where", s, i, j) <=> Reading(s, Marks(s), "or", i, j)
    BY MarksRight DEF DerivesClause
  <1>6. \A j \in Places(s) : Ended(s, j) => EndsAt(s, "or", j)
    BY EndedThere
  <1> QED  BY <1>4, <1>5, <1>6, Zenon DEF PhraseRight, r

\* parseGroupBy reads the phrase of by, and every one.
LEMMA ByPhrase ==
    ASSUME NEW s \in Seq(STRING), NEW p \in Places(s)
    PROVE  PhraseRight("by", s, p, parseGroupBy(s, p))
  <1> DEFINE r == parseGroupBy(s, p)
  <1>1. r = Items({"ident"}, s, p) /\ Tells({"ident"}, Idents)
    BY Kinds DEF parseGroupBy
  <1>2. \A i, j : DerivesClause("by", s, i, j) <=> AllOf(s, i, j, Idents)
    BY DEF DerivesClause
  <1>3. /\ InPlace(s, p, r)
        /\ r.ok => \E n \in 1 .. Len(s) : ItemsRead(s, p, n, Idents, r)
    BY <1>1, ItemsSound
  <1>4. r.ok => AllOf(s, p, r.pos, Idents)
    BY <1>3, Zenon DEF ItemsRead, AllOf
  <1>5. ASSUME NEW j \in Places(s), AllOf(s, p, j, Idents), Ended(s, j) PROVE r.ok /\ r.pos = j
    <2>1. NoComma(s, j)
      BY <1>5, EndedThere
    <2> QED  BY <1>1, <1>5, <2>1, ItemsComplete
  <1> HIDE DEF r
  <1> QED  BY <1>2, <1>3, <1>4, <1>5, Zenon DEF PhraseRight, r

\* A duration that parseDurationToken takes.
Lasts(d) == d \notin AtoiFails /\ Durations[d] > 0

\* parseDurationToken reads the phrase of over and of step, and every one.
LEMMA DurationPhrase ==
    ASSUME NEW s \in Seq(STRING), NEW p \in Places(s), NEW word \in {"over", "step"}
    PROVE  PhraseRight(word, s, p, parseDurationToken(s, p))
  <1> DEFINE r == parseDurationToken(s, p)
             d == expect(s, p, {"duration"})
  <1>1. p \in Nat /\ 1 <= p /\ Len(s) \in Nat /\ p <= Len(s) + 1 /\ p <= p /\ p <= p + 1
    BY DEF Places
  <1>2. \A j : DerivesClause(word, s, p, j) <=> j = p + 1 /\ s[p] \in DOMAIN Durations /\ Lasts(s[p])
    BY DEF DerivesClause, Lasts
  <1>3. d = IF p <= Len(s) /\ s[p] \in DOMAIN Durations THEN Parsed(p + 1, s[p]) ELSE ParseError(p)
    BY <1>1, Kinds, Expect
  <1>4. r = IF ~d.ok THEN d ELSE IF Lasts(d.ast) THEN Parsed(d.pos, Durations[d.ast]) ELSE ParseError(p)
    BY Zenon DEF parseDurationToken, Then, Lasts
  <1> HIDE DEF r, d
  <1>5. CASE p <= Len(s) /\ s[p] \in DOMAIN Durations /\ Lasts(s[p])
    <2>1. d = Parsed(p + 1, s[p])
      BY <1>3, <1>5
    <2>2. d.ok = TRUE /\ d.pos = p + 1 /\ d.ast = s[p]
      BY <2>1 DEF Parsed
    <2>3. r = Parsed(p + 1, Durations[s[p]])
      BY <1>4, <1>5, <2>2
    <2>4. r.ok = TRUE /\ r.pos = p + 1
      BY <2>3 DEF Parsed
    <2>5. p + 1 \in Places(s)
      BY <1>1, <1>5 DEF Places
    <2> QED  BY <1>1, <1>2, <1>5, <2>4, <2>5, Zenon DEF PhraseRight, InPlace, r
  <1>6. CASE ~(p <= Len(s) /\ s[p] \in DOMAIN Durations /\ Lasts(s[p]))
    <2>1. r = ParseError(p)
      <3>1. CASE p <= Len(s) /\ s[p] \in DOMAIN Durations
        <4>1. d = Parsed(p + 1, s[p])
          BY <1>3, <3>1
        <4>2. d.ok = TRUE /\ d.ast = s[p]
          BY <4>1 DEF Parsed
        <4> QED  BY <1>4, <1>6, <3>1, <4>2
      <3>2. CASE ~(p <= Len(s) /\ s[p] \in DOMAIN Durations)
        <4>1. d = ParseError(p) /\ d.ok = FALSE
          BY <1>3, <3>2, Results
        <4> QED  BY <1>4, <4>1
      <3> QED  BY <3>1, <3>2
    <2>2. r.ok = FALSE /\ r.pos = p
      BY <2>1, Results
    <2>3. \A j \in Places(s) : ~DerivesClause(word, s, p, j)
      <3>1. \A j \in Places(s) : j = p + 1 => p <= Len(s)
        BY <1>1 DEF Places
      <3> QED  BY <1>2, <1>6, <3>1
    <2> QED  BY <1>1, <2>2, <2>3, Zenon DEF PhraseRight, InPlace, r
  <1> QED  BY <1>5, <1>6

\* parseQuery reads the phrase of limit, and every one.
LEMMA LimitPhrase ==
    ASSUME NEW s \in Seq(STRING), NEW p \in Places(s)
    PROVE  PhraseRight("limit", s, p, parseLimit(s, p))
  <1> DEFINE r == parseLimit(s, p)
             d == expect(s, p, {"int"})
  <1>1. p \in Nat /\ 1 <= p /\ Len(s) \in Nat /\ p <= Len(s) + 1 /\ p <= p /\ p <= p + 1
    BY DEF Places
  <1>2. \A j : DerivesClause("limit", s, p, j) <=> j = p + 1 /\ s[p] \in Ints \ AtoiFails
    BY DEF DerivesClause
  <1>3. d = IF p <= Len(s) /\ s[p] \in Ints THEN Parsed(p + 1, s[p]) ELSE ParseError(p)
    BY <1>1, Kinds, Expect
  <1>4. r = IF ~d.ok THEN d ELSE IF d.ast \notin AtoiFails THEN Parsed(d.pos, Numbers[d.ast]) ELSE ParseError(p)
    BY Zenon DEF parseLimit, Then
  <1> HIDE DEF r, d
  <1>5. CASE p <= Len(s) /\ s[p] \in Ints \ AtoiFails
    <2>1. d = Parsed(p + 1, s[p])
      BY <1>3, <1>5
    <2>2. d.ok = TRUE /\ d.pos = p + 1 /\ d.ast = s[p]
      BY <2>1 DEF Parsed
    <2>3. r = Parsed(p + 1, Numbers[s[p]])
      BY <1>4, <1>5, <2>2
    <2>4. r.ok = TRUE /\ r.pos = p + 1
      BY <2>3 DEF Parsed
    <2>5. p + 1 \in Places(s)
      BY <1>1, <1>5 DEF Places
    <2> QED  BY <1>1, <1>2, <1>5, <2>4, <2>5, Zenon DEF PhraseRight, InPlace, r
  <1>6. CASE ~(p <= Len(s) /\ s[p] \in Ints \ AtoiFails)
    <2>1. r = ParseError(p)
      <3>1. CASE p <= Len(s) /\ s[p] \in Ints
        <4>1. d = Parsed(p + 1, s[p])
          BY <1>3, <3>1
        <4>2. d.ok = TRUE /\ d.ast = s[p]
          BY <4>1 DEF Parsed
        <4> QED  BY <1>4, <1>6, <3>1, <4>2
      <3>2. CASE ~(p <= Len(s) /\ s[p] \in Ints)
        <4>1. d = ParseError(p) /\ d.ok = FALSE
          BY <1>3, <3>2, Results
        <4> QED  BY <1>4, <4>1
      <3> QED  BY <3>1, <3>2
    <2>2. r.ok = FALSE /\ r.pos = p
      BY <2>1, Results
    <2>3. \A j \in Places(s) : ~DerivesClause("limit", s, p, j)
      <3>1. \A j \in Places(s) : j = p + 1 => p <= Len(s)
        BY <1>1 DEF Places
      <3> QED  BY <1>2, <1>6, <3>1
    <2> QED  BY <1>1, <2>2, <2>3, Zenon DEF PhraseRight, InPlace, r
  <1> QED  BY <1>5, <1>6

\* parseOrderBy reads the phrase of order, and every one.
LEMMA OrderPhrase ==
    ASSUME NEW s \in Seq(STRING), NEW p \in Places(s)
    PROVE  PhraseRight("order", s, p, parseOrderBy(s, p))
  <1> DEFINE r == parseOrderBy(s, p)
             id == Ident(s, p + 1)
  <1>1. p \in Nat /\ 1 <= p /\ Len(s) \in Nat /\ p <= Len(s) + 1 /\ p <= p /\ p <= p + 1 /\ p <= p + 2 /\ p <= p + 3
        /\ p + 1 + 1 = p + 2 /\ p + 2 + 1 = p + 3 /\ p + 1 \in Nat /\ 1 <= p + 1
    BY DEF Places
  <1>2. \A j : DerivesClause("order", s, p, j) <=>
               \/ j = p + 2 /\ s[p] = "by" /\ s[p + 1] \in Idents
               \/ j = p + 3 /\ s[p] = "by" /\ s[p + 1] \in Idents /\ s[p + 2] \in {"asc", "desc"}
    BY DEF DerivesClause
  <1>3. id = IF p + 1 <= Len(s) /\ s[p + 1] \in Idents THEN Parsed(p + 1 + 1, s[p + 1]) ELSE ParseError(p + 1)
    BY <1>1, Kinds, Expect DEF Ident
  <1>4. r = IF ~At(s, p, "by") THEN ParseError(p)
            ELSE IF ~id.ok THEN id
            ELSE IF At(s, id.pos, "asc") \/ At(s, id.pos, "desc")
                   THEN Parsed(id.pos + 1, [field |-> id.ast, direction |-> s[id.pos]])
                   ELSE Parsed(id.pos, [field |-> id.ast, direction |-> "asc"])
    <2>1. \A q : peek(s, q) \in {"asc", "desc"} <=> At(s, q, "asc") \/ At(s, q, "desc")
      BY Zenon DEF At
    <2> QED  BY <2>1, Zenon DEF parseOrderBy, Then, At
  <1>5. At(s, p, "by") <=> p <= Len(s) /\ s[p] = "by"
    BY AtWord
  <1> HIDE DEF r, id
  <1>6. CASE ~At(s, p, "by")
    <2>1. r.ok = FALSE /\ r.pos = p
      BY <1>4, <1>6, Results
    <2>2. \A j \in Places(s) : ~DerivesClause("order", s, p, j)
      <3>1. \A j \in Places(s) : j = p + 2 \/ j = p + 3 => p <= Len(s)
        BY <1>1 DEF Places
      <3> QED  BY <1>2, <1>5, <1>6, <3>1
    <2> QED  BY <1>1, <2>1, <2>2, Zenon DEF PhraseRight, InPlace, r
  <1>7. CASE At(s, p, "by") /\ ~(p + 1 <= Len(s) /\ s[p + 1] \in Idents)
    <2>1. id = ParseError(p + 1) /\ id.ok = FALSE
      BY <1>3, <1>7, Results
    <2>2. r = ParseError(p + 1)
      BY <1>4, <1>7, <2>1
    <2>3. r.ok = FALSE /\ r.pos = p + 1
      BY <2>2, Results
    <2>4. p + 1 \in Places(s)
      BY <1>1, <1>5, <1>7 DEF Places
    <2>5. \A j \in Places(s) : ~DerivesClause("order", s, p, j)
      <3>1. \A j \in Places(s) : j = p + 2 \/ j = p + 3 => p + 1 <= Len(s)
        BY <1>1 DEF Places
      <3> QED  BY <1>2, <1>7, <3>1
    <2> QED  BY <1>1, <2>3, <2>4, <2>5, Zenon DEF PhraseRight, InPlace, r
  <1>8. CASE At(s, p, "by") /\ p + 1 <= Len(s) /\ s[p + 1] \in Idents
    <2>1. id = Parsed(p + 2, s[p + 1])
      BY <1>1, <1>3, <1>8
    <2>2. id.ok = TRUE /\ id.pos = p + 2 /\ id.ast = s[p + 1]
      BY <2>1 DEF Parsed
    <2>3. p + 2 \in Places(s) /\ s[p] = "by"
      BY <1>1, <1>5, <1>8 DEF Places
    <2>4. /\ At(s, p + 2, "asc") <=> p + 2 <= Len(s) /\ s[p + 2] = "asc"
          /\ At(s, p + 2, "desc") <=> p + 2 <= Len(s) /\ s[p + 2] = "desc"
      BY <2>3, AtWord
    <2>5. CASE At(s, p + 2, "asc") \/ At(s, p + 2, "desc")
      <3>1. r = Parsed(p + 3, [field |-> id.ast, direction |-> s[id.pos]])
        BY <1>1, <1>4, <1>8, <2>2, <2>5
      <3>2. r.ok = TRUE /\ r.pos = p + 3
        BY <3>1 DEF Parsed
      <3>3. p + 3 \in Places(s) /\ s[p + 2] \in {"asc", "desc"}
        BY <1>1, <2>4, <2>5 DEF Places
      <3>4. ~Ended(s, p + 2)
        BY <2>3, <2>5, EndedThere
      <3> QED  BY <1>1, <1>2, <1>8, <2>3, <3>2, <3>3, <3>4, Zenon DEF PhraseRight, InPlace, r
    <2>6. CASE ~(At(s, p + 2, "asc") \/ At(s, p + 2, "desc"))
      <3>1. r = Parsed(p + 2, [field |-> id.ast, direction |-> "asc"])
        BY <1>4, <1>8, <2>2, <2>6
      <3>2. r.ok = TRUE /\ r.pos = p + 2
        BY <3>1 DEF Parsed
      <3>3. \A j \in Places(s) : j = p + 3 => p + 2 <= Len(s)
        BY <1>1 DEF Places
      <3>4. \A j \in Places(s) : DerivesClause("order", s, p, j) => j = p + 2
        BY <1>2, <2>4, <2>6, <3>3
      <3> QED  BY <1>1, <1>2, <1>8, <2>3, <3>2, <3>4, Zenon DEF PhraseRight, InPlace, r
    <2> QED  BY <2>5, <2>6
  <1> QED  BY <1>6, <1>7, <1>8

PhraseOf(word, s, p) ==
    IF word = "by" THEN parseGroupBy(s, p)
    ELSE IF word = "where" THEN parseExpr(s, p)
    ELSE IF word \in {"over", "step"} THEN parseDurationToken(s, p)
    ELSE IF word = "order" THEN parseOrderBy(s, p)
    ELSE parseLimit(s, p)
ClauseOf(word, s, p) ==
    IF ~At(s, p, word) THEN Parsed(p, <<>>)
    ELSE Given(PhraseOf(word, s, p + 1))
\* The clause of the word is what is between p and q: nothing, or the word and its phrase.
IsClause(word, s, p, q) == q = p \/ (p < q /\ s[p] = word /\ DerivesClause(word, s, p + 1, q))
\* At p is the end, or one of the words.
Rest(s, p, W) == p = Len(s) + 1 \/ (p \in 1 .. Len(s) /\ s[p] \in W)

Off(s, p, word) == peek(s, p) # word

\* The clauses that parseQuery reads, by their words.
LEMMA ClausesOf ==
    ASSUME NEW s, NEW p
    PROVE  /\ Clause(s, p, "by", parseGroupBy) = ClauseOf("by", s, p)
           /\ Clause(s, p, "where", parseExpr) = ClauseOf("where", s, p)
           /\ Clause(s, p, "over", parseDurationToken) = ClauseOf("over", s, p)
           /\ Clause(s, p, "step", parseDurationToken) = ClauseOf("step", s, p)
           /\ Clause(s, p, "order", parseOrderBy) = ClauseOf("order", s, p)
           /\ Clause(s, p, "limit", parseLimit) = ClauseOf("limit", s, p)
  <1>0. \A word : Off(s, p, word) <=> ~At(s, p, word)
    BY Zenon DEF Off, At
  <1>1. Clause(s, p, "by", parseGroupBy) = ClauseOf("by", s, p)
    <2>1. PhraseOf("by", s, p + 1) = parseGroupBy(s, p + 1)
      BY DEF PhraseOf
    <2>2. Clause(s, p, "by", parseGroupBy) =
            IF Off(s, p, "by") THEN Parsed(p, <<>>) ELSE Given(parseGroupBy(s, p + 1))
      BY Zenon DEF Clause, Off
    <2> QED  BY <1>0, <2>1, <2>2 DEF ClauseOf
  <1>2. Clause(s, p, "where", parseExpr) = ClauseOf("where", s, p)
    <2>1. PhraseOf("where", s, p + 1) = parseExpr(s, p + 1)
      BY DEF PhraseOf
    <2>2. Clause(s, p, "where", parseExpr) =
            IF Off(s, p, "where") THEN Parsed(p, <<>>) ELSE Given(parseExpr(s, p + 1))
      BY Zenon DEF Clause, Off
    <2> QED  BY <1>0, <2>1, <2>2 DEF ClauseOf
  <1>3. Clause(s, p, "over", parseDurationToken) = ClauseOf("over", s, p)
    <2>1. PhraseOf("over", s, p + 1) = parseDurationToken(s, p + 1)
      BY DEF PhraseOf
    <2>2. Clause(s, p, "over", parseDurationToken) =
            IF Off(s, p, "over") THEN Parsed(p, <<>>) ELSE Given(parseDurationToken(s, p + 1))
      BY Zenon DEF Clause, Off
    <2> QED  BY <1>0, <2>1, <2>2 DEF ClauseOf
  <1>4. Clause(s, p, "step", parseDurationToken) = ClauseOf("step", s, p)
    <2>1. PhraseOf("step", s, p + 1) = parseDurationToken(s, p + 1)
      BY DEF PhraseOf
    <2>2. Clause(s, p, "step", parseDurationToken) =
            IF Off(s, p, "step") THEN Parsed(p, <<>>) ELSE Given(parseDurationToken(s, p + 1))
      BY Zenon DEF Clause, Off
    <2> QED  BY <1>0, <2>1, <2>2 DEF ClauseOf
  <1>5. Clause(s, p, "order", parseOrderBy) = ClauseOf("order", s, p)
    <2>1. PhraseOf("order", s, p + 1) = parseOrderBy(s, p + 1)
      BY DEF PhraseOf
    <2>2. Clause(s, p, "order", parseOrderBy) =
            IF Off(s, p, "order") THEN Parsed(p, <<>>) ELSE Given(parseOrderBy(s, p + 1))
      BY Zenon DEF Clause, Off
    <2> QED  BY <1>0, <2>1, <2>2 DEF ClauseOf
  <1>6. Clause(s, p, "limit", parseLimit) = ClauseOf("limit", s, p)
    <2>1. PhraseOf("limit", s, p + 1) = parseLimit(s, p + 1)
      BY DEF PhraseOf
    <2>2. Clause(s, p, "limit", parseLimit) =
            IF Off(s, p, "limit") THEN Parsed(p, <<>>) ELSE Given(parseLimit(s, p + 1))
      BY Zenon DEF Clause, Off
    <2> QED  BY <1>0, <2>1, <2>2 DEF ClauseOf
  <1> QED  BY <1>1, <1>2, <1>3, <1>4, <1>5, <1>6

\* Every phrase is read, whatever its word.
LEMMA PhrasesRight ==
    ASSUME NEW s \in Seq(STRING), NEW p \in Places(s), NEW word \in ClauseWords
    PROVE  PhraseRight(word, s, p, PhraseOf(word, s, p))
  <1>1. CASE word = "by"
    BY <1>1, ByPhrase DEF PhraseOf
  <1>2. CASE word = "where"
    BY <1>2, WherePhrase DEF PhraseOf
  <1>3. CASE word \in {"over", "step"}
    BY <1>3, DurationPhrase DEF PhraseOf
  <1>4. CASE word = "order"
    BY <1>4, OrderPhrase DEF PhraseOf
  <1>5. CASE word = "limit"
    BY <1>5, LimitPhrase DEF PhraseOf
  <1> QED  BY <1>1, <1>2, <1>3, <1>4, <1>5 DEF ClauseWords

\* A clause that is parsed is one.
LEMMA ClauseSound ==
    ASSUME NEW s \in Seq(STRING), NEW p \in Places(s), NEW word \in ClauseWords
    PROVE  /\ InPlace(s, p, ClauseOf(word, s, p))
           /\ ClauseOf(word, s, p).ok => IsClause(word, s, p, ClauseOf(word, s, p).pos)
  <1> DEFINE r == ClauseOf(word, s, p)
             f == PhraseOf(word, s, p + 1)
  <1>1. p \in Nat /\ 1 <= p /\ Len(s) \in Nat /\ p <= Len(s) + 1 /\ p <= p
    BY DEF Places
  <1>2. r = IF ~At(s, p, word) THEN Parsed(p, <<>>) ELSE IF ~f.ok THEN f ELSE Parsed(f.pos, <<f.ast>>)
    BY DEF ClauseOf, Given
  <1>3. At(s, p, word) <=> p <= Len(s) /\ s[p] = word
    BY AtWord DEF ClauseWords
  <1> HIDE DEF r
  <1>4. CASE ~At(s, p, word)
    <2>1. r = Parsed(p, <<>>)
      BY <1>2, <1>4
    <2>2. r.ok = TRUE /\ r.pos = p
      BY <2>1 DEF Parsed
    <2> QED  BY <1>1, <2>2, Zenon DEF InPlace, IsClause, r
  <1>5. CASE At(s, p, word)
    <2>1. p + 1 \in Places(s) /\ s[p] = word
      BY <1>1, <1>3, <1>5 DEF Places
    <2>2. PhraseRight(word, s, p + 1, f)
      BY <2>1, PhrasesRight
    <2> HIDE DEF f
    <2>3. p < f.pos /\ p <= f.pos
      BY <1>1, <2>2 DEF PhraseRight, InPlace, Places
    <2>4. CASE ~f.ok
      <3>1. r = f
        BY <1>2, <1>5, <2>4
      <3> QED  BY <2>2, <2>3, <2>4, <3>1, Zenon DEF PhraseRight, InPlace, r
    <2>5. CASE f.ok
      <3>1. r = Parsed(f.pos, <<f.ast>>)
        BY <1>2, <1>5, <2>5
      <3>2. r.ok = TRUE /\ r.pos = f.pos
        BY <3>1 DEF Parsed
      <3> QED  BY <2>1, <2>2, <2>3, <2>5, <3>2, Zenon DEF PhraseRight, InPlace, IsClause, r
    <2> QED  BY <2>4, <2>5
  <1> QED  BY <1>4, <1>5

\* A clause behind which a later one or the end comes is parsed, and to its end.
LEMMA ClauseComplete ==
    ASSUME NEW s \in Seq(STRING), NEW p \in Places(s), NEW q \in Places(s), NEW word \in ClauseWords,
           IsClause(word, s, p, q), NEW W \in SUBSET ClauseWords, Rest(s, q, W), word \notin W
    PROVE  /\ ClauseOf(word, s, p).ok /\ ClauseOf(word, s, p).pos = q
           /\ Rest(s, p, W \cup {word})
  <1> DEFINE r == ClauseOf(word, s, p)
             f == PhraseOf(word, s, p + 1)
  <1>1. p \in Nat /\ 1 <= p /\ Len(s) \in Nat /\ p <= Len(s) + 1 /\ q \in Nat /\ q <= Len(s) + 1
    BY DEF Places
  <1>2. r = IF ~At(s, p, word) THEN Parsed(p, <<>>) ELSE IF ~f.ok THEN f ELSE Parsed(f.pos, <<f.ast>>)
    BY DEF ClauseOf, Given
  <1>3. At(s, p, word) <=> p <= Len(s) /\ s[p] = word
    BY AtWord DEF ClauseWords
  <1> HIDE DEF r
  <1>4. CASE q = p
    <2>1. ~At(s, p, word)
      BY <1>1, <1>3, <1>4 DEF Rest
    <2>2. r = Parsed(p, <<>>)
      BY <1>2, <2>1
    <2>3. r.ok = TRUE /\ r.pos = p
      BY <2>2 DEF Parsed
    <2> QED  BY <1>4, <2>3 DEF r, Rest
  <1>5. CASE p < q /\ s[p] = word /\ DerivesClause(word, s, p + 1, q)
    <2>1. p + 1 \in Places(s) /\ p \in 1 .. Len(s)
      BY <1>1, <1>5 DEF Places
    <2>2. PhraseRight(word, s, p + 1, f)
      BY <2>1, PhrasesRight
    <2>3. Ended(s, q)
      BY DEF Ended, Rest
    <2> HIDE DEF f
    <2>4. f.ok /\ f.pos = q
      BY <1>5, <2>2, <2>3, Zenon DEF PhraseRight
    <2>5. At(s, p, word)
      BY <1>1, <1>3, <1>5, <2>1
    <2>6. r = Parsed(q, <<f.ast>>)
      BY <1>2, <2>4, <2>5
    <2>7. r.ok = TRUE /\ r.pos = q
      BY <2>6 DEF Parsed
    <2> QED  BY <1>5, <2>1, <2>7 DEF r, Rest
  <1> QED  BY <1>4, <1>5 DEF IsClause

-----------------------------------------------------------------------------
(***************************************************************************)
(* Queries: a derivation is six clauses, and the parser takes them all.    *)
(***************************************************************************)
\* Where the clauses of a query end in the parser.
M(s) == Ident(s, 1)
G(s) == Clause(s, M(s).pos, "by", parseGroupBy)
F(s) == Clause(s, G(s).pos, "where", parseExpr)
O(s) == Clause(s, F(s).pos, "over", parseDurationToken)
T(s) == Clause(s, O(s).pos, "step", parseDurationToken)
B(s) == Clause(s, T(s).pos, "order", parseOrderBy)
L(s) == Clause(s, B(s).pos, "limit", parseLimit)
QueryAst(s) ==
    [metric |-> M(s).ast, groupBy |-> IF G(s).ast = <<>> THEN <<>> ELSE G(s).ast[1], filter |-> F(s).ast,
     over |-> O(s).ast, step |-> T(s).ast, orderBy |-> B(s).ast, limit |-> L(s).ast]

\* parseQuery, clause by clause.
LEMMA QueryUnfold ==
    ASSUME NEW s
    PROVE  parseQuery(s) =
             IF M(s).ok THEN IF G(s).ok THEN IF F(s).ok THEN IF O(s).ok THEN IF T(s).ok THEN IF B(s).ok
             THEN IF L(s).ok THEN Parsed(L(s).pos, QueryAst(s)) ELSE L(s) ELSE B(s) ELSE T(s) ELSE O(s) ELSE F(s) ELSE G(s) ELSE M(s)
  BY Zenon DEF parseQuery, Then, M, G, F, O, T, B, L, QueryAst

\* Parse, and what it refuses behind the query.
LEMMA ParseUnfold ==
    ASSUME NEW s
    PROVE  Parse(s) = IF parseQuery(s).ok
                        THEN IF parseQuery(s).pos <= Len(s) THEN ParseError(parseQuery(s).pos) ELSE parseQuery(s)
                        ELSE parseQuery(s)
  BY Zenon DEF Parse, Then

Parts(s, p, q1, q2, q3, q4, q5, q) ==
    /\ IsClause("by", s, p, q1) /\ IsClause("where", s, q1, q2) /\ IsClause("over", s, q2, q3)
    /\ IsClause("step", s, q3, q4) /\ IsClause("order", s, q4, q5) /\ IsClause("limit", s, q5, q)
Cut(s, q1, q2, q3, q4, q5) == <<2, q1, q2, q3, q4, q5, Len(s) + 1>>

\* The words of the clauses.
LEMMA ClauseNames ==
    /\ Clauses[1] = "by" /\ Clauses[2] = "where" /\ Clauses[3] = "over" /\ Clauses[4] = "step"
    /\ Clauses[5] = "order" /\ Clauses[6] = "limit" /\ ToSet(Clauses) = ClauseWords
    /\ DOMAIN Clauses = 1 .. 6
  BY DEF Clauses, ToSet, ClauseWords

\* A cut that the grammar derives is six clauses, each ending where the next begins.
LEMMA CutIsParts ==
    ASSUME NEW s, NEW q1, NEW q2, NEW q3, NEW q4, NEW q5, NEW c, c = Cut(s, q1, q2, q3, q4, q5)
    PROVE  (\A k \in 1 .. 6 : \/ c[k + 1] = c[k]
                              \/ c[k] < c[k + 1] /\ s[c[k]] = Clauses[k] /\ DerivesClause(Clauses[k], s, c[k] + 1, c[k + 1]))
             <=> Parts(s, 2, q1, q2, q3, q4, q5, Len(s) + 1)
  <1>1. c[1] = 2 /\ c[2] = q1 /\ c[3] = q2 /\ c[4] = q3 /\ c[5] = q4 /\ c[6] = q5 /\ c[7] = Len(s) + 1
    BY DEF Cut
  <1>2. \A k \in 1 .. 6 : k = 1 \/ k = 2 \/ k = 3 \/ k = 4 \/ k = 5 \/ k = 6
    OBVIOUS
  <1>3. 1 + 1 = 2 /\ 2 + 1 = 3 /\ 3 + 1 = 4 /\ 4 + 1 = 5 /\ 5 + 1 = 6 /\ 6 + 1 = 7
        /\ 1 \in 1 .. 6 /\ 2 \in 1 .. 6 /\ 3 \in 1 .. 6 /\ 4 \in 1 .. 6 /\ 5 \in 1 .. 6 /\ 6 \in 1 .. 6
    OBVIOUS
  <1> DEFINE P(k) == IsClause(Clauses[k], s, c[k], c[k + 1])
  <1>4. (\A k \in 1 .. 6 : P(k)) <=> P(1) /\ P(2) /\ P(3) /\ P(4) /\ P(5) /\ P(6)
    <2> HIDE DEF P
    <2> QED  BY <1>2, <1>3, Zenon
  <1>5. /\ P(1) <=> IsClause("by", s, 2, q1)
        /\ P(2) <=> IsClause("where", s, q1, q2)
        /\ P(3) <=> IsClause("over", s, q2, q3)
    BY <1>1, <1>3, ClauseNames, Zenon
  <1>6. /\ P(4) <=> IsClause("step", s, q3, q4)
        /\ P(5) <=> IsClause("order", s, q4, q5)
        /\ P(6) <=> IsClause("limit", s, q5, Len(s) + 1)
    BY <1>1, <1>3, ClauseNames, Zenon
  <1>7. (\A k \in 1 .. 6 : P(k)) <=> Parts(s, 2, q1, q2, q3, q4, q5, Len(s) + 1)
    <2> HIDE DEF P
    <2> QED  BY <1>4, <1>5, <1>6, Zenon DEF Parts
  <1> QED  BY <1>7, Zenon DEF IsClause

CutPlaces(s) == {2, Len(s) + 1} \cup {i \in DOMAIN s : s[i] \in ToSet(Clauses)}
Tuples(s) ==
    {<<2, by, where, over, step, order, Len(s) + 1>> : by, where, over, step, order \in CutPlaces(s)}
Follows(s, c) == \A k \in 1 .. 6 : c[k + 1] = c[k] \/ (c[k] < c[k + 1] /\ s[c[k]] = Clauses[k])
Derives(s, c) == \A k \in 1 .. 6 : c[k] < c[k + 1] => DerivesClause(Clauses[k], s, c[k] + 1, c[k + 1])

\* Cuts and derivations, by the names of their parts.
LEMMA CutsAre ==
    ASSUME NEW s
    PROVE  /\ Cuts(s) = {c \in Tuples(s) : Follows(s, c)}
           /\ Derivations(s) = IF s = <<>> \/ s[1] \notin Idents THEN {} ELSE {c \in Cuts(s) : Derives(s, c)}
  <1>1. Cuts(s) = {c \in Tuples(s) : Follows(s, c)}
    BY DEF Cuts, Tuples, CutPlaces, Follows
  <1>2. Derivations(s) = IF s = <<>> \/ s[1] \notin Idents THEN {} ELSE {c \in Cuts(s) : Derives(s, c)}
    BY Zenon DEF Derivations, Derives
  <1> QED  BY <1>1, <1>2

\* A cut is given by its five inner places.
LEMMA TuplesAre ==
    ASSUME NEW s, NEW c
    PROVE  c \in Tuples(s) <=> \E q1, q2, q3, q4, q5 \in CutPlaces(s) : c = Cut(s, q1, q2, q3, q4, q5)
  BY DEF Tuples, Cut

\* A derivation is six clauses.
LEMMA DerivationParts ==
    ASSUME NEW s \in Seq(STRING), NEW c \in Derivations(s)
    PROVE  /\ s # <<>> /\ s[1] \in Idents /\ 2 \in Places(s) /\ Len(s) + 1 \in Places(s)
           /\ \E q1, q2, q3, q4, q5 \in Places(s) :
                c = Cut(s, q1, q2, q3, q4, q5) /\ Parts(s, 2, q1, q2, q3, q4, q5, Len(s) + 1)
  <1>1. s # <<>> /\ s[1] \in Idents
    BY DEF Derivations
  <1>2. 2 \in Places(s) /\ Len(s) + 1 \in Places(s)
    BY <1>1 DEF Places
  <1>3. CutPlaces(s) \subseteq Places(s)
    BY <1>2 DEF CutPlaces, Places
  <1>4. c \in Tuples(s) /\ Follows(s, c) /\ Derives(s, c)
    BY <1>1, CutsAre
  <1>5. PICK q1, q2, q3, q4, q5 \in CutPlaces(s) : c = Cut(s, q1, q2, q3, q4, q5)
    BY <1>4, TuplesAre
  <1>6. \A k \in 1 .. 6 : \/ c[k + 1] = c[k]
                          \/ c[k] < c[k + 1] /\ s[c[k]] = Clauses[k] /\ DerivesClause(Clauses[k], s, c[k] + 1, c[k + 1])
    BY <1>4, Zenon DEF Follows, Derives
  <1>7. Parts(s, 2, q1, q2, q3, q4, q5, Len(s) + 1)
    BY <1>5, <1>6, CutIsParts
  <1> QED  BY <1>1, <1>2, <1>3, <1>5, <1>7, Zenon

\* Six clauses are a derivation.
LEMMA PartsDerivation ==
    ASSUME NEW s \in Seq(STRING), s # <<>>, s[1] \in Idents,
           NEW q1 \in Places(s), NEW q2 \in Places(s), NEW q3 \in Places(s), NEW q4 \in Places(s), NEW q5 \in Places(s),
           Parts(s, 2, q1, q2, q3, q4, q5, Len(s) + 1)
    PROVE  Cut(s, q1, q2, q3, q4, q5) \in Derivations(s)
  <1> DEFINE places == CutPlaces(s)
             c == Cut(s, q1, q2, q3, q4, q5)
  <1>1. Len(s) \in Nat /\ \A p \in Places(s) : p \in Nat /\ 1 <= p /\ p <= Len(s) + 1
    BY DEF Places
  <1>2. ASSUME NEW p \in Places(s), NEW q \in places, q <= Len(s) + 1, NEW word \in ClauseWords, IsClause(word, s, p, q)
        PROVE  p \in places
    <2>1. CASE q = p
      BY <2>1
    <2>2. CASE p < q /\ s[p] = word
      <3>0. q \in Int
        BY <1>1 DEF CutPlaces
      <3>1. p \in DOMAIN s
        BY <1>1, <1>2, <2>2, <3>0
      <3> QED  BY <1>2, <2>2, <3>1, ClauseNames DEF CutPlaces
    <2> QED  BY <1>2, <2>1, <2>2 DEF IsClause
  <1>3. Len(s) + 1 \in places /\ 2 \in places /\ Len(s) + 1 <= Len(s) + 1
    BY <1>1 DEF CutPlaces
  <1> HIDE DEF places
  <1>4. q5 \in places
    BY <1>2, <1>3 DEF Parts, ClauseWords
  <1>5. q4 \in places
    BY <1>1, <1>2, <1>4 DEF Parts, ClauseWords
  <1>6. q3 \in places
    BY <1>1, <1>2, <1>5 DEF Parts, ClauseWords
  <1>7. q2 \in places
    BY <1>1, <1>2, <1>6 DEF Parts, ClauseWords
  <1>8. q1 \in places
    BY <1>1, <1>2, <1>7 DEF Parts, ClauseWords
  <1>9. \A k \in 1 .. 6 : \/ c[k + 1] = c[k]
                          \/ c[k] < c[k + 1] /\ s[c[k]] = Clauses[k] /\ DerivesClause(Clauses[k], s, c[k] + 1, c[k + 1])
    BY CutIsParts
  <1>10. Follows(s, c)
    BY <1>9, Zenon DEF Follows
  <1>11. \A k \in 1 .. 6 : c[k] < c[k + 1] => DerivesClause(Clauses[k], s, c[k] + 1, c[k + 1])
    <2> SUFFICES ASSUME NEW k \in 1 .. 6, c[k] < c[k + 1] PROVE DerivesClause(Clauses[k], s, c[k] + 1, c[k + 1])
      OBVIOUS
    <2>1. c[k] \in Nat
      <3>1. c[1] = 2 /\ c[2] = q1 /\ c[3] = q2 /\ c[4] = q3 /\ c[5] = q4 /\ c[6] = q5
        BY DEF Cut
      <3>2. k = 1 \/ k = 2 \/ k = 3 \/ k = 4 \/ k = 5 \/ k = 6
        OBVIOUS
      <3> HIDE DEF c
      <3> QED  BY <1>1, <3>1, <3>2
    <2>2. c[k + 1] # c[k]
      BY <2>1
    <2> QED  BY <1>9, <2>2
  <1>12. c \in Tuples(s)
    BY <1>4, <1>5, <1>6, <1>7, <1>8, TuplesAre DEF places
  <1> HIDE DEF c
  <1>13. Derives(s, c)
    BY <1>11, Zenon DEF Derives
  <1>14. c \in Derivations(s)
    BY <1>10, <1>12, <1>13, CutsAre
  <1> QED  BY <1>14 DEF c

ClausesOk(s) == G(s).ok /\ F(s).ok /\ O(s).ok /\ T(s).ok /\ B(s).ok /\ L(s).ok
Metric(s) == s # <<>> /\ s[1] \in Idents

\* The metric comes first.
LEMMA MetricAt ==
    ASSUME NEW s \in Seq(STRING)
    PROVE  /\ M(s).ok <=> Metric(s)
           /\ Metric(s) => M(s).pos = 2 /\ M(s).ast = s[1] /\ 2 \in Places(s)
           /\ M(s).ok \in BOOLEAN
  <1>1. M(s) = IF 1 <= Len(s) /\ s[1] \in Idents THEN Parsed(2, s[1]) ELSE ParseError(1)
    BY Expect, Kinds DEF M, Ident
  <1>2. s # <<>> <=> 1 <= Len(s)
    OBVIOUS
  <1>3. CASE Metric(s)
    <2>1. M(s) = Parsed(2, s[1]) /\ 2 \in Places(s)
      BY <1>1, <1>2, <1>3 DEF Metric, Places
    <2>2. M(s).ok = TRUE /\ M(s).pos = 2 /\ M(s).ast = s[1]
      BY <2>1 DEF Parsed
    <2> QED  BY <1>3, <2>1, <2>2
  <1>4. CASE ~Metric(s)
    <2>1. M(s) = ParseError(1)
      BY <1>1, <1>2, <1>4 DEF Metric
    <2>2. M(s).ok = FALSE
      BY <2>1 DEF ParseError
    <2> QED  BY <1>4, <2>2
  <1> QED  BY <1>3, <1>4

\* A query is parsed when all of its clauses are, and nothing is left.
LEMMA ParseOk ==
    ASSUME NEW s \in Seq(STRING), M(s).ok, G(s).ok \in BOOLEAN, F(s).ok \in BOOLEAN, O(s).ok \in BOOLEAN,
           T(s).ok \in BOOLEAN, B(s).ok \in BOOLEAN, L(s).ok \in BOOLEAN
    PROVE  /\ Parse(s).ok <=> ClausesOk(s) /\ ~(L(s).pos <= Len(s))
           /\ Parse(s).ok => Parse(s).ast = QueryAst(s)
  <1> DEFINE q == parseQuery(s)
             r == Parse(s)
             ast == QueryAst(s)
             m == M(s)
             g == G(s)
             f == F(s)
             o == O(s)
             t == T(s)
             b == B(s)
             l == L(s)
             n == Len(s)
  <1>1. q = IF m.ok THEN IF g.ok THEN IF f.ok THEN IF o.ok THEN IF t.ok THEN IF b.ok
             THEN IF l.ok THEN Parsed(l.pos, ast) ELSE l ELSE b ELSE t ELSE o ELSE f ELSE g ELSE m
    BY QueryUnfold, Zenon
  <1>2. r = IF q.ok THEN IF q.pos <= n THEN ParseError(q.pos) ELSE q ELSE q
    BY ParseUnfold, Zenon
  <1>3. ClausesOk(s) <=> g.ok /\ f.ok /\ o.ok /\ t.ok /\ b.ok /\ l.ok
    BY Zenon DEF ClausesOk
  <1> HIDE DEF q, r, ast, m, g, f, o, t, b, l, n
  <1>4. m.ok
    BY DEF m
  <1>5. CASE ClausesOk(s)
    <2>1. q = Parsed(l.pos, ast)
      BY <1>1, <1>3, <1>4, <1>5
    <2>2. q.ok = TRUE /\ q.pos = l.pos /\ q.ast = ast
      BY <2>1 DEF Parsed
    <2>3. CASE l.pos <= n
      <3>1. r = ParseError(l.pos)
        BY <1>2, <2>2, <2>3
      <3>2. r.ok = FALSE
        BY <3>1, Results
      <3> QED  BY <2>3, <3>2 DEF r, l, n
    <2>4. CASE ~(l.pos <= n)
      <3>1. r = q
        BY <1>2, <2>2, <2>4
      <3> QED  BY <1>5, <2>2, <2>4, <3>1 DEF r, l, n, ast
    <2> QED  BY <2>3, <2>4
  <1>6. CASE ~ClausesOk(s)
    <2>1. q.ok = FALSE
      BY <1>1, <1>3, <1>4, <1>6 DEF g, f, o, t, b, l
    <2>2. r = q
      BY <1>2, <2>1
    <2> QED  BY <1>6, <2>1, <2>2 DEF r
  <1> QED  BY <1>5, <1>6

\* Without a metric there is no query.
LEMMA NoMetric ==
    ASSUME NEW s \in Seq(STRING), ~Metric(s)
    PROVE  ~Parse(s).ok /\ Derivations(s) = {}
  <1>1. M(s).ok = FALSE
    BY MetricAt
  <1>2. parseQuery(s) = M(s)
    BY <1>1, QueryUnfold
  <1>3. Parse(s) = M(s)
    BY <1>1, <1>2, ParseUnfold
  <1>4. Derivations(s) = {}
    BY DEF Metric, Derivations
  <1> QED  BY <1>1, <1>3, <1>4

\* The clauses of a query are where their parses end.
LEMMA ClausesPlace ==
    ASSUME NEW s \in Seq(STRING), Metric(s)
    PROVE  /\ InPlace(s, 2, G(s)) /\ InPlace(s, G(s).pos, F(s)) /\ InPlace(s, F(s).pos, O(s))
           /\ InPlace(s, O(s).pos, T(s)) /\ InPlace(s, T(s).pos, B(s)) /\ InPlace(s, B(s).pos, L(s))
           /\ G(s).pos \in Places(s) /\ F(s).pos \in Places(s) /\ O(s).pos \in Places(s)
           /\ T(s).pos \in Places(s) /\ B(s).pos \in Places(s) /\ L(s).pos \in Places(s)
           /\ ClausesOk(s) => Parts(s, 2, G(s).pos, F(s).pos, O(s).pos, T(s).pos, B(s).pos, L(s).pos)
  <1>1. /\ "by" \in ClauseWords /\ "where" \in ClauseWords /\ "over" \in ClauseWords
        /\ "step" \in ClauseWords /\ "order" \in ClauseWords /\ "limit" \in ClauseWords
    BY DEF ClauseWords
  <1>2. M(s).pos = 2 /\ 2 \in Places(s)
    BY MetricAt
  <1>3. /\ G(s) = ClauseOf("by", s, 2) /\ F(s) = ClauseOf("where", s, G(s).pos)
        /\ O(s) = ClauseOf("over", s, F(s).pos) /\ T(s) = ClauseOf("step", s, O(s).pos)
        /\ B(s) = ClauseOf("order", s, T(s).pos) /\ L(s) = ClauseOf("limit", s, B(s).pos)
    <2>1. G(s) = ClauseOf("by", s, 2)
      BY <1>2, ClausesOf DEF G
    <2>2. F(s) = ClauseOf("where", s, G(s).pos)
      BY ClausesOf, Zenon DEF F
    <2>3. O(s) = ClauseOf("over", s, F(s).pos)
      BY ClausesOf, Zenon DEF O
    <2>4. T(s) = ClauseOf("step", s, O(s).pos)
      BY ClausesOf, Zenon DEF T
    <2>5. B(s) = ClauseOf("order", s, T(s).pos)
      BY ClausesOf, Zenon DEF B
    <2>6. L(s) = ClauseOf("limit", s, B(s).pos)
      BY ClausesOf, Zenon DEF L
    <2> QED  BY <2>1, <2>2, <2>3, <2>4, <2>5, <2>6
  <1>4. InPlace(s, 2, G(s)) /\ G(s).pos \in Places(s) /\ (G(s).ok => IsClause("by", s, 2, G(s).pos))
    <2>1. InPlace(s, 2, G(s)) /\ (G(s).ok => IsClause("by", s, 2, G(s).pos))
      BY <1>1, <1>2, <1>3, ClauseSound
    <2> QED  BY <2>1, Zenon DEF InPlace
  <1>5. InPlace(s, G(s).pos, F(s)) /\ F(s).pos \in Places(s) /\ (F(s).ok => IsClause("where", s, G(s).pos, F(s).pos))
    <2>1. InPlace(s, G(s).pos, F(s)) /\ (F(s).ok => IsClause("where", s, G(s).pos, F(s).pos))
      BY <1>1, <1>4, <1>3, ClauseSound
    <2> QED  BY <2>1, Zenon DEF InPlace
  <1>6. InPlace(s, F(s).pos, O(s)) /\ O(s).pos \in Places(s) /\ (O(s).ok => IsClause("over", s, F(s).pos, O(s).pos))
    <2>1. InPlace(s, F(s).pos, O(s)) /\ (O(s).ok => IsClause("over", s, F(s).pos, O(s).pos))
      BY <1>1, <1>5, <1>3, ClauseSound
    <2> QED  BY <2>1, Zenon DEF InPlace
  <1>7. InPlace(s, O(s).pos, T(s)) /\ T(s).pos \in Places(s) /\ (T(s).ok => IsClause("step", s, O(s).pos, T(s).pos))
    <2>1. InPlace(s, O(s).pos, T(s)) /\ (T(s).ok => IsClause("step", s, O(s).pos, T(s).pos))
      BY <1>1, <1>6, <1>3, ClauseSound
    <2> QED  BY <2>1, Zenon DEF InPlace
  <1>8. InPlace(s, T(s).pos, B(s)) /\ B(s).pos \in Places(s) /\ (B(s).ok => IsClause("order", s, T(s).pos, B(s).pos))
    <2>1. InPlace(s, T(s).pos, B(s)) /\ (B(s).ok => IsClause("order", s, T(s).pos, B(s).pos))
      BY <1>1, <1>7, <1>3, ClauseSound
    <2> QED  BY <2>1, Zenon DEF InPlace
  <1>9. InPlace(s, B(s).pos, L(s)) /\ L(s).pos \in Places(s) /\ (L(s).ok => IsClause("limit", s, B(s).pos, L(s).pos))
    <2>1. InPlace(s, B(s).pos, L(s)) /\ (L(s).ok => IsClause("limit", s, B(s).pos, L(s).pos))
      BY <1>1, <1>8, <1>3, ClauseSound
    <2> QED  BY <2>1, Zenon DEF InPlace
  <1> QED  BY <1>4, <1>5, <1>6, <1>7, <1>8, <1>9, Zenon DEF Parts, ClausesOk

\* What is parsed has a derivation.
LEMMA ParseSound ==
    ASSUME NEW s \in Seq(STRING), Parse(s).ok
    PROVE  /\ Metric(s) /\ ClausesOk(s) /\ L(s).pos = Len(s) + 1 /\ Parse(s).ast = QueryAst(s)
           /\ Cut(s, G(s).pos, F(s).pos, O(s).pos, T(s).pos, B(s).pos) \in Derivations(s)
  <1>1. Metric(s)
    BY NoMetric
  <1>2. M(s).ok
    BY <1>1, MetricAt
  <1>3. /\ G(s).ok \in BOOLEAN /\ F(s).ok \in BOOLEAN /\ O(s).ok \in BOOLEAN
        /\ T(s).ok \in BOOLEAN /\ B(s).ok \in BOOLEAN /\ L(s).ok \in BOOLEAN
    BY <1>1, ClausesPlace, Zenon DEF InPlace
  <1>4. ClausesOk(s) /\ ~(L(s).pos <= Len(s)) /\ Parse(s).ast = QueryAst(s)
    BY <1>2, <1>3, ParseOk
  <1>5. L(s).pos = Len(s) + 1
    <2>1. L(s).pos \in Places(s)
      BY <1>1, ClausesPlace
    <2> QED  BY <1>4, <2>1 DEF Places
  <1>6. Parts(s, 2, G(s).pos, F(s).pos, O(s).pos, T(s).pos, B(s).pos, Len(s) + 1)
    BY <1>1, <1>4, <1>5, ClausesPlace
  <1>7. Cut(s, G(s).pos, F(s).pos, O(s).pos, T(s).pos, B(s).pos) \in Derivations(s)
    BY <1>1, <1>6, ClausesPlace, PartsDerivation DEF Metric
  <1> QED  BY <1>1, <1>4, <1>5, <1>7

\* What has a derivation is parsed along it.
LEMMA ParseComplete ==
    ASSUME NEW s \in Seq(STRING), NEW c \in Derivations(s)
    PROVE  Parse(s).ok /\ c = Cut(s, G(s).pos, F(s).pos, O(s).pos, T(s).pos, B(s).pos)
  <1>1. Metric(s) /\ 2 \in Places(s) /\ Len(s) + 1 \in Places(s)
    BY DerivationParts DEF Metric
  <1>2. PICK q1, q2, q3, q4, q5 \in Places(s) :
          c = Cut(s, q1, q2, q3, q4, q5) /\ Parts(s, 2, q1, q2, q3, q4, q5, Len(s) + 1)
    BY DerivationParts
  <1>3. PICK n \in Places(s) : n = Len(s) + 1
    BY <1>1
  <1>4. /\ IsClause("by", s, 2, q1) /\ IsClause("where", s, q1, q2) /\ IsClause("over", s, q2, q3)
        /\ IsClause("step", s, q3, q4) /\ IsClause("order", s, q4, q5) /\ IsClause("limit", s, q5, n)
    BY <1>2, <1>3 DEF Parts
  <1> DEFINE W5 == {} \cup {"limit"}
             W4 == W5 \cup {"order"}
             W3 == W4 \cup {"step"}
             W2 == W3 \cup {"over"}
             W1 == W2 \cup {"where"}
  <1>5. /\ {} \in SUBSET ClauseWords /\ W5 \in SUBSET ClauseWords /\ W4 \in SUBSET ClauseWords
        /\ W3 \in SUBSET ClauseWords /\ W2 \in SUBSET ClauseWords /\ W1 \in SUBSET ClauseWords
        /\ "limit" \notin {} /\ "order" \notin W5 /\ "step" \notin W4 /\ "over" \notin W3
        /\ "where" \notin W2 /\ "by" \notin W1
        /\ "by" \in ClauseWords /\ "where" \in ClauseWords /\ "over" \in ClauseWords
        /\ "step" \in ClauseWords /\ "order" \in ClauseWords /\ "limit" \in ClauseWords
    BY DEF ClauseWords
  <1>6. Rest(s, n, {})
    BY <1>3 DEF Rest
  <1>7. ClauseOf("limit", s, q5).ok /\ ClauseOf("limit", s, q5).pos = n /\ Rest(s, q5, W5)
    BY <1>4, <1>5, <1>6, ClauseComplete
  <1> HIDE DEF W5
  <1>8. ClauseOf("order", s, q4).ok /\ ClauseOf("order", s, q4).pos = q5 /\ Rest(s, q4, W4)
    BY <1>4, <1>5, <1>7, ClauseComplete
  <1> HIDE DEF W4
  <1>9. ClauseOf("step", s, q3).ok /\ ClauseOf("step", s, q3).pos = q4 /\ Rest(s, q3, W3)
    BY <1>4, <1>5, <1>8, ClauseComplete
  <1> HIDE DEF W3
  <1>10. ClauseOf("over", s, q2).ok /\ ClauseOf("over", s, q2).pos = q3 /\ Rest(s, q2, W2)
    BY <1>4, <1>5, <1>9, ClauseComplete
  <1> HIDE DEF W2
  <1>11. ClauseOf("where", s, q1).ok /\ ClauseOf("where", s, q1).pos = q2 /\ Rest(s, q1, W1)
    BY <1>4, <1>5, <1>10, ClauseComplete
  <1> HIDE DEF W1
  <1>12. ClauseOf("by", s, 2).ok /\ ClauseOf("by", s, 2).pos = q1
    <2>1. PICK p \in Places(s) : p = 2
      BY <1>1
    <2>2. IsClause("by", s, p, q1)
      BY <1>4, <2>1
    <2>3. ClauseOf("by", s, p).ok /\ ClauseOf("by", s, p).pos = q1 /\ Rest(s, p, W1 \cup {"by"})
      BY <1>5, <1>11, <2>2, ClauseComplete
    <2> QED  BY <2>1, <2>3
  <1>13. M(s).pos = 2 /\ M(s).ok
    BY <1>1, MetricAt
  <1>14. G(s).ok /\ G(s).pos = q1
    BY <1>12, <1>13, ClausesOf DEF G
  <1>15. F(s).ok /\ F(s).pos = q2
    BY <1>11, <1>14, ClausesOf DEF F
  <1>16. O(s).ok /\ O(s).pos = q3
    BY <1>10, <1>15, ClausesOf DEF O
  <1>17. T(s).ok /\ T(s).pos = q4
    BY <1>9, <1>16, ClausesOf DEF T
  <1>18. B(s).ok /\ B(s).pos = q5
    BY <1>8, <1>17, ClausesOf DEF B
  <1>19. L(s).ok /\ L(s).pos = n
    BY <1>7, <1>18, ClausesOf DEF L
  <1>20. /\ G(s).ok \in BOOLEAN /\ F(s).ok \in BOOLEAN /\ O(s).ok \in BOOLEAN
         /\ T(s).ok \in BOOLEAN /\ B(s).ok \in BOOLEAN /\ L(s).ok \in BOOLEAN
    BY <1>1, ClausesPlace, Zenon DEF InPlace
  <1>21. ~(n <= Len(s))
    BY <1>3
  <1>22. ClausesOk(s)
    BY <1>14, <1>15, <1>16, <1>17, <1>18, <1>19, Zenon DEF ClausesOk
  <1>23. Parse(s).ok
    BY <1>13, <1>19, <1>20, <1>21, <1>22, ParseOk
  <1> QED  BY <1>2, <1>14, <1>15, <1>16, <1>17, <1>18, <1>23

\* The parser accepts what the grammar derives, which it derives in one way.
LEMMA ParserGrammar ==
    ASSUME NEW s \in Seq(STRING)
    PROVE  /\ Parse(s).ok <=> Derivations(s) # {}
           /\ Parse(s).ok => Derivations(s) = {Cut(s, G(s).pos, F(s).pos, O(s).pos, T(s).pos, B(s).pos)}
           /\ Cardinality(Derivations(s)) <= 1
  <1> DEFINE cut == Cut(s, G(s).pos, F(s).pos, O(s).pos, T(s).pos, B(s).pos)
  <1>1. Parse(s).ok => cut \in Derivations(s)
    BY ParseSound
  <1>2. \A c \in Derivations(s) : Parse(s).ok /\ c = cut
    BY ParseComplete
  <1> HIDE DEF cut
  <1>3. Parse(s).ok => Derivations(s) = {cut}
    BY <1>1, <1>2
  <1>4. ~Parse(s).ok => Derivations(s) = {}
    BY <1>2
  <1>5. Cardinality({}) = 0 /\ Cardinality({cut}) = 1
    BY FS_EmptySet, FS_Singleton
  <1>6. Cardinality(Derivations(s)) <= 1
    <2>1. CASE Parse(s).ok
      <3>1. Cardinality(Derivations(s)) = 1
        BY <1>3, <1>5, <2>1
      <3> QED  BY <3>1
    <2>2. CASE ~Parse(s).ok
      <3>1. Cardinality(Derivations(s)) = 0
        BY <1>4, <1>5, <2>2
      <3> QED  BY <3>1
    <2> QED  BY <2>1, <2>2
  <1> QED  BY <1>3, <1>4, <1>6 DEF cut

-----------------------------------------------------------------------------
(***************************************************************************)
(* The documented grammar. What the rules above derive is what the EBNF    *)
(* derives, as long as the parser has nothing against one of the tokens.   *)
(***************************************************************************)
\* The parser has nothing against the tokens from i to j - 1.
Sound(s, i, j) == \A k \in i .. j - 1 : ~Refused(s, k)
Behind(s, k) == IF k < Len(s) THEN s[k + 1] ELSE "EOF"
\* The tokens it never has anything against.
Unrefusable ==
    Idents \cup Strings \cup DOMAIN Numbers
      \cup {"by", "where", "and", "or", "not", "over", "step", "order", "asc", "desc", "(", ")", ","}

\* What the parser has against a token.
LEMMA RefusedIs ==
    ASSUME NEW s, NEW k
    PROVE  Refused(s, k) <=>
             \/ s[k] = "in" /\ Behind(s, k) # "("
             \/ s[k] \in operatorSuggestions \ {"in"} /\ Behind(s, k) = "("
             \/ s[k] \in DOMAIN Durations /\ ~Lasts(s[k])
             \/ s[k] = "limit" /\ Behind(s, k) \in AtoiFails
             \/ s[k] \in Overflows
  BY Zenon DEF Refused, Behind, Lasts

\* A token that is no operator, no duration, not limit and no number too large.
LEMMA UnrefusableIs ==
    ASSUME NEW s, NEW k, s[k] \in Unrefusable
    PROVE  ~Refused(s, k)
  <1> DEFINE words == {"by", "where", "and", "or", "not", "over", "step", "order", "asc", "desc"}
             signs == {"(", ")", ","}
  <1>1. words \subseteq keywords /\ signs \subseteq Punctuation /\ {"in", "limit"} \subseteq keywords
    BY DEF keywords, Punctuation
  <1>2. operatorSuggestions \subseteq keywords \cup Punctuation
    BY OpsApart
  <1>3. (words \cup signs) \cap (operatorSuggestions \cup {"in", "limit"}) = {}
    BY DEF operatorSuggestions, Comparisons
  <1>4. PICK tok : tok = s[k]
    OBVIOUS
  <1>5. tok \in Idents \cup Strings \cup DOMAIN Numbers \/ tok \in words \cup signs
    BY <1>4 DEF Unrefusable
  <1> HIDE DEF words, signs
  <1>6. CASE tok \in Idents \cup Strings \cup DOMAIN Numbers
    <2>1. tok \notin keywords \cup Punctuation \cup DOMAIN Durations \cup Overflows
      BY <1>6, ClassesApart
    <2> QED  BY <1>1, <1>2, <1>4, <2>1, RefusedIs
  <1>7. CASE tok \in words \cup signs
    <2>1. tok \notin DOMAIN Durations \cup Overflows
      BY <1>1, <1>7, ClassesApart
    <2>2. tok \notin operatorSuggestions /\ tok # "in" /\ tok # "limit"
      BY <1>3, <1>7
    <2> QED  BY <1>4, <2>1, <2>2, RefusedIs
  <1> QED  BY <1>5, <1>6, <1>7

\* Spans side by side.
LEMMA SoundJoin ==
    ASSUME NEW s, NEW i \in Int, NEW j \in Int, NEW k \in Int, Sound(s, i, j), Sound(s, j, k)
    PROVE  Sound(s, i, k)
  <1> SUFFICES ASSUME NEW m \in i .. k - 1 PROVE ~Refused(s, m)
    BY DEF Sound
  <1>1. m \in i .. j - 1 \/ m \in j .. k - 1
    OBVIOUS
  <1> QED  BY <1>1 DEF Sound

\* A list is made of items and commas.
LEMMA ListSound ==
    ASSUME NEW s \in Seq(STRING), NEW i \in Int, NEW j \in Int, NEW set, set \subseteq Unrefusable, AllOf(s, i, j, set)
    PROVE  Sound(s, i, j)
  <1>1. PICK n \in 1 .. Len(s) : /\ j = i + 2*n - 1
                                 /\ \A k \in 1 .. n : s[i + 2*k - 2] \in set
                                 /\ \A k \in 1 .. n - 1 : s[i + 2*k - 1] = ","
    BY DEF AllOf
  <1>2. n \in Int /\ 1 <= n /\ j = i + 2*n - 1
    <2>1. Len(s) \in Int
      OBVIOUS
    <2>2. n \in Int /\ 1 <= n
      BY <2>1
    <2>3. j = i + 2*n - 1
      BY <1>1, Zenon
    <2> QED  BY <2>2, <2>3
  <1>3. ASSUME NEW m \in i .. j - 1 PROVE s[m] \in Unrefusable
    <2>1. n \in Int /\ m \in Int /\ i <= m /\ m <= i + 2*n - 2
      BY <1>2
    <2>2. PICK h \in Int : m - i = 2*h \/ m - i = 2*h + 1
      <3> WITNESS (m - i) \div 2 \in Int
      <3> QED  BY <2>1
    <2>3. CASE m - i = 2*h
      <3>1. h + 1 \in 1 .. n /\ m = i + 2*(h + 1) - 2
        BY <2>1, <2>2, <2>3
      <3> QED  BY <1>1, <3>1
    <2>4. CASE m - i = 2*h + 1
      <3>1. h + 1 \in 1 .. n - 1 /\ m = i + 2*(h + 1) - 1
        BY <2>1, <2>2, <2>4
      <3>2. s[m] = ","
        BY <1>1, <3>1
      <3> QED  BY <3>2 DEF Unrefusable
    <2> QED  BY <2>2, <2>3, <2>4
  <1> QED  BY <1>3, UnrefusableIs DEF Sound

\* A list of tokens of a class is one of a larger class, and of a smaller one that has them.
LEMMA ListWidened ==
    ASSUME NEW s \in Seq(STRING), NEW i \in Int, NEW j \in Int, NEW A, NEW Wider, AllOf(s, i, j, A),
           \A k \in i .. j - 1 : s[k] \in A => s[k] \in Wider
    PROVE  AllOf(s, i, j, Wider)
  <1>1. PICK n \in 1 .. Len(s) : /\ j = i + 2*n - 1
                                 /\ \A k \in 1 .. n : s[i + 2*k - 2] \in A
                                 /\ \A k \in 1 .. n - 1 : s[i + 2*k - 1] = ","
    BY DEF AllOf
  <1>2. n \in Int /\ 1 <= n /\ j = i + 2*n - 1
    <2>1. Len(s) \in Int
      OBVIOUS
    <2>2. n \in Int /\ 1 <= n
      BY <2>1
    <2>3. j = i + 2*n - 1
      BY <1>1, Zenon
    <2> QED  BY <2>2, <2>3
  <1>3. ASSUME NEW k \in 1 .. n PROVE s[i + 2*k - 2] \in Wider
    <2>1. i + 2*k - 2 \in i .. j - 1
      BY <1>2
    <2> QED  BY <1>1, <2>1
  <1> QED  BY <1>1, <1>3 DEF AllOf

DocumentedNumbers == DOMAIN Numbers \cup Overflows

\* The shapes of a predicate.
LEMMA PredicateShapes ==
    ASSUME NEW s \in Seq(STRING), NEW i \in Places(s), NEW j \in Places(s)
    PROVE  /\ DerivesPredicate(s, i, j) <=>
                /\ i + 3 <= j /\ s[i] \in Idents
                /\ \/ j = i + 3 /\ s[i + 1] \in operatorSuggestions \ {"in"} /\ s[i + 2] \in Strings \cup DOMAIN Numbers
                   \/ /\ i + 5 <= j /\ s[i + 1] = "in" /\ s[i + 2] = "(" /\ s[j - 1] = ")"
                      /\ AllOf(s, i + 3, j - 1, Strings) \/ AllOf(s, i + 3, j - 1, DOMAIN Numbers)
           /\ DocumentedPredicate(s, i, j) <=>
                /\ i + 3 <= j /\ s[i] \in Idents /\ s[i + 1] \in operatorSuggestions
                /\ \/ j = i + 3 /\ s[i + 2] \in Strings \cup DocumentedNumbers
                   \/ /\ i + 5 <= j /\ s[i + 2] = "(" /\ s[j - 1] = ")"
                      /\ AllOf(s, i + 3, j - 1, Strings) \/ AllOf(s, i + 3, j - 1, DocumentedNumbers)
           /\ i \in Int /\ j \in Int /\ 1 <= i
           /\ i + 3 <= j => Behind(s, i + 1) = s[i + 2] /\ i + 2 <= Len(s)
  <1>1. i \in Int /\ j \in Int /\ 1 <= i /\ j <= Len(s) + 1 /\ Len(s) \in Int
    BY DEF Places
  <1>2. i + 3 <= j => Behind(s, i + 1) = s[i + 2] /\ i + 2 <= Len(s)
    <2> SUFFICES ASSUME i + 3 <= j PROVE Behind(s, i + 1) = s[i + 2] /\ i + 2 <= Len(s)
      OBVIOUS
    <2>1. i + 1 < Len(s) /\ i + 1 + 1 = i + 2 /\ i + 2 <= Len(s)
      BY <1>1
    <2> QED  BY <2>1 DEF Behind
  <1> QED  BY <1>1, <1>2, Zenon DEF DerivesPredicate, DocumentedPredicate, DocumentedNumbers

\* A predicate of the grammar is a documented one of tokens the parser takes.
LEMMA PredicateDocumented ==
    ASSUME NEW s \in Seq(STRING), NEW i \in Places(s), NEW j \in Places(s), DerivesPredicate(s, i, j)
    PROVE  DocumentedPredicate(s, i, j) /\ Sound(s, i, j)
  <1>1. /\ i \in Int /\ j \in Int /\ 1 <= i /\ i + 3 <= j /\ s[i] \in Idents /\ Behind(s, i + 1) = s[i + 2]
        /\ \/ j = i + 3 /\ s[i + 1] \in operatorSuggestions \ {"in"} /\ s[i + 2] \in Strings \cup DOMAIN Numbers
           \/ /\ i + 5 <= j /\ s[i + 1] = "in" /\ s[i + 2] = "(" /\ s[j - 1] = ")"
              /\ AllOf(s, i + 3, j - 1, Strings) \/ AllOf(s, i + 3, j - 1, DOMAIN Numbers)
    BY PredicateShapes
  <1>2. "in" \in operatorSuggestions /\ "limit" \notin operatorSuggestions
    BY DEF operatorSuggestions, Comparisons
  <1>3. \A op \in operatorSuggestions : op \notin DOMAIN Durations \cup Overflows
    BY OpsApart, ClassesApart
  <1>4. ~Refused(s, i)
    BY <1>1, UnrefusableIs DEF Unrefusable
  <1>5. CASE j = i + 3 /\ s[i + 1] \in operatorSuggestions \ {"in"} /\ s[i + 2] \in Strings \cup DOMAIN Numbers
    <2>1. s[i + 2] # "("
      <3>1. "(" \in Punctuation
        BY DEF Punctuation
      <3> QED  BY <1>5, <3>1, ClassesApart
    <2>2. ~Refused(s, i + 1)
      <3>1. PICK op : op = s[i + 1]
        OBVIOUS
      <3>2. op \in operatorSuggestions /\ op # "in" /\ op # "limit" /\ op \notin DOMAIN Durations \cup Overflows
        BY <1>2, <1>3, <1>5, <3>1
      <3> QED  BY <1>1, <2>1, <3>1, <3>2, RefusedIs
    <2>3. ~Refused(s, i + 2)
      BY <1>5, UnrefusableIs DEF Unrefusable
    <2>4. ASSUME NEW k \in i .. j - 1 PROVE ~Refused(s, k)
      <3>1. k = i \/ k = i + 1 \/ k = i + 2
        BY <1>1, <1>5
      <3> QED  BY <1>4, <2>2, <2>3, <3>1
    <2>5. DocumentedPredicate(s, i, j)
      <3>1. s[i + 1] \in operatorSuggestions /\ s[i + 2] \in Strings \cup DocumentedNumbers
        BY <1>5 DEF DocumentedNumbers
      <3> QED  BY <1>1, <1>5, <3>1, PredicateShapes
    <2> QED  BY <2>4, <2>5 DEF Sound
  <1>6. CASE /\ i + 5 <= j /\ s[i + 1] = "in" /\ s[i + 2] = "(" /\ s[j - 1] = ")"
             /\ AllOf(s, i + 3, j - 1, Strings) \/ AllOf(s, i + 3, j - 1, DOMAIN Numbers)
    <2>1. ~Refused(s, i + 1)
      <3>1. "in" \notin DOMAIN Durations \cup Overflows
        BY <1>2, <1>3
      <3>2. Behind(s, i + 1) = "("
        BY <1>1, <1>6
      <3> QED  BY <1>6, <3>1, <3>2, RefusedIs
    <2>2. ~Refused(s, i + 2) /\ ~Refused(s, j - 1)
      <3>1. s[i + 2] \in Unrefusable /\ s[j - 1] \in Unrefusable
        BY <1>6 DEF Unrefusable
      <3> QED  BY <3>1, UnrefusableIs
    <2>3. Sound(s, i + 3, j - 1)
      <3>1. Strings \subseteq Unrefusable /\ DOMAIN Numbers \subseteq Unrefusable
        BY Zenon DEF Unrefusable
      <3>2. i + 3 \in Int /\ j - 1 \in Int
        BY <1>1
      <3> QED  BY <1>6, <3>1, <3>2, ListSound
    <2>4. ASSUME NEW k \in i .. j - 1 PROVE ~Refused(s, k)
      <3>1. k = i \/ k = i + 1 \/ k = i + 2 \/ k = j - 1 \/ k \in i + 3 .. (j - 1) - 1
        BY <1>1, <1>6
      <3> QED  BY <1>4, <2>1, <2>2, <2>3, <3>1 DEF Sound
    <2>5. AllOf(s, i + 3, j - 1, Strings) \/ AllOf(s, i + 3, j - 1, DocumentedNumbers)
      <3>1. i + 3 \in Int /\ j - 1 \in Int /\ \A k : s[k] \in DOMAIN Numbers => s[k] \in DocumentedNumbers
        BY <1>1 DEF DocumentedNumbers
      <3> QED  BY <1>6, <3>1, ListWidened
    <2>6. DocumentedPredicate(s, i, j)
      <3>1. s[i + 1] \in operatorSuggestions
        BY <1>2, <1>6
      <3> QED  BY <1>1, <1>6, <2>5, <3>1, PredicateShapes
    <2> QED  BY <2>4, <2>6 DEF Sound
  <1> QED  BY <1>1, <1>5, <1>6

\* A documented predicate of tokens the parser takes is one of the grammar.
LEMMA PredicateDerived ==
    ASSUME NEW s \in Seq(STRING), NEW i \in Places(s), NEW j \in Places(s), DocumentedPredicate(s, i, j),
           Sound(s, 1, Len(s) + 1)
    PROVE  DerivesPredicate(s, i, j)
  <1>1. /\ i \in Int /\ j \in Int /\ 1 <= i /\ i + 3 <= j /\ s[i] \in Idents /\ s[i + 1] \in operatorSuggestions
        /\ Behind(s, i + 1) = s[i + 2] /\ i + 2 <= Len(s)
        /\ \/ j = i + 3 /\ s[i + 2] \in Strings \cup DocumentedNumbers
           \/ /\ i + 5 <= j /\ s[i + 2] = "(" /\ s[j - 1] = ")"
              /\ AllOf(s, i + 3, j - 1, Strings) \/ AllOf(s, i + 3, j - 1, DocumentedNumbers)
    BY PredicateShapes
  <1>2. Len(s) \in Int /\ j <= Len(s) + 1
    BY DEF Places
  <1>3. ~Refused(s, i + 1)
    <2>1. i + 1 \in 1 .. (Len(s) + 1) - 1
      BY <1>1, <1>2
    <2> QED  BY <2>1 DEF Sound
  <1>4. \A k \in 1 .. Len(s) : s[k] \notin Overflows
    <2>1. \A k \in 1 .. Len(s) : k \in 1 .. (Len(s) + 1) - 1
      BY <1>2
    <2> QED  BY <2>1, RefusedIs DEF Sound
  <1>5. CASE j = i + 3 /\ s[i + 2] \in Strings \cup DocumentedNumbers
    <2>1. s[i + 2] # "("
      <3>1. "(" \in Punctuation
        BY DEF Punctuation
      <3> QED  BY <1>5, <3>1, ClassesApart DEF DocumentedNumbers
    <2>2. s[i + 1] # "in"
      BY <1>1, <1>3, <2>1, RefusedIs
    <2>3. s[i + 2] \in Strings \cup DOMAIN Numbers
      <3>1. i + 2 \in 1 .. Len(s)
        BY <1>1, <1>2
      <3> QED  BY <1>4, <1>5, <3>1 DEF DocumentedNumbers
    <2> QED  BY <1>1, <1>5, <2>2, <2>3, PredicateShapes
  <1>6. CASE /\ i + 5 <= j /\ s[i + 2] = "(" /\ s[j - 1] = ")"
             /\ AllOf(s, i + 3, j - 1, Strings) \/ AllOf(s, i + 3, j - 1, DocumentedNumbers)
    <2>1. s[i + 1] = "in"
      BY <1>1, <1>3, <1>6, RefusedIs
    <2>2. AllOf(s, i + 3, j - 1, Strings) \/ AllOf(s, i + 3, j - 1, DOMAIN Numbers)
      <3>1. i + 3 \in Int /\ j - 1 \in Int
        BY <1>1
      <3>2. ASSUME NEW k \in i + 3 .. (j - 1) - 1, s[k] \in DocumentedNumbers PROVE s[k] \in DOMAIN Numbers
        <4>1. k \in 1 .. Len(s)
          BY <1>1, <1>2
        <4> QED  BY <1>4, <3>2, <4>1 DEF DocumentedNumbers
      <3> QED  BY <1>6, <3>1, <3>2, ListWidened
    <2> QED  BY <1>1, <1>6, <2>1, <2>2, PredicateShapes
  <1> QED  BY <1>1, <1>5, <1>6

\* The atoms of the documented grammar.
DocumentedMarks(s) == [x \in Spans(s) |-> IF DocumentedPredicate(s, x[1], x[2]) THEN {{}} ELSE {}]

\* The atoms with which the documented grammar asks whether there is a reading.
LEMMA DocumentedMarksRight ==
    ASSUME NEW s \in Seq(STRING)
    PROVE  /\ DocumentedMarks(s) \in [Spans(s) -> Sets]
           /\ \A i, j \in Places(s) : DocumentedMarks(s)[<<i, j>>] # {} <=> DocumentedPredicate(s, i, j)
           /\ \A i, j : DocumentedExpr(s, i, j) <=> Reading(s, DocumentedMarks(s), "or", i, j)
  <1>1. {{}} \in Sets /\ {} \in Sets
    BY DEF Sets
  <1>2. DocumentedMarks(s) \in [Spans(s) -> Sets]
    BY <1>1 DEF DocumentedMarks
  <1>3. ASSUME NEW i \in Places(s), NEW j \in Places(s)
        PROVE  DocumentedMarks(s)[<<i, j>>] # {} <=> DocumentedPredicate(s, i, j)
    <2>1. <<i, j>> \in Spans(s) /\ <<i, j>>[1] = i /\ <<i, j>>[2] = j
      BY DEF Spans
    <2>2. DocumentedMarks(s)[<<i, j>>] = IF DocumentedPredicate(s, <<i, j>>[1], <<i, j>>[2]) THEN {{}} ELSE {}
      BY <2>1, Zenon DEF DocumentedMarks
    <2>3. DocumentedMarks(s)[<<i, j>>] = IF DocumentedPredicate(s, i, j) THEN {{}} ELSE {}
      BY <2>1, <2>2
    <2> QED  BY <2>3
  <1>4. \A i, j : DocumentedExpr(s, i, j) <=> Reading(s, DocumentedMarks(s), "or", i, j)
    BY Zenon DEF DocumentedExpr, Reading, Reads, DocumentedMarks
  <1> QED  BY <1>2, <1>3, <1>4

\* What the rules derive is documented, of tokens the parser takes.
SpanDocumented(s, rule, i, j) ==
    Reading(s, Marks(s), rule, i, j) => Reading(s, DocumentedMarks(s), rule, i, j) /\ Sound(s, i, j)

\* A word in front of a span, and a bracket on either side.
LEMMA SoundAround ==
    ASSUME NEW s, NEW i \in Int, NEW j \in Int, s[i] \in Unrefusable
    PROVE  /\ Sound(s, i, i) /\ Sound(s, i, i + 1)
           /\ Sound(s, i + 1, j) => Sound(s, i, j)
           /\ s[j - 1] \in Unrefusable /\ Sound(s, i + 1, j - 1) => Sound(s, i, j)
  <1>1. ~Refused(s, i)
    BY UnrefusableIs
  <1>2. Sound(s, i, i) /\ Sound(s, i, i + 1)
    BY <1>1 DEF Sound
  <1>3. ASSUME Sound(s, i + 1, j), NEW k \in i .. j - 1 PROVE ~Refused(s, k)
    <2>1. k = i \/ k \in i + 1 .. j - 1
      OBVIOUS
    <2> QED  BY <1>1, <1>3, <2>1 DEF Sound
  <1>4. ASSUME s[j - 1] \in Unrefusable, Sound(s, i + 1, j - 1), NEW k \in i .. j - 1 PROVE ~Refused(s, k)
    <2>1. k = i \/ k = j - 1 \/ k \in i + 1 .. (j - 1) - 1
      OBVIOUS
    <2>2. ~Refused(s, j - 1)
      BY <1>4, UnrefusableIs
    <2> QED  BY <1>1, <1>4, <2>1, <2>2 DEF Sound
  <1> QED  BY <1>2, <1>3, <1>4 DEF Sound

\* A term.
LEMMA TermDocumented ==
    ASSUME NEW s \in Seq(STRING), NEW i \in Places(s), NEW j \in Places(s),
           i + 1 < j => SpanDocumented(s, "or", i + 1, j - 1)
    PROVE  SpanDocumented(s, "term", i, j)
  <1> SUFFICES ASSUME Reading(s, Marks(s), "term", i, j)
               PROVE  Reading(s, DocumentedMarks(s), "term", i, j) /\ Sound(s, i, j)
    BY DEF SpanDocumented
  <1>1. i \in Int /\ j \in Int
    BY DEF Places
  <1>2. \/ DerivesPredicate(s, i, j)
        \/ i + 1 < j /\ s[i] = "(" /\ s[j - 1] = ")" /\ Reading(s, Marks(s), "or", i + 1, j - 1)
    BY MarksRight, ReadingTerm
  <1>3. \A v : v \in Reads(s, DocumentedMarks(s), "term", i, j) <=>
             \/ v \in DocumentedMarks(s)[<<i, j>>]
             \/ /\ i + 1 < j /\ s[i] = "(" /\ s[j - 1] = ")"
                /\ v \in Reads(s, DocumentedMarks(s), "or", i + 1, j - 1)
    BY DocumentedMarksRight, TermRule
  <1>4. CASE DerivesPredicate(s, i, j)
    <2>1. DocumentedPredicate(s, i, j) /\ Sound(s, i, j)
      BY <1>4, PredicateDocumented
    <2>2. DocumentedMarks(s)[<<i, j>>] # {}
      BY <2>1, DocumentedMarksRight
    <2> QED  BY <1>3, <2>1, <2>2, Zenon DEF Reading
  <1>5. CASE i + 1 < j /\ s[i] = "(" /\ s[j - 1] = ")" /\ Reading(s, Marks(s), "or", i + 1, j - 1)
    <2>1. Reading(s, DocumentedMarks(s), "or", i + 1, j - 1) /\ Sound(s, i + 1, j - 1)
      BY <1>5 DEF SpanDocumented
    <2>2. s[i] \in Unrefusable /\ s[j - 1] \in Unrefusable
      BY <1>5 DEF Unrefusable
    <2>3. Sound(s, i, j)
      BY <1>1, <2>1, <2>2, SoundAround
    <2> QED  BY <1>3, <1>5, <2>1, <2>3, Zenon DEF Reading
  <1> QED  BY <1>2, <1>4, <1>5

\* A unary.
LEMMA UnaryDocumented ==
    ASSUME NEW s \in Seq(STRING), NEW i \in Places(s), NEW j \in Places(s), SpanDocumented(s, "term", i, j),
           i < j => SpanDocumented(s, "term", i + 1, j)
    PROVE  SpanDocumented(s, "unary", i, j)
  <1> SUFFICES ASSUME Reading(s, Marks(s), "unary", i, j)
               PROVE  Reading(s, DocumentedMarks(s), "unary", i, j) /\ Sound(s, i, j)
    BY DEF SpanDocumented
  <1>1. i \in Int /\ j \in Int
    BY DEF Places
  <1>2. \/ Reading(s, Marks(s), "term", i, j)
        \/ i < j /\ s[i] = "not" /\ Reading(s, Marks(s), "term", i + 1, j)
    BY MarksRight, ReadingUnary
  <1>3. Reading(s, DocumentedMarks(s), "unary", i, j) <=>
             \/ Reading(s, DocumentedMarks(s), "term", i, j)
             \/ i < j /\ s[i] = "not" /\ Reading(s, DocumentedMarks(s), "term", i + 1, j)
    BY DocumentedMarksRight, ReadingUnary
  <1>4. CASE Reading(s, Marks(s), "term", i, j)
    BY <1>3, <1>4 DEF SpanDocumented
  <1>5. CASE i < j /\ s[i] = "not" /\ Reading(s, Marks(s), "term", i + 1, j)
    <2>1. Reading(s, DocumentedMarks(s), "term", i + 1, j) /\ Sound(s, i + 1, j)
      BY <1>5 DEF SpanDocumented
    <2>2. s[i] \in Unrefusable
      BY <1>5 DEF Unrefusable
    <2>3. Sound(s, i, j)
      BY <1>1, <2>1, <2>2, SoundAround
    <2> QED  BY <1>3, <1>5, <2>1, <2>3
  <1> QED  BY <1>2, <1>4, <1>5

\* Two spans with a word between them.
LEMMA SoundBetween ==
    ASSUME NEW s, NEW i \in Int, NEW k \in Int, NEW j \in Int, Sound(s, i, k), s[k] \in Unrefusable, Sound(s, k + 1, j)
    PROVE  Sound(s, i, j)
  <1>1. Sound(s, k, k + 1) /\ k + 1 \in Int
    BY SoundAround
  <1>2. Sound(s, k, j)
    BY <1>1, SoundJoin
  <1> QED  BY <1>2, SoundJoin

\* A conjunction.
LEMMA AndDocumented ==
    ASSUME NEW s \in Seq(STRING), NEW i \in Places(s), NEW j \in Places(s), SpanDocumented(s, "unary", i, j),
           \A k \in i .. j - 1 : SpanDocumented(s, "unary", i, k) /\ SpanDocumented(s, "and", k + 1, j)
    PROVE  SpanDocumented(s, "and", i, j)
  <1> SUFFICES ASSUME Reading(s, Marks(s), "and", i, j)
               PROVE  Reading(s, DocumentedMarks(s), "and", i, j) /\ Sound(s, i, j)
    BY DEF SpanDocumented
  <1>1. i \in Int /\ j \in Int
    BY DEF Places
  <1>2. \/ Reading(s, Marks(s), "unary", i, j)
        \/ \E k \in i .. j - 1 : /\ s[k] = "and" /\ Reading(s, Marks(s), "unary", i, k)
                                 /\ Reading(s, Marks(s), "and", k + 1, j)
    BY MarksRight, ReadingAnd
  <1>3. Reading(s, DocumentedMarks(s), "and", i, j) <=>
             \/ Reading(s, DocumentedMarks(s), "unary", i, j)
             \/ \E k \in i .. j - 1 : /\ s[k] = "and" /\ Reading(s, DocumentedMarks(s), "unary", i, k)
                                      /\ Reading(s, DocumentedMarks(s), "and", k + 1, j)
    BY DocumentedMarksRight, ReadingAnd
  <1>4. CASE Reading(s, Marks(s), "unary", i, j)
    BY <1>3, <1>4 DEF SpanDocumented
  <1>5. ASSUME NEW k \in i .. j - 1, s[k] = "and", Reading(s, Marks(s), "unary", i, k),
               Reading(s, Marks(s), "and", k + 1, j)
        PROVE  Reading(s, DocumentedMarks(s), "and", i, j) /\ Sound(s, i, j)
    <2>1. /\ Reading(s, DocumentedMarks(s), "unary", i, k) /\ Sound(s, i, k)
          /\ Reading(s, DocumentedMarks(s), "and", k + 1, j) /\ Sound(s, k + 1, j)
      BY <1>5, Zenon DEF SpanDocumented
    <2>2. s[k] \in Unrefusable /\ k \in Int
      BY <1>1, <1>5 DEF Unrefusable
    <2>3. Sound(s, i, j)
      BY <1>1, <2>1, <2>2, SoundBetween
    <2> QED  BY <1>3, <1>5, <2>1, <2>3, Zenon
  <1> QED  BY <1>2, <1>4, <1>5

\* A disjunction.
LEMMA OrDocumented ==
    ASSUME NEW s \in Seq(STRING), NEW i \in Places(s), NEW j \in Places(s), SpanDocumented(s, "and", i, j),
           \A k \in i .. j - 1 : SpanDocumented(s, "and", i, k) /\ SpanDocumented(s, "or", k + 1, j)
    PROVE  SpanDocumented(s, "or", i, j)
  <1> SUFFICES ASSUME Reading(s, Marks(s), "or", i, j)
               PROVE  Reading(s, DocumentedMarks(s), "or", i, j) /\ Sound(s, i, j)
    BY DEF SpanDocumented
  <1>1. i \in Int /\ j \in Int
    BY DEF Places
  <1>2. \/ Reading(s, Marks(s), "and", i, j)
        \/ \E k \in i .. j - 1 : /\ s[k] = "or" /\ Reading(s, Marks(s), "and", i, k)
                                 /\ Reading(s, Marks(s), "or", k + 1, j)
    BY MarksRight, ReadingOr
  <1>3. Reading(s, DocumentedMarks(s), "or", i, j) <=>
             \/ Reading(s, DocumentedMarks(s), "and", i, j)
             \/ \E k \in i .. j - 1 : /\ s[k] = "or" /\ Reading(s, DocumentedMarks(s), "and", i, k)
                                      /\ Reading(s, DocumentedMarks(s), "or", k + 1, j)
    BY DocumentedMarksRight, ReadingOr
  <1>4. CASE Reading(s, Marks(s), "and", i, j)
    BY <1>3, <1>4 DEF SpanDocumented
  <1>5. ASSUME NEW k \in i .. j - 1, s[k] = "or", Reading(s, Marks(s), "and", i, k),
               Reading(s, Marks(s), "or", k + 1, j)
        PROVE  Reading(s, DocumentedMarks(s), "or", i, j) /\ Sound(s, i, j)
    <2>1. /\ Reading(s, DocumentedMarks(s), "and", i, k) /\ Sound(s, i, k)
          /\ Reading(s, DocumentedMarks(s), "or", k + 1, j) /\ Sound(s, k + 1, j)
      BY <1>5, Zenon DEF SpanDocumented
    <2>2. s[k] \in Unrefusable /\ k \in Int
      BY <1>1, <1>5 DEF Unrefusable
    <2>3. Sound(s, i, j)
      BY <1>1, <2>1, <2>2, SoundBetween
    <2> QED  BY <1>3, <1>5, <2>1, <2>3, Zenon
  <1> QED  BY <1>2, <1>4, <1>5

DocumentedBelow(s, n) ==
    \A r \in Rules, a, b \in Places(s) : Size(r, a, b) < n => SpanDocumented(s, r, a, b)

\* Whatever the rules derive.
LEMMA AllDocumented ==
    ASSUME NEW s \in Seq(STRING), NEW rule \in Rules, NEW i \in Places(s), NEW j \in Places(s)
    PROVE  SpanDocumented(s, rule, i, j)
  <1> DEFINE N == {n \in Nat : DocumentedBelow(s, n)}
  <1>1. Len(s) \in Nat /\ \A k \in Places(s) : k \in Nat /\ k <= Len(s) + 1 /\ 1 <= k
    BY DEF Places
  <1>2. \A r \in Rules, a, b \in Places(s) : Size(r, a, b) \in Nat
    BY <1>1 DEF Size, Rank, Rules
  <1>3. 0 \in N
    <2>1. ASSUME NEW r \in Rules, NEW a \in Places(s), NEW b \in Places(s), Size(r, a, b) < 0
          PROVE  FALSE
      <3>1. Size(r, a, b) \in Nat
        BY <1>2
      <3> QED  BY <2>1, <3>1
    <2> QED  BY <2>1 DEF DocumentedBelow
  <1>4. ASSUME NEW n \in N PROVE n + 1 \in N
    <2>1. n \in Nat /\ DocumentedBelow(s, n)
      OBVIOUS
    <2>2. ASSUME NEW r \in Rules, NEW a \in Places(s), NEW b \in Places(s), Size(r, a, b) < n + 1
          PROVE  SpanDocumented(s, r, a, b)
      <3>1. \A q \in Rules, c, d \in Places(s) :
              Size(q, c, d) < Size(r, a, b) => SpanDocumented(s, q, c, d)
        <4> SUFFICES ASSUME NEW q \in Rules, NEW c \in Places(s), NEW d \in Places(s),
                            Size(q, c, d) < Size(r, a, b)
                     PROVE  SpanDocumented(s, q, c, d)
          OBVIOUS
        <4>1. Size(r, a, b) \in Nat /\ Size(q, c, d) \in Nat
          BY <1>2
        <4>2. Size(q, c, d) < n
          BY <2>1, <2>2, <4>1
        <4> QED  BY <2>1, <4>2 DEF DocumentedBelow
      <3>2. CASE r = "term"
        <4>1. a + 1 < b => SpanDocumented(s, "or", a + 1, b - 1)
          <5> SUFFICES ASSUME a + 1 < b PROVE SpanDocumented(s, "or", a + 1, b - 1)
            OBVIOUS
          <5>1. a + 1 \in Places(s) /\ b - 1 \in Places(s) /\ "or" \in Rules
            BY <1>1 DEF Places, Rules
          <5>2. Size("or", a + 1, b - 1) < Size(r, a, b)
            BY <1>1, <3>2 DEF Size, Rank
          <5> QED  BY <3>1, <5>1, <5>2
        <4> QED  BY <3>2, <4>1, TermDocumented
      <3>3. CASE r = "unary"
        <4>1. Size("term", a, b) < Size(r, a, b) /\ "term" \in Rules
          BY <1>1, <3>3 DEF Size, Rank, Rules
        <4>2. a < b => a + 1 \in Places(s) /\ Size("term", a + 1, b) < Size(r, a, b)
          BY <1>1, <3>3 DEF Size, Rank, Places
        <4> QED  BY <3>1, <3>3, <4>1, <4>2, UnaryDocumented
      <3>4. CASE r = "and"
        <4>1. Size("unary", a, b) < Size(r, a, b) /\ "unary" \in Rules /\ "and" \in Rules
          BY <1>1, <3>4 DEF Size, Rank, Rules
        <4>2. ASSUME NEW k \in a .. b - 1
              PROVE  SpanDocumented(s, "unary", a, k) /\ SpanDocumented(s, "and", k + 1, b)
          <5>1. k \in Places(s) /\ k + 1 \in Places(s)
            BY <1>1 DEF Places
          <5>2. Size("unary", a, k) < Size(r, a, b) /\ Size("and", k + 1, b) < Size(r, a, b)
            BY <1>1, <3>4, <5>1 DEF Size, Rank
          <5> QED  BY <3>1, <4>1, <5>1, <5>2
        <4>3. SpanDocumented(s, "unary", a, b)
          BY <3>1, <4>1
        <4> QED  BY <3>4, <4>2, <4>3, AndDocumented
      <3>5. CASE r = "or"
        <4>1. Size("and", a, b) < Size(r, a, b) /\ "and" \in Rules /\ "or" \in Rules
          BY <1>1, <3>5 DEF Size, Rank, Rules
        <4>2. ASSUME NEW k \in a .. b - 1
              PROVE  SpanDocumented(s, "and", a, k) /\ SpanDocumented(s, "or", k + 1, b)
          <5>1. k \in Places(s) /\ k + 1 \in Places(s)
            BY <1>1 DEF Places
          <5>2. Size("and", a, k) < Size(r, a, b) /\ Size("or", k + 1, b) < Size(r, a, b)
            BY <1>1, <3>5, <5>1 DEF Size, Rank
          <5> QED  BY <3>1, <4>1, <5>1, <5>2
        <4>3. SpanDocumented(s, "and", a, b)
          BY <3>1, <4>1
        <4> QED  BY <3>5, <4>2, <4>3, OrDocumented
      <3> QED  BY <3>2, <3>3, <3>4, <3>5 DEF Rules
    <2>3. DocumentedBelow(s, n + 1)
      BY <2>2 DEF DocumentedBelow
    <2> QED  BY <2>1, <2>3
  <1>5. N = Nat
    <2>1. N \in SUBSET Nat
      OBVIOUS
    <2> HIDE DEF N
    <2> QED  BY <1>3, <1>4, <2>1, SetInduction
  <1>6. Size(rule, i, j) \in Nat
    BY <1>2
  <1>7. DocumentedBelow(s, Size(rule, i, j) + 1)
    BY <1>5, <1>6
  <1> QED  BY <1>6, <1>7 DEF DocumentedBelow

\* A clause of the grammar is a documented one, of tokens the parser takes.
LEMMA ClauseDocumented ==
    ASSUME NEW s \in Seq(STRING), NEW word \in ClauseWords, NEW p \in Places(s), NEW j \in Places(s),
           p < j, s[p] = word, DerivesClause(word, s, p + 1, j)
    PROVE  DocumentedClause(word, s, p + 1, j) /\ Sound(s, p, j)
  <1>1. p \in Int /\ j \in Int /\ Len(s) \in Int /\ 1 <= p /\ j <= Len(s) + 1 /\ p + 1 \in Places(s) /\ p + 1 \in Int
    BY DEF Places
  <1>2. word # "limit" => s[p] \in Unrefusable
    BY DEF ClauseWords, Unrefusable
  <1>3. CASE word = "by"
    <2>1. AllOf(s, p + 1, j, Idents)
      BY <1>3 DEF DerivesClause
    <2>2. Idents \subseteq Unrefusable
      BY Zenon DEF Unrefusable
    <2>3. Sound(s, p + 1, j)
      BY <1>1, <2>1, <2>2, ListSound
    <2> QED  BY <1>1, <1>2, <1>3, <2>3, SoundAround DEF DocumentedClause
  <1>4. CASE word = "where"
    <2>1. DerivesExpr(s, p + 1, j)
      BY <1>4 DEF DerivesClause
    <2>2. Reading(s, Marks(s), "or", p + 1, j)
      BY <2>1, MarksRight
    <2>3. SpanDocumented(s, "or", p + 1, j)
      BY <1>1, AllDocumented DEF Rules
    <2>4. DocumentedExpr(s, p + 1, j) /\ Sound(s, p + 1, j)
      BY <2>2, <2>3, DocumentedMarksRight DEF SpanDocumented
    <2> QED  BY <1>1, <1>2, <1>4, <2>4, SoundAround DEF DocumentedClause
  <1>5. CASE word \in {"over", "step"}
    <2>1. j = p + 1 + 1 /\ s[p + 1] \in DOMAIN Durations /\ Lasts(s[p + 1])
      BY <1>5 DEF DerivesClause, Lasts
    <2>2. ~Refused(s, p + 1)
      <3>1. PICK d : d = s[p + 1]
        OBVIOUS
      <3>2. d \notin keywords \cup Punctuation \cup Overflows
        BY <2>1, <3>1, ClassesApart
      <3>3. operatorSuggestions \subseteq keywords \cup Punctuation /\ {"in", "limit"} \subseteq keywords
        BY OpsApart DEF keywords
      <3> QED  BY <2>1, <3>1, <3>2, <3>3, RefusedIs
    <2>3. Sound(s, p + 1, j)
      <3> SUFFICES ASSUME NEW k \in p + 1 .. j - 1 PROVE ~Refused(s, k)
        BY DEF Sound
      <3>1. k = p + 1
        BY <1>1, <2>1
      <3> QED  BY <2>2, <3>1
    <2> QED  BY <1>1, <1>2, <1>5, <2>1, <2>3, SoundAround DEF DocumentedClause
  <1>6. CASE word = "order"
    <2>1. \/ j = p + 1 + 2 /\ s[p + 1] = "by" /\ s[p + 1 + 1] \in Idents
          \/ j = p + 1 + 3 /\ s[p + 1] = "by" /\ s[p + 1 + 1] \in Idents /\ s[p + 1 + 2] \in {"asc", "desc"}
      BY <1>6 DEF DerivesClause
    <2>2. Sound(s, p + 1, j)
      <3> SUFFICES ASSUME NEW k \in p + 1 .. j - 1 PROVE ~Refused(s, k)
        BY DEF Sound
      <3>1. k = p + 1 \/ k = p + 1 + 1 \/ (k = p + 1 + 2 /\ j = p + 1 + 3)
        BY <1>1, <2>1
      <3>2. s[k] \in Idents \cup {"by", "asc", "desc"}
        BY <1>1, <2>1, <3>1
      <3>3. s[k] \in Unrefusable
        BY <3>2 DEF Unrefusable
      <3> QED  BY <3>3, UnrefusableIs
    <2>3. DocumentedClause(word, s, p + 1, j)
      BY <1>6 DEF DocumentedClause
    <2> QED  BY <1>1, <1>2, <1>6, <2>2, <2>3, SoundAround
  <1>7. CASE word = "limit"
    <2>1. j = p + 1 + 1 /\ s[p + 1] \in Ints \ AtoiFails
      BY <1>7 DEF DerivesClause
    <2>2. ~Refused(s, p + 1)
      <3>1. s[p + 1] \in Unrefusable
        BY <2>1, NetQLAssumption DEF Unrefusable
      <3> QED  BY <3>1, UnrefusableIs
    <2>3. ~Refused(s, p)
      <3>1. Behind(s, p) \notin AtoiFails
        <4>1. p < Len(s)
          BY <1>1, <2>1
        <4> QED  BY <2>1, <4>1 DEF Behind
      <3>2. "limit" \in keywords
        BY DEF keywords
      <3>3. "limit" \notin DOMAIN Durations \cup Overflows
        BY <3>2, ClassesApart
      <3>4. "limit" \notin operatorSuggestions
        BY DEF operatorSuggestions, Comparisons
      <3> QED  BY <1>7, <3>1, <3>3, <3>4, RefusedIs
    <2>4. Sound(s, p, j)
      <3> SUFFICES ASSUME NEW k \in p .. j - 1 PROVE ~Refused(s, k)
        BY DEF Sound
      <3>1. k = p \/ k = p + 1
        BY <1>1, <2>1
      <3> QED  BY <2>2, <2>3, <3>1
    <2> QED  BY <1>7, <2>1, <2>4 DEF DocumentedClause
  <1> QED  BY <1>3, <1>4, <1>5, <1>6, <1>7 DEF ClauseWords

\* A documented expression of tokens the parser takes is one of the grammar.
LEMMA ExprDerived ==
    ASSUME NEW s \in Seq(STRING), Sound(s, 1, Len(s) + 1), NEW i, NEW j
    PROVE  DocumentedExpr(s, i, j) <=> DerivesExpr(s, i, j)
  <1>1. \A a, b \in Places(s) : DocumentedPredicate(s, a, b) <=> DerivesPredicate(s, a, b)
    BY PredicateDocumented, PredicateDerived
  <1>2. ASSUME NEW x \in Spans(s) PROVE DocumentedPredicate(s, x[1], x[2]) <=> DerivesPredicate(s, x[1], x[2])
    <2>1. x[1] \in Places(s) /\ x[2] \in Places(s)
      BY DEF Spans
    <2> QED  BY <1>1, <2>1
  <1>3. DocumentedMarks(s) = Marks(s)
    BY <1>2 DEF DocumentedMarks, Marks
  <1>4. DocumentedExpr(s, i, j) <=> Reading(s, DocumentedMarks(s), "or", i, j)
    BY DocumentedMarksRight
  <1>5. DerivesExpr(s, i, j) <=> Reading(s, Marks(s), "or", i, j)
    BY MarksRight
  <1> QED  BY <1>3, <1>4, <1>5

\* A documented clause of tokens the parser takes is one of the grammar.
LEMMA ClauseDerived ==
    ASSUME NEW s \in Seq(STRING), Sound(s, 1, Len(s) + 1), NEW word \in ClauseWords,
           NEW p \in Places(s), NEW j \in Places(s), p < j, s[p] = word, DocumentedClause(word, s, p + 1, j)
    PROVE  DerivesClause(word, s, p + 1, j)
  <1>1. p \in Int /\ j \in Int /\ Len(s) \in Int /\ 1 <= p /\ j <= Len(s) + 1
    BY DEF Places
  <1>2. \A k \in 1 .. Len(s) : ~Refused(s, k)
    <2>1. \A k \in 1 .. Len(s) : k \in 1 .. (Len(s) + 1) - 1
      BY <1>1
    <2> QED  BY <2>1 DEF Sound
  <1>3. CASE word = "where"
    BY <1>3, ExprDerived DEF DocumentedClause, DerivesClause
  <1>4. CASE word \in {"over", "step"}
    <2>1. j = p + 1 + 1 /\ s[p + 1] \in DOMAIN Durations
      BY <1>4 DEF DocumentedClause
    <2>2. p + 1 \in 1 .. Len(s)
      BY <1>1, <2>1
    <2>3. Lasts(s[p + 1])
      BY <1>2, <2>1, <2>2, RefusedIs
    <2> QED  BY <1>4, <2>1, <2>3 DEF DerivesClause, Lasts
  <1>5. CASE word = "limit"
    <2>1. j = p + 1 + 1 /\ s[p + 1] \in Ints \cup (Overflows \cap AtoiFails)
      BY <1>5 DEF DocumentedClause
    <2>2. p < Len(s) /\ p \in 1 .. Len(s)
      BY <1>1, <2>1
    <2>3. Behind(s, p) = s[p + 1]
      BY <2>2 DEF Behind
    <2>4. s[p + 1] \notin AtoiFails
      BY <1>2, <1>5, <2>2, <2>3, RefusedIs
    <2> QED  BY <1>5, <2>1, <2>4 DEF DerivesClause
  <1>6. CASE word \in {"by", "order"}
    BY <1>6 DEF DocumentedClause
  <1> QED  BY <1>3, <1>4, <1>5, <1>6 DEF ClauseWords

\* A cut is at places of the query.
LEMMA CutAtPlaces ==
    ASSUME NEW s \in Seq(STRING), s # <<>>, NEW c \in Cuts(s)
    PROVE  /\ c[1] = 2 /\ c[7] = Len(s) + 1 /\ \A k \in 1 .. 7 : c[k] \in Places(s)
           /\ \A k \in 1 .. 6 : /\ k \in 1 .. 7 /\ k + 1 \in 1 .. 7 /\ Clauses[k] \in ClauseWords
                                /\ c[k + 1] = c[k] \/ (c[k] < c[k + 1] /\ s[c[k]] = Clauses[k])
  <1>1. 2 \in Places(s) /\ Len(s) + 1 \in Places(s)
    BY DEF Places
  <1>2. CutPlaces(s) \subseteq Places(s)
    BY <1>1 DEF CutPlaces, Places
  <1>3. c \in Tuples(s) /\ Follows(s, c)
    BY CutsAre
  <1>4. PICK q1, q2, q3, q4, q5 \in CutPlaces(s) : c = Cut(s, q1, q2, q3, q4, q5)
    BY <1>3, TuplesAre
  <1>5. c[1] = 2 /\ c[2] = q1 /\ c[3] = q2 /\ c[4] = q3 /\ c[5] = q4 /\ c[6] = q5 /\ c[7] = Len(s) + 1
    BY <1>4 DEF Cut
  <1>6. ASSUME NEW k \in 1 .. 7 PROVE c[k] \in Places(s)
    <2>1. k = 1 \/ k = 2 \/ k = 3 \/ k = 4 \/ k = 5 \/ k = 6 \/ k = 7
      OBVIOUS
    <2> QED  BY <1>1, <1>2, <1>5, <2>1
  <1>7. ASSUME NEW k \in 1 .. 6
        PROVE  k \in 1 .. 7 /\ k + 1 \in 1 .. 7 /\ Clauses[k] \in ClauseWords
    <2>1. k = 1 \/ k = 2 \/ k = 3 \/ k = 4 \/ k = 5 \/ k = 6
      OBVIOUS
    <2>2. Clauses[k] \in ClauseWords
      BY <2>1, ClauseNames DEF ClauseWords
    <2> QED  BY <2>2
  <1> QED  BY <1>3, <1>5, <1>6, <1>7, Zenon DEF Follows

\* What the grammar derives is documented, of tokens the parser takes.
LEMMA DerivedIsDocumented ==
    ASSUME NEW s \in Seq(STRING), NEW c \in Derivations(s)
    PROVE  c \in Documented(s) /\ Sound(s, 1, Len(s) + 1)
  <1>1. s # <<>> /\ s[1] \in Idents
    BY DEF Derivations
  <1>2. c \in Cuts(s) /\ Derives(s, c)
    BY <1>1, CutsAre
  <1>3. /\ c[1] = 2 /\ c[7] = Len(s) + 1 /\ \A k \in 1 .. 7 : c[k] \in Places(s) /\ c[k] \in Int
        /\ \A k \in 1 .. 6 : /\ k \in 1 .. 7 /\ k + 1 \in 1 .. 7 /\ Clauses[k] \in ClauseWords
                             /\ c[k + 1] = c[k] \/ (c[k] < c[k + 1] /\ s[c[k]] = Clauses[k])
    <2>1. \A p \in Places(s) : p \in Int
      BY DEF Places
    <2> QED  BY <1>1, <1>2, <2>1, CutAtPlaces
  <1>4. ASSUME NEW k \in 1 .. 6
        PROVE  /\ c[k] < c[k + 1] => DocumentedClause(Clauses[k], s, c[k] + 1, c[k + 1])
               /\ Sound(s, c[k], c[k + 1])
    <2>1. c[k] \in Places(s) /\ c[k + 1] \in Places(s) /\ c[k] \in Int /\ c[k + 1] \in Int
      BY <1>3
    <2>2. CASE c[k] < c[k + 1]
      <3>1. s[c[k]] = Clauses[k]
        <4>1. c[k + 1] = c[k] \/ s[c[k]] = Clauses[k]
          BY <1>3, Zenon
        <4> QED  BY <2>1, <2>2, <4>1
      <3>2. DerivesClause(Clauses[k], s, c[k] + 1, c[k + 1])
        BY <1>2, <2>2 DEF Derives
      <3>3. Clauses[k] \in ClauseWords
        BY <1>3
      <3> QED  BY <2>1, <2>2, <3>1, <3>2, <3>3, ClauseDocumented
    <2>3. CASE ~(c[k] < c[k + 1])
      <3>1. c[k + 1] = c[k]
        BY <1>3, <2>3
      <3>2. Sound(s, c[k], c[k + 1])
        BY <2>1, <3>1 DEF Sound
      <3> QED  BY <2>3, <3>2
    <2> QED  BY <2>2, <2>3
  <1>5. c \in Documented(s)
    BY <1>1, <1>2, <1>4, Zenon DEF Documented
  <1>6. Sound(s, 2, Len(s) + 1)
    <2>1. /\ 1 \in 1 .. 6 /\ 2 \in 1 .. 6 /\ 3 \in 1 .. 6 /\ 4 \in 1 .. 6 /\ 5 \in 1 .. 6 /\ 6 \in 1 .. 6
          /\ 1 + 1 = 2 /\ 2 + 1 = 3 /\ 3 + 1 = 4 /\ 4 + 1 = 5 /\ 5 + 1 = 6 /\ 6 + 1 = 7
      OBVIOUS
    <2>2. /\ Sound(s, c[1], c[2]) /\ Sound(s, c[2], c[3]) /\ Sound(s, c[3], c[4])
          /\ Sound(s, c[4], c[5]) /\ Sound(s, c[5], c[6]) /\ Sound(s, c[6], c[7])
      BY <1>4, <2>1
    <2>3. c[1] \in Int /\ c[2] \in Int /\ c[3] \in Int /\ c[4] \in Int /\ c[5] \in Int /\ c[6] \in Int /\ c[7] \in Int
      BY <1>3
    <2>4. Sound(s, c[1], c[3])
      BY <2>2, <2>3, SoundJoin
    <2>5. Sound(s, c[1], c[4])
      BY <2>2, <2>3, <2>4, SoundJoin
    <2>6. Sound(s, c[1], c[5])
      BY <2>2, <2>3, <2>5, SoundJoin
    <2>7. Sound(s, c[1], c[6])
      BY <2>2, <2>3, <2>6, SoundJoin
    <2>8. Sound(s, c[1], c[7])
      BY <2>2, <2>3, <2>7, SoundJoin
    <2> QED  BY <1>3, <2>8
  <1>7. Sound(s, 1, 2)
    <2>1. s[1] \in Unrefusable
      BY <1>1 DEF Unrefusable
    <2>2. Sound(s, 1, 1 + 1)
      BY <2>1, SoundAround
    <2> QED  BY <2>2
  <1>8. Sound(s, 1, Len(s) + 1)
    <2>1. Len(s) + 1 \in Int
      OBVIOUS
    <2> QED  BY <1>6, <1>7, <2>1, SoundJoin
  <1> QED  BY <1>5, <1>8

\* What is documented, of tokens the parser takes, the grammar derives.
LEMMA DocumentedIsDerived ==
    ASSUME NEW s \in Seq(STRING), Sound(s, 1, Len(s) + 1), NEW c \in Documented(s)
    PROVE  c \in Derivations(s)
  <1>1. s # <<>> /\ s[1] \in Idents
    BY DEF Documented
  <1>2. c \in Cuts(s) /\ \A k \in 1 .. 6 : c[k] < c[k + 1] => DocumentedClause(Clauses[k], s, c[k] + 1, c[k + 1])
    BY <1>1, Zenon DEF Documented
  <1>3. ASSUME NEW k \in 1 .. 6, c[k] < c[k + 1] PROVE DerivesClause(Clauses[k], s, c[k] + 1, c[k + 1])
    <2>1. /\ c[k] \in Places(s) /\ c[k + 1] \in Places(s) /\ Clauses[k] \in ClauseWords
          /\ c[k + 1] = c[k] \/ s[c[k]] = Clauses[k]
      BY <1>1, <1>2, CutAtPlaces
    <2>2. c[k] \in Int /\ c[k + 1] \in Int
      BY <2>1 DEF Places
    <2>3. s[c[k]] = Clauses[k]
      BY <1>3, <2>1, <2>2
    <2> QED  BY <1>2, <1>3, <2>1, <2>3, ClauseDerived
  <1> QED  BY <1>1, <1>2, <1>3, Zenon DEF Derivations

\* The grammar derives a query if the documentation does and the parser takes its tokens.
LEMMA DocumentedGrammar ==
    ASSUME NEW s \in Seq(STRING)
    PROVE  Derivations(s) # {} <=> (\A k \in DOMAIN s : ~Refused(s, k)) /\ Documented(s) # {}
  <1>1. (\A k \in DOMAIN s : ~Refused(s, k)) <=> Sound(s, 1, Len(s) + 1)
    <2>1. DOMAIN s = 1 .. (Len(s) + 1) - 1
      OBVIOUS
    <2> QED  BY <2>1 DEF Sound
  <1>2. \A c \in Derivations(s) : c \in Documented(s) /\ Sound(s, 1, Len(s) + 1)
    BY DerivedIsDocumented
  <1>3. Sound(s, 1, Len(s) + 1) => \A c \in Documented(s) : c \in Derivations(s)
    BY DocumentedIsDerived
  <1> QED  BY <1>1, <1>2, <1>3

-----------------------------------------------------------------------------
(***************************************************************************)
(* The answers.                                                            *)
(***************************************************************************)
LexOk(s) == ~LexError(s)

\* The lexer makes a word of every word.
LEMMA LexTyped ==
    ASSUME NEW words \in Seq(STRING)
    PROVE  Lex(words) \in Seq(STRING) /\ Len(Lex(words)) = Len(words)
  <1>1. \A i \in DOMAIN words : lexIdentOrKeyword(words[i]) \in STRING
    BY NetQLAssumption DEF lexIdentOrKeyword
  <1>2. DOMAIN words = 1 .. Len(words) /\ Len(words) \in Nat
    OBVIOUS
  <1>3. Lex(words) = [i \in 1 .. Len(words) |-> lexIdentOrKeyword(words[i])]
    BY <1>2 DEF Lex
  <1>4. \A i \in 1 .. Len(words) : lexIdentOrKeyword(words[i]) \in STRING
    BY <1>1, <1>2
  <1> QED  BY <1>2, <1>3, <1>4

\* What the handler answers, case by case.
LEMMA AnswerCases ==
    ASSUME NEW s, NEW tenant
    PROVE  LET a == compileNetQL(s, tenant)
               q == Parse(s).ast
           IN \/ ~LexOk(s) /\ a = netqlError("lex")
              \/ LexOk(s) /\ ~Parse(s).ok /\ a = netqlError("parse")
              \/ LexOk(s) /\ Parse(s).ok /\ ~Check(q) /\ a = netqlError("type")
              \/ /\ LexOk(s) /\ Parse(s).ok /\ Check(q) /\ Registry[q.metric].backend = "clickhouse"
                 /\ a = OK("clickhouse", TranslateClickHouse(q, tenant))
              \/ /\ LexOk(s) /\ Parse(s).ok /\ Check(q) /\ ~(Registry[q.metric].backend = "clickhouse")
                 /\ TranslatePrometheus(q).ok /\ a = OK("prometheus", TranslatePrometheus(q))
              \/ /\ LexOk(s) /\ Parse(s).ok /\ Check(q) /\ ~TranslatePrometheus(q).ok
                 /\ a = netqlError("translate")
  BY Zenon DEF compileNetQL, LexOk

\* No lexical and no parse error is what a query without them gets.
LEMMA Errors ==
    ASSUME NEW s, NEW tenant
    PROVE  compileNetQL(s, tenant).error \notin {"lex", "parse"} <=> LexOk(s) /\ Parse(s).ok
  <1> DEFINE a == compileNetQL(s, tenant)
  <1>1. /\ netqlError("lex").error = "lex" /\ netqlError("parse").error = "parse"
        /\ netqlError("type").error = "type" /\ netqlError("translate").error = "translate"
        /\ \A backend, out : OK(backend, out).error = ""
    BY DEF netqlError, OK
  <1>2. \/ ~LexOk(s) /\ a = netqlError("lex")
        \/ LexOk(s) /\ ~Parse(s).ok /\ a = netqlError("parse")
        \/ LexOk(s) /\ Parse(s).ok /\ a = netqlError("type")
        \/ LexOk(s) /\ Parse(s).ok /\ \E backend, out : a = OK(backend, out)
        \/ LexOk(s) /\ Parse(s).ok /\ a = netqlError("translate")
    BY AnswerCases, Zenon
  <1> HIDE DEF a
  <1>3. a.error \notin {"lex", "parse"} <=> LexOk(s) /\ Parse(s).ok
    BY <1>1, <1>2
  <1> QED  BY <1>3 DEF a

\* The handler has answered what is typed, or not yet.
Answered ==
    /\ typed \in Seq(STRING)
    /\ answer = NoAnswer \/ answer = compileNetQL(Lex(typed), "mine")

\* The answer is that of compileNetQL to what is typed, or none yet: netqlTranslateHandler
\* and Type.
THEOREM AnsweredInvariant == Spec => []Answered
  <1>1. Init => Answered
    BY DEF Init, Answered
  <1>2. Answered /\ [Next]_vars => Answered'
    <2> SUFFICES ASSUME Answered, [Next]_vars PROVE Answered'
      OBVIOUS
    <2>1. ASSUME NEW phrase \in Phrases, Type(phrase) PROVE Answered'
      <3>1. typed' = typed \o phrase /\ answer' = NoAnswer
        BY <2>1 DEF Type
      <3>2. typed' \in Seq(STRING)
        BY <3>1, NetQLAssumption DEF Answered
      <3> QED  BY <3>1, <3>2, Zenon DEF Answered
    <2>2. CASE netqlTranslateHandler
      BY <2>2, Zenon DEF netqlTranslateHandler, Answered
    <2>3. CASE UNCHANGED vars
      <3>1. typed' = typed /\ answer' = answer
        BY <2>3 DEF vars
      <3> QED  BY <3>1, Zenon DEF Answered
    <2> QED  BY <2>1, <2>2, <2>3 DEF Next
  <1> QED  BY <1>1, <1>2, PTL DEF Spec

\* For any registry, words, literals and bounds, the parser of parser.go accepts what the EBNF
\* of the documentation derives, save for exactly the queries with a token it has something
\* against, and that in one way: no query is refused for the order in which the descent tries
\* things, and none accepted with a rest unread.
THEOREM AcceptsTheGrammarHolds == Spec => []AcceptsTheGrammar
  <1>1. Answered => AcceptsTheGrammar
    <2> DEFINE s == Lex(typed)
               accepted == answer.error \notin {"lex", "parse"}
    <2> SUFFICES ASSUME Answered, answer.status # 0
                 PROVE  /\ accepted <=> ~LexError(s) /\ (\A k \in DOMAIN s : ~Refused(s, k)) /\ Documented(s) # {}
                        /\ accepted <=> ~LexError(s) /\ Cardinality(Derivations(s)) = 1
      BY Zenon DEF AcceptsTheGrammar
    <2>1. s \in Seq(STRING)
      BY LexTyped DEF Answered
    <2>2. answer = compileNetQL(s, "mine")
      <3>1. NoAnswer.status = 0
        BY DEF NoAnswer
      <3> QED  BY <3>1, Zenon DEF Answered
    <2> HIDE DEF s
    <2>3. accepted <=> ~LexError(s) /\ Parse(s).ok
      BY <2>2, Errors, Zenon DEF LexOk
    <2>4. Parse(s).ok <=> Derivations(s) # {}
      BY <2>1, ParserGrammar
    <2>5. Derivations(s) # {} <=> (\A k \in DOMAIN s : ~Refused(s, k)) /\ Documented(s) # {}
      BY <2>1, DocumentedGrammar
    <2>6. Parse(s).ok <=> Cardinality(Derivations(s)) = 1
      <3>1. Parse(s).ok => Derivations(s) = {Cut(s, G(s).pos, F(s).pos, O(s).pos, T(s).pos, B(s).pos)}
        BY <2>1, ParserGrammar
      <3>2. Cardinality({Cut(s, G(s).pos, F(s).pos, O(s).pos, T(s).pos, B(s).pos)}) = 1
        BY FS_Singleton
      <3>3. Parse(s).ok => Cardinality(Derivations(s)) = 1
        BY <3>1, <3>2, Zenon
      <3>4. ~Parse(s).ok => Derivations(s) = {}
        BY <2>4
      <3>5. ~Parse(s).ok => Cardinality(Derivations(s)) = 0
        BY <3>4, FS_EmptySet
      <3> QED  BY <3>3, <3>5
    <2> QED  BY <2>3, <2>4, <2>5, <2>6, Zenon
  <1> QED  BY <1>1, AnsweredInvariant, PTL

-----------------------------------------------------------------------------
(***************************************************************************)
(* The tree and the meaning: whatever the parser composes goes with a      *)
(* reading of the words it read.                                           *)
(***************************************************************************)
\* The node of the predicate from i to j - 1.
PredicateNode(s, i, j) ==
    Predicate(s[i], s[i + 1],
      [kind |-> IF s[i + 1] = "in" THEN IF s[i + 3] \in Strings THEN "strings" ELSE "numbers"
                ELSE IF s[i + 2] \in Strings THEN "string" ELSE "number",
       items |-> Literals(s, i, j)])

FilterAtoms(s, spec) ==
    [x \in Spans(s) |-> IF DerivesPredicate(s, x[1], x[2]) THEN {PredicateRows(s, x[1], x[2], spec)} ELSE {}]

\* Pairs of nodes and the rows they are to select: E of expressions, A and D of the terms, as
\* many as are counted, of a conjunction and of a disjunction. They go together when whatever
\* the parser composes of what is in them is in them.
Composed(s, spec, E, A, D) ==
    /\ \A i, j \in Places(s) :
         DerivesPredicate(s, i, j) => <<<<PredicateNode(s, i, j)>>, PredicateRows(s, i, j, spec)>> \in E
    /\ \A a, v : <<a, v>> \in E => <<Append(a, Node("not", 1)), Rows \ v>> \in E
    /\ \A a, v : <<a, v>> \in E => <<a, 1, v>> \in A /\ <<a, 1, v>> \in D
    /\ \A a, v, b, n, w : <<a, v>> \in E /\ <<b, n, w>> \in A => <<a \o b, n + 1, v \cap w>> \in A
    /\ \A a, v, b, n, w : <<a, v>> \in E /\ <<b, n, w>> \in D => <<a \o b, n + 1, v \cup w>> \in D
    /\ \A a, n, v : <<a, n, v>> \in A => <<IF n = 1 THEN a ELSE Append(a, Node("and", n)), v>> \in E
    /\ \A a, n, v : <<a, n, v>> \in D => <<IF n = 1 THEN a ELSE Append(a, Node("or", n)), v>> \in E

\* What the parse r from p made of its words goes with one of their readings.
Means(s, atoms, E, rule, p, r) ==
    r.ok => \E v \in Reads(s, atoms, rule, p, r.pos) : <<r.ast, v>> \in E
MeansTerms(s, atoms, C, rule, p, r) ==
    r.ok => \E v \in Reads(s, atoms, rule, p, r.pos) : <<r.ast, r.terms, v>> \in C
MeansBehind(s, atoms, A, D, g, p) ==
    \A q \in Places(s) : p < q => MeansTerms(s, atoms, A, "and", q, g[q].ands) /\ MeansTerms(s, atoms, D, "or", q, g[q].ors)

\* The predicates of a query, as conditions with what they select.
LEMMA FilterAtomsRight ==
    ASSUME NEW s \in Seq(STRING), NEW spec
    PROVE  /\ FilterAtoms(s, spec) \in [Spans(s) -> Sets] /\ PredicateAtoms(s, FilterAtoms(s, spec))
           /\ \A i, j \in Places(s) : FilterAtoms(s, spec)[<<i, j>>] =
                IF DerivesPredicate(s, i, j) THEN {PredicateRows(s, i, j, spec)} ELSE {}
  <1>1. \A i, j : {PredicateRows(s, i, j, spec)} \in Sets
    BY DEF Sets, PredicateRows
  <1>2. {} \in Sets
    BY DEF Sets
  <1>3. FilterAtoms(s, spec) \in [Spans(s) -> Sets]
    BY <1>1, <1>2 DEF FilterAtoms
  <1>4. ASSUME NEW i \in Places(s), NEW j \in Places(s)
        PROVE  FilterAtoms(s, spec)[<<i, j>>] = IF DerivesPredicate(s, i, j) THEN {PredicateRows(s, i, j, spec)} ELSE {}
    <2>1. <<i, j>> \in Spans(s) /\ <<i, j>>[1] = i /\ <<i, j>>[2] = j
      BY DEF Spans
    <2>2. FilterAtoms(s, spec)[<<i, j>>] =
            IF DerivesPredicate(s, <<i, j>>[1], <<i, j>>[2]) THEN {PredicateRows(s, <<i, j>>[1], <<i, j>>[2], spec)} ELSE {}
      BY <2>1, Zenon DEF FilterAtoms
    <2> QED  BY <2>1, <2>2
  <1>5. PredicateAtoms(s, FilterAtoms(s, spec))
    BY <1>4 DEF PredicateAtoms
  <1> QED  BY <1>3, <1>4, <1>5

\* What the node that joins terms makes of them.
LEMMA JoinedAst ==
    ASSUME NEW node, NEW r, r.ok
    PROVE  Joined(node, r).ast = IF r.terms = 1 THEN r.ast ELSE Append(r.ast, Node(node, r.terms))
  BY DEF Joined, Parsed

\* The node of a predicate goes with what its words select.
LEMMA MeansPredicate ==
    ASSUME NEW s \in Seq(STRING), NEW spec, NEW E, NEW A, NEW D, Composed(s, spec, E, A, D), NEW p \in Places(s)
    PROVE  Means(s, FilterAtoms(s, spec), E, "term", p, parsePredicate(s, p))
  <1> DEFINE r == parsePredicate(s, p)
             atoms == FilterAtoms(s, spec)
  <1>1. PredicateParsed(s, p, r)
    BY PredicateAt
  <1> HIDE DEF r
  <1> SUFFICES ASSUME r.ok PROVE \E v \in Reads(s, atoms, "term", p, r.pos) : <<r.ast, v>> \in E
    BY Zenon DEF Means, r
  <1>2. r.pos \in Places(s) /\ ReadsPredicate(s, p, r.pos, r)
    BY <1>1, Zenon DEF PredicateParsed, InPlace
  <1>3. DerivesPredicate(s, p, r.pos) /\ r.ast = <<PredicateNode(s, p, r.pos)>>
    BY <1>2, Zenon DEF ReadsPredicate, PredicateNode
  <1> DEFINE v == PredicateRows(s, p, r.pos, spec)
  <1>4. <<r.ast, v>> \in E
    <2>1. \A i, j \in Places(s) :
            DerivesPredicate(s, i, j) => <<<<PredicateNode(s, i, j)>>, PredicateRows(s, i, j, spec)>> \in E
      BY Zenon DEF Composed
    <2>2. <<<<PredicateNode(s, p, r.pos)>>, PredicateRows(s, p, r.pos, spec)>> \in E
      BY <1>2, <1>3, <2>1
    <2> QED  BY <1>3, <2>2
  <1> HIDE DEF atoms, v
  <1>5. v \in atoms[<<p, r.pos>>]
    <2>1. \A j \in Places(s) :
            DerivesPredicate(s, p, j) => PredicateRows(s, p, j, spec) \in FilterAtoms(s, spec)[<<p, j>>]
      BY FilterAtomsRight
    <2> QED  BY <1>2, <1>3, <2>1, Zenon DEF atoms, v
  <1>6. v \in Reads(s, atoms, "term", p, r.pos)
    BY <1>2, <1>5, FilterAtomsRight, TermRule DEF atoms
  <1> QED  BY <1>4, <1>6

\* The tree of a term goes with one of its readings, if the trees behind it do so.
LEMMA MeansTerm ==
    ASSUME NEW s \in Seq(STRING), NEW spec, NEW E, NEW A, NEW D, Composed(s, spec, E, A, D), NEW p \in Places(s),
           NEW g, RightBehind(s, FilterAtoms(s, spec), g, p), MeansBehind(s, FilterAtoms(s, spec), A, D, g, p)
    PROVE  Means(s, FilterAtoms(s, spec), E, "term", p, parseTerm(g, s, p))
  <1> DEFINE r == parseTerm(g, s, p)
             o == g[p + 1].ors
             f == Joined("or", o)
             c == expect(s, f.pos, {")"})
             atoms == FilterAtoms(s, spec)
  <1>1. p \in Nat /\ 1 <= p /\ Len(s) \in Nat /\ p <= Len(s) + 1
    BY DEF Places
  <1>2. r = IF ~At(s, p, "(") THEN parsePredicate(s, p)
            ELSE IF ~f.ok THEN f ELSE IF ~c.ok THEN c ELSE Parsed(c.pos, f.ast)
    BY TermUnfold
  <1>3. atoms \in [Spans(s) -> Sets] /\ PredicateAtoms(s, atoms)
    BY FilterAtomsRight
  <1> HIDE DEF r, o, atoms
  <1>4. CASE ~At(s, p, "(")
    <2>1. r = parsePredicate(s, p)
      BY <1>2, <1>4
    <2> QED  BY <2>1, MeansPredicate DEF r
  <1>5. CASE At(s, p, "(")
    <2>1. p <= Len(s) /\ s[p] = "("
      BY <1>5, AtWord
    <2>2. p + 1 \in Places(s) /\ p < p + 1 /\ p + 1 \in Nat
      BY <1>1, <2>1 DEF Places
    <2>3. Right(s, atoms, "or", p + 1, o) /\ MeansTerms(s, atoms, D, "or", p + 1, o)
      BY <2>2 DEF RightBehind, MeansBehind, o, atoms
    <2>4. f.ok = o.ok /\ f.pos = o.pos
      BY <2>3, JoinedEnd DEF Right, InPlace
    <2>5. f.ok => f.ast = IF o.terms = 1 THEN o.ast ELSE Append(o.ast, Node("or", o.terms))
      BY <2>4, JoinedAst
    <2>6. f.pos \in Places(s) /\ (f.ok => p + 1 < f.pos)
      BY <2>3, <2>4, Zenon DEF Right, InPlace
    <2> HIDE DEF f
    <2>7. r = IF ~f.ok THEN f ELSE IF ~c.ok THEN c ELSE Parsed(c.pos, f.ast)
      BY <1>2, <1>5
    <2>8. c = IF f.pos <= Len(s) /\ s[f.pos] = ")" THEN Parsed(f.pos + 1, s[f.pos]) ELSE ParseError(f.pos)
      BY <2>6, CloseAt
    <2> HIDE DEF c
    <2>9. CASE ~f.ok
      <3>1. ~r.ok
        BY <2>7, <2>9
      <3> QED  BY <3>1, Zenon DEF Means, r
    <2>10. CASE f.ok /\ ~(f.pos <= Len(s) /\ s[f.pos] = ")")
      <3>1. c = ParseError(f.pos)
        BY <2>8, <2>10
      <3>2. c.ok = FALSE
        BY <3>1 DEF ParseError
      <3>3. r = c
        BY <2>7, <2>10, <3>2
      <3>4. ~r.ok
        BY <3>2, <3>3
      <3> QED  BY <3>4, Zenon DEF Means, r
    <2>11. CASE f.ok /\ f.pos <= Len(s) /\ s[f.pos] = ")"
      <3>1. c = Parsed(f.pos + 1, s[f.pos])
        BY <2>8, <2>11
      <3>2. c.ok = TRUE /\ c.pos = f.pos + 1
        BY <3>1 DEF Parsed
      <3>3. r = Parsed(f.pos + 1, f.ast)
        BY <2>7, <2>11, <3>2
      <3>4. r.pos = f.pos + 1 /\ r.ast = f.ast
        BY <3>3 DEF Parsed
      <3>5. PICK e \in Places(s) : e = f.pos + 1 /\ e - 1 = f.pos /\ p + 1 < e
        BY <1>1, <2>6, <2>11 DEF Places
      <3>6. PICK v \in Reads(s, atoms, "or", p + 1, f.pos) : <<o.ast, o.terms, v>> \in D
        BY <2>3, <2>4, <2>11, Zenon DEF MeansTerms
      <3>7. <<f.ast, v>> \in E
        BY <2>5, <2>11, <3>6, Zenon DEF Composed
      <3>8. v \in Reads(s, atoms, "term", p, e)
        BY <1>3, <2>1, <2>11, <3>5, <3>6, TermRule
      <3> QED  BY <3>4, <3>5, <3>7, <3>8, Zenon DEF Means, r, atoms
    <2> QED  BY <2>9, <2>10, <2>11
  <1> QED  BY <1>4, <1>5

\* The tree of a unary goes with one of its readings, if the trees behind it do so.
LEMMA MeansUnary ==
    ASSUME NEW s \in Seq(STRING), NEW spec, NEW E, NEW A, NEW D, Composed(s, spec, E, A, D), NEW p \in Places(s),
           NEW g, RightBehind(s, FilterAtoms(s, spec), g, p), MeansBehind(s, FilterAtoms(s, spec), A, D, g, p)
    PROVE  Means(s, FilterAtoms(s, spec), E, "unary", p, parseUnary(g, s, p))
  <1> DEFINE r == parseUnary(g, s, p)
             f == parseTerm(g, s, p + 1)
             atoms == FilterAtoms(s, spec)
  <1>1. p \in Nat /\ 1 <= p /\ Len(s) \in Nat /\ p <= Len(s) + 1
    BY DEF Places
  <1>2. r = IF ~At(s, p, "not") THEN parseTerm(g, s, p)
            ELSE IF ~f.ok THEN f ELSE Parsed(f.pos, Append(f.ast, Node("not", 1)))
    BY UnaryUnfold
  <1>3. atoms \in [Spans(s) -> Sets] /\ PredicateAtoms(s, atoms)
    BY FilterAtomsRight
  <1> HIDE DEF r
  <1>4. CASE ~At(s, p, "not")
    <2>1. r = parseTerm(g, s, p)
      BY <1>2, <1>4
    <2>2. Means(s, atoms, E, "term", p, r)
      BY <2>1, MeansTerm
    <2>3. Right(s, atoms, "term", p, r)
      BY <1>3, <2>1, RightTerm
    <2> HIDE DEF atoms
    <2> SUFFICES ASSUME r.ok PROVE \E v \in Reads(s, atoms, "unary", p, r.pos) : <<r.ast, v>> \in E
      BY Zenon DEF Means, r, atoms
    <2>4. PICK v \in Reads(s, atoms, "term", p, r.pos) : <<r.ast, v>> \in E
      BY <2>2, Zenon DEF Means
    <2>5. r.pos \in Places(s)
      BY <2>3, Zenon DEF Right, InPlace
    <2>6. v \in Reads(s, atoms, "unary", p, r.pos)
      BY <1>3, <2>4, <2>5, UnaryRule
    <2> QED  BY <2>4, <2>6
  <1>5. CASE At(s, p, "not")
    <2>1. p <= Len(s) /\ s[p] = "not"
      BY <1>5, AtWord
    <2>2. p + 1 \in Places(s) /\ p < p + 1
      BY <1>1, <2>1 DEF Places
    <2>3. \A q \in Places(s) : p + 1 < q => p < q
      BY <1>1 DEF Places
    <2>4. RightBehind(s, atoms, g, p + 1) /\ MeansBehind(s, atoms, A, D, g, p + 1)
      BY <2>3, Zenon DEF RightBehind, MeansBehind
    <2>5. Means(s, atoms, E, "term", p + 1, f) /\ Right(s, atoms, "term", p + 1, f)
      BY <1>3, <2>2, <2>4, MeansTerm, RightTerm
    <2> HIDE DEF atoms, f
    <2>6. CASE ~f.ok
      <3>1. ~r.ok
        BY <1>2, <1>5, <2>6
      <3> QED  BY <3>1, Zenon DEF Means, r
    <2>7. CASE f.ok
      <3>1. r = Parsed(f.pos, Append(f.ast, Node("not", 1)))
        BY <1>2, <1>5, <2>7
      <3>2. r.pos = f.pos /\ r.ast = Append(f.ast, Node("not", 1))
        BY <3>1 DEF Parsed
      <3>3. PICK v \in Reads(s, atoms, "term", p + 1, f.pos) : <<f.ast, v>> \in E
        BY <2>5, <2>7, Zenon DEF Means
      <3>4. <<r.ast, Rows \ v>> \in E
        BY <3>2, <3>3, Zenon DEF Composed
      <3>5. f.pos \in Places(s) /\ p + 1 < f.pos
        BY <2>5, <2>7, Zenon DEF Right, InPlace
      <3>6. p < f.pos
        BY <1>1, <3>5 DEF Places
      <3>7. Rows \ v \in Reads(s, atoms, "unary", p, f.pos)
        BY <1>3, <2>1, <3>3, <3>5, <3>6, UnaryRule
      <3> QED  BY <3>2, <3>4, <3>7, Zenon DEF Means, r, atoms
    <2> QED  BY <2>6, <2>7
  <1> QED  BY <1>4, <1>5

\* The terms of a conjunction go with one of its readings, if the trees behind it do so.
LEMMA MeansAnd ==
    ASSUME NEW s \in Seq(STRING), NEW spec, NEW E, NEW A, NEW D, Composed(s, spec, E, A, D), NEW p \in Places(s),
           NEW g, RightBehind(s, FilterAtoms(s, spec), g, p), MeansBehind(s, FilterAtoms(s, spec), A, D, g, p)
    PROVE  MeansTerms(s, FilterAtoms(s, spec), A, "and", p, parseAndExpr(g, s, p))
  <1> DEFINE r == parseAndExpr(g, s, p)
             f == parseUnary(g, s, p)
             t == g[f.pos + 1].ands
             atoms == FilterAtoms(s, spec)
  <1>1. p \in Nat /\ 1 <= p /\ Len(s) \in Nat /\ p <= Len(s) + 1
    BY DEF Places
  <1>2. r = IF ~f.ok \/ ~At(s, f.pos, "and") THEN [ok |-> f.ok, pos |-> f.pos, ast |-> f.ast, terms |-> 1]
            ELSE [ok |-> t.ok, pos |-> t.pos, ast |-> f.ast \o t.ast, terms |-> t.terms + 1]
    BY Zenon DEF parseAndExpr, Terms, At
  <1>3. atoms \in [Spans(s) -> Sets] /\ PredicateAtoms(s, atoms)
    BY FilterAtomsRight
  <1>4. Means(s, atoms, E, "unary", p, f)
    BY MeansUnary
  <1>5. Right(s, atoms, "unary", p, f)
    BY <1>3, RightUnary
  <1> HIDE DEF r, f, atoms
  <1>6. f.ok \in BOOLEAN /\ f.pos \in Places(s) /\ (f.ok => p < f.pos)
    BY <1>5, Zenon DEF Right, InPlace
  <1>7. CASE ~f.ok \/ ~At(s, f.pos, "and")
    <2>1. r = [ok |-> f.ok, pos |-> f.pos, ast |-> f.ast, terms |-> 1]
      BY <1>2, <1>7
    <2>2. r.ok = f.ok /\ r.pos = f.pos /\ r.ast = f.ast /\ r.terms = 1
      BY <2>1
    <2> SUFFICES ASSUME f.ok PROVE \E v \in Reads(s, atoms, "and", p, f.pos) : <<f.ast, 1, v>> \in A
      BY <2>2, Zenon DEF MeansTerms, r, atoms
    <2>3. PICK v \in Reads(s, atoms, "unary", p, f.pos) : <<f.ast, v>> \in E
      BY <1>4, Zenon DEF Means
    <2>4. <<f.ast, 1, v>> \in A
      BY <2>3, Zenon DEF Composed
    <2>5. v \in Reads(s, atoms, "and", p, f.pos)
      BY <1>3, <1>6, <2>3, AndRule
    <2> QED  BY <2>4, <2>5
  <1>8. CASE f.ok /\ At(s, f.pos, "and")
    <2>1. r = [ok |-> t.ok, pos |-> t.pos, ast |-> f.ast \o t.ast, terms |-> t.terms + 1]
      BY <1>2, <1>8
    <2>2. r.ok = t.ok /\ r.pos = t.pos /\ r.ast = f.ast \o t.ast /\ r.terms = t.terms + 1
      BY <2>1
    <2>3. f.pos <= Len(s) /\ s[f.pos] = "and"
      BY <1>6, <1>8, AtWord
    <2>4. PICK q \in Places(s) : q = f.pos + 1 /\ p < q
      BY <1>1, <1>6, <1>8, <2>3 DEF Places
    <2>5. Right(s, atoms, "and", q, t) /\ MeansTerms(s, atoms, A, "and", q, t)
      BY <2>4 DEF RightBehind, MeansBehind, atoms
    <2> HIDE DEF t
    <2> SUFFICES ASSUME t.ok PROVE \E v \in Reads(s, atoms, "and", p, t.pos) : <<f.ast \o t.ast, t.terms + 1, v>> \in A
      BY <2>2, Zenon DEF MeansTerms, r, atoms
    <2>6. t.pos \in Places(s) /\ q < t.pos
      BY <2>5, Zenon DEF Right, InPlace
    <2>7. f.pos \in p .. t.pos - 1
      BY <1>1, <1>6, <1>8, <2>4, <2>6 DEF Places
    <2>8. PICK v \in Reads(s, atoms, "unary", p, f.pos) : <<f.ast, v>> \in E
      BY <1>4, <1>8, Zenon DEF Means
    <2>9. PICK w \in Reads(s, atoms, "and", q, t.pos) : <<t.ast, t.terms, w>> \in A
      BY <2>5, Zenon DEF MeansTerms
    <2>10. <<f.ast \o t.ast, t.terms + 1, v \cap w>> \in A
      BY <2>8, <2>9, Zenon DEF Composed
    <2>11. v \cap w \in Meets(Reads(s, atoms, "unary", p, f.pos), Reads(s, atoms, "and", f.pos + 1, t.pos))
      BY <2>4, <2>8, <2>9, Meeting
    <2>12. v \cap w \in Reads(s, atoms, "and", p, t.pos)
      BY <1>3, <2>3, <2>6, <2>7, <2>11, AndRule
    <2> QED  BY <2>10, <2>12
  <1> QED  BY <1>6, <1>7, <1>8

\* The terms of a disjunction go with one of its readings, if the trees behind it do so.
LEMMA MeansOr ==
    ASSUME NEW s \in Seq(STRING), NEW spec, NEW E, NEW A, NEW D, Composed(s, spec, E, A, D), NEW p \in Places(s),
           NEW g, RightBehind(s, FilterAtoms(s, spec), g, p), MeansBehind(s, FilterAtoms(s, spec), A, D, g, p)
    PROVE  MeansTerms(s, FilterAtoms(s, spec), D, "or", p, parseOrExpr(g, s, p))
  <1> DEFINE r == parseOrExpr(g, s, p)
             f == Joined("and", parseAndExpr(g, s, p))
             t == g[f.pos + 1].ors
             atoms == FilterAtoms(s, spec)
  <1>1. p \in Nat /\ 1 <= p /\ Len(s) \in Nat /\ p <= Len(s) + 1
    BY DEF Places
  <1>2. r = IF ~f.ok \/ ~At(s, f.pos, "or") THEN [ok |-> f.ok, pos |-> f.pos, ast |-> f.ast, terms |-> 1]
            ELSE [ok |-> t.ok, pos |-> t.pos, ast |-> f.ast \o t.ast, terms |-> t.terms + 1]
    BY Zenon DEF parseOrExpr, Terms, At
  <1>3. atoms \in [Spans(s) -> Sets] /\ PredicateAtoms(s, atoms)
    BY FilterAtomsRight
  <1> DEFINE a == parseAndExpr(g, s, p)
  <1>9. Right(s, atoms, "and", p, a) /\ MeansTerms(s, atoms, A, "and", p, a)
    BY <1>3, RightAnd, MeansAnd
  <1> HIDE DEF a, atoms
  <1>10. Joined("and", a).ok = a.ok /\ Joined("and", a).pos = a.pos
    BY <1>9, JoinedEnd DEF Right, InPlace
  <1>4. Means(s, atoms, E, "and", p, f)
    <2>1. ASSUME a.ok PROVE \E v \in Reads(s, atoms, "and", p, a.pos) : <<Joined("and", a).ast, v>> \in E
      <3>1. PICK v \in Reads(s, atoms, "and", p, a.pos) : <<a.ast, a.terms, v>> \in A
        BY <1>9, <2>1, Zenon DEF MeansTerms
      <3>2. <<IF a.terms = 1 THEN a.ast ELSE Append(a.ast, Node("and", a.terms)), v>> \in E
        BY <3>1, Zenon DEF Composed
      <3>3. Joined("and", a).ast = IF a.terms = 1 THEN a.ast ELSE Append(a.ast, Node("and", a.terms))
        BY <2>1, JoinedAst
      <3> QED  BY <3>1, <3>2, <3>3
    <2> QED  BY <1>10, <2>1, Zenon DEF Means, a
  <1>5. Right(s, atoms, "and", p, f)
    BY <1>9, <1>10, Zenon DEF Right, InPlace, a
  <1> HIDE DEF r, f, atoms
  <1>6. f.ok \in BOOLEAN /\ f.pos \in Places(s) /\ (f.ok => p < f.pos)
    BY <1>5, Zenon DEF Right, InPlace
  <1>7. CASE ~f.ok \/ ~At(s, f.pos, "or")
    <2>1. r = [ok |-> f.ok, pos |-> f.pos, ast |-> f.ast, terms |-> 1]
      BY <1>2, <1>7
    <2>2. r.ok = f.ok /\ r.pos = f.pos /\ r.ast = f.ast /\ r.terms = 1
      BY <2>1
    <2> SUFFICES ASSUME f.ok PROVE \E v \in Reads(s, atoms, "or", p, f.pos) : <<f.ast, 1, v>> \in D
      BY <2>2, Zenon DEF MeansTerms, r, atoms
    <2>3. PICK v \in Reads(s, atoms, "and", p, f.pos) : <<f.ast, v>> \in E
      BY <1>4, Zenon DEF Means
    <2>4. <<f.ast, 1, v>> \in D
      BY <2>3, Zenon DEF Composed
    <2>5. v \in Reads(s, atoms, "or", p, f.pos)
      BY <1>3, <1>6, <2>3, OrRule
    <2> QED  BY <2>4, <2>5
  <1>8. CASE f.ok /\ At(s, f.pos, "or")
    <2>1. r = [ok |-> t.ok, pos |-> t.pos, ast |-> f.ast \o t.ast, terms |-> t.terms + 1]
      BY <1>2, <1>8
    <2>2. r.ok = t.ok /\ r.pos = t.pos /\ r.ast = f.ast \o t.ast /\ r.terms = t.terms + 1
      BY <2>1
    <2>3. f.pos <= Len(s) /\ s[f.pos] = "or"
      BY <1>6, <1>8, AtWord
    <2>4. PICK q \in Places(s) : q = f.pos + 1 /\ p < q
      BY <1>1, <1>6, <1>8, <2>3 DEF Places
    <2>5. Right(s, atoms, "or", q, t) /\ MeansTerms(s, atoms, D, "or", q, t)
      BY <2>4 DEF RightBehind, MeansBehind, atoms
    <2> HIDE DEF t
    <2> SUFFICES ASSUME t.ok PROVE \E v \in Reads(s, atoms, "or", p, t.pos) : <<f.ast \o t.ast, t.terms + 1, v>> \in D
      BY <2>2, Zenon DEF MeansTerms, r, atoms
    <2>6. t.pos \in Places(s) /\ q < t.pos
      BY <2>5, Zenon DEF Right, InPlace
    <2>7. f.pos \in p .. t.pos - 1
      BY <1>1, <1>6, <1>8, <2>4, <2>6 DEF Places
    <2>8. PICK v \in Reads(s, atoms, "and", p, f.pos) : <<f.ast, v>> \in E
      BY <1>4, <1>8, Zenon DEF Means
    <2>9. PICK w \in Reads(s, atoms, "or", q, t.pos) : <<t.ast, t.terms, w>> \in D
      BY <2>5, Zenon DEF MeansTerms
    <2>10. <<f.ast \o t.ast, t.terms + 1, v \cup w>> \in D
      BY <2>8, <2>9, Zenon DEF Composed
    <2>11. v \cup w \in Joins(Reads(s, atoms, "and", p, f.pos), Reads(s, atoms, "or", f.pos + 1, t.pos))
      BY <2>4, <2>8, <2>9, Joining
    <2>12. v \cup w \in Reads(s, atoms, "or", p, t.pos)
      BY <1>3, <2>3, <2>6, <2>7, <2>11, OrRule
    <2> QED  BY <2>10, <2>12
  <1> QED  BY <1>6, <1>7, <1>8

\* The filter that parseExpr makes of its words goes with one of their readings.
LEMMA FilterMeans ==
    ASSUME NEW s \in Seq(STRING), NEW spec, NEW E, NEW A, NEW D, Composed(s, spec, E, A, D), NEW p \in Places(s)
    PROVE  Means(s, FilterAtoms(s, spec), E, "or", p, parseExpr(s, p))
  <1> DEFINE atoms == FilterAtoms(s, spec)
             g == Exprs(s)
             good(q) == MeansTerms(s, atoms, A, "and", q, g[q].ands) /\ MeansTerms(s, atoms, D, "or", q, g[q].ors)
             K == {k \in Nat : \A q \in Places(s) : Len(s) + 1 - k < q => good(q)}
  <1>1. Len(s) \in Nat /\ \A q \in Places(s) : q \in Nat /\ 1 <= q /\ q <= Len(s) + 1
    BY DEF Places
  <1>2. atoms \in [Spans(s) -> Sets] /\ PredicateAtoms(s, atoms)
    BY FilterAtomsRight
  <1>3. \A q \in Places(s) : /\ g[q] = Body(s, g, q)
                             /\ Right(s, atoms, "and", q, g[q].ands) /\ Right(s, atoms, "or", q, g[q].ors)
    BY <1>2, ExprsRight
  <1> HIDE DEF g
  <1>4. \A q \in Places(s) : RightBehind(s, atoms, g, q)
    BY <1>3, Zenon DEF RightBehind
  <1>5. \A q \in Places(s) : ~(Len(s) + 1 - 0 < q)
    BY <1>1
  <1>6. 0 \in K
    <2> HIDE DEF good
    <2> QED  BY <1>5
  <1>7. ASSUME NEW k \in K PROVE k + 1 \in K
    <2>1. k \in Nat /\ \A q \in Places(s) : Len(s) + 1 - k < q => good(q)
      OBVIOUS
    <2>2. ASSUME NEW q \in Places(s), Len(s) + 1 - (k + 1) < q PROVE good(q)
      <3> HIDE DEF good
      <3>1. \A x \in Places(s) : q < x => Len(s) + 1 - k < x
        <4>1. k \in Nat
          BY <2>1
        <4> QED  BY <1>1, <2>2, <4>1
      <3>2. \A x \in Places(s) : q < x => good(x)
        BY <2>1, <3>1
      <3>3. MeansBehind(s, atoms, A, D, g, q)
        BY <3>2 DEF MeansBehind, good
      <3>4. g[q].ands = parseAndExpr(g, s, q) /\ g[q].ors = parseOrExpr(g, s, q)
        <4>1. g[q] = Body(s, g, q)
          BY <1>3
        <4> QED  BY <4>1 DEF Body
      <3>5. MeansTerms(s, atoms, A, "and", q, parseAndExpr(g, s, q))
        BY <1>4, <3>3, MeansAnd
      <3>6. MeansTerms(s, atoms, D, "or", q, parseOrExpr(g, s, q))
        BY <1>4, <3>3, MeansOr
      <3> QED  BY <3>4, <3>5, <3>6 DEF good
    <2> HIDE DEF good
    <2> QED  BY <2>1, <2>2
  <1>8. K = Nat
    <2>1. K \in SUBSET Nat
      OBVIOUS
    <2> HIDE DEF K
    <2> QED  BY <1>6, <1>7, <2>1, SetInduction
  <1>9. Len(s) + 1 - (Len(s) + 1) < p
    BY <1>1
  <1>10. good(p)
    <2> HIDE DEF good
    <2>1. Len(s) + 1 \in K
      BY <1>1, <1>8
    <2> QED  BY <1>9, <2>1
  <1> DEFINE o == g[p].ors
  <1>11. MeansTerms(s, atoms, D, "or", p, o) /\ Right(s, atoms, "or", p, o)
    BY <1>3, <1>10
  <1>12. parseExpr(s, p) = Joined("or", o)
    BY DEF parseExpr, g
  <1> HIDE DEF o, atoms
  <1>13. Joined("or", o).ok = o.ok /\ Joined("or", o).pos = o.pos
    BY <1>11, JoinedEnd DEF Right, InPlace
  <1>14. ASSUME o.ok PROVE \E v \in Reads(s, atoms, "or", p, o.pos) : <<Joined("or", o).ast, v>> \in E
    <2>1. PICK v \in Reads(s, atoms, "or", p, o.pos) : <<o.ast, o.terms, v>> \in D
      BY <1>11, <1>14, Zenon DEF MeansTerms
    <2>2. <<IF o.terms = 1 THEN o.ast ELSE Append(o.ast, Node("or", o.terms)), v>> \in E
      BY <2>1, Zenon DEF Composed
    <2>3. Joined("or", o).ast = IF o.terms = 1 THEN o.ast ELSE Append(o.ast, Node("or", o.terms))
      BY <1>14, JoinedAst
    <2> QED  BY <2>1, <2>2, <2>3
  <1> QED  BY <1>12, <1>13, <1>14, Zenon DEF Means, atoms

\* No predicate starts with a bracket or a not, and where one ends is decided.
LEMMA FilterAtomsAtomic ==
    ASSUME NEW s \in Seq(STRING), NEW spec
    PROVE  Atomic(s, FilterAtoms(s, spec))
  <1> DEFINE atoms == FilterAtoms(s, spec)
  <1>1. \A i, j \in Places(s) : atoms[<<i, j>>] =
          IF DerivesPredicate(s, i, j) THEN {PredicateRows(s, i, j, spec)} ELSE {}
    BY FilterAtomsRight
  <1> HIDE DEF atoms
  <1>2. ASSUME NEW i \in Places(s), NEW j \in Places(s), atoms[<<i, j>>] # {}
        PROVE  i < j /\ s[i] \notin {"(", "not"}
    <2>1. DerivesPredicate(s, i, j)
      BY <1>1, <1>2
    <2>2. i + 3 <= j /\ s[i] \in Idents
      BY <2>1, Zenon DEF DerivesPredicate
    <2>3. "(" \notin Idents /\ "not" \notin Idents
      BY Words, OpsApart
    <2> QED  BY <2>2, <2>3 DEF Places
  <1>3. ASSUME NEW i \in Places(s), NEW j \in Places(s), NEW k \in Places(s),
               NEW a \in atoms[<<i, j>>], NEW b \in atoms[<<i, k>>]
        PROVE  j = k /\ a = b
    <2>1. DerivesPredicate(s, i, j) /\ a = PredicateRows(s, i, j, spec)
      BY <1>1
    <2>2. DerivesPredicate(s, i, k) /\ b = PredicateRows(s, i, k, spec)
      BY <1>1
    <2>3. PredicateParsed(s, i, parsePredicate(s, i))
      BY PredicateAt
    <2>4. j = k
      BY <2>1, <2>2, <2>3, Zenon DEF PredicateParsed
    <2> QED  BY <2>1, <2>2, <2>4
  <1>4. \A i, j \in Places(s) : atoms[<<i, j>>] # {} => i < j /\ s[i] \notin {"(", "not"}
    BY <1>2
  <1>5. \A i, j, k \in Places(s) : \A a \in atoms[<<i, j>>], b \in atoms[<<i, k>>] : j = k /\ a = b
    BY <1>3
  <1> QED  BY <1>4, <1>5, Zenon DEF Atomic, atoms

-----------------------------------------------------------------------------
(***************************************************************************)
(* What a query asks for, by its tree.                                     *)
(***************************************************************************)
\* What parseQuery keeps of a clause: nothing without its word, else what its phrase is.
LEMMA ClauseAst ==
    ASSUME NEW s \in Seq(STRING), NEW p \in Places(s), NEW word \in ClauseWords, ClauseOf(word, s, p).ok
    PROVE  \/ ClauseOf(word, s, p).pos = p /\ ClauseOf(word, s, p).ast = <<>>
           \/ /\ p + 1 \in Places(s) /\ p < ClauseOf(word, s, p).pos /\ PhraseOf(word, s, p + 1).ok
              /\ ClauseOf(word, s, p).pos = PhraseOf(word, s, p + 1).pos
              /\ ClauseOf(word, s, p).ast = <<PhraseOf(word, s, p + 1).ast>>
  <1> DEFINE r == ClauseOf(word, s, p)
             f == PhraseOf(word, s, p + 1)
  <1>1. p \in Nat /\ 1 <= p /\ Len(s) \in Nat /\ p <= Len(s) + 1 /\ p <= p
    BY DEF Places
  <1>2. r = IF ~At(s, p, word) THEN Parsed(p, <<>>) ELSE IF ~f.ok THEN f ELSE Parsed(f.pos, <<f.ast>>)
    BY DEF ClauseOf, Given
  <1>3. At(s, p, word) <=> p <= Len(s) /\ s[p] = word
    BY AtWord DEF ClauseWords
  <1>4. CASE ~At(s, p, word)
    <2>1. r = Parsed(p, <<>>)
      BY <1>2, <1>4
    <2>2. r.pos = p /\ r.ast = <<>>
      BY <2>1 DEF Parsed
    <2> QED  BY <2>2
  <1>5. CASE At(s, p, word)
    <2>1. p + 1 \in Places(s) /\ s[p] = word
      BY <1>1, <1>3, <1>5 DEF Places
    <2>2. PhraseRight(word, s, p + 1, f)
      BY <2>1, PhrasesRight
    <2> HIDE DEF f, r
    <2>3. p < f.pos
      BY <1>1, <2>2 DEF PhraseRight, InPlace, Places
    <2>4. r.ok
      BY DEF r
    <2>5. f.ok
      BY <1>2, <1>5, <2>4
    <2>6. r = Parsed(f.pos, <<f.ast>>)
      BY <1>2, <1>5, <2>5
    <2>7. r.pos = f.pos /\ r.ast = <<f.ast>>
      BY <2>6 DEF Parsed
    <2> QED  BY <2>1, <2>3, <2>5, <2>7 DEF r, f
  <1> QED  BY <1>4, <1>5

\* What parseDurationToken keeps: the duration.
LEMMA DurationAst ==
    ASSUME NEW s \in Seq(STRING), NEW p \in Places(s), parseDurationToken(s, p).ok
    PROVE  parseDurationToken(s, p).ast = Durations[s[p]]
  <1> DEFINE r == parseDurationToken(s, p)
             d == expect(s, p, {"duration"})
  <1>1. p \in Nat /\ 1 <= p
    BY DEF Places
  <1>3. d = IF p <= Len(s) /\ s[p] \in DOMAIN Durations THEN Parsed(p + 1, s[p]) ELSE ParseError(p)
    BY <1>1, Kinds, Expect
  <1>4. r = IF ~d.ok THEN d ELSE IF Lasts(d.ast) THEN Parsed(d.pos, Durations[d.ast]) ELSE ParseError(p)
    BY Zenon DEF parseDurationToken, Then, Lasts
  <1>5. r.ok
    OBVIOUS
  <1> HIDE DEF r, d
  <1>6. CASE p <= Len(s) /\ s[p] \in DOMAIN Durations
    <2>1. d = Parsed(p + 1, s[p])
      BY <1>3, <1>6
    <2>2. d.ok = TRUE /\ d.ast = s[p]
      BY <2>1 DEF Parsed
    <2>3. r = Parsed(d.pos, Durations[s[p]]) \/ r = ParseError(p)
      BY <1>4, <2>2
    <2>4. ParseError(p).ok = FALSE /\ Parsed(d.pos, Durations[s[p]]).ast = Durations[s[p]]
      BY DEF Parsed, ParseError
    <2> QED  BY <1>5, <2>3, <2>4 DEF r
  <1>7. CASE ~(p <= Len(s) /\ s[p] \in DOMAIN Durations)
    <2>1. d = ParseError(p)
      BY <1>3, <1>7
    <2>2. d.ok = FALSE
      BY <2>1 DEF ParseError
    <2> QED  BY <1>4, <1>5, <2>2
  <1> QED  BY <1>6, <1>7

\* A filter has one reading, and its tree goes with it.
LEMMA FilterSelects ==
    ASSUME NEW s \in Seq(STRING), NEW spec, NEW E, NEW A, NEW D, Composed(s, spec, E, A, D), NEW p \in Places(s),
           parseExpr(s, p).ok
    PROVE  \E v \in SUBSET Rows :
             /\ Reads(s, FilterAtoms(s, spec), "or", p, parseExpr(s, p).pos) = {v}
             /\ <<parseExpr(s, p).ast, v>> \in E
  <1> DEFINE r == parseExpr(s, p)
             atoms == FilterAtoms(s, spec)
  <1>1. atoms \in [Spans(s) -> Sets] /\ PredicateAtoms(s, atoms) /\ Atomic(s, atoms)
    BY FilterAtomsRight, FilterAtomsAtomic
  <1>2. Means(s, atoms, E, "or", p, r)
    BY FilterMeans
  <1>3. Right(s, atoms, "or", p, r)
    <2> DEFINE o == Exprs(s)[p].ors
    <2>1. Right(s, atoms, "or", p, o)
      BY <1>1, ExprsRight
    <2>2. r = Joined("or", o)
      BY DEF parseExpr
    <2> HIDE DEF o, atoms, r
    <2>3. Joined("or", o).ok = o.ok /\ Joined("or", o).pos = o.pos
      BY <2>1, JoinedEnd DEF Right, InPlace
    <2> QED  BY <2>1, <2>2, <2>3, Zenon DEF Right, InPlace
  <1>4. r.ok
    OBVIOUS
  <1> HIDE DEF r, atoms
  <1>5. r.pos \in Places(s) /\ EndsAt(s, "or", r.pos)
    BY <1>3, <1>4, Zenon DEF Right, InPlace
  <1>6. peek(s, r.pos) \notin GoesOn("or")
    BY <1>5 DEF EndsAt, At, GoesOn
  <1>7. PICK v \in Reads(s, atoms, "or", p, r.pos) : <<r.ast, v>> \in E
    BY <1>2, <1>4, Zenon DEF Means
  <1>8. Determined(s, atoms, "or", p, r.pos)
    BY <1>1, <1>5, ReadInOneWay DEF Rules
  <1>9. \A b \in Reads(s, atoms, "or", p, r.pos) : v = b
    BY <1>5, <1>6, <1>7, <1>8, Zenon DEF Determined
  <1>10. Reads(s, atoms, "or", p, r.pos) \in Sets
    BY <1>1, <1>5, ReadsType DEF Rules
  <1>11. v \in SUBSET Rows
    BY <1>7, <1>10 DEF Sets
  <1>12. Reads(s, atoms, "or", p, r.pos) = {v}
    BY <1>7, <1>9
  <1> QED  BY <1>7, <1>11, <1>12 DEF r, atoms

\* What a query asks for, in terms of its tree.
Within(v, q, default) == {row \in v : row["age"] <= IF q.over = <<>> THEN default ELSE q.over[1]}

Selections(range, filter) == {{row \in v : row["age"] <= range} : v \in filter}

\* A query asks for one set of rows: the reading that goes with its tree, within its range.
LEMMA AskedMeans ==
    ASSUME NEW s \in Seq(STRING), Parse(s).ok, NEW default, NEW E, NEW A, NEW D, Composed(s, Registry[s[1]], E, A, D)
    PROVE  \E v \in SUBSET Rows :
             /\ Asked(s, default) = {Within(v, Parse(s).ast, default)}
             /\ IF Parse(s).ast.filter = <<>> THEN v = Rows ELSE <<Parse(s).ast.filter[1], v>> \in E
  <1> DEFINE q == Parse(s).ast
             spec == Registry[s[1]]
             c == Cut(s, G(s).pos, F(s).pos, O(s).pos, T(s).pos, B(s).pos)
             range == IF O(s).pos = F(s).pos THEN default ELSE Durations[s[F(s).pos + 1]]
             filter == IF F(s).pos = G(s).pos THEN {Rows}
                       ELSE FilterReadings(s, spec)[<<"or", G(s).pos + 1, F(s).pos>>]
  <1>1. /\ Metric(s) /\ ClausesOk(s) /\ q = QueryAst(s)
    BY ParseSound
  <1>2. Derivations(s) = {c}
    BY ParserGrammar
  <1>3. G(s).pos \in Places(s) /\ F(s).pos \in Places(s)
    BY <1>1, ClausesPlace
  <1>4. q.over = O(s).ast /\ q.filter = F(s).ast
    BY <1>1 DEF QueryAst
  <1>5. Asked(s, default) = Selections(range, filter)
    <2> DEFINE d == CHOOSE x \in Derivations(s) : TRUE
    <2>1. d = c
      BY <1>2
    <2>2. c[2] = G(s).pos /\ c[3] = F(s).pos /\ c[4] = O(s).pos
      BY DEF Cut
    <2> HIDE DEF c
    <2> DEFINE range2 == IF d[4] = d[3] THEN default ELSE Durations[s[d[3] + 1]]
               filter2 == IF d[3] = d[2] THEN {Rows} ELSE FilterReadings(s, Registry[s[1]])[<<"or", d[2] + 1, d[3]>>]
    <2>3. Asked(s, default) = Selections(range2, filter2)
      BY DEF Asked, Selections
    <2>4. d[2] = G(s).pos /\ d[3] = F(s).pos /\ d[4] = O(s).pos
      BY <2>1, <2>2
    <2> HIDE DEF d
    <2>5. range2 = range
      BY <2>4, Zenon
    <2>6. filter2 = filter
      BY <2>4, Zenon
    <2> HIDE DEF range2, filter2, range, filter
    <2> QED  BY <2>3, <2>5, <2>6, Zenon
  <1> HIDE DEF q, c
  <1>6. range = IF q.over = <<>> THEN default ELSE q.over[1]
    <2>1. O(s) = ClauseOf("over", s, F(s).pos)
      BY ClausesOf DEF O
    <2>2. O(s).ok
      BY <1>1 DEF ClausesOk
    <2> DEFINE f == PhraseOf("over", s, F(s).pos + 1)
    <2>3. f = parseDurationToken(s, F(s).pos + 1)
      BY DEF PhraseOf
    <2>4. \/ O(s).pos = F(s).pos /\ O(s).ast = <<>>
          \/ /\ F(s).pos + 1 \in Places(s) /\ F(s).pos < O(s).pos /\ f.ok
             /\ O(s).ast = <<f.ast>>
      BY <1>3, <2>1, <2>2, ClauseAst DEF ClauseWords
    <2>5. CASE O(s).pos = F(s).pos /\ O(s).ast = <<>>
      BY <1>4, <2>5
    <2>6. CASE F(s).pos + 1 \in Places(s) /\ F(s).pos < O(s).pos /\ f.ok /\ O(s).ast = <<f.ast>>
      <3>1. f.ast = Durations[s[F(s).pos + 1]]
        BY <2>3, <2>6, DurationAst
      <3>2. O(s).pos # F(s).pos
        BY <1>3, <2>6 DEF Places
      <3>3. O(s).ast # <<>> /\ O(s).ast[1] = f.ast
        BY <2>6
      <3> QED  BY <1>4, <3>1, <3>2, <3>3
    <2> QED  BY <2>4, <2>5, <2>6
  <1>7. \E v \in SUBSET Rows : filter = {v} /\ IF q.filter = <<>> THEN v = Rows ELSE <<q.filter[1], v>> \in E
    <2>1. F(s) = ClauseOf("where", s, G(s).pos)
      BY ClausesOf DEF F
    <2>2. F(s).ok
      BY <1>1 DEF ClausesOk
    <2> DEFINE f == PhraseOf("where", s, G(s).pos + 1)
    <2>3. f = parseExpr(s, G(s).pos + 1)
      BY DEF PhraseOf
    <2>4. \/ F(s).pos = G(s).pos /\ F(s).ast = <<>>
          \/ /\ G(s).pos + 1 \in Places(s) /\ G(s).pos < F(s).pos /\ f.ok
             /\ F(s).pos = f.pos /\ F(s).ast = <<f.ast>>
      BY <1>3, <2>1, <2>2, ClauseAst DEF ClauseWords
    <2>5. CASE F(s).pos = G(s).pos /\ F(s).ast = <<>>
      <3>1. filter = {Rows} /\ q.filter = <<>>
        BY <1>4, <2>5
      <3> QED  BY <3>1
    <2>6. CASE G(s).pos + 1 \in Places(s) /\ G(s).pos < F(s).pos /\ f.ok /\ F(s).pos = f.pos /\ F(s).ast = <<f.ast>>
      <3> DEFINE x == parseExpr(s, G(s).pos + 1)
      <3>6. x.ok /\ f = x
        BY <2>3, <2>6
      <3>7. \E v \in SUBSET Rows : Reads(s, FilterAtoms(s, spec), "or", G(s).pos + 1, x.pos) = {v} /\ <<x.ast, v>> \in E
        BY <2>6, <3>6, FilterSelects
      <3>1. PICK v \in SUBSET Rows : /\ Reads(s, FilterAtoms(s, spec), "or", G(s).pos + 1, F(s).pos) = {v}
                                     /\ <<f.ast, v>> \in E
        BY <2>6, <3>6, <3>7
      <3>2. FilterReadings(s, spec)[<<"or", G(s).pos + 1, F(s).pos>>] = Reads(s, FilterAtoms(s, spec), "or", G(s).pos + 1, F(s).pos)
        BY Zenon DEF FilterReadings, Reads, FilterAtoms
      <3>3. F(s).pos # G(s).pos
        BY <1>3, <2>6 DEF Places
      <3>4. q.filter # <<>> /\ q.filter[1] = f.ast
        BY <1>4, <2>6
      <3>5. filter = {v}
        BY <3>1, <3>2, <3>3
      <3> HIDE DEF filter, f
      <3> QED  BY <3>1, <3>4, <3>5
    <2> QED  BY <2>4, <2>5, <2>6
  <1> HIDE DEF filter, range
  <1>8. PICK v \in SUBSET Rows : filter = {v} /\ IF q.filter = <<>> THEN v = Rows ELSE <<q.filter[1], v>> \in E
    BY <1>7
  <1>9. Asked(s, default) = {{row \in v : row["age"] <= range}}
    <2>1. Asked(s, default) = Selections(range, {v})
      BY <1>5, <1>8
    <2> QED  BY <2>1 DEF Selections
  <1>10. {row \in v : row["age"] <= range} = Within(v, q, default)
    BY <1>6, Zenon DEF Within
  <1> QED  BY <1>8, <1>9, <1>10, Zenon DEF q

-----------------------------------------------------------------------------
(***************************************************************************)
(* Prometheus: a tree that matchers can say selects what its predicates    *)
(* select together.                                                        *)
(***************************************************************************)
\* The nodes of the trees over s.
Nodes(s) ==
    {PredicateNode(s, x[1], x[2]) : x \in {y \in Spans(s) : DerivesPredicate(s, y[1], y[2])}}
      \cup {Node(name, n) : name \in {"not", "and", "or"}, n \in Nat}

Selected(a, spec) ==
    {row \in Rows : \A pr \in Predicates(a) : Satisfies(pr.op, row[spec.filter[pr.field].column], pr.value.items)}
Plain(a) == \A i \in DOMAIN a : Expressible(a[i])
Faithful(a, v, spec) == Plain(a) => v = Selected(a, spec)

PromExprs(s, spec) == {x \in Seq(Nodes(s)) \X SUBSET Rows : Faithful(x[1], x[2], spec)}
PromAnds(s, spec) == {x \in Seq(Nodes(s)) \X (Nat \ {0}) \X SUBSET Rows : Faithful(x[1], x[3], spec)}
PromOrs(s, spec) == {x \in Seq(Nodes(s)) \X (Nat \ {0}) \X SUBSET Rows : x[2] = 1 => Faithful(x[1], x[3], spec)}

\* The pairs of a tree and the rows it selects if it is plain.
LEMMA PromPairs ==
    ASSUME NEW s, NEW spec, NEW a, NEW n, NEW v
    PROVE  /\ <<a, v>> \in PromExprs(s, spec) <=> a \in Seq(Nodes(s)) /\ v \in SUBSET Rows /\ Faithful(a, v, spec)
           /\ <<a, n, v>> \in PromAnds(s, spec) <=>
                a \in Seq(Nodes(s)) /\ n \in Nat \ {0} /\ v \in SUBSET Rows /\ Faithful(a, v, spec)
           /\ <<a, n, v>> \in PromOrs(s, spec) <=>
                a \in Seq(Nodes(s)) /\ n \in Nat \ {0} /\ v \in SUBSET Rows /\ (n = 1 => Faithful(a, v, spec))
  BY DEF PromExprs, PromAnds, PromOrs

\* The nodes that join, and which of them Prometheus can express.
LEMMA NodeKinds ==
    ASSUME NEW s, NEW name \in {"not", "and", "or"}, NEW n \in Nat
    PROVE  /\ Node(name, n) \in Nodes(s) /\ Node(name, n).node # "predicate"
           /\ Expressible(Node(name, n)) <=> name = "and"
  <1>1. Node(name, n) \in Nodes(s)
    BY DEF Nodes
  <1>2. Node(name, n).node = name
    BY DEF Node
  <1> QED  BY <1>1, <1>2, Zenon DEF Expressible

\* A node more: what is plain of it, and which predicates it has.
LEMMA PlainAppend ==
    ASSUME NEW S, NEW a \in Seq(S), NEW x \in S
    PROVE  /\ Plain(Append(a, x)) <=> Plain(a) /\ Expressible(x)
           /\ x.node # "predicate" => Predicates(Append(a, x)) = Predicates(a)
  <1> DEFINE b == Append(a, x)
  <1>1. b \in Seq(S) /\ Len(b) = Len(a) + 1 /\ Len(a) \in Nat
    BY AppendProperties
  <1>2. \A i \in 1 .. Len(a) : b[i] = a[i]
    BY AppendProperties
  <1>3. b[Len(a) + 1] = x
    BY AppendProperties
  <1>4. DOMAIN a = 1 .. Len(a) /\ DOMAIN b = 1 .. Len(b)
    BY <1>1
  <1> HIDE DEF b
  <1>5. \A i \in DOMAIN b : i \in DOMAIN a \/ i = Len(a) + 1
    BY <1>1, <1>4
  <1>6. DOMAIN a \subseteq DOMAIN b /\ Len(a) + 1 \in DOMAIN b
    BY <1>1, <1>4
  <1>7. Plain(b) <=> Plain(a) /\ Expressible(x)
    BY <1>2, <1>3, <1>4, <1>5, <1>6 DEF Plain
  <1>8. ASSUME x.node # "predicate" PROVE Predicates(b) = Predicates(a)
    BY <1>2, <1>3, <1>4, <1>5, <1>6, <1>8 DEF Predicates
  <1> QED  BY <1>7, <1>8 DEF b

\* Two trees in a row: what is plain of them, and which predicates they have.
LEMMA PlainConcat ==
    ASSUME NEW S, NEW a \in Seq(S), NEW b \in Seq(S)
    PROVE  /\ Plain(a \o b) <=> Plain(a) /\ Plain(b)
           /\ Predicates(a \o b) = Predicates(a) \cup Predicates(b)
  <1> DEFINE c == a \o b
  <1>1. c \in Seq(S) /\ Len(c) = Len(a) + Len(b) /\ Len(a) \in Nat /\ Len(b) \in Nat
    BY ConcatProperties
  <1>2. \A i \in 1 .. Len(a) : c[i] = a[i]
    BY ConcatProperties
  <1>3. \A i \in 1 .. Len(b) : c[Len(a) + i] = b[i]
    <2> SUFFICES ASSUME NEW i \in 1 .. Len(b) PROVE c[Len(a) + i] = b[i]
      OBVIOUS
    <2>1. Len(a) + i \in 1 .. Len(a) + Len(b) /\ ~(Len(a) + i <= Len(a)) /\ Len(a) + i - Len(a) = i
      BY <1>1
    <2> QED  BY <2>1
  <1>4. DOMAIN a = 1 .. Len(a) /\ DOMAIN b = 1 .. Len(b) /\ DOMAIN c = 1 .. Len(c)
    BY <1>1
  <1> HIDE DEF c
  <1>5. \A i \in DOMAIN c : i \in DOMAIN a \/ \E k \in DOMAIN b : i = Len(a) + k
    <2> SUFFICES ASSUME NEW i \in DOMAIN c, i \notin DOMAIN a PROVE \E k \in DOMAIN b : i = Len(a) + k
      OBVIOUS
    <2>1. i - Len(a) \in DOMAIN b /\ i = Len(a) + (i - Len(a))
      BY <1>1, <1>4
    <2> QED  BY <2>1
  <1>6. DOMAIN a \subseteq DOMAIN c /\ \A k \in DOMAIN b : Len(a) + k \in DOMAIN c
    BY <1>1, <1>4
  <1>7. Plain(c) <=> Plain(a) /\ Plain(b)
    BY <1>2, <1>3, <1>4, <1>5, <1>6 DEF Plain
  <1>8. \A x : x \in Predicates(c) <=> x \in Predicates(a) \/ x \in Predicates(b)
    BY <1>2, <1>3, <1>4, <1>5, <1>6 DEF Predicates
  <1>9. Predicates(c) = Predicates(a) \cup Predicates(b)
    BY <1>8
  <1> QED  BY <1>7, <1>9 DEF c

\* What the predicates of a tree select together.
LEMMA SelectedOf ==
    ASSUME NEW spec, NEW a, NEW b, NEW c
    PROVE  /\ Predicates(a) = Predicates(b) => Selected(a, spec) = Selected(b, spec)
           /\ Predicates(c) = Predicates(a) \cup Predicates(b) => Selected(c, spec) = Selected(a, spec) \cap Selected(b, spec)
           /\ Predicates(a) = {} => Selected(a, spec) = Rows
  <1> DEFINE sat(row, pr) == Satisfies(pr.op, row[spec.filter[pr.field].column], pr.value.items)
  <1>1. \A x : Selected(x, spec) = {row \in Rows : \A pr \in Predicates(x) : sat(row, pr)}
    BY Zenon DEF Selected
  <1> HIDE DEF sat
  <1> QED  BY <1>1

\* One predicate selects what it says.
LEMMA OnePredicate ==
    ASSUME NEW s \in Seq(STRING), NEW spec, NEW i \in Places(s), NEW j \in Places(s), DerivesPredicate(s, i, j)
    PROVE  <<<<PredicateNode(s, i, j)>>, PredicateRows(s, i, j, spec)>> \in PromExprs(s, spec)
  <1> DEFINE x == PredicateNode(s, i, j)
  <1>1. x \in Nodes(s)
    <2>1. <<i, j>> \in {y \in Spans(s) : DerivesPredicate(s, y[1], y[2])}
      BY DEF Spans
    <2> HIDE DEF x
    <2>2. PredicateNode(s, <<i, j>>[1], <<i, j>>[2]) \in Nodes(s)
      BY <2>1 DEF Nodes
    <2> QED  BY <2>2 DEF x
  <1>2. x.node = "predicate" /\ x.op = s[i + 1] /\ x.field = s[i] /\ x.value.items = Literals(s, i, j)
    BY DEF PredicateNode, Predicate
  <1> HIDE DEF x
  <1>3. <<x>> \in Seq(Nodes(s)) /\ Predicates(<<x>>) = {x}
    BY <1>1, <1>2 DEF Predicates
  <1>4. PredicateRows(s, i, j, spec) = Selected(<<x>>, spec)
    <2>1. Selected(<<x>>, spec) = {row \in Rows : Satisfies(x.op, row[spec.filter[x.field].column], x.value.items)}
      <3> DEFINE sat(row, pr) == Satisfies(pr.op, row[spec.filter[pr.field].column], pr.value.items)
      <3>1. Selected(<<x>>, spec) = {row \in Rows : \A pr \in Predicates(<<x>>) : sat(row, pr)}
        BY Zenon DEF Selected
      <3>2. {row \in Rows : sat(row, x)} = {row \in Rows : Satisfies(x.op, row[spec.filter[x.field].column], x.value.items)}
        BY Zenon
      <3> HIDE DEF sat
      <3> QED  BY <1>3, <3>1, <3>2
    <2> QED  BY <1>2, <2>1, Zenon DEF PredicateRows
  <1>5. PredicateRows(s, i, j, spec) \in SUBSET Rows
    BY DEF PredicateRows
  <1> QED  BY <1>3, <1>4, <1>5, PromPairs, Zenon DEF Faithful, x

-----------------------------------------------------------------------------
(***************************************************************************)
(* The matchers of a plain tree.                                           *)
(***************************************************************************)
\* Whatever the parser composes of plain trees selects what its predicates select together.
LEMMA PromComposed ==
    ASSUME NEW s \in Seq(STRING), NEW spec
    PROVE  Composed(s, spec, PromExprs(s, spec), PromAnds(s, spec), PromOrs(s, spec))
  <1> DEFINE E == PromExprs(s, spec)
             A == PromAnds(s, spec)
             D == PromOrs(s, spec)
             N == Nodes(s)
  <1>1. \A i, j \in Places(s) :
          DerivesPredicate(s, i, j) => <<<<PredicateNode(s, i, j)>>, PredicateRows(s, i, j, spec)>> \in E
    BY OnePredicate
  <1>2. \A a, v : <<a, v>> \in E <=> a \in Seq(N) /\ v \in SUBSET Rows /\ Faithful(a, v, spec)
    BY PromPairs
  <1>3. \A a, n, v : <<a, n, v>> \in A <=>
          a \in Seq(N) /\ n \in Nat \ {0} /\ v \in SUBSET Rows /\ Faithful(a, v, spec)
    BY PromPairs
  <1>4. \A a, n, v : <<a, n, v>> \in D <=>
          a \in Seq(N) /\ n \in Nat \ {0} /\ v \in SUBSET Rows /\ (n = 1 => Faithful(a, v, spec))
    BY PromPairs
  <1>5. \A name \in {"not", "and", "or"}, n \in Nat :
          Node(name, n) \in N /\ Node(name, n).node # "predicate" /\ (Expressible(Node(name, n)) <=> name = "and")
    BY NodeKinds
  <1> HIDE DEF E, A, D, N
  <1>6. \A a \in Seq(N), name \in {"not", "and", "or"}, n \in Nat :
          /\ Append(a, Node(name, n)) \in Seq(N)
          /\ Plain(Append(a, Node(name, n))) <=> Plain(a) /\ name = "and"
          /\ Predicates(Append(a, Node(name, n))) = Predicates(a)
    <2> SUFFICES ASSUME NEW a \in Seq(N), NEW name \in {"not", "and", "or"}, NEW n \in Nat
                 PROVE  /\ Append(a, Node(name, n)) \in Seq(N)
                        /\ Plain(Append(a, Node(name, n))) <=> Plain(a) /\ name = "and"
                        /\ Predicates(Append(a, Node(name, n))) = Predicates(a)
      OBVIOUS
    <2>1. Node(name, n) \in N /\ Node(name, n).node # "predicate" /\ (Expressible(Node(name, n)) <=> name = "and")
      BY <1>5
    <2>2. Append(a, Node(name, n)) \in Seq(N)
      BY <2>1
    <2> QED  BY <2>1, <2>2, PlainAppend
  <1>7. \A a, v : <<a, v>> \in E => <<Append(a, Node("not", 1)), Rows \ v>> \in E
    BY <1>2, <1>6 DEF Faithful
  <1>8. \A a, v : <<a, v>> \in E => <<a, 1, v>> \in A /\ <<a, 1, v>> \in D
    BY <1>2, <1>3, <1>4
  <1>9. \A a, v, b, n, w : <<a, v>> \in E /\ <<b, n, w>> \in A => <<a \o b, n + 1, v \cap w>> \in A
    <2> SUFFICES ASSUME NEW a, NEW v, NEW b, NEW n, NEW w, <<a, v>> \in E, <<b, n, w>> \in A
                 PROVE  <<a \o b, n + 1, v \cap w>> \in A
      OBVIOUS
    <2>1. a \in Seq(N) /\ v \in SUBSET Rows /\ Faithful(a, v, spec)
      BY <1>2
    <2>2. b \in Seq(N) /\ n \in Nat \ {0} /\ w \in SUBSET Rows /\ Faithful(b, w, spec)
      BY <1>3
    <2>3. a \o b \in Seq(N) /\ n + 1 \in Nat \ {0} /\ v \cap w \in SUBSET Rows
      BY <2>1, <2>2
    <2>4. (Plain(a \o b) <=> Plain(a) /\ Plain(b)) /\ Predicates(a \o b) = Predicates(a) \cup Predicates(b)
      BY <2>1, <2>2, PlainConcat
    <2>5. Selected(a \o b, spec) = Selected(a, spec) \cap Selected(b, spec)
      BY <2>4, SelectedOf
    <2>6. Faithful(a \o b, v \cap w, spec)
      BY <2>1, <2>2, <2>4, <2>5, Zenon DEF Faithful
    <2> QED  BY <1>3, <2>3, <2>6
  <1>10. \A a, v, b, n, w : <<a, v>> \in E /\ <<b, n, w>> \in D => <<a \o b, n + 1, v \cup w>> \in D
    <2> SUFFICES ASSUME NEW a, NEW v, NEW b, NEW n, NEW w, <<a, v>> \in E, <<b, n, w>> \in D
                 PROVE  <<a \o b, n + 1, v \cup w>> \in D
      OBVIOUS
    <2>1. a \in Seq(N) /\ v \in SUBSET Rows
      BY <1>2
    <2>2. b \in Seq(N) /\ n \in Nat \ {0} /\ w \in SUBSET Rows
      BY <1>4
    <2>3. a \o b \in Seq(N) /\ n + 1 \in Nat \ {0} /\ n + 1 # 1 /\ v \cup w \in SUBSET Rows
      BY <2>1, <2>2
    <2> QED  BY <1>4, <2>3
  <1>11. \A a, n, v : <<a, n, v>> \in A => <<IF n = 1 THEN a ELSE Append(a, Node("and", n)), v>> \in E
    <2> SUFFICES ASSUME NEW a, NEW n, NEW v, <<a, n, v>> \in A, n # 1 PROVE <<Append(a, Node("and", n)), v>> \in E
      BY <1>2, <1>3
    <2>1. a \in Seq(N) /\ n \in Nat /\ v \in SUBSET Rows /\ Faithful(a, v, spec)
      BY <1>3
    <2>2. /\ Append(a, Node("and", n)) \in Seq(N) /\ (Plain(Append(a, Node("and", n))) <=> Plain(a))
          /\ Predicates(Append(a, Node("and", n))) = Predicates(a)
      BY <1>6, <2>1
    <2>3. Selected(Append(a, Node("and", n)), spec) = Selected(a, spec)
      BY <2>2, SelectedOf
    <2>4. Faithful(Append(a, Node("and", n)), v, spec)
      BY <2>1, <2>2, <2>3, Zenon DEF Faithful
    <2> QED  BY <1>2, <2>1, <2>2, <2>4
  <1>12. \A a, n, v : <<a, n, v>> \in D => <<IF n = 1 THEN a ELSE Append(a, Node("or", n)), v>> \in E
    <2> SUFFICES ASSUME NEW a, NEW n, NEW v, <<a, n, v>> \in D
                 PROVE  <<IF n = 1 THEN a ELSE Append(a, Node("or", n)), v>> \in E
      OBVIOUS
    <2>1. a \in Seq(N) /\ n \in Nat /\ v \in SUBSET Rows /\ (n = 1 => Faithful(a, v, spec))
      BY <1>4
    <2>2. CASE n = 1
      BY <1>2, <2>1, <2>2
    <2>3. CASE n # 1
      <3>1. Append(a, Node("or", n)) \in Seq(N) /\ ~Plain(Append(a, Node("or", n)))
        BY <1>6, <2>1
      <3>2. Faithful(Append(a, Node("or", n)), v, spec)
        BY <3>1 DEF Faithful
      <3> QED  BY <1>2, <2>1, <2>3, <3>1, <3>2
    <2> QED  BY <2>2, <2>3
  <1> QED  BY <1>1, <1>7, <1>8, <1>9, <1>10, <1>11, <1>12, Zenon DEF Composed, E, A, D

\* A matcher that is not a pattern says what its predicate says.
LEMMA MatcherMeans ==
    ASSUME NEW spec, NEW p, NEW row, checkPredicate(p, spec), Expressible(p), p.node = "predicate", p.op # "matches",
           spec.filter[p.field].kind = "string",
           p.field \in DOMAIN spec.groupBy => spec.groupBy[p.field] = spec.filter[p.field].column
    PROVE  PromHolds(collectPredicate(p, spec), row)
             <=> Satisfies(p.op, row[spec.filter[p.field].column], p.value.items)
  <1> DEFINE m == collectPredicate(p, spec)
             v == row[spec.filter[p.field].column]
             vals == p.value.items
  <1>1. p.op \in {"=", "!=", "contains"}
    BY Zenon DEF Expressible
  <1>2. p.value.kind = "string"
    <2>1. opCompatible(p.op, "string", p.value.kind)
      BY Zenon DEF checkPredicate
    <2> QED  BY <1>1, <2>1, Zenon DEF opCompatible
  <1>3. /\ m.label = spec.filter[p.field].column
        /\ m.op = IF p.op = "contains" THEN "=~.*" ELSE p.op
        /\ m.value = vals[1]
    BY <1>1, <1>2 DEF collectPredicate
  <1> HIDE DEF m, vals
  <1>4. PromHolds(m, row) <=> \/ m.op = "=" /\ v = m.value
                              \/ m.op = "!=" /\ v # m.value
                              \/ m.op = "=~" /\ <<v, m.value>> \in FullMatches
                              \/ m.op = "=~.*" /\ <<v, m.value>> \in Substrings
    BY <1>3 DEF PromHolds
  <1> HIDE DEF v
  <1>5. Satisfies("=", v, vals) <=> v = vals[1]
    BY Zenon DEF Satisfies
  <1>6. Satisfies("!=", v, vals) <=> v # vals[1]
    BY Zenon DEF Satisfies
  <1>7. Satisfies("contains", v, vals) <=> <<v, vals[1]>> \in Substrings
    BY Zenon DEF Satisfies
  <1>8. PromHolds(m, row) <=> Satisfies(p.op, v, vals)
    BY <1>1, <1>3, <1>4, <1>5, <1>6, <1>7
  <1> QED  BY <1>8 DEF m, v, vals

\* The metric of a parsed query is its first word; its filter is one tree or none.
LEMMA FilterAst ==
    ASSUME NEW s \in Seq(STRING), Parse(s).ok
    PROVE  /\ Parse(s).ast.metric = s[1]
           /\ Parse(s).ast.filter = <<>> \/ \E x : Parse(s).ast.filter = <<x>>
  <1>1. Metric(s) /\ ClausesOk(s) /\ Parse(s).ast = QueryAst(s)
    BY ParseSound
  <1>2. Parse(s).ast.metric = M(s).ast /\ Parse(s).ast.filter = F(s).ast
    BY <1>1 DEF QueryAst
  <1>3. M(s).ast = s[1] /\ G(s).pos \in Places(s)
    BY <1>1, MetricAt, ClausesPlace
  <1>4. F(s) = ClauseOf("where", s, G(s).pos)
    BY ClausesOf DEF F
  <1>5. F(s).ok
    BY <1>1 DEF ClausesOk
  <1>6. F(s).ast = <<>> \/ F(s).ast = <<PhraseOf("where", s, G(s).pos + 1).ast>>
    BY <1>3, <1>4, <1>5, ClauseAst DEF ClauseWords
  <1> QED  BY <1>2, <1>3, <1>6

\* The predicates of a tree over s have an operator from s.
LEMMA PredicateOps ==
    ASSUME NEW s \in Seq(STRING), NEW a \in Seq(Nodes(s)), NEW p \in Predicates(a)
    PROVE  p.node = "predicate" /\ \E k \in DOMAIN s : p.op = s[k]
  <1>1. PICK k \in DOMAIN a : a[k] = p /\ p.node = "predicate"
    BY DEF Predicates
  <1>2. p \in Nodes(s)
    BY <1>1
  <1>3. ASSUME NEW name \in {"not", "and", "or"}, NEW n \in Nat PROVE Node(name, n) # p
    BY <1>1, NodeKinds
  <1>4. PICK x \in Spans(s) : DerivesPredicate(s, x[1], x[2]) /\ p = PredicateNode(s, x[1], x[2])
    BY <1>2, <1>3 DEF Nodes
  <1>5. x[1] + 3 <= x[2]
    BY <1>4, Zenon DEF DerivesPredicate
  <1>6. x[1] \in Nat /\ x[2] \in Nat /\ 1 <= x[1] /\ x[2] <= Len(s) + 1 /\ Len(s) \in Nat
    BY DEF Spans, Places
  <1>7. x[1] + 1 \in DOMAIN s
    BY <1>5, <1>6
  <1>8. p.op = s[x[1] + 1]
    BY <1>4 DEF PredicateNode, Predicate
  <1> QED  BY <1>1, <1>7, <1>8

\* The answers of compileNetQL, by what is behind them.
LEMMA AnswerForms ==
    ASSUME NEW s, NEW tenant
    PROVE  LET c == compileNetQL(s, tenant)
               q == Parse(s).ast
           IN \/ c \in {netqlError("lex"), netqlError("parse"), netqlError("type"), netqlError("translate")}
              \/ /\ Parse(s).ok /\ Check(q) /\ Registry[q.metric].backend = "clickhouse"
                 /\ c = OK("clickhouse", TranslateClickHouse(q, tenant))
              \/ /\ Parse(s).ok /\ Check(q) /\ ~(Registry[q.metric].backend = "clickhouse")
                 /\ TranslatePrometheus(q).ok /\ c = OK("prometheus", TranslatePrometheus(q))
  BY AnswerCases, Zenon

\* What is behind the answer of a Prometheus query.
LEMMA PromAnswer ==
    ASSUME NEW s, NEW tenant, NEW a, a = compileNetQL(s, tenant), a.status = 200, a.backend = "prometheus"
    PROVE  /\ Parse(s).ok /\ Check(Parse(s).ast) /\ Registry[Parse(s).ast.metric].backend = "prometheus"
           /\ TranslatePrometheus(Parse(s).ast).ok /\ a.out = TranslatePrometheus(Parse(s).ast)
  <1> DEFINE q == Parse(s).ast
             ch == OK("clickhouse", TranslateClickHouse(q, tenant))
             prom == OK("prometheus", TranslatePrometheus(q))
  <1>1. /\ netqlError("lex").status # 200 /\ netqlError("parse").status # 200
        /\ netqlError("type").status # 200 /\ netqlError("translate").status # 200
    BY DEF netqlError
  <1>2. ch.backend # "prometheus" /\ prom.out = TranslatePrometheus(q)
    BY DEF OK
  <1> HIDE DEF ch, prom
  <1>3. \/ a \in {netqlError("lex"), netqlError("parse"), netqlError("type"), netqlError("translate")}
        \/ a = ch
        \/ /\ Parse(s).ok /\ Check(q) /\ ~(Registry[q.metric].backend = "clickhouse")
           /\ TranslatePrometheus(q).ok /\ a = prom
    BY AnswerForms DEF ch, prom
  <1> HIDE DEF q
  <1>4. /\ Parse(s).ok /\ Check(q) /\ ~(Registry[q.metric].backend = "clickhouse")
        /\ TranslatePrometheus(q).ok /\ a = prom
    BY <1>1, <1>2, <1>3
  <1>5. a.out = TranslatePrometheus(q)
    BY <1>2, <1>4
  <1>6. q.metric \in DOMAIN Registry
    BY <1>4, Zenon DEF Check
  <1>7. Registry[q.metric].backend \in {"clickhouse", "prometheus"}
    BY <1>6, RegistryAssumption
  <1> QED  BY <1>4, <1>5, <1>7 DEF q

FilterOf(q) == IF q.filter = <<>> THEN <<>> ELSE q.filter[1]
MatchersOf(a, spec) == {collectPredicate(p, spec) : p \in Predicates(a)}
MatchedRows(matchers, range) == {row \in Rows : row["age"] <= range /\ \A m \in matchers : PromHolds(m, row)}

\* A translation to PromQL is of a plain filter, and its matchers are those of the
\* predicates.
LEMMA PromOut ==
    ASSUME NEW q, TranslatePrometheus(q).ok
    PROVE  /\ Plain(FilterOf(q)) /\ TranslatePrometheus(q).range = buildRange(q)
           /\ TranslatePrometheus(q).matchers = MatchersOf(FilterOf(q), Registry[q.metric])
  <1> DEFINE labels == collectLabels(FilterOf(q), Registry[q.metric])
             t == TranslatePrometheus(q)
  <1>1. t = [ok |-> labels.ok, matchers |-> labels.matchers, by |-> buildByClause(q, Registry[q.metric]),
             range |-> buildRange(q)]
    BY Zenon DEF TranslatePrometheus, FilterOf
  <1>2. labels.ok = Plain(FilterOf(q)) /\ labels.matchers = MatchersOf(FilterOf(q), Registry[q.metric])
    BY DEF collectLabels, Plain, MatchersOf
  <1> HIDE DEF labels, t
  <1>3. t.ok = labels.ok /\ t.matchers = labels.matchers /\ t.range = buildRange(q)
    BY <1>1
  <1>4. t.ok
    BY DEF t
  <1> QED  BY <1>2, <1>3, <1>4 DEF t

\* The rows that a plain tree selects are those its matchers hold of.
LEMMA MatchersSelect ==
    ASSUME NEW a, NEW spec, NEW range,
           \A p \in Predicates(a) : \A row : PromHolds(collectPredicate(p, spec), row)
             <=> Satisfies(p.op, row[spec.filter[p.field].column], p.value.items)
    PROVE  MatchedRows(MatchersOf(a, spec), range) = {row \in Selected(a, spec) : row["age"] <= range}
  <1> DEFINE sat(row, p) == Satisfies(p.op, row[spec.filter[p.field].column], p.value.items)
             says(row, p) == PromHolds(collectPredicate(p, spec), row)
             old(row) == row["age"] <= range
  <1>1. Selected(a, spec) = {row \in Rows : \A p \in Predicates(a) : sat(row, p)}
    BY Zenon DEF Selected
  <1>2. \A p \in Predicates(a) : \A row : says(row, p) <=> sat(row, p)
    BY Zenon
  <1>3. \A row : (\A m \in MatchersOf(a, spec) : PromHolds(m, row)) <=> \A p \in Predicates(a) : says(row, p)
    BY DEF MatchersOf
  <1>4. MatchedRows(MatchersOf(a, spec), range)
          = {row \in Rows : old(row) /\ \A m \in MatchersOf(a, spec) : PromHolds(m, row)}
    BY Zenon DEF MatchedRows
  <1>5. {row \in Selected(a, spec) : row["age"] <= range} = {row \in Selected(a, spec) : old(row)}
    BY Zenon
  <1> HIDE DEF sat, says, old
  <1> QED  BY <1>1, <1>2, <1>3, <1>4, <1>5

\* The query asks for what a tree that goes with its filter selects.
AsksByTree(s, default) ==
    \E v \in SUBSET Rows :
      /\ Asked(s, default) = {Within(v, Parse(s).ast, default)}
      /\ IF Parse(s).ast.filter = <<>> THEN v = Rows
         ELSE <<Parse(s).ast.filter[1], v>> \in PromExprs(s, Registry[s[1]])

\* The rows that a query asks for, in terms of a tree that Prometheus can express.
LEMMA PromAsked ==
    ASSUME NEW s \in Seq(STRING), Parse(s).ok, NEW default
    PROVE  AsksByTree(s, default)
  <1> DEFINE E == PromExprs(s, Registry[s[1]])
             A == PromAnds(s, Registry[s[1]])
             D == PromOrs(s, Registry[s[1]])
  <1>1. Composed(s, Registry[s[1]], E, A, D)
    BY PromComposed
  <1> HIDE DEF E, A, D
  <1>2. \E v \in SUBSET Rows :
             /\ Asked(s, default) = {Within(v, Parse(s).ast, default)}
             /\ IF Parse(s).ast.filter = <<>> THEN v = Rows ELSE <<Parse(s).ast.filter[1], v>> \in E
    BY <1>1, AskedMeans
  <1> QED  BY <1>2 DEF E, AsksByTree

\* For any registry, words, literals and rows: a query that is translated to PromQL
\* (promql.go) without a pattern selects the series it asks for, all of them and no others;
\* what matchers cannot say, an or, a not or a comparison, was refused.
THEOREM PromSelectsTheAskedHolds == Spec => []PromSelectsTheAsked
  <1>1. Answered => PromSelectsTheAsked
    <2> SUFFICES ASSUME Answered, answer.status = 200, answer.backend = "prometheus",
                        \A i \in DOMAIN typed : Lex(typed)[i] # "matches"
                 PROVE  Asked(Lex(typed), defaultPromRange) = {MatchedRows(answer.out.matchers, answer.out.range)}
      BY Zenon DEF PromSelectsTheAsked, MatchedRows
    <2> DEFINE s == Lex(typed)
               q == Parse(s).ast
               spec == Registry[s[1]]
               fl == FilterOf(q)
    <2>1. s \in Seq(STRING) /\ DOMAIN s = DOMAIN typed
      <3>1. s \in Seq(STRING)
        BY LexTyped DEF Answered
      <3> QED  BY <3>1 DEF Lex
    <2>2. answer = compileNetQL(s, "mine")
      <3>1. NoAnswer.status = 0
        BY DEF NoAnswer
      <3>2. answer # NoAnswer
        BY <3>1
      <3> QED  BY <3>2, Zenon DEF Answered
    <2>3. \A i \in DOMAIN s : s[i] # "matches"
      BY <2>1
    <2> HIDE DEF s
    <2>4. /\ Parse(s).ok /\ Check(q) /\ Registry[q.metric].backend = "prometheus"
          /\ TranslatePrometheus(q).ok /\ answer.out = TranslatePrometheus(q)
      BY <2>2, PromAnswer
    <2>5. q.metric = s[1] /\ (q.filter = <<>> \/ \E x : q.filter = <<x>>)
      BY <2>1, <2>4, FilterAst
    <2>6. Plain(fl) /\ answer.out.range = buildRange(q) /\ answer.out.matchers = MatchersOf(fl, spec)
      BY <2>4, <2>5, PromOut
    <2> HIDE DEF q
    <2>14. Parse(s).ok
      BY <2>4
    <2>15. AsksByTree(s, defaultPromRange)
      BY <2>1, <2>14, PromAsked
    <2>7. PICK v \in SUBSET Rows :
            /\ Asked(s, defaultPromRange) = {Within(v, q, defaultPromRange)}
            /\ IF q.filter = <<>> THEN v = Rows ELSE <<q.filter[1], v>> \in PromExprs(s, spec)
      BY <2>15, Zenon DEF AsksByTree, q, spec
    <2> HIDE DEF q, spec
    <2>8. v = Selected(fl, spec) /\ fl \in Seq(Nodes(s))
      <3>1. CASE q.filter = <<>>
        <4>1. fl = <<>> /\ Predicates(fl) = {}
          BY <3>1 DEF FilterOf, Predicates
        <4>2. Selected(fl, spec) = Rows
          BY <4>1, SelectedOf
        <4> QED  BY <2>7, <3>1, <4>1, <4>2
      <3>2. CASE q.filter # <<>>
        <4>1. fl = q.filter[1]
          BY <3>2 DEF FilterOf
        <4> HIDE DEF fl
        <4>3. <<fl, v>> \in PromExprs(s, spec)
          BY <2>7, <3>2, <4>1
        <4>2. fl \in Seq(Nodes(s)) /\ Faithful(fl, v, spec)
          BY <4>3 DEF PromExprs
        <4> QED  BY <2>6, <4>2 DEF Faithful, fl
      <3> QED  BY <3>1, <3>2
    <2>9. \A p \in Predicates(fl) : checkPredicate(p, spec)
      <3>1. \A e \in ToSet(q.filter) : checkExpr(e, spec)
        BY <2>4, <2>5, Zenon DEF Check, spec
      <3>2. CASE q.filter = <<>>
        <4>1. Predicates(fl) = {}
          BY <3>2 DEF FilterOf, Predicates
        <4> QED  BY <4>1
      <3>3. CASE q.filter # <<>>
        <4>3. PICK x : q.filter = <<x>>
          BY <2>5, <3>3
        <4>1. fl \in ToSet(q.filter)
          BY <4>3 DEF FilterOf, ToSet
        <4> HIDE DEF fl
        <4>2. checkExpr(fl, spec)
          BY <3>1, <4>1
        <4> QED  BY <4>2, Zenon DEF checkExpr
      <3> QED  BY <3>2, <3>3
    <2> HIDE DEF fl
    <2>10. s[1] \in DOMAIN Registry /\ spec.backend = "prometheus"
      <3>1. q.metric \in DOMAIN Registry
        BY <2>4, Zenon DEF Check
      <3> QED  BY <2>4, <2>5, <3>1 DEF spec
    <2>11. ASSUME NEW p \in Predicates(fl)
           PROVE  \A row : PromHolds(collectPredicate(p, spec), row)
                             <=> Satisfies(p.op, row[spec.filter[p.field].column], p.value.items)
      <3>1. checkPredicate(p, spec)
        BY <2>9
      <3>2. Expressible(p)
        BY <2>6 DEF Plain, Predicates
      <3>3. p.node = "predicate" /\ \E k \in DOMAIN s : p.op = s[k]
        BY <2>1, <2>8, PredicateOps
      <3>4. p.op # "matches"
        BY <2>3, <3>3
      <3>5. p.field \in DOMAIN spec.filter
        BY <3>1, Zenon DEF checkPredicate
      <3>6. /\ spec.filter[p.field].kind = "string"
            /\ p.field \in DOMAIN spec.groupBy => spec.groupBy[p.field] = spec.filter[p.field].column
        BY <2>10, <3>5, RegistryAssumption DEF spec
      <3> QED  BY <3>1, <3>2, <3>3, <3>4, <3>6, MatcherMeans
    <2>12. MatchedRows(MatchersOf(fl, spec), buildRange(q)) = {row \in Selected(fl, spec) : row["age"] <= buildRange(q)}
      BY <2>11, MatchersSelect
    <2>13. Within(v, q, defaultPromRange) = {row \in v : row["age"] <= buildRange(q)}
      BY Zenon DEF Within, buildRange
    <2> QED  BY <2>6, <2>7, <2>8, <2>12, <2>13, Zenon DEF s
  <1> QED  BY <1>1, AnsweredInvariant, PTL

-----------------------------------------------------------------------------
(***************************************************************************)
(* What writeExpr writes, node by node.                                    *)
(***************************************************************************)
\* A run of writeExpr: what is written up to each node.
IsRun(g, nodes, spec, out, n) ==
    g = [k \in 0 .. n |-> IF k = 0 THEN out ELSE writeNode(nodes[k], spec, g[k - 1])]
Steps(g, nodes, spec, n) == \A k \in 1 .. n : g[k] = writeNode(nodes[k], spec, g[k - 1])

\* A run, node by node.
LEMMA RunStep ==
    ASSUME NEW g, NEW nodes, NEW spec, NEW out, NEW n \in Nat, IsRun(g, nodes, spec, out, n)
    PROVE  g[0] = out /\ Steps(g, nodes, spec, n)
  <1> DEFINE e(k) == IF k = 0 THEN out ELSE writeNode(nodes[k], spec, g[k - 1])
  <1>1. g = [k \in 0 .. n |-> e(k)]
    BY Zenon DEF IsRun
  <1> HIDE DEF e
  <1>2. \A k \in 0 .. n : g[k] = e(k)
    BY <1>1
  <1>3. 0 \in 0 .. n /\ \A k \in 1 .. n : k \in 0 .. n /\ k # 0
    OBVIOUS
  <1>4. g[0] = out
    BY <1>2, <1>3 DEF e
  <1>5. \A k \in 1 .. n : g[k] = writeNode(nodes[k], spec, g[k - 1])
    BY <1>2, <1>3, Zenon DEF e
  <1> QED  BY <1>4, <1>5, Zenon DEF Steps

\* The recursion of writeExpr has a solution.
LEMMA RunExists ==
    ASSUME NEW nodes, NEW spec, NEW out, NEW n \in Nat
    PROVE  \E g : IsRun(g, nodes, spec, out, n)
  <1> DEFINE K == {k \in Nat : \E g : IsRun(g, nodes, spec, out, k)}
  <1>1. 0 \in K
    <2> DEFINE g == [k \in 0 .. 0 |-> out]
               e(k) == IF k = 0 THEN out ELSE writeNode(nodes[k], spec, g[k - 1])
    <2>1. \A k \in 0 .. 0 : e(k) = out
      BY DEF e
    <2> HIDE DEF e
    <2>2. g = [k \in 0 .. 0 |-> e(k)]
      BY <2>1
    <2>3. IsRun(g, nodes, spec, out, 0)
      BY <2>2, Zenon DEF IsRun, e
    <2> QED  BY <2>3
  <1>2. ASSUME NEW k \in K PROVE k + 1 \in K
    <2>1. k \in Nat
      OBVIOUS
    <2>2. PICK g : IsRun(g, nodes, spec, out, k)
      OBVIOUS
    <2>3. g[0] = out /\ \A i \in 1 .. k : g[i] = writeNode(nodes[i], spec, g[i - 1])
      <3>1. g[0] = out /\ Steps(g, nodes, spec, k)
        BY <2>1, <2>2, RunStep
      <3> QED  BY <3>1, Zenon DEF Steps
    <2> DEFINE last == writeNode(nodes[k + 1], spec, g[k])
               h == [i \in 0 .. k + 1 |-> IF i = k + 1 THEN last ELSE g[i]]
               e(i) == IF i = 0 THEN out ELSE writeNode(nodes[i], spec, h[i - 1])
    <2>4. \A i \in 0 .. k : h[i] = g[i]
      BY <2>1
    <2>5. h[k + 1] = last
      BY <2>1
    <2>10. h = [i \in 0 .. k + 1 |-> h[i]]
      OBVIOUS
    <2> HIDE DEF h, last
    <2>6. h[0] = e(0)
      BY <2>1, <2>3, <2>4 DEF e
    <2>7. \A i \in 1 .. k : h[i] = e(i)
      <3> SUFFICES ASSUME NEW i \in 1 .. k PROVE h[i] = e(i)
        OBVIOUS
      <3>1. i \in 0 .. k /\ i - 1 \in 0 .. k /\ i # 0
        BY <2>1
      <3>2. h[i] = g[i] /\ h[i - 1] = g[i - 1]
        BY <2>4, <3>1
      <3>3. g[i] = writeNode(nodes[i], spec, g[i - 1])
        BY <2>3
      <3> QED  BY <3>1, <3>2, <3>3 DEF e
    <2>8. h[k + 1] = e(k + 1)
      <3>1. k + 1 # 0 /\ (k + 1) - 1 = k /\ k \in 0 .. k
        BY <2>1
      <3> QED  BY <2>4, <2>5, <3>1 DEF e, last
    <2> HIDE DEF e
    <2>9. \A i \in 0 .. k + 1 : h[i] = e(i)
      <3>1. \A i \in 0 .. k + 1 : i = 0 \/ i = k + 1 \/ i \in 1 .. k
        BY <2>1
      <3> QED  BY <2>6, <2>7, <2>8, <3>1
    <2>11. h = [i \in 0 .. k + 1 |-> e(i)]
      BY <2>9, <2>10
    <2>12. IsRun(h, nodes, spec, out, k + 1)
      BY <2>11, Zenon DEF IsRun, e
    <2> QED  BY <2>1, <2>12
  <1>3. K \in SUBSET Nat
    OBVIOUS
  <1>4. n \in K
    <2> HIDE DEF K
    <2> QED  BY <1>1, <1>2, <1>3, SetInduction
  <1> QED  BY <1>4

\* There is one run.
LEMMA RunsAgree ==
    ASSUME NEW n \in Nat, NEW g, NEW h, NEW nodes, NEW spec, g[0] = h[0],
           Steps(g, nodes, spec, n), Steps(h, nodes, spec, n)
    PROVE  g[n] = h[n]
  <1> DEFINE K == {k \in Nat : k <= n => g[k] = h[k]}
  <1>1. 0 \in K
    OBVIOUS
  <1>2. ASSUME NEW k \in K PROVE k + 1 \in K
    <2>1. k \in Nat /\ (k <= n => g[k] = h[k])
      OBVIOUS
    <2>2. ASSUME k + 1 <= n PROVE g[k + 1] = h[k + 1]
      <3>1. k + 1 \in 1 .. n /\ (k + 1) - 1 = k /\ k <= n
        BY <2>1, <2>2
      <3>2. \A i \in 1 .. n : g[i] = writeNode(nodes[i], spec, g[i - 1]) /\ h[i] = writeNode(nodes[i], spec, h[i - 1])
        BY Zenon DEF Steps
      <3>3. g[k + 1] = writeNode(nodes[k + 1], spec, g[k]) /\ h[k + 1] = writeNode(nodes[k + 1], spec, h[k])
        BY <3>1, <3>2
      <3> QED  BY <2>1, <3>1, <3>3
    <2> QED  BY <2>1, <2>2
  <1>3. K \in SUBSET Nat
    OBVIOUS
  <1>4. n \in K
    <2> HIDE DEF K
    <2> QED  BY <1>1, <1>2, <1>3, SetInduction
  <1> QED  BY <1>4

\* What is written is the end of a run.
Writes(g, nodes, spec, out) ==
    g[0] = out /\ Steps(g, nodes, spec, Len(nodes)) /\ writeExpr(nodes, spec, out) = g[Len(nodes)]

\* writeExpr writes such a run.
LEMMA WriteRun ==
    ASSUME NEW nodes, Len(nodes) \in Nat, NEW spec, NEW out
    PROVE  \E g : Writes(g, nodes, spec, out)
  <1> DEFINE n == Len(nodes)
             after == CHOOSE g : g = [k \in 0 .. n |-> IF k = 0 THEN out ELSE writeNode(nodes[k], spec, g[k - 1])]
  <1>1. \E g : IsRun(g, nodes, spec, out, n)
    BY RunExists
  <1>2. IsRun(after, nodes, spec, out, n)
    BY <1>1, Zenon DEF IsRun
  <1>3. writeExpr(nodes, spec, out) = after[n]
    BY Zenon DEF writeExpr
  <1> HIDE DEF after
  <1>4. after[0] = out /\ Steps(after, nodes, spec, n)
    BY <1>2, RunStep
  <1> QED  BY <1>3, <1>4, Zenon DEF Writes

\* One node.
LEMMA WriteOne ==
    ASSUME NEW x, NEW spec, NEW out
    PROVE  writeExpr(<<x>>, spec, out) = writeNode(x, spec, out)
  <1> DEFINE t == <<x>>
  <1>1. Len(t) = 1 /\ t[1] = x
    OBVIOUS
  <1> HIDE DEF t
  <1>2. PICK g : Writes(g, t, spec, out)
    BY <1>1, WriteRun
  <1>3. g[0] = out /\ (\A k \in 1 .. 1 : g[k] = writeNode(t[k], spec, g[k - 1])) /\ writeExpr(t, spec, out) = g[1]
    BY <1>1, <1>2, Zenon DEF Writes, Steps
  <1>4. g[1] = writeNode(t[1], spec, g[0])
    <2>1. 1 \in 1 .. 1 /\ 1 - 1 = 0
      OBVIOUS
    <2> QED  BY <1>3, <2>1
  <1> QED  BY <1>1, <1>3, <1>4 DEF t

\* Two sequences in a row.
LEMMA ConcatIs ==
    ASSUME NEW S, NEW a \in Seq(S), NEW b \in Seq(S)
    PROVE  a \o b \in Seq(S) /\ Len(a \o b) = Len(a) + Len(b) /\ Len(a) \in Nat /\ Len(b) \in Nat
  BY ConcatProperties

\* Nodes behind others are written behind them.
LEMMA WriteConcat ==
    ASSUME NEW S, NEW a \in Seq(S), NEW b \in Seq(S), NEW spec, NEW out
    PROVE  writeExpr(a \o b, spec, out) = writeExpr(b, spec, writeExpr(a, spec, out))
  <1> DEFINE c == a \o b
             m == Len(a)
             n == Len(b)
  <1>1. /\ m \in Nat /\ n \in Nat /\ Len(c) = m + n
        /\ \A i \in 1 .. m + n : c[i] = IF i <= m THEN a[i] ELSE b[i - m]
    BY ConcatProperties
  <1>2. PICK g : Writes(g, c, spec, out)
    <2>1. Len(c) \in Nat
      BY <1>1
    <2> HIDE DEF c
    <2> QED  BY <2>1, WriteRun
  <1>3. PICK h : Writes(h, a, spec, out)
    BY <1>1, WriteRun
  <1>4. PICK l : Writes(l, b, spec, h[m])
    BY <1>1, WriteRun
  <1>5. g[0] = out /\ (\A k \in 1 .. m + n : g[k] = writeNode(c[k], spec, g[k - 1])) /\ writeExpr(c, spec, out) = g[m + n]
    <2>1. g[0] = out /\ (\A k \in 1 .. Len(c) : g[k] = writeNode(c[k], spec, g[k - 1])) /\ writeExpr(c, spec, out) = g[Len(c)]
      BY <1>2, Zenon DEF Writes, Steps
    <2>2. PICK len : len = Len(c)
      OBVIOUS
    <2>3. len = m + n
      BY <1>1, <2>2
    <2> HIDE DEF c
    <2> QED  BY <2>1, <2>2, <2>3, Zenon
  <1>6. h[0] = out /\ Steps(h, a, spec, m) /\ writeExpr(a, spec, out) = h[m]
    BY <1>3, Zenon DEF Writes
  <1>7. l[0] = h[m] /\ Steps(l, b, spec, n) /\ writeExpr(b, spec, h[m]) = l[n]
    BY <1>4, Zenon DEF Writes
  <1> HIDE DEF c, m, n
  <1>8. Steps(g, a, spec, m)
    <2> SUFFICES ASSUME NEW k \in 1 .. m PROVE g[k] = writeNode(a[k], spec, g[k - 1])
      BY DEF Steps
    <2>1. k \in 1 .. m + n /\ k <= m
      BY <1>1
    <2>2. c[k] = a[k]
      BY <1>1, <2>1
    <2> QED  BY <1>5, <2>1, <2>2
  <1>9. g[m] = h[m]
    BY <1>1, <1>5, <1>6, <1>8, RunsAgree
  <1> DEFINE e == [k \in 0 .. n |-> g[m + k]]
  <1>10. \A k \in 0 .. n : e[k] = g[m + k]
    OBVIOUS
  <1> HIDE DEF e
  <1>11. Steps(e, b, spec, n)
    <2> SUFFICES ASSUME NEW k \in 1 .. n PROVE e[k] = writeNode(b[k], spec, e[k - 1])
      BY DEF Steps
    <2>1. m + k \in 1 .. m + n /\ ~(m + k <= m) /\ (m + k) - m = k /\ (m + k) - 1 = m + (k - 1) /\ k \in 0 .. n /\ k - 1 \in 0 .. n
      BY <1>1
    <2>2. c[m + k] = b[k]
      BY <1>1, <2>1
    <2>3. g[m + k] = writeNode(c[m + k], spec, g[m + (k - 1)])
      BY <1>5, <2>1
    <2>4. e[k] = g[m + k] /\ e[k - 1] = g[m + (k - 1)]
      BY <1>10, <2>1
    <2> QED  BY <2>2, <2>3, <2>4
  <1>12. e[0] = l[0]
    <2>1. 0 \in 0 .. n /\ m + 0 = m
      BY <1>1
    <2>2. e[0] = g[m]
      BY <1>10, <2>1
    <2> QED  BY <1>7, <1>9, <2>2
  <1>13. e[n] = l[n]
    BY <1>1, <1>7, <1>11, <1>12, RunsAgree
  <1>14. e[n] = g[m + n]
    BY <1>1, <1>10
  <1> QED  BY <1>5, <1>6, <1>7, <1>13, <1>14, Zenon DEF c

\* A sequence of one.
LEMMA OneWord ==
    ASSUME NEW X, NEW y \in X
    PROVE  <<y>> \in Seq(X) /\ Len(<<y>>) = 1
  OBVIOUS

\* A node behind others is written behind them.
LEMMA WriteAppend ==
    ASSUME NEW S, NEW a \in Seq(S), NEW x \in S, NEW spec, NEW out
    PROVE  writeExpr(Append(a, x), spec, out) = writeNode(x, spec, writeExpr(a, spec, out))
  <1>1. PICK t \in Seq(S) : t = <<x>>
    BY OneWord
  <1>2. Append(a, x) = a \o t
    BY <1>1, AppendIsConcat
  <1>3. writeExpr(a \o t, spec, out) = writeExpr(t, spec, writeExpr(a, spec, out))
    BY WriteConcat
  <1>4. \A o : writeExpr(<<x>>, spec, o) = writeNode(x, spec, o)
    BY WriteOne
  <1> QED  BY <1>1, <1>2, <1>3, <1>4

-----------------------------------------------------------------------------
(***************************************************************************)
(* What writeJoin puts between its brackets.                               *)
(***************************************************************************)
\* The texts with a word between them: what writeJoin brackets.
Glued(sep, texts) == FlattenSeq([i \in DOMAIN texts |-> (IF i > 1 THEN Word(sep) ELSE <<>>) \o texts[i]])

\* What has been glued up to each of the texts.
IsGlue(g, sep, texts, n) ==
    g = [i \in 1 .. n |-> IF i = 1 THEN texts[1] ELSE g[i - 1] \o (Word(sep) \o texts[i])]
Glues(g, sep, texts, n) ==
    g[1] = texts[1] /\ \A i \in 2 .. n : g[i] = g[i - 1] \o (Word(sep) \o texts[i])

\* Such a function, text by text.
LEMMA GlueStep ==
    ASSUME NEW g, NEW sep, NEW texts, NEW n \in Nat, 1 <= n, IsGlue(g, sep, texts, n)
    PROVE  Glues(g, sep, texts, n)
  <1> DEFINE e(i) == IF i = 1 THEN texts[1] ELSE g[i - 1] \o (Word(sep) \o texts[i])
  <1>1. g = [i \in 1 .. n |-> e(i)]
    BY Zenon DEF IsGlue
  <1> HIDE DEF e
  <1>2. \A i \in 1 .. n : g[i] = e(i)
    BY <1>1
  <1>3. 1 \in 1 .. n /\ \A i \in 2 .. n : i \in 1 .. n /\ i # 1
    OBVIOUS
  <1>4. g[1] = texts[1]
    BY <1>2, <1>3 DEF e
  <1>5. \A i \in 2 .. n : g[i] = g[i - 1] \o (Word(sep) \o texts[i])
    BY <1>2, <1>3, Zenon DEF e
  <1> QED  BY <1>4, <1>5, Zenon DEF Glues

\* There is such a function of the texts up to each n.
LEMMA GlueExists ==
    ASSUME NEW sep, NEW texts, NEW n \in Nat
    PROVE  \E g : IsGlue(g, sep, texts, n)
  <1> DEFINE K == {k \in Nat : \E g : IsGlue(g, sep, texts, k)}
  <1>1. 0 \in K
    <2> DEFINE g == [i \in 1 .. 0 |-> {}]
               e(i) == IF i = 1 THEN texts[1] ELSE g[i - 1] \o (Word(sep) \o texts[i])
    <2>1. \A i \in 1 .. 0 : FALSE
      OBVIOUS
    <2> HIDE DEF e
    <2>2. g = [i \in 1 .. 0 |-> e(i)]
      BY <2>1
    <2>3. IsGlue(g, sep, texts, 0)
      BY <2>2, Zenon DEF IsGlue, e
    <2> QED  BY <2>3
  <1>2. ASSUME NEW k \in K PROVE k + 1 \in K
    <2>1. k \in Nat
      OBVIOUS
    <2>2. PICK g : IsGlue(g, sep, texts, k)
      OBVIOUS
    <2> DEFINE old(i) == IF i = 1 THEN texts[1] ELSE g[i - 1] \o (Word(sep) \o texts[i])
               h == [i \in 1 .. k + 1 |-> IF i = k + 1 THEN old(k + 1) ELSE g[i]]
               e(i) == IF i = 1 THEN texts[1] ELSE h[i - 1] \o (Word(sep) \o texts[i])
    <2>3. g = [i \in 1 .. k |-> old(i)]
      BY <2>2, Zenon DEF IsGlue
    <2>4. \A i \in 1 .. k : g[i] = old(i)
      <3> HIDE DEF old
      <3> QED  BY <2>3
    <2>5. (\A i \in 1 .. k : h[i] = g[i]) /\ h[k + 1] = old(k + 1) /\ h = [i \in 1 .. k + 1 |-> h[i]]
      <3> HIDE DEF old
      <3> QED  BY <2>1
    <2> HIDE DEF h
    <2>6. \A i \in 1 .. k + 1 : e(i) = old(i)
      <3> SUFFICES ASSUME NEW i \in 1 .. k + 1, i # 1 PROVE h[i - 1] = g[i - 1]
        BY Zenon
      <3>1. i - 1 \in 1 .. k
        BY <2>1
      <3> QED  BY <2>5, <3>1
    <2> HIDE DEF e, old
    <2>7. \A i \in 1 .. k + 1 : h[i] = e(i)
      <3>1. \A i \in 1 .. k + 1 : i = k + 1 \/ i \in 1 .. k
        BY <2>1
      <3>2. k + 1 \in 1 .. k + 1 /\ \A i \in 1 .. k : i \in 1 .. k + 1
        BY <2>1
      <3> QED  BY <2>4, <2>5, <2>6, <3>1, <3>2
    <2>8. h = [i \in 1 .. k + 1 |-> e(i)]
      BY <2>5, <2>7
    <2>9. IsGlue(h, sep, texts, k + 1)
      BY <2>8, Zenon DEF IsGlue, e
    <2> QED  BY <2>1, <2>9
  <1>3. K \in SUBSET Nat
    OBVIOUS
  <1>4. n \in K
    <2> HIDE DEF K
    <2> QED  BY <1>1, <1>2, <1>3, SetInduction
  <1> QED  BY <1>4

\* There is one such function.
LEMMA GluesAgree ==
    ASSUME NEW n \in Nat, NEW g, NEW h, NEW sep, NEW texts, Glues(g, sep, texts, n), Glues(h, sep, texts, n), 1 <= n
    PROVE  g[n] = h[n]
  <1> DEFINE K == {k \in Nat : k + 1 <= n => g[k + 1] = h[k + 1]}
  <1>1. 0 \in K
    <2>1. g[1] = h[1]
      BY Zenon DEF Glues
    <2> QED  BY <2>1
  <1>2. ASSUME NEW k \in K PROVE k + 1 \in K
    <2>1. k \in Nat /\ (k + 1 <= n => g[k + 1] = h[k + 1])
      OBVIOUS
    <2>2. ASSUME (k + 1) + 1 <= n PROVE g[(k + 1) + 1] = h[(k + 1) + 1]
      <3>1. PICK j \in 2 .. n : j = (k + 1) + 1 /\ j - 1 = k + 1 /\ k + 1 <= n
        BY <2>1, <2>2
      <3>2. g[j] = g[j - 1] \o (Word(sep) \o texts[j]) /\ h[j] = h[j - 1] \o (Word(sep) \o texts[j])
        BY Zenon DEF Glues
      <3>3. g[j - 1] = h[j - 1]
        BY <2>1, <3>1
      <3>4. g[j] = h[j]
        BY <3>2, <3>3
      <3> QED  BY <3>1, <3>4
    <2> QED  BY <2>1, <2>2
  <1>3. K \in SUBSET Nat
    OBVIOUS
  <1>4. n - 1 \in K
    <2>1. n - 1 \in Nat
      OBVIOUS
    <2> HIDE DEF K
    <2> QED  BY <1>1, <1>2, <1>3, <2>1, SetInduction
  <1>5. (n - 1) + 1 = n
    OBVIOUS
  <1> QED  BY <1>4, <1>5

Associates(a, b, c) == (a \o b) \o c = a \o (b \o c)

\* Concatenation is associative.
LEMMA ConcatAssoc ==
    ASSUME NEW S, NEW a \in Seq(S), NEW b \in Seq(S), NEW c \in Seq(S)
    PROVE  Associates(a, b, c)
  BY ConcatAssociative DEF Associates

\* A glued text is where such a function ends.
LEMMA GluedIs ==
    ASSUME NEW X, NEW texts \in Seq(Seq(X)), texts # <<>>, NEW sep
    PROVE  \E g : Glues(g, sep, texts, Len(texts)) /\ Glued(sep, texts) = g[Len(texts)]
  <1> DEFINE n == Len(texts)
             parts == [i \in DOMAIN texts |-> (IF i > 1 THEN Word(sep) ELSE <<>>) \o texts[i]]
             flat == CHOOSE f : f = [i \in 1 .. Len(parts) |-> IF i = 1 THEN parts[i] ELSE f[i - 1] \o parts[i]]
  <1>1. n \in Nat /\ 1 <= n /\ DOMAIN texts = 1 .. n
    BY EmptySeq
  <1>2. Len(parts) = n
    <2>1. parts = [i \in 1 .. n |-> (IF i > 1 THEN Word(sep) ELSE <<>>) \o texts[i]]
      BY <1>1
    <2> QED  BY <1>1, <2>1
  <1>3. texts[1] \in Seq(X)
    BY <1>1, ElementOfSeq
  <1>4. <<>> \o texts[1] = texts[1]
    BY <1>3, ConcatEmptySeq
  <1>5. parts[1] = texts[1]
    <2>1. 1 \in DOMAIN texts /\ ~(1 > 1)
      BY <1>1
    <2>2. parts[1] = <<>> \o texts[1]
      BY <2>1
    <2> QED  BY <1>4, <2>2
  <1>6. \A i \in 2 .. n : parts[i] = Word(sep) \o texts[i]
    <2>1. \A i \in 2 .. n : i \in DOMAIN texts /\ i > 1
      BY <1>1
    <2> QED  BY <2>1
  <1>7. Glued(sep, texts) = flat[Len(parts)]
    <2>1. Glued(sep, texts) = FlattenSeq(parts)
      BY Zenon DEF Glued
    <2>2. Len(parts) # 0
      BY <1>1, <1>2
    <2> HIDE DEF parts
    <2>3. FlattenSeq(parts) = flat[Len(parts)]
      BY <2>2, Zenon DEF FlattenSeq
    <2> QED  BY <2>1, <2>3
  <1> HIDE DEF parts
  <1> DEFINE old(f, i) == IF i = 1 THEN parts[i] ELSE f[i - 1] \o parts[i]
             new(f, i) == IF i = 1 THEN texts[1] ELSE f[i - 1] \o (Word(sep) \o texts[i])
  <1>8. \A f : \A i \in 1 .. n : old(f, i) = new(f, i)
    <2> SUFFICES ASSUME NEW f, NEW i \in 1 .. n PROVE old(f, i) = new(f, i)
      OBVIOUS
    <2>1. CASE i = 1
      BY <1>5, <2>1
    <2>2. CASE i # 1
      <3>1. i \in 2 .. n
        BY <1>1, <2>2
      <3>2. parts[i] = Word(sep) \o texts[i]
        BY <1>6, <3>1
      <3> QED  BY <2>2, <3>2
    <2> QED  BY <2>1, <2>2
  <1> HIDE DEF n
  <1>9. \A f : [i \in 1 .. n |-> old(f, i)] = [i \in 1 .. n |-> new(f, i)]
    <2> HIDE DEF old, new
    <2> QED  BY <1>8
  <1>10. PICK g : IsGlue(g, sep, texts, n)
    BY <1>1, GlueExists
  <1>11. g = [i \in 1 .. n |-> new(g, i)]
    BY <1>10, Zenon DEF IsGlue
  <1>12. g = [i \in 1 .. n |-> old(g, i)]
    BY <1>9, <1>11
  <1>13. flat = [i \in 1 .. n |-> old(flat, i)]
    <2>1. flat = CHOOSE f : f = [i \in 1 .. n |-> old(f, i)]
      <3> PICK m : m = n
        OBVIOUS
      <3>1. Len(parts) = m
        BY <1>2 DEF n
      <3>2. flat = CHOOSE f : f = [i \in 1 .. m |-> old(f, i)]
        BY <3>1, Zenon
      <3> QED  BY <3>2
    <2> HIDE DEF flat, old
    <2> QED  BY <1>12, <2>1, Zenon
  <1> HIDE DEF flat
  <1>14. flat = [i \in 1 .. n |-> new(flat, i)]
    BY <1>9, <1>13
  <1>15. Glues(flat, sep, texts, n)
    <2>1. IsGlue(flat, sep, texts, n)
      BY <1>14, Zenon DEF IsGlue
    <2> QED  BY <1>1, <2>1, GlueStep
  <1>16. Glued(sep, texts) = flat[n]
    BY <1>2, <1>7 DEF n
  <1> QED  BY <1>15, <1>16 DEF n

\* One text has nothing to be glued to.
LEMMA GluedOne ==
    ASSUME NEW X, NEW t \in Seq(X), NEW sep
    PROVE  Glued(sep, <<t>>) = t
  <1>1. PICK ts \in Seq(Seq(X)) : ts = <<t>>
    BY OneWord
  <1>2. Len(ts) = 1 /\ ts # <<>> /\ ts[1] = t
    BY <1>1
  <1>3. PICK g : Glues(g, sep, ts, Len(ts)) /\ Glued(sep, ts) = g[Len(ts)]
    BY <1>2, GluedIs
  <1>4. g[1] = ts[1]
    BY <1>3, Zenon DEF Glues
  <1> QED  BY <1>1, <1>2, <1>3, <1>4

\* A word as a text.
LEMMA WordSeq ==
    ASSUME NEW X, NEW w, [word |-> w] \in X
    PROVE  Word(w) \in Seq(X) /\ Len(Word(w)) = 1 /\ Word(w)[1] = [word |-> w]
  BY DEF Word

\* What is glued of texts is a text.
LEMMA GluesSeq ==
    ASSUME NEW X, NEW texts \in Seq(Seq(X)), NEW sep, [word |-> sep] \in X, NEW n \in Nat, n <= Len(texts),
           NEW g, Glues(g, sep, texts, n), NEW m \in 1 .. n
    PROVE  g[m] \in Seq(X)
  <1> DEFINE K == {k \in Nat : k + 1 <= n => g[k + 1] \in Seq(X)}
  <1>1. Word(sep) \in Seq(X)
    BY WordSeq
  <1>2. \A i \in 1 .. n : texts[i] \in Seq(X)
    OBVIOUS
  <1>3. g[1] = texts[1] /\ \A i \in 2 .. n : g[i] = g[i - 1] \o (Word(sep) \o texts[i])
    BY Zenon DEF Glues
  <1>4. 0 \in K
    BY <1>2, <1>3
  <1>5. ASSUME NEW k \in K PROVE k + 1 \in K
    <2>1. k \in Nat /\ (k + 1 <= n => g[k + 1] \in Seq(X))
      OBVIOUS
    <2>2. ASSUME (k + 1) + 1 <= n PROVE g[(k + 1) + 1] \in Seq(X)
      <3>1. PICK j \in 2 .. n : j = (k + 1) + 1 /\ j - 1 = k + 1 /\ k + 1 <= n /\ j \in 1 .. n
        BY <2>1, <2>2
      <3>2. g[j - 1] \in Seq(X) /\ texts[j] \in Seq(X)
        BY <1>2, <2>1, <3>1
      <3>3. Word(sep) \o texts[j] \in Seq(X)
        BY <1>1, <3>2, ConcatIs
      <3>4. g[j - 1] \o (Word(sep) \o texts[j]) \in Seq(X)
        BY <3>2, <3>3, ConcatIs
      <3>5. g[j] = g[j - 1] \o (Word(sep) \o texts[j])
        BY <1>3
      <3> QED  BY <3>1, <3>4, <3>5
    <2> QED  BY <2>1, <2>2
  <1>6. K \in SUBSET Nat
    OBVIOUS
  <1>7. m - 1 \in K
    <2>1. m - 1 \in Nat
      OBVIOUS
    <2> HIDE DEF K
    <2> QED  BY <1>4, <1>5, <1>6, <2>1, SetInduction
  <1>8. (m - 1) + 1 = m /\ m <= n
    OBVIOUS
  <1> QED  BY <1>7, <1>8

GluesOn(sep, t, texts) == Glued(sep, <<t>> \o texts) = (t \o Word(sep)) \o Glued(sep, texts)

\* A text more in front of the others.
LEMMA GluedCons ==
    ASSUME NEW X, NEW t \in Seq(X), NEW texts \in Seq(Seq(X)), texts # <<>>, NEW sep, [word |-> sep] \in X
    PROVE  Glued(sep, texts) \in Seq(X) /\ GluesOn(sep, t, texts)
  <1>1. PICK n \in Nat : n = Len(texts) /\ 1 <= n
    BY EmptySeq
  <1>2. PICK W : W = Word(sep) /\ W \in Seq(X)
    BY WordSeq
  <1>3. PICK g : Glues(g, sep, texts, n) /\ Glued(sep, texts) = g[n]
    BY <1>1, GluedIs
  <1>4. \A i \in 1 .. n : g[i] \in Seq(X)
    BY <1>1, <1>3, GluesSeq
  <1>5. g[1] = texts[1] /\ \A i \in 2 .. n : g[i] = g[i - 1] \o (W \o texts[i])
    BY <1>2, <1>3, Zenon DEF Glues
  <1>6. PICK one \in Seq(Seq(X)) : one = <<t>> /\ Len(one) = 1 /\ one[1] = t
    <2>1. <<t>> \in Seq(Seq(X)) /\ Len(<<t>>) = 1
      BY OneWord
    <2>2. <<t>>[1] = t
      OBVIOUS
    <2> QED  BY <2>1, <2>2
  <1>7. /\ one \o texts \in Seq(Seq(X)) /\ Len(one \o texts) = Len(one) + Len(texts)
        /\ \A i \in 1 .. Len(one) + Len(texts) : (one \o texts)[i] = IF i <= Len(one) THEN one[i] ELSE texts[i - Len(one)]
    BY ConcatProperties
  <1>8. PICK all \in Seq(Seq(X)) : all = one \o texts
    BY <1>7
  <1>9. Len(all) = n + 1 /\ all[1] = t /\ \A i \in 2 .. n + 1 : all[i] = texts[i - 1]
    BY <1>1, <1>6, <1>7, <1>8
  <1>10. PICK h : Glues(h, sep, all, Len(all)) /\ Glued(sep, all) = h[Len(all)]
    <2>1. all # <<>>
      BY <1>9
    <2> QED  BY <2>1, GluedIs
  <1> DEFINE e(i) == IF i = 1 THEN t ELSE (t \o W) \o g[i - 1]
             r == [i \in 1 .. n + 1 |-> e(i)]
  <1>11. r[1] = t /\ \A i \in 2 .. n + 1 : r[i] = (t \o W) \o g[i - 1]
    <2>1. e(1) = t /\ \A i \in 2 .. n + 1 : e(i) = (t \o W) \o g[i - 1]
      <3>1. \A i \in 2 .. n + 1 : i # 1
        OBVIOUS
      <3> QED  BY <3>1, Zenon
    <2> HIDE DEF e
    <2>2. \A i \in 1 .. n + 1 : r[i] = e(i)
      OBVIOUS
    <2>3. 1 \in 1 .. n + 1 /\ \A i \in 2 .. n + 1 : i \in 1 .. n + 1
      BY <1>1
    <2> QED  BY <2>1, <2>2, <2>3
  <1> HIDE DEF r
  <1>12. Glues(r, sep, all, n + 1)
    <2>1. ASSUME NEW i \in 2 .. n + 1 PROVE r[i] = r[i - 1] \o (W \o all[i])
      <3>1. r[i] = (t \o W) \o g[i - 1] /\ all[i] = texts[i - 1]
        BY <1>9, <1>11
      <3>2. CASE i = 2
        <4>1. i - 1 = 1 /\ r[i - 1] = t /\ texts[i - 1] = g[i - 1] /\ g[i - 1] \in Seq(X)
          BY <1>1, <1>4, <1>5, <1>11, <3>2
        <4>2. Associates(t, W, g[i - 1])
          BY <1>2, <4>1, ConcatAssoc
        <4>3. r[i] = t \o (W \o g[i - 1])
          BY <3>1, <4>2, Zenon DEF Associates
        <4> QED  BY <3>1, <4>1, <4>3, Zenon
      <3>3. CASE i # 2
        <4>1. PICK j \in 2 .. n : j = i - 1 /\ j \in 1 .. n /\ j - 1 \in 1 .. n /\ j \in 2 .. n + 1
          BY <1>1, <3>3
        <4>2. g[j] = g[j - 1] \o (W \o texts[j]) /\ r[j] = (t \o W) \o g[j - 1]
          BY <1>5, <1>11, <4>1
        <4>3. t \o W \in Seq(X) /\ W \o texts[j] \in Seq(X) /\ g[j - 1] \in Seq(X)
          <5>1. texts[j] \in Seq(X)
            BY <1>1, <4>1
          <5> QED  BY <1>2, <1>4, <4>1, <5>1, ConcatIs
        <4>4. Associates(t \o W, g[j - 1], W \o texts[j])
          BY <4>3, ConcatAssoc
        <4>5. (t \o W) \o g[j] = r[j] \o (W \o texts[j])
          BY <4>2, <4>4, Zenon DEF Associates
        <4>6. r[i] = (t \o W) \o g[j] /\ all[i] = texts[j] /\ r[i - 1] = r[j]
          BY <3>1, <4>1
        <4> QED  BY <4>5, <4>6, Zenon
      <3> QED  BY <3>2, <3>3
    <2>2. r[1] = all[1]
      BY <1>9, <1>11
    <2> QED  BY <1>2, <2>1, <2>2, Zenon DEF Glues
  <1>13. r[n + 1] = h[n + 1]
    <2>1. Glues(h, sep, all, n + 1) /\ n + 1 \in Nat /\ 1 <= n + 1
      BY <1>9, <1>10
    <2> QED  BY <1>12, <2>1, GluesAgree
  <1>14. r[n + 1] = (t \o W) \o g[n]
    <2>1. n + 1 \in 2 .. n + 1 /\ (n + 1) - 1 = n
      BY <1>1
    <2> QED  BY <1>11, <2>1
  <1>15. Glued(sep, all) = h[n + 1]
    BY <1>9, <1>10
  <1>16. Glued(sep, all) = (t \o W) \o Glued(sep, texts)
    BY <1>3, <1>13, <1>14, <1>15, Zenon
  <1>17. Glued(sep, texts) \in Seq(X)
    BY <1>1, <1>3, <1>4
  <1> QED  BY <1>2, <1>6, <1>8, <1>16, <1>17, Zenon DEF GluesOn

-----------------------------------------------------------------------------
(***************************************************************************)
(* What a text says, wherever it stands in a WHERE clause: its readings in *)
(* the grammar of SQL, with the arguments its placeholders are bound to.   *)
(***************************************************************************)
\* The words that joins and negations put into a text.
SqlSet(X) == \A w \in {"(", ")", "AND", "OR", "NOT"} : [word |-> w] \in X
SqlWords(X) == {SQLWord(x.word) : x \in X}
SqlTokens(text) == [i \in DOMAIN text |-> SQLWord(text[i].word)]
IsAtom(tok) == tok \in {"condition", "interval"}
SqlAtom(text, args, i, j) == IF j = i + 1 /\ IsAtom(SqlTokens(text)[i]) THEN {ConditionRows(text[i], args)} ELSE {}
SqlAtoms(text, args) == [x \in Spans(text) |-> SqlAtom(text, args, x[1], x[2])]
SqlReads(text, args, rule, i, j) == Reads(SqlTokens(text), SqlAtoms(text, args), rule, i, j)

\* The words of a text and its conditions are as the rules of the grammar take them.
LEMMA SqlRight ==
    ASSUME NEW X, NEW text \in Seq(X), NEW args
    PROVE  /\ SqlTokens(text) \in Seq(SqlWords(X)) /\ Len(SqlTokens(text)) = Len(text)
           /\ Places(SqlTokens(text)) = Places(text)
           /\ \A i \in 1 .. Len(text) : SqlTokens(text)[i] = SQLWord(text[i].word)
           /\ SqlAtoms(text, args) \in [Spans(SqlTokens(text)) -> Sets]
           /\ \A i, j \in Places(text) : SqlAtoms(text, args)[<<i, j>>] = SqlAtom(text, args, i, j)
  <1> DEFINE w(i) == SQLWord(text[i].word)
             toks == SqlTokens(text)
             atom(i, j) == SqlAtom(text, args, i, j)
  <1>1. DOMAIN text = 1 .. Len(text) /\ Len(text) \in Nat
    OBVIOUS
  <1>2. \A i \in 1 .. Len(text) : w(i) \in SqlWords(X)
    <2> SUFFICES ASSUME NEW i \in 1 .. Len(text) PROVE w(i) \in SqlWords(X)
      OBVIOUS
    <2>1. text[i] \in X
      BY <1>1
    <2> QED  BY <2>1 DEF SqlWords
  <1>3. toks = [i \in 1 .. Len(text) |-> w(i)]
    BY <1>1 DEF SqlTokens
  <1> HIDE DEF w, toks
  <1>4. toks \in Seq(SqlWords(X)) /\ Len(toks) = Len(text) /\ \A i \in 1 .. Len(text) : toks[i] = w(i)
    BY <1>1, <1>2, <1>3
  <1>5. Places(toks) = Places(text) /\ Spans(toks) = Spans(text)
    BY <1>4 DEF Places, Spans
  <1>6. \A i, j : atom(i, j) \in Sets
    <2>1. \A x : ConditionRows(x, args) \in SUBSET Rows
      BY DEF ConditionRows
    <2>2. \A x : {ConditionRows(x, args)} \in Sets /\ {} \in Sets
      BY <2>1 DEF Sets
    <2> SUFFICES ASSUME NEW i, NEW j PROVE atom(i, j) \in Sets
      OBVIOUS
    <2>3. atom(i, j) = {ConditionRows(text[i], args)} \/ atom(i, j) = {}
      BY Zenon DEF SqlAtom
    <2> QED  BY <2>2, <2>3
  <1> HIDE DEF atom
  <1>7. SqlAtoms(text, args) = [x \in Spans(text) |-> atom(x[1], x[2])]
    BY Zenon DEF SqlAtoms, atom
  <1>8. SqlAtoms(text, args) \in [Spans(text) -> Sets]
    BY <1>6, <1>7
  <1>9. \A i, j \in Places(text) : SqlAtoms(text, args)[<<i, j>>] = atom(i, j)
    BY <1>7 DEF Spans
  <1> QED  BY <1>4, <1>5, <1>8, <1>9 DEF w, toks, atom

\* A condition is one word, and not a bracket or a not: the SQL too is read in one way.
LEMMA SqlAtomic ==
    ASSUME NEW X, NEW text \in Seq(X), NEW args
    PROVE  Atomic(SqlTokens(text), SqlAtoms(text, args))
  <1> DEFINE toks == SqlTokens(text)
             atoms == SqlAtoms(text, args)
  <1>1. /\ Places(toks) = Places(text)
        /\ \A i, j \in Places(text) : atoms[<<i, j>>] = SqlAtom(text, args, i, j)
    BY SqlRight
  <1>5. \A tok : IsAtom(tok) => tok \notin {"(", "not"}
    BY DEF IsAtom
  <1>2. \A i, j : SqlAtom(text, args, i, j) = IF j = i + 1 /\ IsAtom(toks[i]) THEN {ConditionRows(text[i], args)} ELSE {}
    BY Zenon DEF SqlAtom
  <1> HIDE DEF toks, atoms
  <1>3. \A i, j \in Places(toks) : atoms[<<i, j>>] # {} => i < j /\ toks[i] \notin {"(", "not"}
    <2> SUFFICES ASSUME NEW i \in Places(toks), NEW j \in Places(toks), atoms[<<i, j>>] # {}
                 PROVE  i < j /\ toks[i] \notin {"(", "not"}
      OBVIOUS
    <2>1. j = i + 1 /\ IsAtom(toks[i])
      BY <1>1, <1>2
    <2>2. i < j
      BY <1>1, <2>1 DEF Places
    <2> QED  BY <1>5, <2>1, <2>2, Zenon
  <1>4. \A i, j, k \in Places(toks) : \A a \in atoms[<<i, j>>], b \in atoms[<<i, k>>] : j = k /\ a = b
    BY <1>1, <1>2
  <1> QED  BY <1>3, <1>4, Zenon DEF Atomic, toks, atoms

\* The text t stands in a longer one, from p on.
Occurs(t, text, p) ==
    p \in Nat /\ 1 <= p /\ p + Len(t) <= Len(text) + 1 /\ \A k \in 1 .. Len(t) : text[p + k - 1] = t[k]
\* More arguments behind the same ones.
Keeps(more, args) ==
    Len(args) \in Nat /\ Len(more) \in Nat /\ Len(args) <= Len(more) /\ \A k \in 1 .. Len(args) : more[k] = args[k]
\* Wherever t stands in a text, it has the reading v by the rule, whatever arguments follow.
Says(X, t, args, rule, v) ==
    \A text \in Seq(X) : \A p, more :
      Occurs(t, text, p) /\ Keeps(more, args) => v \in SqlReads(text, more, rule, p, p + Len(t))

\* The ends of a text that stands in another are places of that.
LEMMA OccursPlaces ==
    ASSUME NEW X, NEW t \in Seq(X), NEW text \in Seq(X), NEW p, Occurs(t, text, p)
    PROVE  /\ p \in Nat /\ Len(t) \in Nat /\ p \in Places(text) /\ p + Len(t) \in Places(text)
           /\ \A k \in 1 .. Len(t) : p + k - 1 \in 1 .. Len(text) /\ text[p + k - 1] = t[k]
  BY DEF Occurs, Places

\* What stands in a text stands there with its parts one behind the other.
LEMMA OccursConcat ==
    ASSUME NEW X, NEW a \in Seq(X), NEW b \in Seq(X), NEW text \in Seq(X), NEW p, Occurs(a \o b, text, p)
    PROVE  Occurs(a, text, p) /\ Occurs(b, text, p + Len(a)) /\ Len(a \o b) = Len(a) + Len(b)
  <1>1. /\ a \o b \in Seq(X) /\ Len(a \o b) = Len(a) + Len(b)
        /\ \A i \in 1 .. Len(a) + Len(b) : (a \o b)[i] = IF i <= Len(a) THEN a[i] ELSE b[i - Len(a)]
    BY ConcatProperties
  <1>2. PICK c \in Seq(X) : c = a \o b
    BY <1>1
  <1>3. Len(a) \in Nat /\ Len(b) \in Nat /\ Len(text) \in Nat
    OBVIOUS
  <1>4. PICK m, n \in Nat : m = Len(a) /\ n = Len(b)
    BY <1>3
  <1>5. Len(c) = m + n /\ \A i \in 1 .. m + n : c[i] = IF i <= m THEN a[i] ELSE b[i - m]
    BY <1>1, <1>2, <1>4
  <1>6. p \in Nat /\ 1 <= p /\ p + Len(c) <= Len(text) + 1 /\ \A k \in 1 .. Len(c) : text[p + k - 1] = c[k]
    BY <1>2, Zenon DEF Occurs
  <1>7. p + m <= Len(text) + 1 /\ (p + m) + n <= Len(text) + 1 /\ 1 <= p + m /\ p + m \in Nat
    BY <1>3, <1>4, <1>5, <1>6
  <1>8. \A k \in 1 .. m : text[p + k - 1] = a[k]
    <2> SUFFICES ASSUME NEW k \in 1 .. m PROVE text[p + k - 1] = a[k]
      OBVIOUS
    <2>1. k \in 1 .. m + n /\ k <= m
      BY <1>4
    <2> QED  BY <1>5, <1>6, <2>1
  <1>9. \A k \in 1 .. n : text[(p + m) + k - 1] = b[k]
    <2> SUFFICES ASSUME NEW k \in 1 .. n PROVE text[(p + m) + k - 1] = b[k]
      OBVIOUS
    <2>1. m + k \in 1 .. m + n /\ ~(m + k <= m) /\ (m + k) - m = k /\ p + (m + k) - 1 = (p + m) + k - 1
      BY <1>4, <1>6
    <2>2. c[m + k] = b[k]
      BY <1>5, <2>1
    <2>3. text[p + (m + k) - 1] = c[m + k]
      BY <1>5, <1>6, <2>1
    <2> QED  BY <2>1, <2>2, <2>3
  <1>10. Occurs(a, text, p)
    BY <1>4, <1>6, <1>7, <1>8 DEF Occurs
  <1>11. Occurs(b, text, p + Len(a))
    BY <1>4, <1>7, <1>9 DEF Occurs
  <1> QED  BY <1>1, <1>10, <1>11

\* A word that stands in a text is the word there.
LEMMA OccursWord ==
    ASSUME NEW X, NEW x \in X, NEW text \in Seq(X), NEW p, Occurs(<<x>>, text, p)
    PROVE  p \in 1 .. Len(text) /\ text[p] = x /\ SqlTokens(text)[p] = SQLWord(x.word)
  <1>1. PICK t \in Seq(X) : t = <<x>>
    BY OneWord
  <1>2. Len(t) = 1 /\ t[1] = x
    BY <1>1
  <1>3. Occurs(t, text, p)
    BY <1>1
  <1>4. p \in Nat /\ p + 1 - 1 \in 1 .. Len(text) /\ text[p + 1 - 1] = x
    <2>1. p \in Nat /\ \A k \in 1 .. Len(t) : p + k - 1 \in 1 .. Len(text) /\ text[p + k - 1] = t[k]
      BY <1>3, OccursPlaces
    <2>2. 1 \in 1 .. Len(t)
      BY <1>2
    <2> QED  BY <1>2, <2>1, <2>2
  <1>5. p + 1 - 1 = p
    BY <1>4
  <1>6. p \in 1 .. Len(text) /\ text[p] = x
    BY <1>4, <1>5
  <1>7. \A i \in 1 .. Len(text) : SqlTokens(text)[i] = SQLWord(text[i].word)
    BY SqlRight
  <1> QED  BY <1>6, <1>7

\* A condition is read as what it selects, and what is in brackets as what is in them.
LEMMA SqlTerm ==
    ASSUME NEW X, NEW text \in Seq(X), NEW args, NEW i \in Places(text), NEW j \in Places(text), NEW v,
           \/ v \in SqlAtom(text, args, i, j)
           \/ /\ i + 1 < j /\ SqlTokens(text)[i] = "(" /\ SqlTokens(text)[j - 1] = ")"
              /\ v \in SqlReads(text, args, "or", i + 1, j - 1)
    PROVE  v \in SqlReads(text, args, "term", i, j)
  <1> DEFINE toks == SqlTokens(text)
             atoms == SqlAtoms(text, args)
  <1>1. /\ toks \in Seq(SqlWords(X)) /\ Places(toks) = Places(text) /\ atoms \in [Spans(toks) -> Sets]
        /\ atoms[<<i, j>>] = SqlAtom(text, args, i, j)
    BY SqlRight
  <1> HIDE DEF toks, atoms
  <1>2. v \in Reads(toks, atoms, "term", i, j) <=>
             \/ v \in atoms[<<i, j>>]
             \/ /\ i + 1 < j /\ toks[i] = "(" /\ toks[j - 1] = ")"
                /\ v \in Reads(toks, atoms, "or", i + 1, j - 1)
    BY <1>1, TermRule
  <1> QED  BY <1>1, <1>2, Zenon DEF SqlReads, toks, atoms

\* What a term reads a unary does, and NOT takes the other rows.
LEMMA SqlUnary ==
    ASSUME NEW X, NEW text \in Seq(X), NEW args, NEW i \in Places(text), NEW j \in Places(text), NEW v,
           \/ v \in SqlReads(text, args, "term", i, j)
           \/ /\ i < j /\ SqlTokens(text)[i] = "not"
              /\ \E a \in SqlReads(text, args, "term", i + 1, j) : v = Rows \ a
    PROVE  v \in SqlReads(text, args, "unary", i, j)
  <1> DEFINE toks == SqlTokens(text)
             atoms == SqlAtoms(text, args)
  <1>1. toks \in Seq(SqlWords(X)) /\ Places(toks) = Places(text) /\ atoms \in [Spans(toks) -> Sets]
    BY SqlRight
  <1> HIDE DEF toks, atoms
  <1>2. v \in Reads(toks, atoms, "unary", i, j) <=>
             \/ v \in Reads(toks, atoms, "term", i, j)
             \/ /\ i < j /\ toks[i] = "not"
                /\ \E a \in Reads(toks, atoms, "term", i + 1, j) : v = Rows \ a
    BY <1>1, UnaryRule
  <1> QED  BY <1>2, Zenon DEF SqlReads, toks, atoms

\* What a unary reads a conjunction does, and two with AND between them take the rows of both.
LEMMA SqlAnd ==
    ASSUME NEW X, NEW text \in Seq(X), NEW args, NEW i \in Places(text), NEW j \in Places(text), NEW v,
           \/ v \in SqlReads(text, args, "unary", i, j)
           \/ \E k \in i .. j - 1 :
                /\ SqlTokens(text)[k] = "and"
                /\ v \in Meets(SqlReads(text, args, "unary", i, k), SqlReads(text, args, "and", k + 1, j))
    PROVE  v \in SqlReads(text, args, "and", i, j)
  <1> DEFINE toks == SqlTokens(text)
             atoms == SqlAtoms(text, args)
  <1>1. toks \in Seq(SqlWords(X)) /\ Places(toks) = Places(text) /\ atoms \in [Spans(toks) -> Sets]
    BY SqlRight
  <1> HIDE DEF toks, atoms
  <1>2. v \in Reads(toks, atoms, "and", i, j) <=>
             \/ v \in Reads(toks, atoms, "unary", i, j)
             \/ \E k \in i .. j - 1 :
                  /\ toks[k] = "and"
                  /\ v \in Meets(Reads(toks, atoms, "unary", i, k), Reads(toks, atoms, "and", k + 1, j))
    BY <1>1, AndRule
  <1> QED  BY <1>2, Zenon DEF SqlReads, toks, atoms

\* What a conjunction reads a disjunction does, and two with OR between them take the rows of either.
LEMMA SqlOr ==
    ASSUME NEW X, NEW text \in Seq(X), NEW args, NEW i \in Places(text), NEW j \in Places(text), NEW v,
           \/ v \in SqlReads(text, args, "and", i, j)
           \/ \E k \in i .. j - 1 :
                /\ SqlTokens(text)[k] = "or"
                /\ v \in Joins(SqlReads(text, args, "and", i, k), SqlReads(text, args, "or", k + 1, j))
    PROVE  v \in SqlReads(text, args, "or", i, j)
  <1> DEFINE toks == SqlTokens(text)
             atoms == SqlAtoms(text, args)
  <1>1. toks \in Seq(SqlWords(X)) /\ Places(toks) = Places(text) /\ atoms \in [Spans(toks) -> Sets]
    BY SqlRight
  <1> HIDE DEF toks, atoms
  <1>2. v \in Reads(toks, atoms, "or", i, j) <=>
             \/ v \in Reads(toks, atoms, "and", i, j)
             \/ \E k \in i .. j - 1 :
                  /\ toks[k] = "or"
                  /\ v \in Joins(Reads(toks, atoms, "and", i, k), Reads(toks, atoms, "or", k + 1, j))
    BY <1>1, OrRule
  <1> QED  BY <1>2, Zenon DEF SqlReads, toks, atoms

\* What is kept of what is kept is kept.
LEMMA KeepsMore ==
    ASSUME NEW a, NEW b, NEW c, Keeps(b, a), Keeps(c, b)
    PROVE  Keeps(c, a)
  <1>1. \A k \in 1 .. Len(a) : k \in 1 .. Len(b) /\ b[k] = a[k]
    BY DEF Keeps
  <1>2. \A k \in 1 .. Len(b) : c[k] = b[k]
    BY DEF Keeps
  <1>3. Len(a) \in Nat /\ Len(b) \in Nat /\ Len(c) \in Nat /\ Len(a) <= Len(b) /\ Len(b) <= Len(c)
    BY DEF Keeps
  <1>4. \A k \in 1 .. Len(a) : c[k] = a[k]
    BY <1>1, <1>2
  <1>5. Len(a) <= Len(c)
    BY <1>3
  <1> QED  BY <1>3, <1>4, <1>5, Zenon DEF Keeps

\* What a text says of some arguments it says when others follow them.
LEMMA SaysMore ==
    ASSUME NEW X, NEW t, NEW as, NEW bs, Keeps(bs, as), NEW rule, NEW v, Says(X, t, as, rule, v)
    PROVE  Says(X, t, bs, rule, v)
  <1> SUFFICES ASSUME NEW text \in Seq(X), NEW p, NEW more, Occurs(t, text, p), Keeps(more, bs)
               PROVE  v \in SqlReads(text, more, rule, p, p + Len(t))
    BY Zenon DEF Says
  <1>1. Keeps(more, as)
    BY KeepsMore
  <1> QED  BY <1>1, Zenon DEF Says

\* What a text says stands where the text does.
LEMMA SaysThere ==
    ASSUME NEW X, NEW t \in Seq(X), NEW args, NEW rule, NEW v, Says(X, t, args, rule, v),
           NEW text \in Seq(X), NEW p, NEW more, Occurs(t, text, p), Keeps(more, args)
    PROVE  v \in SqlReads(text, more, rule, p, p + Len(t))
  BY Zenon DEF Says

\* A term is a unary, a unary a conjunction, a conjunction a disjunction.
LEMMA SaysUp ==
    ASSUME NEW X, NEW t \in Seq(X), NEW args, NEW v
    PROVE  /\ Says(X, t, args, "term", v) => Says(X, t, args, "unary", v)
           /\ Says(X, t, args, "unary", v) => Says(X, t, args, "and", v)
           /\ Says(X, t, args, "and", v) => Says(X, t, args, "or", v)
  <1>1. ASSUME NEW text \in Seq(X), NEW p, NEW more, Occurs(t, text, p)
        PROVE  /\ v \in SqlReads(text, more, "term", p, p + Len(t)) => v \in SqlReads(text, more, "unary", p, p + Len(t))
               /\ v \in SqlReads(text, more, "unary", p, p + Len(t)) => v \in SqlReads(text, more, "and", p, p + Len(t))
               /\ v \in SqlReads(text, more, "and", p, p + Len(t)) => v \in SqlReads(text, more, "or", p, p + Len(t))
    <2>1. p \in Places(text) /\ p + Len(t) \in Places(text)
      BY <1>1, OccursPlaces
    <2> QED  BY <2>1, SqlUnary, SqlAnd, SqlOr
  <1>2. ASSUME Says(X, t, args, "term", v) PROVE Says(X, t, args, "unary", v)
    BY <1>1, <1>2, Zenon DEF Says
  <1>3. ASSUME Says(X, t, args, "unary", v) PROVE Says(X, t, args, "and", v)
    BY <1>1, <1>3, Zenon DEF Says
  <1>4. ASSUME Says(X, t, args, "and", v) PROVE Says(X, t, args, "or", v)
    BY <1>1, <1>4, Zenon DEF Says
  <1> QED  BY <1>2, <1>3, <1>4

\* A condition says what it selects.
LEMMA SaysWord ==
    ASSUME NEW X, NEW x \in X, IsAtom(SQLWord(x.word)), NEW args, NEW v,
           \A more : Keeps(more, args) => ConditionRows(x, more) = v
    PROVE  Says(X, <<x>>, args, "term", v)
  <1>1. PICK t \in Seq(X) : t = <<x>> /\ Len(t) = 1
    <2>1. <<x>> \in Seq(X) /\ Len(<<x>>) = 1
      BY OneWord
    <2> QED  BY <2>1
  <1>2. ASSUME NEW text \in Seq(X), NEW p, NEW more, Occurs(t, text, p), Keeps(more, args)
        PROVE  v \in SqlReads(text, more, "term", p, p + Len(t))
    <2>1. p \in 1 .. Len(text) /\ text[p] = x /\ SqlTokens(text)[p] = SQLWord(x.word)
      BY <1>1, <1>2, OccursWord
    <2>2. p \in Places(text) /\ p + Len(t) \in Places(text)
      BY <1>2, OccursPlaces
    <2>3. SqlAtom(text, more, p, p + 1) = {ConditionRows(text[p], more)}
      BY <2>1, Zenon DEF SqlAtom
    <2>4. v \in SqlAtom(text, more, p, p + Len(t))
      BY <1>1, <1>2, <2>1, <2>3
    <2> QED  BY <2>2, <2>4, SqlTerm
  <1>3. Says(X, t, args, "term", v)
    BY <1>2, Zenon DEF Says
  <1> QED  BY <1>1, <1>3

\* The words of SQL as those of the grammar.
LEMMA SqlWordsAre ==
    /\ SQLWord("AND") = "and" /\ SQLWord("OR") = "or" /\ SQLWord("NOT") = "not"
    /\ SQLWord("(") = "(" /\ SQLWord(")") = ")" /\ SQLWord("condition") = "condition" /\ SQLWord("interval") = "interval"
  BY DEF SQLWord

\* The words of joins and negations are texts.
LEMMA SqlSetWords ==
    ASSUME NEW X, SqlSet(X), NEW w \in {"(", ")", "AND", "OR", "NOT"}
    PROVE  [word |-> w] \in X /\ Word(w) \in Seq(X) /\ Len(Word(w)) = 1
  <1>1. [word |-> w] \in X
    BY DEF SqlSet
  <1> QED  BY <1>1, WordSeq

\* A word of them where it stands.
LEMMA WordThere ==
    ASSUME NEW X, SqlSet(X), NEW w \in {"(", ")", "AND", "OR", "NOT"}, NEW text \in Seq(X), NEW p,
           Occurs(Word(w), text, p)
    PROVE  p \in 1 .. Len(text) /\ SqlTokens(text)[p] = SQLWord(w)
  <1>1. PICK x \in X : x = [word |-> w]
    BY SqlSetWords
  <1>2. Word(w) = <<x>> /\ x.word = w
    BY <1>1 DEF Word
  <1> QED  BY <1>2, OccursWord

\* Brackets make a term of a disjunction.
LEMMA SaysBracket ==
    ASSUME NEW X, SqlSet(X), NEW t \in Seq(X), 0 < Len(t), NEW args, NEW v, Says(X, t, args, "or", v)
    PROVE  /\ (Word("(") \o t) \o Word(")") \in Seq(X)
           /\ Says(X, (Word("(") \o t) \o Word(")"), args, "term", v)
  <1>1. PICK a, b \in Seq(X) : a = Word("(") /\ b = Word(")") /\ Len(a) = 1 /\ Len(b) = 1
    BY SqlSetWords
  <1>2. PICK c \in Seq(X) : c = a \o t
    BY ConcatIs
  <1>3. PICK d \in Seq(X) : d = c \o b
    BY ConcatIs
  <1>4. PICK n \in Nat : n = Len(t)
    OBVIOUS
  <1>5. ASSUME NEW text \in Seq(X), NEW p, NEW more, Occurs(d, text, p), Keeps(more, args)
        PROVE  v \in SqlReads(text, more, "term", p, p + Len(d))
    <2>1. Occurs(c, text, p) /\ Occurs(b, text, p + Len(c)) /\ Len(d) = Len(c) + Len(b)
      BY <1>3, <1>5, OccursConcat
    <2>2. Occurs(a, text, p) /\ Occurs(t, text, p + Len(a)) /\ Len(c) = Len(a) + Len(t)
      BY <1>2, <2>1, OccursConcat
    <2>3. p \in Places(text) /\ p + Len(d) \in Places(text) /\ p \in Nat
      BY <1>5, OccursPlaces
    <2>4. SqlTokens(text)[p] = "("
      BY <1>1, <2>2, WordThere, SqlWordsAre
    <2>5. SqlTokens(text)[p + Len(c)] = ")"
      BY <1>1, <2>1, WordThere, SqlWordsAre
    <2>6. Len(c) = n + 1 /\ Len(d) = n + 2
      BY <1>1, <1>4, <2>1, <2>2
    <2>7. /\ p + Len(d) - 1 = p + Len(c) /\ p + 1 < p + Len(d) /\ p + Len(a) = p + 1 /\ (p + 1) + Len(t) = p + Len(d) - 1
      <3>1. Len(a) = 1 /\ Len(t) = n
        BY <1>1, <1>4
      <3>2. /\ p + (n + 2) - 1 = p + (n + 1) /\ p + 1 < p + (n + 2) /\ (p + 1) + n = p + (n + 2) - 1
        BY <2>3
      <3> QED  BY <2>6, <3>1, <3>2
    <2>8. v \in SqlReads(text, more, "or", p + 1, p + Len(d) - 1)
      <3>1. Occurs(t, text, p + 1)
        BY <2>2, <2>7
      <3>2. v \in SqlReads(text, more, "or", p + 1, (p + 1) + Len(t))
        BY <1>5, <3>1, SaysThere
      <3> QED  BY <2>7, <3>2
    <2>9. SqlTokens(text)[p + Len(d) - 1] = ")"
      BY <2>5, <2>7
    <2> QED  BY <2>3, <2>4, <2>7, <2>8, <2>9, SqlTerm
  <1>6. Says(X, d, args, "term", v)
    BY <1>5, Zenon DEF Says
  <1> QED  BY <1>1, <1>2, <1>3, <1>6

\* NOT takes the other rows of a term.
LEMMA SaysNot ==
    ASSUME NEW X, SqlSet(X), NEW t \in Seq(X), NEW args, NEW v, Says(X, t, args, "term", v)
    PROVE  /\ Word("NOT") \o t \in Seq(X)
           /\ Says(X, Word("NOT") \o t, args, "unary", Rows \ v)
  <1>1. PICK a \in Seq(X) : a = Word("NOT") /\ Len(a) = 1
    BY SqlSetWords
  <1>2. PICK c \in Seq(X) : c = a \o t
    BY ConcatIs
  <1>4. PICK n \in Nat : n = Len(t)
    OBVIOUS
  <1>5. ASSUME NEW text \in Seq(X), NEW p, NEW more, Occurs(c, text, p), Keeps(more, args)
        PROVE  Rows \ v \in SqlReads(text, more, "unary", p, p + Len(c))
    <2>2. Occurs(a, text, p) /\ Occurs(t, text, p + Len(a)) /\ Len(c) = Len(a) + Len(t)
      BY <1>2, <1>5, OccursConcat
    <2>3. p \in Places(text) /\ p + Len(c) \in Places(text) /\ p \in Nat
      BY <1>5, OccursPlaces
    <2>4. SqlTokens(text)[p] = "not"
      BY <1>1, <2>2, WordThere, SqlWordsAre
    <2>6. p + Len(a) = p + 1 /\ (p + 1) + Len(t) = p + Len(c) /\ p < p + Len(c)
      <3>1. Len(a) = 1 /\ Len(t) = n /\ Len(c) = 1 + n
        BY <1>1, <1>4, <2>2
      <3>2. (p + 1) + n = p + (1 + n) /\ p < p + (1 + n)
        BY <2>3
      <3> QED  BY <3>1, <3>2
    <2>7. v \in SqlReads(text, more, "term", p + 1, p + Len(c))
      <3>1. Occurs(t, text, p + 1)
        BY <2>2, <2>6
      <3>2. v \in SqlReads(text, more, "term", p + 1, (p + 1) + Len(t))
        BY <1>5, <3>1, SaysThere
      <3> QED  BY <2>6, <3>2
    <2>8. \E a1 \in SqlReads(text, more, "term", p + 1, p + Len(c)) : Rows \ v = Rows \ a1
      BY <2>7
    <2> QED  BY <2>3, <2>4, <2>6, <2>8, SqlUnary
  <1>6. Says(X, c, args, "unary", Rows \ v)
    BY <1>5, Zenon DEF Says
  <1> QED  BY <1>1, <1>2, <1>6

\* AND takes the rows of both.
LEMMA SaysAnd ==
    ASSUME NEW X, SqlSet(X), NEW t \in Seq(X), NEW u \in Seq(X), NEW args, NEW a, NEW b,
           Says(X, t, args, "unary", a), Says(X, u, args, "and", b)
    PROVE  /\ (t \o Word("AND")) \o u \in Seq(X)
           /\ Says(X, (t \o Word("AND")) \o u, args, "and", a \cap b)
  <1>1. PICK w \in Seq(X) : w = Word("AND") /\ Len(w) = 1
    BY SqlSetWords
  <1>2. PICK c \in Seq(X) : c = t \o w
    BY ConcatIs
  <1>3. PICK d \in Seq(X) : d = c \o u
    BY ConcatIs
  <1>4. PICK m, n \in Nat : m = Len(t) /\ n = Len(u)
    OBVIOUS
  <1>5. ASSUME NEW text \in Seq(X), NEW p, NEW more, Occurs(d, text, p), Keeps(more, args)
        PROVE  a \cap b \in SqlReads(text, more, "and", p, p + Len(d))
    <2>1. Occurs(c, text, p) /\ Occurs(u, text, p + Len(c)) /\ Len(d) = Len(c) + Len(u)
      BY <1>3, <1>5, OccursConcat
    <2>2. Occurs(t, text, p) /\ Occurs(w, text, p + Len(t)) /\ Len(c) = Len(t) + Len(w)
      BY <1>2, <2>1, OccursConcat
    <2>3. p \in Places(text) /\ p + Len(d) \in Places(text) /\ p \in Nat
      BY <1>5, OccursPlaces
    <2>4. SqlTokens(text)[p + Len(t)] = "and"
      BY <1>1, <2>2, WordThere, SqlWordsAre
    <2>5. PICK k \in Nat : k = p + m
      BY <1>4, <2>3
    <2>6. /\ k \in p .. p + Len(d) - 1 /\ p + Len(t) = k /\ p + Len(c) = k + 1 /\ (k + 1) + Len(u) = p + Len(d)
      BY <1>1, <1>4, <2>1, <2>2, <2>3, <2>5
    <2>7. a \in SqlReads(text, more, "unary", p, k)
      BY <1>5, <2>2, <2>6, SaysThere
    <2>8. b \in SqlReads(text, more, "and", k + 1, p + Len(d))
      <3>1. Occurs(u, text, k + 1)
        BY <2>1, <2>6
      <3>2. b \in SqlReads(text, more, "and", k + 1, (k + 1) + Len(u))
        BY <1>5, <3>1, SaysThere
      <3> QED  BY <2>6, <3>2
    <2>9. a \cap b \in Meets(SqlReads(text, more, "unary", p, k), SqlReads(text, more, "and", k + 1, p + Len(d)))
      BY <2>7, <2>8, Meeting
    <2>10. SqlTokens(text)[k] = "and"
      BY <2>4, <2>6
    <2> QED  BY <2>3, <2>6, <2>9, <2>10, SqlAnd
  <1>6. Says(X, d, args, "and", a \cap b)
    BY <1>5, Zenon DEF Says
  <1> QED  BY <1>1, <1>2, <1>3, <1>6

\* OR takes the rows of either.
LEMMA SaysOr ==
    ASSUME NEW X, SqlSet(X), NEW t \in Seq(X), NEW u \in Seq(X), NEW args, NEW a, NEW b,
           Says(X, t, args, "and", a), Says(X, u, args, "or", b)
    PROVE  /\ (t \o Word("OR")) \o u \in Seq(X)
           /\ Says(X, (t \o Word("OR")) \o u, args, "or", a \cup b)
  <1>1. PICK w \in Seq(X) : w = Word("OR") /\ Len(w) = 1
    BY SqlSetWords
  <1>2. PICK c \in Seq(X) : c = t \o w
    BY ConcatIs
  <1>3. PICK d \in Seq(X) : d = c \o u
    BY ConcatIs
  <1>4. PICK m, n \in Nat : m = Len(t) /\ n = Len(u)
    OBVIOUS
  <1>5. ASSUME NEW text \in Seq(X), NEW p, NEW more, Occurs(d, text, p), Keeps(more, args)
        PROVE  a \cup b \in SqlReads(text, more, "or", p, p + Len(d))
    <2>1. Occurs(c, text, p) /\ Occurs(u, text, p + Len(c)) /\ Len(d) = Len(c) + Len(u)
      BY <1>3, <1>5, OccursConcat
    <2>2. Occurs(t, text, p) /\ Occurs(w, text, p + Len(t)) /\ Len(c) = Len(t) + Len(w)
      BY <1>2, <2>1, OccursConcat
    <2>3. p \in Places(text) /\ p + Len(d) \in Places(text) /\ p \in Nat
      BY <1>5, OccursPlaces
    <2>4. SqlTokens(text)[p + Len(t)] = "or"
      BY <1>1, <2>2, WordThere, SqlWordsAre
    <2>5. PICK k \in Nat : k = p + m
      BY <1>4, <2>3
    <2>6. /\ k \in p .. p + Len(d) - 1 /\ p + Len(t) = k /\ p + Len(c) = k + 1 /\ (k + 1) + Len(u) = p + Len(d)
      BY <1>1, <1>4, <2>1, <2>2, <2>3, <2>5
    <2>7. a \in SqlReads(text, more, "and", p, k)
      BY <1>5, <2>2, <2>6, SaysThere
    <2>8. b \in SqlReads(text, more, "or", k + 1, p + Len(d))
      <3>1. Occurs(u, text, k + 1)
        BY <2>1, <2>6
      <3>2. b \in SqlReads(text, more, "or", k + 1, (k + 1) + Len(u))
        BY <1>5, <3>1, SaysThere
      <3> QED  BY <2>6, <3>2
    <2>9. a \cup b \in Joins(SqlReads(text, more, "and", p, k), SqlReads(text, more, "or", k + 1, p + Len(d)))
      BY <2>7, <2>8, Joining
    <2>10. SqlTokens(text)[k] = "or"
      BY <2>4, <2>6
    <2> QED  BY <2>3, <2>6, <2>9, <2>10, SqlOr
  <1>6. Says(X, d, args, "or", a \cup b)
    BY <1>5, Zenon DEF Says
  <1> QED  BY <1>1, <1>2, <1>3, <1>6

-----------------------------------------------------------------------------
(***************************************************************************)
(* A tree writes one text, behind those written before: predicates,        *)
(* negations, and the terms of joins, in brackets.                         *)
(***************************************************************************)
Halves(c, a, b, n) == SubSeq(c, 1, Len(c) - n) = a /\ SubSeq(c, Len(c) - n + 1, Len(c)) = b

\* The two halves of two sequences in a row.
LEMMA SplitConcat ==
    ASSUME NEW S, NEW a \in Seq(S), NEW b \in Seq(S), NEW n, n = Len(b)
    PROVE  Halves(a \o b, a, b, n)
  <1>1. /\ a \o b \in Seq(S) /\ Len(a \o b) = Len(a) + Len(b)
        /\ \A i \in 1 .. Len(a) + Len(b) : (a \o b)[i] = IF i <= Len(a) THEN a[i] ELSE b[i - Len(a)]
    BY ConcatProperties
  <1>2. PICK c \in Seq(S) : c = a \o b
    BY <1>1
  <1>3. PICK m, k \in Nat : m = Len(a) /\ k = Len(b)
    OBVIOUS
  <1>4. Len(c) = m + k /\ \A i \in 1 .. m + k : c[i] = IF i <= m THEN a[i] ELSE b[i - m]
    BY <1>1, <1>2, <1>3
  <1>5. Len(c) - n = m /\ n = k
    BY <1>3, <1>4
  <1>6. SubSeq(c, 1, m) = a
    <2>1. \A i \in 1 .. m : c[i] \in S /\ c[i] = a[i]
      <3>1. \A i \in 1 .. m : i \in 1 .. m + k /\ i <= m
        BY <1>3
      <3>2. \A i \in 1 .. m : c[i] = a[i]
        BY <1>4, <3>1
      <3>3. \A i \in 1 .. m : a[i] \in S
        BY <1>3
      <3> QED  BY <3>2, <3>3
    <2>2. /\ SubSeq(c, 1, m) \in Seq(S) /\ Len(SubSeq(c, 1, m)) = IF 1 <= m THEN m - 1 + 1 ELSE 0
          /\ \A i \in 1 .. m - 1 + 1 : SubSeq(c, 1, m)[i] = c[1 + i - 1]
      BY <1>3, <2>1, SubSeqProperties
    <2>3. PICK x \in Seq(S) : x = SubSeq(c, 1, m)
      BY <2>2
    <2>4. Len(x) = m
      BY <1>3, <2>2, <2>3
    <2>5. \A i \in 1 .. m : x[i] = a[i]
      <3> SUFFICES ASSUME NEW i \in 1 .. m PROVE x[i] = a[i]
        OBVIOUS
      <3>1. i \in 1 .. m - 1 + 1 /\ 1 + i - 1 = i
        BY <1>3
      <3>2. x[i] = c[i]
        BY <2>2, <2>3, <3>1
      <3> QED  BY <2>1, <3>2
    <2>6. x = a
      BY <1>3, <2>4, <2>5, SeqEqual
    <2> QED  BY <2>3, <2>6
  <1>7. SubSeq(c, m + 1, Len(c)) = b
    <2>1. \A i \in m + 1 .. m + k : c[i] \in S
      <3>1. \A i \in m + 1 .. m + k : i \in 1 .. m + k
        BY <1>3
      <3> QED  BY <1>4, <3>1, ElementOfSeq
    <2>2. /\ SubSeq(c, m + 1, m + k) \in Seq(S)
          /\ Len(SubSeq(c, m + 1, m + k)) = IF m + 1 <= m + k THEN (m + k) - (m + 1) + 1 ELSE 0
          /\ \A i \in 1 .. (m + k) - (m + 1) + 1 : SubSeq(c, m + 1, m + k)[i] = c[m + 1 + i - 1]
      <3>1. m + 1 \in Int /\ m + k \in Int
        BY <1>3
      <3> QED  BY <2>1, <3>1, SubSeqProperties
    <2>3. PICK x \in Seq(S) : x = SubSeq(c, m + 1, m + k)
      BY <2>2
    <2>4. Len(x) = k
      BY <1>3, <2>2, <2>3
    <2>5. \A i \in 1 .. k : x[i] = b[i]
      <3> SUFFICES ASSUME NEW i \in 1 .. k PROVE x[i] = b[i]
        OBVIOUS
      <3>1. i \in 1 .. (m + k) - (m + 1) + 1 /\ m + 1 + i - 1 = m + i
        BY <1>3
      <3>2. x[i] = c[m + i]
        BY <2>2, <2>3, <3>1
      <3>3. m + i \in 1 .. m + k /\ ~(m + i <= m) /\ (m + i) - m = i
        BY <1>3
      <3>4. c[m + i] = b[i]
        BY <1>4, <3>3
      <3> QED  BY <3>2, <3>4
    <2>6. x = b
      BY <1>3, <2>4, <2>5, SeqEqual
    <2> QED  BY <1>4, <2>3, <2>6
  <1> QED  BY <1>2, <1>5, <1>6, <1>7 DEF Halves

Written(ts, as) == [texts |-> ts, args |-> as]
Bracketed(t) == (Word("(") \o t) \o Word(")")
\* What a node makes of the texts us that it takes up, and what negation makes of t.
JoinsText(node, sep, n, spec, ts, us, as) ==
    writeNode(Node(node, n), spec, Written(ts \o us, as)) = Written(Append(ts, Bracketed(Glued(sep, us))), as)
NotsText(spec, ts, t, as) ==
    writeNode(Node("not", 1), spec, Written(Append(ts, t), as)) = Written(Append(ts, Word("NOT") \o Bracketed(t)), as)

\* A node brackets what is glued of its terms.
LEMMA JoinText ==
    ASSUME NEW S, NEW ts \in Seq(S), NEW us \in Seq(S), NEW spec, NEW as
    PROVE  JoinsText("and", "AND", Len(us), spec, ts, us, as) /\ JoinsText("or", "OR", Len(us), spec, ts, us, as)
  <1> DEFINE all == ts \o us
             n == Len(us)
             out == Written(all, as)
             rest == SubSeq(all, 1, Len(all) - n)
             terms == SubSeq(all, Len(all) - n + 1, Len(all))
  <1>1. rest = ts /\ terms = us
    <2>1. Halves(ts \o us, ts, us, Len(us))
      BY SplitConcat
    <2> QED  BY <2>1, Zenon DEF Halves
  <1>2. out.texts = all /\ out.args = as
    BY DEF Written
  <1>3. \A node : Node(node, n).node = node /\ Node(node, n).terms = n
    BY DEF Node
  <1> HIDE DEF out, all, n
  <1>4. \A node : node # "predicate" =>
          writeNode(Node(node, n), spec, out) =
            [texts |-> Append(rest, IF node = "and" THEN writeJoin("AND", terms)
                                    ELSE IF node = "or" THEN writeJoin("OR", terms)
                                    ELSE Word("NOT") \o Word("(") \o terms[1] \o Word(")")), args |-> as]
    BY <1>2, <1>3, Zenon DEF writeNode
  <1>5. \A sep : writeJoin(sep, us) = Bracketed(Glued(sep, us))
    BY Zenon DEF writeJoin, Bracketed, Glued
  <1>6. writeNode(Node("and", n), spec, out) = [texts |-> Append(ts, writeJoin("AND", us)), args |-> as]
    BY <1>1, <1>4, Zenon
  <1>7. writeNode(Node("or", n), spec, out) = [texts |-> Append(ts, writeJoin("OR", us)), args |-> as]
    <2>1. "or" # "and" /\ "or" # "predicate"
      OBVIOUS
    <2> QED  BY <1>1, <1>4, <2>1, Zenon
  <1>8. JoinsText("and", "AND", n, spec, ts, us, as)
    BY <1>5, <1>6, Zenon DEF JoinsText, Written, out, all
  <1>9. JoinsText("or", "OR", n, spec, ts, us, as)
    BY <1>5, <1>7, Zenon DEF JoinsText, Written, out, all
  <1> QED  BY <1>8, <1>9 DEF n

\* A negation brackets its term.
LEMMA NotText ==
    ASSUME NEW X, SqlSet(X), NEW ts \in Seq(Seq(X)), NEW t \in Seq(X), NEW spec, NEW as
    PROVE  NotsText(spec, ts, t, as)
  <1>1. PICK one \in Seq(Seq(X)) : one = <<t>> /\ Len(one) = 1 /\ one[1] = t
    <2>1. <<t>> \in Seq(Seq(X)) /\ Len(<<t>>) = 1
      BY OneWord
    <2>2. <<t>>[1] = t
      OBVIOUS
    <2> QED  BY <2>1, <2>2
  <1>2. Append(ts, t) = ts \o one
    BY <1>1, AppendIsConcat
  <1> DEFINE all == Append(ts, t)
             out == Written(all, as)
             rest == SubSeq(all, 1, Len(all) - 1)
             terms == SubSeq(all, Len(all) - 1 + 1, Len(all))
  <1>3. rest = ts /\ terms = one
    <2>1. Halves(ts \o one, ts, one, 1)
      <3>1. PICK n : n = Len(one)
        OBVIOUS
      <3>2. Halves(ts \o one, ts, one, n)
        BY <3>1, SplitConcat
      <3> QED  BY <1>1, <3>1, <3>2
    <2> QED  BY <1>2, <2>1, Zenon DEF Halves
  <1>4. out.texts = all /\ out.args = as
    BY DEF Written
  <1>5. Node("not", 1).node = "not" /\ Node("not", 1).terms = 1 /\ "not" # "predicate" /\ "not" # "and" /\ "not" # "or"
    BY DEF Node
  <1> HIDE DEF out, all
  <1>6. writeNode(Node("not", 1), spec, out) =
          [texts |-> Append(rest, Word("NOT") \o Word("(") \o terms[1] \o Word(")")), args |-> as]
    BY <1>4, <1>5, Zenon DEF writeNode
  <1>7. PICK a, b, c \in Seq(X) : a = Word("NOT") /\ b = Word("(") /\ c = Word(")")
    BY SqlSetWords
  <1>8. ((a \o b) \o t) \o c = a \o ((b \o t) \o c)
    <2>1. Associates(a, b, t)
      BY ConcatAssoc
    <2>2. b \o t \in Seq(X)
      BY ConcatIs
    <2>3. Associates(a, b \o t, c)
      BY <2>2, ConcatAssoc
    <2> QED  BY <2>1, <2>3, Zenon DEF Associates
  <1>9. writeNode(Node("not", 1), spec, out) = [texts |-> Append(ts, ((a \o b) \o t) \o c), args |-> as]
    BY <1>1, <1>3, <1>6, <1>7, Zenon
  <1>10. writeNode(Node("not", 1), spec, out) = [texts |-> Append(ts, a \o ((b \o t) \o c)), args |-> as]
    BY <1>8, <1>9, Zenon
  <1> QED  BY <1>7, <1>10, Zenon DEF NotsText, Bracketed, Written, out, all

\* Behind the texts ts and the arguments as, the tree a writes one text t more, that says v.
OneText(X, spec, a, v, ts, as, t, bs) ==
    /\ writeExpr(a, spec, Written(ts, as)) = Written(Append(ts, t), bs) /\ Keeps(bs, as)
    /\ 0 < Len(t) /\ Says(X, t, bs, "unary", v)
WritesOne(X, V, spec, a, v) ==
    \A ts \in Seq(Seq(X)), as \in Seq(V) : \E t \in Seq(X), bs \in Seq(V) : OneText(X, spec, a, v, ts, as, t, bs)
\* The terms of a join write as many texts us, that glued together say v.
ManyTexts(X, spec, sep, rule, a, n, v, ts, as, us, bs) ==
    /\ writeExpr(a, spec, Written(ts, as)) = Written(ts \o us, bs) /\ Keeps(bs, as)
    /\ Len(us) = n /\ us # <<>> /\ Glued(sep, us) \in Seq(X) /\ 0 < Len(Glued(sep, us))
    /\ Says(X, Glued(sep, us), bs, rule, v) /\ (n = 1 => Says(X, Glued(sep, us), bs, "unary", v))
WritesMany(X, V, spec, sep, rule, a, n, v) ==
    \A ts \in Seq(Seq(X)), as \in Seq(V) : \E us \in Seq(Seq(X)), bs \in Seq(V) :
      ManyTexts(X, spec, sep, rule, a, n, v, ts, as, us, bs)

\* A unary is a conjunction and a disjunction.
LEMMA SaysRule ==
    ASSUME NEW X, NEW t \in Seq(X), NEW args, NEW v, NEW rule \in {"and", "or"}, Says(X, t, args, "unary", v)
    PROVE  Says(X, t, args, rule, v)
  <1>1. Says(X, t, args, "and", v)
    BY SaysUp
  <1>2. Says(X, t, args, "or", v)
    BY <1>1, SaysUp
  <1> QED  BY <1>1, <1>2

InFront(X, ts, t, us, sep) ==
    /\ <<t>> \o us \in Seq(Seq(X)) /\ Len(<<t>> \o us) = Len(us) + 1 /\ <<t>> \o us # <<>>
    /\ Append(ts, t) \o us = ts \o (<<t>> \o us)

\* A text in front of others, behind others still.
LEMMA TextsJoin ==
    ASSUME NEW X, NEW ts \in Seq(Seq(X)), NEW t \in Seq(X), NEW us \in Seq(Seq(X)), NEW sep
    PROVE  InFront(X, ts, t, us, sep)
  <1>1. PICK one \in Seq(Seq(X)) : one = <<t>> /\ Len(one) = 1
    <2>1. <<t>> \in Seq(Seq(X)) /\ Len(<<t>>) = 1
      BY OneWord
    <2> QED  BY <2>1
  <1>2. one \o us \in Seq(Seq(X)) /\ Len(one \o us) = Len(one) + Len(us) /\ Len(us) \in Nat
    BY ConcatIs
  <1>3. PICK all \in Seq(Seq(X)) : all = one \o us
    BY <1>2
  <1>4. Len(all) = Len(us) + 1
    BY <1>1, <1>2, <1>3
  <1>5. all # <<>>
    BY <1>2, <1>4
  <1>6. Append(ts, t) = ts \o one
    BY <1>1, AppendIsConcat
  <1>7. Associates(ts, one, us)
    BY ConcatAssoc
  <1>8. Append(ts, t) \o us = ts \o all
    BY <1>3, <1>6, <1>7, Zenon DEF Associates
  <1> QED  BY <1>1, <1>3, <1>4, <1>5, <1>8, Zenon DEF InFront

\* A tree that writes one text is one term of a join.
LEMMA OneIsMany ==
    ASSUME NEW X, NEW V, NEW spec, NEW sep, NEW rule \in {"and", "or"}, NEW a, NEW v, WritesOne(X, V, spec, a, v)
    PROVE  WritesMany(X, V, spec, sep, rule, a, 1, v)
  <1> SUFFICES ASSUME NEW ts \in Seq(Seq(X)), NEW as \in Seq(V)
               PROVE  \E us \in Seq(Seq(X)), bs \in Seq(V) : ManyTexts(X, spec, sep, rule, a, 1, v, ts, as, us, bs)
    BY Zenon DEF WritesMany
  <1>1. PICK t \in Seq(X), bs \in Seq(V) : OneText(X, spec, a, v, ts, as, t, bs)
    BY Zenon DEF WritesOne
  <1>2. PICK us \in Seq(Seq(X)) : us = <<t>> /\ Len(us) = 1 /\ us # <<>>
    <2>1. <<t>> \in Seq(Seq(X)) /\ Len(<<t>>) = 1 /\ <<t>> # <<>>
      BY OneWord
    <2> QED  BY <2>1
  <1>3. Append(ts, t) = ts \o us
    BY <1>2, AppendIsConcat
  <1>4. Glued(sep, us) = t
    BY <1>2, GluedOne
  <1>5. /\ writeExpr(a, spec, Written(ts, as)) = Written(Append(ts, t), bs) /\ Keeps(bs, as)
        /\ 0 < Len(t) /\ Says(X, t, bs, "unary", v)
    BY <1>1, Zenon DEF OneText
  <1>6. Says(X, t, bs, rule, v)
    BY <1>5, SaysRule
  <1>7. ManyTexts(X, spec, sep, rule, a, 1, v, ts, as, us, bs)
    BY <1>2, <1>3, <1>4, <1>5, <1>6, Zenon DEF ManyTexts
  <1> QED  BY <1>7

\* A term in front of others of its join.
LEMMA ManyMore ==
    ASSUME NEW X, NEW V, NEW S, NEW spec, NEW sep, [word |-> sep] \in X, NEW rule,
           NEW a \in Seq(S), NEW v, WritesOne(X, V, spec, a, v),
           NEW b \in Seq(S), NEW n, NEW w, WritesMany(X, V, spec, sep, rule, b, n, w), NEW z,
           \A t, u \in Seq(X) : \A args : Says(X, t, args, "unary", v) /\ Says(X, u, args, rule, w) =>
             (t \o Word(sep)) \o u \in Seq(X) /\ Says(X, (t \o Word(sep)) \o u, args, rule, z)
    PROVE  WritesMany(X, V, spec, sep, rule, a \o b, n + 1, z)
  <1> SUFFICES ASSUME NEW ts \in Seq(Seq(X)), NEW as \in Seq(V)
               PROVE  \E us \in Seq(Seq(X)), bs \in Seq(V) : ManyTexts(X, spec, sep, rule, a \o b, n + 1, z, ts, as, us, bs)
    BY Zenon DEF WritesMany
  <1>1. PICK t \in Seq(X), bs \in Seq(V) : OneText(X, spec, a, v, ts, as, t, bs)
    BY Zenon DEF WritesOne
  <1>2. PICK on \in Seq(Seq(X)) : on = Append(ts, t)
    BY AppendProperties
  <1>3. PICK us \in Seq(Seq(X)), cs \in Seq(V) : ManyTexts(X, spec, sep, rule, b, n, w, on, bs, us, cs)
    BY Zenon DEF WritesMany
  <1>4. /\ writeExpr(a, spec, Written(ts, as)) = Written(on, bs) /\ Keeps(bs, as)
        /\ 0 < Len(t) /\ Says(X, t, bs, "unary", v)
    BY <1>1, <1>2, Zenon DEF OneText
  <1>5. /\ writeExpr(b, spec, Written(on, bs)) = Written(on \o us, cs) /\ Keeps(cs, bs)
        /\ Len(us) = n /\ us # <<>> /\ Glued(sep, us) \in Seq(X) /\ 0 < Len(Glued(sep, us))
        /\ Says(X, Glued(sep, us), cs, rule, w)
    BY <1>3, Zenon DEF ManyTexts
  <1>6. writeExpr(a \o b, spec, Written(ts, as)) = writeExpr(b, spec, writeExpr(a, spec, Written(ts, as)))
    <2>1. \A out : writeExpr(a \o b, spec, out) = writeExpr(b, spec, writeExpr(a, spec, out))
      BY WriteConcat
    <2> QED  BY <2>1
  <1>7. InFront(X, ts, t, us, sep)
    BY TextsJoin
  <1>8. PICK all \in Seq(Seq(X)) : all = <<t>> \o us
    BY <1>7, Zenon DEF InFront
  <1>9. Len(all) = n + 1 /\ all # <<>> /\ on \o us = ts \o all
    BY <1>2, <1>5, <1>7, <1>8, Zenon DEF InFront
  <1>10. writeExpr(a \o b, spec, Written(ts, as)) = Written(ts \o all, cs)
    BY <1>4, <1>5, <1>6, <1>9, Zenon
  <1>11. PICK u \in Seq(X) : u = Glued(sep, us)
    BY <1>5
  <1>12. Glued(sep, all) = (t \o Word(sep)) \o u
    <2>1. GluesOn(sep, t, us)
      BY <1>5, GluedCons
    <2> QED  BY <1>8, <1>11, <2>1, Zenon DEF GluesOn
  <1>13. Says(X, t, cs, "unary", v)
    BY <1>4, <1>5, SaysMore
  <1>14. (t \o Word(sep)) \o u \in Seq(X) /\ Says(X, (t \o Word(sep)) \o u, cs, rule, z)
    BY <1>5, <1>11, <1>13
  <1>15. 0 < Len((t \o Word(sep)) \o u)
    <2>1. Word(sep) \in Seq(X)
      BY WordSeq
    <2>2. PICK c \in Seq(X) : c = t \o Word(sep)
      BY <2>1, ConcatIs
    <2>3. Len(c \o u) = Len(c) + Len(u) /\ Len(c) \in Nat /\ Len(u) \in Nat
      BY ConcatIs
    <2>4. 0 < Len(u)
      BY <1>5, <1>11
    <2>5. 0 < Len(c \o u)
      BY <2>3, <2>4
    <2> QED  BY <2>2, <2>5
  <1>16. Keeps(cs, as)
    BY <1>4, <1>5, KeepsMore
  <1>17. n + 1 # 1
    <2>1. n \in Nat \ {0}
      BY <1>5, EmptySeq
    <2> QED  BY <2>1
  <1>18. ManyTexts(X, spec, sep, rule, a \o b, n + 1, z, ts, as, all, cs)
    BY <1>9, <1>10, <1>12, <1>14, <1>15, <1>16, <1>17, Zenon DEF ManyTexts
  <1> QED  BY <1>18

\* The terms of a join are one term, in the brackets of its node if they are several.
LEMMA ManyAreOne ==
    ASSUME NEW X, SqlSet(X), NEW V, NEW S, NEW spec, NEW sep, NEW rule \in {"and", "or"},
           NEW a \in Seq(S), NEW n, Node(rule, n) \in S, NEW v, WritesMany(X, V, spec, sep, rule, a, n, v),
           \A ts, us \in Seq(Seq(X)) : \A as : JoinsText(rule, sep, Len(us), spec, ts, us, as)
    PROVE  WritesOne(X, V, spec, IF n = 1 THEN a ELSE Append(a, Node(rule, n)), v)
  <1> DEFINE b == IF n = 1 THEN a ELSE Append(a, Node(rule, n))
  <1> SUFFICES ASSUME NEW ts \in Seq(Seq(X)), NEW as \in Seq(V)
               PROVE  \E t \in Seq(X), bs \in Seq(V) : OneText(X, spec, b, v, ts, as, t, bs)
    BY Zenon DEF WritesOne
  <1>1. PICK us \in Seq(Seq(X)), bs \in Seq(V) : ManyTexts(X, spec, sep, rule, a, n, v, ts, as, us, bs)
    BY Zenon DEF WritesMany
  <1>2. PICK u \in Seq(X) : u = Glued(sep, us)
    BY <1>1, Zenon DEF ManyTexts
  <1>3. /\ writeExpr(a, spec, Written(ts, as)) = Written(ts \o us, bs) /\ Keeps(bs, as)
        /\ Len(us) = n /\ us # <<>> /\ 0 < Len(u)
        /\ Says(X, u, bs, rule, v) /\ (n = 1 => Says(X, u, bs, "unary", v))
    BY <1>1, <1>2, Zenon DEF ManyTexts
  <1>4. CASE n = 1
    <2>1. b = a
      BY <1>4
    <2>2. PICK t \in Seq(X) : us = <<t>>
      <3>1. Len(us) = 1
        BY <1>3, <1>4
      <3>2. PICK t \in Seq(X) : t = us[1]
        <4>1. 1 \in 1 .. Len(us)
          BY <3>1
        <4> QED  BY <4>1, ElementOfSeq
      <3>3. PICK one \in Seq(Seq(X)) : one = <<t>> /\ Len(one) = 1
        <4>1. <<t>> \in Seq(Seq(X)) /\ Len(<<t>>) = 1
          BY OneWord
        <4> QED  BY <4>1
      <3>4. one[1] = t
        BY <3>3
      <3>5. \A i \in 1 .. Len(us) : us[i] = one[i]
        BY <3>1, <3>2, <3>4
      <3>6. us = one
        BY <3>1, <3>3, <3>5, SeqEqual
      <3> QED  BY <3>3, <3>6
    <2>3. u = t
      BY <1>2, <2>2, GluedOne
    <2>4. Append(ts, u) = ts \o us
      BY <2>2, <2>3, AppendIsConcat
    <2> HIDE DEF b
    <2>5. OneText(X, spec, b, v, ts, as, u, bs)
      BY <1>3, <1>4, <2>1, <2>4, Zenon DEF OneText
    <2> QED  BY <2>5
  <1>5. CASE n # 1
    <2>1. b = Append(a, Node(rule, n))
      BY <1>5
    <2> HIDE DEF b
    <2>2. writeExpr(b, spec, Written(ts, as)) = writeNode(Node(rule, n), spec, writeExpr(a, spec, Written(ts, as)))
      BY <2>1, WriteAppend
    <2>3. JoinsText(rule, sep, n, spec, ts, us, bs)
      BY <1>3
    <2>4. writeNode(Node(rule, n), spec, Written(ts \o us, bs)) = Written(Append(ts, Bracketed(u)), bs)
      BY <1>2, <2>3, Zenon DEF JoinsText
    <2>5. writeExpr(b, spec, Written(ts, as)) = Written(Append(ts, Bracketed(u)), bs)
      BY <1>3, <2>2, <2>4, Zenon
    <2>6. Says(X, u, bs, "or", v)
      BY <1>3, SaysUp
    <2>7. Bracketed(u) \in Seq(X) /\ Says(X, Bracketed(u), bs, "term", v)
      BY <1>3, <2>6, SaysBracket DEF Bracketed
    <2>8. Says(X, Bracketed(u), bs, "unary", v)
      BY <2>7, SaysUp
    <2>9. 0 < Len(Bracketed(u))
      <3>1. PICK x, y \in Seq(X) : x = Word("(") /\ y = Word(")") /\ Len(y) = 1
        BY SqlSetWords
      <3>2. PICK c \in Seq(X) : c = x \o u
        BY ConcatIs
      <3>3. Len(c \o y) = Len(c) + Len(y) /\ Len(c) \in Nat
        BY ConcatIs
      <3>4. 0 < Len(c \o y)
        <4>1. Len(c \o y) = Len(c) + 1
          BY <3>1, <3>3
        <4> QED  BY <3>3, <4>1
      <3> QED  BY <3>1, <3>2, <3>4 DEF Bracketed
    <2>10. OneText(X, spec, b, v, ts, as, Bracketed(u), bs)
      BY <1>3, <2>5, <2>8, <2>9, Zenon DEF OneText
    <2> QED  BY <2>7, <2>10
  <1> QED  BY <1>4, <1>5

\* A term in front of a conjunction is joined with AND.
LEMMA AndMore ==
    ASSUME NEW X, SqlSet(X), NEW V, NEW S, NEW spec, NEW a \in Seq(S), NEW v, WritesOne(X, V, spec, a, v),
           NEW b \in Seq(S), NEW n, NEW w, WritesMany(X, V, spec, "AND", "and", b, n, w)
    PROVE  WritesMany(X, V, spec, "AND", "and", a \o b, n + 1, v \cap w)
  <1>1. [word |-> "AND"] \in X
    BY SqlSetWords
  <1>2. \A t, u \in Seq(X) : \A args : Says(X, t, args, "unary", v) /\ Says(X, u, args, "and", w) =>
          (t \o Word("AND")) \o u \in Seq(X) /\ Says(X, (t \o Word("AND")) \o u, args, "and", v \cap w)
    BY SaysAnd
  <1>3. PICK z : z = v \cap w
    OBVIOUS
  <1>4. WritesMany(X, V, spec, "AND", "and", a \o b, n + 1, z)
    <2>1. \A t, u \in Seq(X) : \A args : Says(X, t, args, "unary", v) /\ Says(X, u, args, "and", w) =>
            (t \o Word("AND")) \o u \in Seq(X) /\ Says(X, (t \o Word("AND")) \o u, args, "and", z)
      BY <1>2, <1>3
    <2> QED  BY <1>1, <2>1, ManyMore
  <1> QED  BY <1>3, <1>4

\* A term in front of a disjunction is joined with OR.
LEMMA OrMore ==
    ASSUME NEW X, SqlSet(X), NEW V, NEW S, NEW spec, NEW a \in Seq(S), NEW v, WritesOne(X, V, spec, a, v),
           NEW b \in Seq(S), NEW n, NEW w, WritesMany(X, V, spec, "OR", "or", b, n, w)
    PROVE  WritesMany(X, V, spec, "OR", "or", a \o b, n + 1, v \cup w)
  <1>1. [word |-> "OR"] \in X
    BY SqlSetWords
  <1>2. \A t, u \in Seq(X) : \A args : Says(X, t, args, "and", v) /\ Says(X, u, args, "or", w) =>
          (t \o Word("OR")) \o u \in Seq(X) /\ Says(X, (t \o Word("OR")) \o u, args, "or", v \cup w)
    BY SaysOr
  <1>3. \A t \in Seq(X) : \A args : Says(X, t, args, "unary", v) => Says(X, t, args, "and", v)
    BY SaysUp
  <1>4. PICK z : z = v \cup w
    OBVIOUS
  <1>5. WritesMany(X, V, spec, "OR", "or", a \o b, n + 1, z)
    <2>1. \A t, u \in Seq(X) : \A args : Says(X, t, args, "unary", v) /\ Says(X, u, args, "or", w) =>
            (t \o Word("OR")) \o u \in Seq(X) /\ Says(X, (t \o Word("OR")) \o u, args, "or", z)
      BY <1>2, <1>3, <1>4
    <2> QED  BY <1>1, <2>1, ManyMore
  <1> QED  BY <1>4, <1>5

\* The terms of a conjunction are one term.
LEMMA AndIsOne ==
    ASSUME NEW X, SqlSet(X), NEW V, NEW S, NEW spec, NEW a \in Seq(S), NEW n, Node("and", n) \in S, NEW v,
           WritesMany(X, V, spec, "AND", "and", a, n, v)
    PROVE  WritesOne(X, V, spec, IF n = 1 THEN a ELSE Append(a, Node("and", n)), v)
  <1>1. \A ts, us \in Seq(Seq(X)) : \A as : JoinsText("and", "AND", Len(us), spec, ts, us, as)
    BY JoinText
  <1> QED  BY <1>1, ManyAreOne

\* The terms of a disjunction are one term.
LEMMA OrIsOne ==
    ASSUME NEW X, SqlSet(X), NEW V, NEW S, NEW spec, NEW a \in Seq(S), NEW n, Node("or", n) \in S, NEW v,
           WritesMany(X, V, spec, "OR", "or", a, n, v)
    PROVE  WritesOne(X, V, spec, IF n = 1 THEN a ELSE Append(a, Node("or", n)), v)
  <1>1. \A ts, us \in Seq(Seq(X)) : \A as : JoinsText("or", "OR", Len(us), spec, ts, us, as)
    BY JoinText
  <1> QED  BY <1>1, ManyAreOne

\* A negation writes one text, that says the other rows.
LEMMA NotIsOne ==
    ASSUME NEW X, SqlSet(X), NEW V, NEW S, NEW spec, NEW a \in Seq(S), Node("not", 1) \in S, NEW v,
           WritesOne(X, V, spec, a, v)
    PROVE  WritesOne(X, V, spec, Append(a, Node("not", 1)), Rows \ v)
  <1> DEFINE b == Append(a, Node("not", 1))
             w == Rows \ v
  <1> SUFFICES ASSUME NEW ts \in Seq(Seq(X)), NEW as \in Seq(V)
               PROVE  \E t \in Seq(X), bs \in Seq(V) : OneText(X, spec, b, w, ts, as, t, bs)
    BY Zenon DEF WritesOne
  <1>1. PICK t \in Seq(X), bs \in Seq(V) : OneText(X, spec, a, v, ts, as, t, bs)
    BY Zenon DEF WritesOne
  <1>2. /\ writeExpr(a, spec, Written(ts, as)) = Written(Append(ts, t), bs) /\ Keeps(bs, as)
        /\ 0 < Len(t) /\ Says(X, t, bs, "unary", v)
    BY <1>1, Zenon DEF OneText
  <1>3. writeExpr(b, spec, Written(ts, as)) = writeNode(Node("not", 1), spec, writeExpr(a, spec, Written(ts, as)))
    <2>1. \A out : writeExpr(b, spec, out) = writeNode(Node("not", 1), spec, writeExpr(a, spec, out))
      BY WriteAppend
    <2> QED  BY <2>1
  <1> HIDE DEF b, w
  <1>4. NotsText(spec, ts, t, bs)
    BY NotText
  <1>5. PICK u \in Seq(X) : u = Bracketed(t) /\ Says(X, u, bs, "term", v)
    <2>1. Says(X, t, bs, "or", v)
      BY <1>2, SaysUp
    <2> QED  BY <1>2, <2>1, SaysBracket DEF Bracketed
  <1>6. PICK x \in Seq(X) : x = Word("NOT") /\ Len(x) = 1
    BY SqlSetWords
  <1>7. x \o u \in Seq(X) /\ Len(x \o u) = Len(x) + Len(u) /\ Len(u) \in Nat
    BY ConcatIs
  <1>8. PICK d \in Seq(X) : d = x \o u
    BY <1>7
  <1>9. 0 < Len(d)
    <2>1. Len(d) = 1 + Len(u)
      BY <1>6, <1>7, <1>8
    <2> QED  BY <1>7, <2>1
  <1>10. Says(X, d, bs, "unary", w)
    BY <1>5, <1>6, <1>8, SaysNot DEF w
  <1>11. writeExpr(b, spec, Written(ts, as)) = Written(Append(ts, d), bs)
    <2>1. writeNode(Node("not", 1), spec, Written(Append(ts, t), bs)) = Written(Append(ts, Word("NOT") \o Bracketed(t)), bs)
      BY <1>4, Zenon DEF NotsText
    <2> QED  BY <1>2, <1>3, <1>5, <1>6, <1>8, <2>1, Zenon
  <1>12. OneText(X, spec, b, w, ts, as, d, bs)
    BY <1>2, <1>9, <1>10, <1>11, Zenon DEF OneText
  <1> QED  BY <1>12

Fn(op) == IF op = "contains" THEN "position" ELSE IF op = "matches" THEN "match" ELSE op
CondWord(col, op, refs) == [word |-> "condition", column |-> col, op |-> op, refs |-> refs]
Refs(av, vals) == [i \in DOMAIN vals |-> Len(av) + i]
OpRows(op, col, vals) == {row \in Rows : Satisfies(op, row[col], vals)}
RefsAt(vals, refs, more) == vals = [i \in DOMAIN refs |-> more[refs[i]]]
ConditionSays(x, args, op, col, vals) == ConditionRows(x, args) = OpRows(op, col, vals)

\* The functions that stand for operators mean the same.
LEMMA FnMeans ==
    ASSUME NEW op, NEW v, NEW vals
    PROVE  Satisfies(Fn(op), v, vals) <=> Satisfies(op, v, vals)
  <1>1. CASE op = "contains"
    <2>1. Satisfies("position", v, vals) <=> <<v, vals[1]>> \in Substrings
      BY Zenon DEF Satisfies
    <2>2. Satisfies("contains", v, vals) <=> <<v, vals[1]>> \in Substrings
      BY Zenon DEF Satisfies
    <2>3. Fn(op) = "position"
      BY <1>1, Zenon DEF Fn
    <2> QED  BY <1>1, <2>1, <2>2, <2>3, Zenon
  <1>2. CASE op = "matches"
    <2>1. Satisfies("match", v, vals) <=> <<v, vals[1]>> \in Found
      BY Zenon DEF Satisfies
    <2>2. Satisfies("matches", v, vals) <=> <<v, vals[1]>> \in Found
      BY Zenon DEF Satisfies
    <2>3. Fn(op) = "match"
      <3>1. op # "contains"
        BY <1>2
      <3> QED  BY <1>2, <3>1, Zenon DEF Fn
    <2> QED  BY <1>2, <2>1, <2>2, <2>3, Zenon
  <1>3. CASE op # "contains" /\ op # "matches"
    BY <1>3, Zenon DEF Fn
  <1> QED  BY <1>1, <1>2, <1>3, Zenon

\* A bound value is found where its placeholder says, whatever is bound behind it.
LEMMA RefsMean ==
    ASSUME NEW V, NEW av \in Seq(V), NEW vals \in Seq(V), NEW more, Keeps(more, av \o vals)
    PROVE  RefsAt(vals, Refs(av, vals), more)
  <1>1. /\ av \o vals \in Seq(V) /\ Len(av \o vals) = Len(av) + Len(vals)
        /\ \A i \in 1 .. Len(av) + Len(vals) : (av \o vals)[i] = IF i <= Len(av) THEN av[i] ELSE vals[i - Len(av)]
    BY ConcatProperties
  <1>2. PICK c \in Seq(V) : c = av \o vals
    BY <1>1
  <1>3. PICK m, n \in Nat : m = Len(av) /\ n = Len(vals)
    OBVIOUS
  <1>4. Len(c) = m + n /\ \A i \in 1 .. m + n : c[i] = IF i <= m THEN av[i] ELSE vals[i - m]
    BY <1>1, <1>2, <1>3
  <1>5. \A k \in 1 .. Len(c) : more[k] = c[k]
    BY <1>2, Zenon DEF Keeps
  <1>6. DOMAIN vals = 1 .. n /\ vals = [i \in 1 .. n |-> vals[i]]
    BY <1>3
  <1> DEFINE r == Refs(av, vals)
  <1>7. r = [i \in 1 .. n |-> m + i]
    BY <1>3, <1>6, Zenon DEF Refs
  <1> HIDE DEF r
  <1>8. DOMAIN r = 1 .. n /\ \A i \in 1 .. n : r[i] = m + i
    BY <1>7
  <1>9. \A i \in 1 .. n : more[r[i]] = vals[i]
    <2> SUFFICES ASSUME NEW i \in 1 .. n PROVE more[m + i] = vals[i]
      BY <1>8
    <2>1. m + i \in 1 .. m + n /\ ~(m + i <= m) /\ (m + i) - m = i
      BY <1>3
    <2>2. c[m + i] = vals[i]
      BY <1>4, <2>1
    <2> QED  BY <1>4, <1>5, <2>1, <2>2
  <1>10. vals = [i \in DOMAIN r |-> more[r[i]]]
    BY <1>6, <1>8, <1>9
  <1> QED  BY <1>10, Zenon DEF RefsAt, r

\* A condition selects what the predicate it is written for does.
LEMMA ConditionMeans ==
    ASSUME NEW V, NEW av \in Seq(V), NEW vals \in Seq(V), NEW more, Keeps(more, av \o vals), NEW op, NEW col
    PROVE  ConditionSays(CondWord(col, Fn(op), Refs(av, vals)), more, op, col, vals)
  <1> DEFINE x == CondWord(col, Fn(op), Refs(av, vals))
             sat(row) == Satisfies(op, row[col], vals)
             cond(row) == Satisfies(Fn(op), row[col], vals)
  <1>1. x.word = "condition" /\ x.column = col /\ x.op = Fn(op) /\ x.refs = Refs(av, vals) /\ "condition" # "interval"
    BY DEF CondWord
  <1> HIDE DEF x
  <1>2. vals = [i \in DOMAIN x.refs |-> more[x.refs[i]]]
    <2>1. RefsAt(vals, Refs(av, vals), more)
      BY RefsMean
    <2> QED  BY <1>1, <2>1, Zenon DEF RefsAt
  <1>3. ConditionRows(x, more) = {row \in Rows : cond(row)}
    <2> DEFINE rows(ws) == {row \in Rows : IF x.word = "interval" THEN row["age"] <= x.minutes
                                             ELSE Satisfies(x.op, row[x.column], ws)}
    <2>1. ConditionRows(x, more) = rows([i \in DOMAIN x.refs |-> more[x.refs[i]]])
      BY Zenon DEF ConditionRows
    <2>2. ConditionRows(x, more) = rows(vals)
      BY <1>2, <2>1, Zenon
    <2>3. \A row : (IF x.word = "interval" THEN row["age"] <= x.minutes ELSE Satisfies(x.op, row[x.column], vals))
            <=> cond(row)
      BY <1>1, Zenon
    <2> DEFINE both(row) == IF x.word = "interval" THEN row["age"] <= x.minutes ELSE Satisfies(x.op, row[x.column], vals)
    <2>4. rows(vals) = {row \in Rows : both(row)}
      OBVIOUS
    <2> HIDE DEF rows, cond
    <2>5. \A row : both(row) <=> cond(row)
      BY <2>3
    <2> HIDE DEF both
    <2> QED  BY <2>2, <2>4, <2>5
  <1>4. \A row : cond(row) <=> sat(row)
    BY FnMeans
  <1>5. OpRows(op, col, vals) = {row \in Rows : sat(row)}
    BY Zenon DEF OpRows
  <1> HIDE DEF sat, cond
  <1>6. ConditionRows(x, more) = OpRows(op, col, vals)
    BY <1>3, <1>4, <1>5
  <1> QED  BY <1>6, Zenon DEF ConditionSays, x

\* What the texts and the arguments of a query over s are made of.
SqlColumns(s, spec) == {"tenant_id"} \cup {spec.filter[s[k]].column : k \in Int}
SqlOps(s) == {Fn("=")} \cup {Fn(s[k]) : k \in Int}
SqlSigns == {[word |-> w] : w \in {"(", ")", "AND", "OR", "NOT"}}
SqlConditions(s, spec) ==
    {CondWord(col, op, refs) : col \in SqlColumns(s, spec), op \in SqlOps(s), refs \in Seq(Nat)}
Interval(minutes) == [word |-> "interval", minutes |-> minutes]
SqlVocabulary(s, spec, minutes) == SqlSigns \cup SqlConditions(s, spec) \cup {Interval(minutes)}
SqlValues(s, tenant) == {tenant} \cup {Literal(s[k]) : k \in Int}

\* They have what is needed.
LEMMA VocabularyHas ==
    ASSUME NEW s, NEW spec, NEW minutes
    PROVE  /\ SqlSet(SqlVocabulary(s, spec, minutes))
           /\ Interval(minutes) \in SqlVocabulary(s, spec, minutes)
           /\ \A col \in SqlColumns(s, spec), op \in SqlOps(s), refs \in Seq(Nat) :
                CondWord(col, op, refs) \in SqlVocabulary(s, spec, minutes)
  <1> DEFINE X == SqlVocabulary(s, spec, minutes)
  <1>1. X = SqlSigns \cup SqlConditions(s, spec) \cup {Interval(minutes)}
    BY Zenon DEF SqlVocabulary
  <1>2. \A w \in {"(", ")", "AND", "OR", "NOT"} : [word |-> w] \in SqlSigns
    BY DEF SqlSigns
  <1>3. \A col \in SqlColumns(s, spec), op \in SqlOps(s), refs \in Seq(Nat) : CondWord(col, op, refs) \in SqlConditions(s, spec)
    BY DEF SqlConditions
  <1> HIDE DEF X
  <1>4. Interval(minutes) \in X /\ SqlSigns \subseteq X /\ SqlConditions(s, spec) \subseteq X
    BY <1>1
  <1>5. SqlSet(X)
    <2>1. \A w \in {"(", ")", "AND", "OR", "NOT"} : [word |-> w] \in X
      BY <1>2, <1>4, Zenon
    <2> QED  BY <2>1, Zenon DEF SqlSet
  <1>6. \A col \in SqlColumns(s, spec), op \in SqlOps(s), refs \in Seq(Nat) : CondWord(col, op, refs) \in X
    BY <1>3, <1>4, Zenon
  <1> QED  BY <1>4, <1>5, <1>6, Zenon DEF X

\* The placeholders of bound values.
LEMMA RefsAre ==
    ASSUME NEW V, NEW av \in Seq(V), NEW vals \in Seq(V)
    PROVE  Refs(av, vals) \in Seq(Nat)
  <1>1. PICK m, n \in Nat : m = Len(av) /\ n = Len(vals)
    OBVIOUS
  <1>2. DOMAIN vals = 1 .. n
    BY <1>1
  <1>3. Refs(av, vals) = [i \in 1 .. n |-> m + i]
    BY <1>1, <1>2, Zenon DEF Refs
  <1>4. \A i \in 1 .. n : m + i \in Nat
    BY <1>1
  <1> QED  BY <1>1, <1>3, <1>4

\* The literals of a predicate are among the values of the query.
LEMMA LiteralsAre ==
    ASSUME NEW s \in Seq(STRING), NEW i \in Places(s), NEW j \in Places(s), DerivesPredicate(s, i, j), NEW tenant
    PROVE  Literals(s, i, j) \in Seq(SqlValues(s, tenant))
  <1> DEFINE V == SqlValues(s, tenant)
             lit(k) == Literal(s[k])
  <1>1. \A k \in Int : lit(k) \in V
    BY DEF SqlValues
  <1>2. i \in Int /\ j \in Int /\ i + 3 <= j
    <2>1. i + 3 <= j
      BY Zenon DEF DerivesPredicate
    <2> QED  BY <2>1 DEF Places
  <1> HIDE DEF V, lit
  <1>3. CASE s[i + 1] = "in"
    <2>1. PICK n \in Int : n = (j - i - 3) \div 2
      BY <1>2
    <2>2. n \in Nat
      BY <1>2, <2>1
    <2>3. Literals(s, i, j) = [k \in 1 .. n |-> lit(i + 2*k + 1)]
      BY <1>3, <2>1, Zenon DEF Literals, lit
    <2>4. \A k \in 1 .. n : lit(i + 2*k + 1) \in V
      <3>1. \A k \in 1 .. n : i + 2*k + 1 \in Int
        BY <1>2, <2>2
      <3> QED  BY <1>1, <3>1
    <2>5. [k \in 1 .. n |-> lit(i + 2*k + 1)] \in Seq(V)
      BY <2>2, <2>4
    <2> QED  BY <2>3, <2>5 DEF V
  <1>4. CASE s[i + 1] # "in"
    <2>1. Literals(s, i, j) = <<lit(i + 2)>>
      BY <1>4, Zenon DEF Literals, lit
    <2>2. i + 2 \in Int
      BY <1>2
    <2>3. <<lit(i + 2)>> \in Seq(V)
      BY <1>1, <2>2, OneWord
    <2> QED  BY <2>1, <2>3 DEF V
  <1> QED  BY <1>3, <1>4

\* Arguments bound behind others leave those in place.
LEMMA KeepsConcat ==
    ASSUME NEW V, NEW av \in Seq(V), NEW b \in Seq(V)
    PROVE  av \o b \in Seq(V) /\ Keeps(av \o b, av)
  <1>1. /\ av \o b \in Seq(V) /\ Len(av \o b) = Len(av) + Len(b)
        /\ \A i \in 1 .. Len(av) + Len(b) : (av \o b)[i] = IF i <= Len(av) THEN av[i] ELSE b[i - Len(av)]
    BY ConcatProperties
  <1>2. PICK c \in Seq(V) : c = av \o b
    BY <1>1
  <1>3. Len(av) \in Nat /\ Len(b) \in Nat
    OBVIOUS
  <1>4. PICK m, n \in Nat : m = Len(av) /\ n = Len(b)
    BY <1>3
  <1>5. Len(c) = m + n /\ \A i \in 1 .. m + n : c[i] = IF i <= m THEN av[i] ELSE b[i - m]
    BY <1>1, <1>2, <1>4
  <1>6. \A i \in 1 .. m : i \in 1 .. m + n /\ i <= m
    BY <1>4
  <1>7. \A i \in 1 .. m : c[i] = av[i]
    BY <1>5, <1>6
  <1>8. m <= m + n /\ m + n \in Nat
    BY <1>4
  <1>9. Keeps(c, av)
    BY <1>4, <1>5, <1>7, <1>8, Zenon DEF Keeps
  <1> QED  BY <1>2, <1>9

\* A condition with the values it is bound to says what its predicate does.
LEMMA SaysCondition ==
    ASSUME NEW X, NEW V, NEW av \in Seq(V), NEW vals \in Seq(V), NEW op, NEW col,
           CondWord(col, Fn(op), Refs(av, vals)) \in X
    PROVE  Says(X, Condition(col, Fn(op), Refs(av, vals)), av \o vals, "term", OpRows(op, col, vals))
  <1>1. PICK x \in X : x = CondWord(col, Fn(op), Refs(av, vals))
    OBVIOUS
  <1>2. Condition(col, Fn(op), Refs(av, vals)) = <<x>>
    BY <1>1, Zenon DEF Condition, CondWord
  <1>3. x.word = "condition"
    BY <1>1 DEF CondWord
  <1>4. IsAtom(SQLWord(x.word))
    BY <1>3, SqlWordsAre DEF IsAtom
  <1>5. \A more : Keeps(more, av \o vals) => ConditionRows(x, more) = OpRows(op, col, vals)
    <2>1. \A more : Keeps(more, av \o vals) => ConditionSays(CondWord(col, Fn(op), Refs(av, vals)), more, op, col, vals)
      BY ConditionMeans
    <2> QED  BY <1>1, <2>1, Zenon DEF ConditionSays
  <1>6. Says(X, <<x>>, av \o vals, "term", OpRows(op, col, vals))
    BY <1>4, <1>5, SaysWord
  <1> QED  BY <1>2, <1>6

\* A predicate writes one condition and binds its values.
PredicateText(p, spec, ts, av) ==
    writeExpr(<<p>>, spec, Written(ts, av)) =
      Written(Append(ts, Condition(spec.filter[p.field].column, Fn(p.op), Refs(av, p.value.items))), av \o p.value.items)

\* What writePredicate makes of a predicate.
LEMMA PredicateWrites ==
    ASSUME NEW p, p.node = "predicate", NEW spec, NEW ts, NEW av
    PROVE  PredicateText(p, spec, ts, av)
  <1> DEFINE out == Written(ts, av)
  <1>1. out.texts = ts /\ out.args = av
    BY DEF Written
  <1> HIDE DEF out
  <1>2. writeExpr(<<p>>, spec, out) = writeNode(p, spec, out)
    BY WriteOne
  <1>3. writeNode(p, spec, out) = writePredicate(p, spec, out)
    BY Zenon DEF writeNode
  <1>4. writePredicate(p, spec, out) =
          [texts |-> Append(out.texts, Condition(spec.filter[p.field].column,
                       IF p.op = "contains" THEN "position" ELSE IF p.op = "matches" THEN "match" ELSE p.op,
                       [i \in DOMAIN p.value.items |-> Len(out.args) + i])),
           args |-> out.args \o p.value.items]
    BY Zenon DEF writePredicate
  <1>5. writePredicate(p, spec, out) =
          [texts |-> Append(ts, Condition(spec.filter[p.field].column, Fn(p.op), Refs(av, p.value.items))),
           args |-> av \o p.value.items]
    BY <1>1, <1>4, Zenon DEF Fn, Refs
  <1> QED  BY <1>2, <1>3, <1>5, Zenon DEF PredicateText, Written, out

\* A predicate of the query writes one text, that says what it does.
LEMMA PredicateIsOne ==
    ASSUME NEW s \in Seq(STRING), NEW spec, NEW minutes, NEW tenant,
           NEW i \in Places(s), NEW j \in Places(s), DerivesPredicate(s, i, j)
    PROVE  WritesOne(SqlVocabulary(s, spec, minutes), SqlValues(s, tenant), spec,
                     <<PredicateNode(s, i, j)>>, PredicateRows(s, i, j, spec))
  <1> DEFINE p == PredicateNode(s, i, j)
             v == PredicateRows(s, i, j, spec)
  <1>10. PICK X : X = SqlVocabulary(s, spec, minutes)
    OBVIOUS
  <1>11. PICK V : V = SqlValues(s, tenant)
    OBVIOUS
  <1>12. PICK vals : vals = Literals(s, i, j)
    OBVIOUS
  <1>13. PICK op, col : op = s[i + 1] /\ col = spec.filter[s[i]].column
    OBVIOUS
  <1>1. p.node = "predicate" /\ p.field = s[i] /\ p.op = op /\ p.value.items = vals
    BY <1>12, <1>13 DEF PredicateNode, Predicate
  <1>2. vals \in Seq(V)
    BY <1>11, <1>12, LiteralsAre
  <1>3. v = OpRows(op, col, vals)
    BY <1>12, <1>13, Zenon DEF PredicateRows, OpRows
  <1>4. \A refs \in Seq(Nat) : CondWord(col, Fn(op), refs) \in X
    <2>1. i \in Int /\ i + 1 \in Int
      BY DEF Places
    <2>2. col \in SqlColumns(s, spec)
      BY <1>13, <2>1 DEF SqlColumns
    <2>3. Fn(op) \in SqlOps(s)
      BY <1>13, <2>1 DEF SqlOps
    <2> QED  BY <1>10, <2>2, <2>3, VocabularyHas
  <1> HIDE DEF p, v
  <1>5. ASSUME NEW ts \in Seq(Seq(X)), NEW av \in Seq(V)
        PROVE  \E t \in Seq(X), bs \in Seq(V) : OneText(X, spec, <<p>>, v, ts, av, t, bs)
    <2>1. PredicateText(p, spec, ts, av)
      BY <1>1, PredicateWrites
    <2>2. Refs(av, vals) \in Seq(Nat)
      BY <1>2, RefsAre
    <2>3. PICK x \in X : x = CondWord(col, Fn(op), Refs(av, vals))
      BY <1>4, <2>2
    <2>4. PICK t \in Seq(X) : t = Condition(col, Fn(op), Refs(av, vals)) /\ Len(t) = 1
      <3>1. Condition(col, Fn(op), Refs(av, vals)) = <<x>>
        BY <2>3, Zenon DEF Condition, CondWord
      <3>2. <<x>> \in Seq(X) /\ Len(<<x>>) = 1
        BY OneWord
      <3> QED  BY <3>1, <3>2
    <2>5. PICK bs \in Seq(V) : bs = av \o vals /\ Keeps(bs, av)
      BY <1>2, KeepsConcat
    <2>6. Says(X, t, bs, "term", v)
      <3>1. Says(X, Condition(col, Fn(op), Refs(av, vals)), av \o vals, "term", OpRows(op, col, vals))
        BY <1>2, <2>3, SaysCondition
      <3> QED  BY <1>3, <2>4, <2>5, <3>1, Zenon
    <2>7. Says(X, t, bs, "unary", v)
      BY <2>6, SaysUp
    <2>8. writeExpr(<<p>>, spec, Written(ts, av)) = Written(Append(ts, t), bs)
      BY <1>1, <1>13, <2>1, <2>4, <2>5, Zenon DEF PredicateText
    <2>9. 0 < Len(t)
      BY <2>4
    <2>10. OneText(X, spec, <<p>>, v, ts, av, t, bs)
      BY <2>5, <2>7, <2>8, <2>9, Zenon DEF OneText
    <2> QED  BY <2>10
  <1>6. WritesOne(X, V, spec, <<p>>, v)
    BY <1>5, Zenon DEF WritesOne
  <1> QED  BY <1>6, <1>10, <1>11 DEF p, v

SqlExprs(s, X, V, spec) == {x \in Seq(Nodes(s)) \X SUBSET Rows : WritesOne(X, V, spec, x[1], x[2])}
SqlTerms(s, X, V, spec, sep, rule) ==
    {x \in Seq(Nodes(s)) \X (Nat \ {0}) \X SUBSET Rows : WritesMany(X, V, spec, sep, rule, x[1], x[2], x[3])}

\* One predicate as a tree over s.
LEMMA PredicateTree ==
    ASSUME NEW s \in Seq(STRING), NEW spec, NEW i \in Places(s), NEW j \in Places(s), DerivesPredicate(s, i, j)
    PROVE  <<PredicateNode(s, i, j)>> \in Seq(Nodes(s)) /\ PredicateRows(s, i, j, spec) \in SUBSET Rows
  <1>1. <<<<PredicateNode(s, i, j)>>, PredicateRows(s, i, j, spec)>> \in PromExprs(s, spec)
    BY OnePredicate
  <1> QED  BY <1>1 DEF PromExprs

\* Whatever the parser composes of trees that write one text does so.
LEMMA SqlComposed ==
    ASSUME NEW s \in Seq(STRING), NEW spec, NEW minutes, NEW tenant, NEW X, NEW V,
           X = SqlVocabulary(s, spec, minutes), V = SqlValues(s, tenant)
    PROVE  Composed(s, spec, SqlExprs(s, X, V, spec), SqlTerms(s, X, V, spec, "AND", "and"), SqlTerms(s, X, V, spec, "OR", "or"))
  <1> DEFINE E == SqlExprs(s, X, V, spec)
             A == SqlTerms(s, X, V, spec, "AND", "and")
             D == SqlTerms(s, X, V, spec, "OR", "or")
             N == Nodes(s)
  <1>1. \A a, v : <<a, v>> \in E <=> a \in Seq(N) /\ v \in SUBSET Rows /\ WritesOne(X, V, spec, a, v)
    BY DEF SqlExprs, SqlTerms
  <1>2. \A a, n, v : <<a, n, v>> \in A <=>
          a \in Seq(N) /\ n \in Nat \ {0} /\ v \in SUBSET Rows /\ WritesMany(X, V, spec, "AND", "and", a, n, v)
    BY DEF SqlExprs, SqlTerms
  <1>3. \A a, n, v : <<a, n, v>> \in D <=>
          a \in Seq(N) /\ n \in Nat \ {0} /\ v \in SUBSET Rows /\ WritesMany(X, V, spec, "OR", "or", a, n, v)
    BY DEF SqlExprs, SqlTerms
  <1>4. SqlSet(X)
    BY VocabularyHas
  <1>5. \A name \in {"not", "and", "or"}, n \in Nat : Node(name, n) \in N
    BY NodeKinds
  <1>6. \A i, j \in Places(s) :
          DerivesPredicate(s, i, j) => <<<<PredicateNode(s, i, j)>>, PredicateRows(s, i, j, spec)>> \in E
    <2> SUFFICES ASSUME NEW i \in Places(s), NEW j \in Places(s), DerivesPredicate(s, i, j)
                 PROVE  <<<<PredicateNode(s, i, j)>>, PredicateRows(s, i, j, spec)>> \in E
      OBVIOUS
    <2>1. WritesOne(X, V, spec, <<PredicateNode(s, i, j)>>, PredicateRows(s, i, j, spec))
      BY PredicateIsOne
    <2>2. <<PredicateNode(s, i, j)>> \in Seq(N) /\ PredicateRows(s, i, j, spec) \in SUBSET Rows
      BY PredicateTree
    <2> HIDE DEF E, N
    <2> QED  BY <1>1, <2>1, <2>2
  <1> HIDE DEF E, A, D, N
  <1>7. \A a, v : <<a, v>> \in E => <<Append(a, Node("not", 1)), Rows \ v>> \in E
    <2> SUFFICES ASSUME NEW a, NEW v, <<a, v>> \in E PROVE <<Append(a, Node("not", 1)), Rows \ v>> \in E
      OBVIOUS
    <2>1. a \in Seq(N) /\ WritesOne(X, V, spec, a, v)
      BY <1>1
    <2>2. Node("not", 1) \in N
      BY <1>5
    <2>3. WritesOne(X, V, spec, Append(a, Node("not", 1)), Rows \ v)
      BY <1>4, <2>1, <2>2, NotIsOne
    <2>4. Append(a, Node("not", 1)) \in Seq(N) /\ Rows \ v \in SUBSET Rows
      BY <2>1, <2>2, AppendProperties
    <2> QED  BY <1>1, <2>3, <2>4
  <1>8. \A a, v : <<a, v>> \in E => <<a, 1, v>> \in A /\ <<a, 1, v>> \in D
    <2> SUFFICES ASSUME NEW a, NEW v, <<a, v>> \in E PROVE <<a, 1, v>> \in A /\ <<a, 1, v>> \in D
      OBVIOUS
    <2>1. a \in Seq(N) /\ v \in SUBSET Rows /\ WritesOne(X, V, spec, a, v)
      BY <1>1
    <2>2. WritesMany(X, V, spec, "AND", "and", a, 1, v)
      BY <2>1, OneIsMany
    <2>3. WritesMany(X, V, spec, "OR", "or", a, 1, v)
      BY <2>1, OneIsMany
    <2> QED  BY <1>2, <1>3, <2>1, <2>2, <2>3
  <1>9. \A a, v, b, n, w : <<a, v>> \in E /\ <<b, n, w>> \in A => <<a \o b, n + 1, v \cap w>> \in A
    <2> SUFFICES ASSUME NEW a, NEW v, NEW b, NEW n, NEW w, <<a, v>> \in E, <<b, n, w>> \in A
                 PROVE  <<a \o b, n + 1, v \cap w>> \in A
      OBVIOUS
    <2>1. a \in Seq(N) /\ v \in SUBSET Rows /\ WritesOne(X, V, spec, a, v)
      BY <1>1
    <2>2. b \in Seq(N) /\ n \in Nat \ {0} /\ w \in SUBSET Rows /\ WritesMany(X, V, spec, "AND", "and", b, n, w)
      BY <1>2
    <2>3. WritesMany(X, V, spec, "AND", "and", a \o b, n + 1, v \cap w)
      BY <1>4, <2>1, <2>2, AndMore
    <2>4. a \o b \in Seq(N)
      BY <2>1, <2>2, ConcatIs
    <2>5. n + 1 \in Nat \ {0} /\ v \cap w \in SUBSET Rows
      BY <2>1, <2>2
    <2> QED  BY <1>2, <2>3, <2>4, <2>5
  <1>10. \A a, v, b, n, w : <<a, v>> \in E /\ <<b, n, w>> \in D => <<a \o b, n + 1, v \cup w>> \in D
    <2> SUFFICES ASSUME NEW a, NEW v, NEW b, NEW n, NEW w, <<a, v>> \in E, <<b, n, w>> \in D
                 PROVE  <<a \o b, n + 1, v \cup w>> \in D
      OBVIOUS
    <2>1. a \in Seq(N) /\ v \in SUBSET Rows /\ WritesOne(X, V, spec, a, v)
      BY <1>1
    <2>2. b \in Seq(N) /\ n \in Nat \ {0} /\ w \in SUBSET Rows /\ WritesMany(X, V, spec, "OR", "or", b, n, w)
      BY <1>3
    <2>3. WritesMany(X, V, spec, "OR", "or", a \o b, n + 1, v \cup w)
      BY <1>4, <2>1, <2>2, OrMore
    <2>4. a \o b \in Seq(N)
      BY <2>1, <2>2, ConcatIs
    <2>5. n + 1 \in Nat \ {0} /\ v \cup w \in SUBSET Rows
      BY <2>1, <2>2
    <2> QED  BY <1>3, <2>3, <2>4, <2>5
  <1>11. \A a, n, v : <<a, n, v>> \in A => <<IF n = 1 THEN a ELSE Append(a, Node("and", n)), v>> \in E
    <2> SUFFICES ASSUME NEW a, NEW n, NEW v, <<a, n, v>> \in A
                 PROVE  <<IF n = 1 THEN a ELSE Append(a, Node("and", n)), v>> \in E
      OBVIOUS
    <2>1. a \in Seq(N) /\ n \in Nat /\ v \in SUBSET Rows /\ WritesMany(X, V, spec, "AND", "and", a, n, v)
      BY <1>2
    <2>2. Node("and", n) \in N
      BY <1>5, <2>1
    <2>3. WritesOne(X, V, spec, IF n = 1 THEN a ELSE Append(a, Node("and", n)), v)
      BY <1>4, <2>1, <2>2, AndIsOne
    <2>4. (IF n = 1 THEN a ELSE Append(a, Node("and", n))) \in Seq(N)
      BY <2>1, <2>2, AppendProperties
    <2> QED  BY <1>1, <2>1, <2>3, <2>4
  <1>12. \A a, n, v : <<a, n, v>> \in D => <<IF n = 1 THEN a ELSE Append(a, Node("or", n)), v>> \in E
    <2> SUFFICES ASSUME NEW a, NEW n, NEW v, <<a, n, v>> \in D
                 PROVE  <<IF n = 1 THEN a ELSE Append(a, Node("or", n)), v>> \in E
      OBVIOUS
    <2>1. a \in Seq(N) /\ n \in Nat /\ v \in SUBSET Rows /\ WritesMany(X, V, spec, "OR", "or", a, n, v)
      BY <1>3
    <2>2. Node("or", n) \in N
      BY <1>5, <2>1
    <2>3. WritesOne(X, V, spec, IF n = 1 THEN a ELSE Append(a, Node("or", n)), v)
      BY <1>4, <2>1, <2>2, OrIsOne
    <2>4. (IF n = 1 THEN a ELSE Append(a, Node("or", n))) \in Seq(N)
      BY <2>1, <2>2, AppendProperties
    <2> QED  BY <1>1, <2>1, <2>3, <2>4
  <1> QED  BY <1>6, <1>7, <1>8, <1>9, <1>10, <1>11, <1>12, Zenon DEF Composed, E, A, D

-----------------------------------------------------------------------------
(***************************************************************************)
(* The WHERE clause: the tenant, the range, the filter.                    *)
(***************************************************************************)
\* A whole text that says something has this reading and no other.
LEMMA ReadWhole ==
    ASSUME NEW X, NEW text \in Seq(X), NEW V, NEW args \in Seq(V), NEW z, Says(X, text, args, "or", z)
    PROVE  SQLReadings(text, args) = {z}
  <1>1. PICK n \in Nat : n = Len(text)
    OBVIOUS
  <1>2. SQLReadings(text, args) = SqlReads(text, args, "or", 1, n + 1)
    <2>1. SQLReadings(text, args) = SqlReads(text, args, "or", 1, Len(text) + 1)
      BY Zenon DEF SQLReadings, SqlReads, Reads, SqlTokens, SqlAtoms, SqlAtom, IsAtom
    <2> QED  BY <1>1, <2>1
  <1>3. Occurs(text, text, 1)
    <2>1. 1 + Len(text) <= Len(text) + 1
      BY <1>1
    <2>2. \A k \in 1 .. Len(text) : text[1 + k - 1] = text[k]
      <3>1. \A k \in 1 .. Len(text) : 1 + k - 1 = k
        OBVIOUS
      <3> QED  BY <3>1
    <2> QED  BY <2>1, <2>2 DEF Occurs
  <1>4. Keeps(args, args)
    <2>1. Len(args) \in Nat /\ Len(args) <= Len(args)
      OBVIOUS
    <2> QED  BY <2>1, Zenon DEF Keeps
  <1>5. z \in SqlReads(text, args, "or", 1, n + 1)
    <2>1. z \in SqlReads(text, args, "or", 1, 1 + Len(text))
      BY <1>3, <1>4, SaysThere
    <2>2. 1 + Len(text) = n + 1
      BY <1>1
    <2> QED  BY <2>1, <2>2
  <1> DEFINE toks == SqlTokens(text)
             atoms == SqlAtoms(text, args)
  <1>6. /\ toks \in Seq(SqlWords(X)) /\ Len(toks) = n /\ Places(toks) = Places(text)
        /\ atoms \in [Spans(toks) -> Sets]
    BY <1>1, SqlRight
  <1>7. Atomic(toks, atoms)
    BY SqlAtomic
  <1> HIDE DEF toks, atoms
  <1>8. 1 \in Places(toks) /\ n + 1 \in Places(toks)
    BY <1>1, <1>6 DEF Places
  <1>9. Determined(toks, atoms, "or", 1, n + 1)
    BY <1>6, <1>7, <1>8, ReadInOneWay DEF Rules
  <1>10. peek(toks, n + 1) \notin GoesOn("or")
    <2>1. ~(n + 1 <= Len(toks))
      BY <1>6
    <2>2. peek(toks, n + 1) = "EOF"
      BY <2>1, Zenon DEF peek
    <2>3. GoesOn("or") = {"and", "or"}
      BY DEF GoesOn
    <2> QED  BY <2>2, <2>3
  <1>11. \A a, b \in Reads(toks, atoms, "or", 1, n + 1) : a = b
    BY <1>8, <1>9, <1>10, Zenon DEF Determined
  <1>12. \A a, b \in SqlReads(text, args, "or", 1, n + 1) : a = b
    BY <1>11, Zenon DEF SqlReads, toks, atoms
  <1>13. SqlReads(text, args, "or", 1, n + 1) = {z}
    BY <1>5, <1>12
  <1> QED  BY <1>2, <1>13

OverOf(q) == IF q.over = <<>> THEN defaultOver ELSE q.over[1]
OwnRows(tenant) == {row \in Rows : row["tenant_id"] = tenant}
RecentRows(minutes) == {row \in Rows : row["age"] <= minutes}

\* The first condition of every WHERE clause: the tenant, bound before all else.
LEMMA SaysTenant ==
    ASSUME NEW X, CondWord("tenant_id", "=", << 1 >>) \in X, NEW V, NEW tenant \in V, NEW args, Keeps(args, <<tenant>>)
    PROVE  /\ Condition("tenant_id", "=", <<1>>) \in Seq(X) /\ Len(Condition("tenant_id", "=", <<1>>)) = 1
           /\ Says(X, Condition("tenant_id", "=", <<1>>), args, "unary", OwnRows(tenant))
  <1>1. PICK x \in X : x = CondWord("tenant_id", "=", <<1>>)
    OBVIOUS
  <1>2. Condition("tenant_id", "=", <<1>>) = <<x>>
    BY <1>1, Zenon DEF Condition, CondWord
  <1>3. x.word = "condition" /\ x.op = "=" /\ x.column = "tenant_id" /\ x.refs = <<1>>
    BY <1>1 DEF CondWord
  <1>4. IsAtom(SQLWord(x.word))
    BY <1>3, SqlWordsAre DEF IsAtom
  <1>5. ASSUME NEW more, Keeps(more, args) PROVE ConditionRows(x, more) = OwnRows(tenant)
    <2>1. Keeps(more, <<tenant>>)
      BY <1>5, KeepsMore
    <2>2. more[1] = tenant
      <3>1. Len(<<tenant>>) = 1 /\ <<tenant>>[1] = tenant /\ 1 \in 1 .. 1
        OBVIOUS
      <3>2. \A k \in 1 .. Len(<<tenant>>) : more[k] = <<tenant>>[k]
        BY <2>1, Zenon DEF Keeps
      <3> QED  BY <3>1, <3>2
    <2> DEFINE vals == [i \in DOMAIN x.refs |-> more[x.refs[i]]]
               cond(row) == IF x.word = "interval" THEN row["age"] <= x.minutes ELSE Satisfies(x.op, row[x.column], vals)
               own(row) == row["tenant_id"] = tenant
    <2>3. vals[1] = tenant
      <3>1. 1 \in DOMAIN x.refs /\ x.refs[1] = 1
        BY <1>3
      <3>2. vals[1] = more[x.refs[1]]
        BY <3>1
      <3> QED  BY <2>2, <3>1, <3>2
    <2>4. ConditionRows(x, more) = {row \in Rows : cond(row)}
      BY Zenon DEF ConditionRows
    <2> HIDE DEF vals
    <2>5. \A v : Satisfies("=", v, vals) <=> v = vals[1]
      BY Zenon DEF Satisfies
    <2>6. \A row : cond(row) <=> own(row)
      <3>1. x.word # "interval"
        BY <1>3
      <3>2. \A row : cond(row) <=> Satisfies("=", row["tenant_id"], vals)
        BY <1>3, <3>1, Zenon
      <3> HIDE DEF cond
      <3> QED  BY <2>3, <2>5, <3>2, Zenon
    <2>7. OwnRows(tenant) = {row \in Rows : own(row)}
      BY Zenon DEF OwnRows
    <2> HIDE DEF cond, own
    <2> QED  BY <2>4, <2>6, <2>7
  <1>6. Says(X, <<x>>, args, "term", OwnRows(tenant))
    BY <1>4, <1>5, SaysWord
  <1>7. PICK t \in Seq(X) : t = <<x>> /\ Len(t) = 1
    <2>1. <<x>> \in Seq(X) /\ Len(<<x>>) = 1
      BY OneWord
    <2> QED  BY <2>1
  <1>8. Says(X, t, args, "unary", OwnRows(tenant))
    BY <1>6, <1>7, SaysUp
  <1> QED  BY <1>2, <1>7, <1>8

\* The second condition: the range of time.
LEMMA SaysInterval ==
    ASSUME NEW X, NEW minutes, Interval(minutes) \in X, NEW args
    PROVE  /\ <<Interval(minutes)>> \in Seq(X) /\ Len(<<Interval(minutes)>>) = 1
           /\ Says(X, <<Interval(minutes)>>, args, "unary", RecentRows(minutes))
  <1>1. PICK x \in X : x = Interval(minutes)
    OBVIOUS
  <1>2. x.word = "interval" /\ x.minutes = minutes
    BY <1>1 DEF Interval
  <1>3. IsAtom(SQLWord(x.word))
    BY <1>2, SqlWordsAre DEF IsAtom
  <1>4. ASSUME NEW more PROVE ConditionRows(x, more) = RecentRows(minutes)
    <2> DEFINE vals == [i \in DOMAIN x.refs |-> more[x.refs[i]]]
               cond(row) == IF x.word = "interval" THEN row["age"] <= x.minutes ELSE Satisfies(x.op, row[x.column], vals)
               recent(row) == row["age"] <= minutes
    <2>1. ConditionRows(x, more) = {row \in Rows : cond(row)}
      BY Zenon DEF ConditionRows
    <2>2. \A row : cond(row) <=> recent(row)
      BY <1>2, Zenon
    <2>3. RecentRows(minutes) = {row \in Rows : recent(row)}
      BY Zenon DEF RecentRows
    <2> HIDE DEF cond, recent
    <2> QED  BY <2>1, <2>2, <2>3
  <1>5. Says(X, <<x>>, args, "term", RecentRows(minutes))
    BY <1>3, <1>4, SaysWord
  <1>6. PICK t \in Seq(X) : t = <<x>> /\ Len(t) = 1
    <2>1. <<x>> \in Seq(X) /\ Len(<<x>>) = 1
      BY OneWord
    <2> QED  BY <2>1
  <1>7. Says(X, t, args, "unary", RecentRows(minutes))
    BY <1>5, <1>6, SaysUp
  <1> QED  BY <1>1, <1>6, <1>7

Asks(tenant, minutes, v) == OwnRows(tenant) \cap (RecentRows(minutes) \cap v)
Scope(minutes) == Condition("tenant_id", "=", <<1>>) \o Word("AND") \o <<Interval(minutes)>>
\* The WHERE clause of q, as a text that can be read only as the caller's recent rows among v.
WhereRight(X, V, q, spec, tenant, v) ==
    /\ writeWhere(q, spec, tenant).text \in Seq(X) /\ writeWhere(q, spec, tenant).args \in Seq(V)
    /\ Says(X, writeWhere(q, spec, tenant).text, writeWhere(q, spec, tenant).args, "or", Asks(tenant, OverOf(q), v))

\* The scope alone.
LEMMA ScopeSays ==
    ASSUME NEW X, SqlSet(X), CondWord("tenant_id", "=", << 1 >>) \in X, NEW minutes, Interval(minutes) \in X,
           NEW V, NEW tenant \in V, NEW args, Keeps(args, <<tenant>>)
    PROVE  /\ Scope(minutes) \in Seq(X)
           /\ Says(X, Scope(minutes), args, "and", OwnRows(tenant) \cap RecentRows(minutes))
  <1>1. PICK t \in Seq(X) : t = Condition("tenant_id", "=", <<1>>) /\ Says(X, t, args, "unary", OwnRows(tenant))
    BY SaysTenant
  <1>2. PICK i \in Seq(X) : i = <<Interval(minutes)>> /\ Says(X, i, args, "unary", RecentRows(minutes))
    BY SaysInterval
  <1>3. Says(X, i, args, "and", RecentRows(minutes))
    BY <1>2, SaysUp
  <1>4. /\ (t \o Word("AND")) \o i \in Seq(X)
        /\ Says(X, (t \o Word("AND")) \o i, args, "and", OwnRows(tenant) \cap RecentRows(minutes))
    BY <1>1, <1>3, SaysAnd
  <1> QED  BY <1>1, <1>2, <1>4, Zenon DEF Scope

\* The scope with a filter behind it.
LEMMA ScopeFilters ==
    ASSUME NEW X, SqlSet(X), CondWord("tenant_id", "=", << 1 >>) \in X, NEW minutes, Interval(minutes) \in X,
           NEW V, NEW tenant \in V, NEW args, Keeps(args, <<tenant>>),
           NEW u \in Seq(X), NEW v, Says(X, u, args, "unary", v)
    PROVE  /\ (Scope(minutes) \o Word("AND")) \o u \in Seq(X)
           /\ Says(X, (Scope(minutes) \o Word("AND")) \o u, args, "and", Asks(tenant, minutes, v))
  <1>1. PICK t \in Seq(X) : t = Condition("tenant_id", "=", <<1>>) /\ Says(X, t, args, "unary", OwnRows(tenant))
    BY SaysTenant
  <1>2. PICK i \in Seq(X) : i = <<Interval(minutes)>> /\ Says(X, i, args, "unary", RecentRows(minutes))
    BY SaysInterval
  <1>3. PICK a \in Seq(X) : a = Word("AND")
    BY SqlSetWords
  <1>4. Says(X, u, args, "and", v)
    BY SaysUp
  <1>5. PICK w : w = RecentRows(minutes) \cap v
    OBVIOUS
  <1>6. PICK c \in Seq(X) : c = (i \o a) \o u /\ Says(X, c, args, "and", w)
    <2>1. (i \o Word("AND")) \o u \in Seq(X) /\ Says(X, (i \o Word("AND")) \o u, args, "and", RecentRows(minutes) \cap v)
      BY <1>2, <1>4, SaysAnd
    <2> QED  BY <1>3, <1>5, <2>1
  <1>7. PICK d \in Seq(X) : d = (t \o a) \o c /\ Says(X, d, args, "and", OwnRows(tenant) \cap w)
    <2>1. (t \o Word("AND")) \o c \in Seq(X) /\ Says(X, (t \o Word("AND")) \o c, args, "and", OwnRows(tenant) \cap w)
      BY <1>1, <1>6, SaysAnd
    <2> QED  BY <1>3, <2>1
  <1>8. (((t \o a) \o i) \o a) \o u = d
    <2>1. PICK ta, ia \in Seq(X) : ta = t \o a /\ ia = i \o a
      BY ConcatIs
    <2>2. Associates(ta, i, a)
      BY ConcatAssoc
    <2>3. Associates(ta, ia, u)
      BY <2>1, ConcatAssoc
    <2>4. (ta \o i) \o a = ta \o ia
      BY <2>1, <2>2, Zenon DEF Associates
    <2>5. ((ta \o i) \o a) \o u = ta \o (ia \o u)
      BY <2>3, <2>4, Zenon DEF Associates
    <2> QED  BY <1>6, <1>7, <2>1, <2>5, Zenon
  <1>9. Scope(minutes) = (t \o a) \o i
    BY <1>1, <1>2, <1>3, Zenon DEF Scope
  <1>10. (Scope(minutes) \o Word("AND")) \o u = d
    BY <1>3, <1>8, <1>9, Zenon
  <1> QED  BY <1>5, <1>7, <1>10, Zenon DEF Asks

\* What writeWhere writes without a filter.
BareWhere(q, spec, tenant) ==
    /\ writeWhere(q, spec, tenant).text = Scope(OverOf(q)) /\ writeWhere(q, spec, tenant).args = <<tenant>>
\* And with one, that writes the text u behind the scope and leaves the arguments args.
FilterWhere(q, spec, tenant, u, args) ==
    /\ writeWhere(q, spec, tenant).text = (Scope(OverOf(q)) \o Word("AND")) \o u
    /\ writeWhere(q, spec, tenant).args = args

\* The two forms of a WHERE clause.
LEMMA WhereForms ==
    ASSUME NEW q, NEW spec, NEW tenant, NEW u, NEW args
    PROVE  /\ q.filter = <<>> => BareWhere(q, spec, tenant)
           /\ q.filter # <<>> /\ writeExpr(q.filter[1], spec, Written(<<>>, <<tenant>>)) = Written(<<u>>, args)
                => FilterWhere(q, spec, tenant, u, args)
  <1> DEFINE f == writeExpr(q.filter[1], spec, Written(<<>>, <<tenant>>))
             w == writeWhere(q, spec, tenant)
  <1>1. w = IF q.filter = <<>> THEN [text |-> Scope(OverOf(q)), args |-> <<tenant>>]
            ELSE [text |-> Scope(OverOf(q)) \o Word("AND") \o f.texts[1], args |-> f.args]
    BY Zenon DEF writeWhere, Scope, OverOf, Interval, Written
  <1> HIDE DEF w, f
  <1>2. ASSUME q.filter = <<>> PROVE BareWhere(q, spec, tenant)
    <2>1. w = [text |-> Scope(OverOf(q)), args |-> <<tenant>>]
      BY <1>1, <1>2
    <2>2. w.text = Scope(OverOf(q)) /\ w.args = <<tenant>>
      BY <2>1
    <2> QED  BY <2>2, Zenon DEF BareWhere, w
  <1>3. ASSUME q.filter # <<>>, f = Written(<<u>>, args) PROVE FilterWhere(q, spec, tenant, u, args)
    <2>1. w = [text |-> Scope(OverOf(q)) \o Word("AND") \o f.texts[1], args |-> f.args]
      BY <1>1, <1>3
    <2>2. f.texts[1] = u /\ f.args = args
      BY <1>3 DEF Written
    <2>3. w.text = Scope(OverOf(q)) \o Word("AND") \o u /\ w.args = args
      BY <2>1, <2>2
    <2> QED  BY <2>3, Zenon DEF FilterWhere, w
  <1> QED  BY <1>2, <1>3 DEF f

\* The WHERE clause of a query says the caller's recent rows among those its filter selects.
LEMMA WhereSays ==
    ASSUME NEW s, NEW q, NEW spec, NEW tenant, NEW X, NEW V, NEW v \in SUBSET Rows,
           X = SqlVocabulary(s, spec, OverOf(q)), V = SqlValues(s, tenant),
           IF q.filter = <<>> THEN v = Rows ELSE <<q.filter[1], v>> \in SqlExprs(s, X, V, spec)
    PROVE  WhereRight(X, V, q, spec, tenant, v)
  <1> DEFINE w == writeWhere(q, spec, tenant)
             m == OverOf(q)
  <1>1. SqlSet(X) /\ Interval(m) \in X
    BY VocabularyHas
  <1>2. CondWord("tenant_id", "=", <<1>>) \in X
    <2>1. "tenant_id" \in SqlColumns(s, spec)
      BY DEF SqlColumns
    <2>2. Fn("=") = "="
      BY DEF Fn
    <2>3. "=" \in SqlOps(s)
      BY <2>2 DEF SqlOps
    <2>4. <<1>> \in Seq(Nat)
      OBVIOUS
    <2> QED  BY <2>1, <2>3, <2>4, VocabularyHas
  <1>3. tenant \in V
    BY DEF SqlValues
  <1>4. PICK one \in Seq(V) : one = <<tenant>>
    BY <1>3, OneWord
  <1>5. Keeps(one, one)
    <2>1. Len(one) \in Nat /\ Len(one) <= Len(one)
      OBVIOUS
    <2> QED  BY <2>1, Zenon DEF Keeps
  <1>6. PICK z : z = Asks(tenant, m, v)
    OBVIOUS
  <1> HIDE DEF w, m
  <1>7. CASE q.filter = <<>>
    <2>1. BareWhere(q, spec, tenant)
      BY <1>7, WhereForms
    <2>2. w.text = Scope(m) /\ w.args = one
      BY <1>4, <2>1, Zenon DEF BareWhere, w, m
    <2>3. Scope(m) \in Seq(X) /\ Says(X, Scope(m), one, "and", OwnRows(tenant) \cap RecentRows(m))
      <3>1. Keeps(one, <<tenant>>)
        BY <1>4, <1>5
      <3> QED  BY <1>1, <1>2, <1>3, <3>1, ScopeSays
    <2>4. OwnRows(tenant) \cap RecentRows(m) = z
      <3>1. RecentRows(m) \in SUBSET Rows
        BY DEF RecentRows
      <3> QED  BY <1>6, <1>7, <3>1 DEF Asks
    <2>5. PICK t \in Seq(X) : t = Scope(m) /\ Says(X, t, one, "and", z)
      BY <2>3, <2>4
    <2>6. Says(X, t, one, "or", z)
      BY <2>5, SaysUp
    <2>7. w.text \in Seq(X) /\ w.args \in Seq(V) /\ Says(X, w.text, w.args, "or", z)
      BY <2>2, <2>5, <2>6, Zenon
    <2> QED  BY <1>6, <2>7, Zenon DEF WhereRight, w, m
  <1>8. CASE q.filter # <<>>
    <2>1. WritesOne(X, V, spec, q.filter[1], v)
      BY <1>8 DEF SqlExprs
    <2>2. PICK none \in Seq(Seq(X)) : none = <<>>
      BY EmptySeq
    <2>3. PICK u \in Seq(X), bs \in Seq(V) : OneText(X, spec, q.filter[1], v, none, one, u, bs)
      BY <2>1, Zenon DEF WritesOne
    <2>4. /\ writeExpr(q.filter[1], spec, Written(none, one)) = Written(Append(none, u), bs)
          /\ Keeps(bs, one) /\ Says(X, u, bs, "unary", v)
      BY <2>3, Zenon DEF OneText
    <2>5. Append(none, u) = <<u>>
      BY <2>2
    <2>6. writeExpr(q.filter[1], spec, Written(<<>>, <<tenant>>)) = Written(<<u>>, bs)
      BY <1>4, <2>2, <2>4, <2>5, Zenon
    <2>7. FilterWhere(q, spec, tenant, u, bs)
      BY <1>8, <2>6, WhereForms
    <2>8. w.text = (Scope(m) \o Word("AND")) \o u /\ w.args = bs
      BY <2>7, Zenon DEF FilterWhere, w, m
    <2>9. Keeps(bs, <<tenant>>)
      BY <1>4, <2>4
    <2>10. (Scope(m) \o Word("AND")) \o u \in Seq(X) /\ Says(X, (Scope(m) \o Word("AND")) \o u, bs, "and", Asks(tenant, m, v))
      BY <1>1, <1>2, <1>3, <2>4, <2>9, ScopeFilters
    <2>11. PICK t \in Seq(X) : t = (Scope(m) \o Word("AND")) \o u /\ Says(X, t, bs, "and", z)
      BY <1>6, <2>10
    <2>12. Says(X, t, bs, "or", z)
      BY <2>11, SaysUp
    <2>13. w.text \in Seq(X) /\ w.args \in Seq(V) /\ Says(X, w.text, w.args, "or", z)
      BY <2>8, <2>11, <2>12, Zenon
    <2> QED  BY <1>6, <2>13, Zenon DEF WhereRight, w, m
  <1> QED  BY <1>7, <1>8

\* What is behind the answer of a ClickHouse query.
LEMMA SqlAnswer ==
    ASSUME NEW s, NEW tenant, NEW a, a = compileNetQL(s, tenant), a.status = 200, a.backend = "clickhouse"
    PROVE  Parse(s).ok /\ a.out = TranslateClickHouse(Parse(s).ast, tenant)
  <1> DEFINE q == Parse(s).ast
             ch == OK("clickhouse", TranslateClickHouse(q, tenant))
             prom == OK("prometheus", TranslatePrometheus(q))
  <1>1. /\ netqlError("lex").status # 200 /\ netqlError("parse").status # 200
        /\ netqlError("type").status # 200 /\ netqlError("translate").status # 200
    BY DEF netqlError
  <1>2. prom.backend # "clickhouse" /\ ch.out = TranslateClickHouse(q, tenant)
    BY DEF OK
  <1> HIDE DEF ch, prom
  <1>3. \/ a \in {netqlError("lex"), netqlError("parse"), netqlError("type"), netqlError("translate")}
        \/ Parse(s).ok /\ a = ch
        \/ a = prom
    BY AnswerForms DEF ch, prom
  <1> HIDE DEF q
  <1>4. Parse(s).ok /\ a = ch
    BY <1>1, <1>2, <1>3
  <1>5. a.out = TranslateClickHouse(q, tenant)
    BY <1>2, <1>4
  <1> QED  BY <1>4, <1>5 DEF q

\* The WHERE clause and the arguments of a translation.
LEMMA SqlOut ==
    ASSUME NEW q, NEW tenant
    PROVE  /\ TranslateClickHouse(q, tenant).where = writeWhere(q, Registry[q.metric], tenant).text
           /\ TranslateClickHouse(q, tenant).args = writeWhere(q, Registry[q.metric], tenant).args
  <1> DEFINE w == writeWhere(q, Registry[q.metric], tenant)
             t == TranslateClickHouse(q, tenant)
  <1>1. t = [select |-> writeSelect(q, Registry[q.metric]), where |-> w.text, args |-> w.args,
             groupBy |-> q.groupBy, orderBy |-> writeOrderBy(q), limit |-> writeLimit(q)]
    BY Zenon DEF TranslateClickHouse
  <1> HIDE DEF w, t
  <1>2. t.where = w.text /\ t.args = w.args
    BY <1>1
  <1> QED  BY <1>2 DEF w, t

\* The query asks for rows v within its range, and the SQL reads as the caller's of them.
SqlByTree(s, tenant) ==
    LET q == Parse(s).ast
        w == writeWhere(q, Registry[s[1]], tenant)
    IN \E v \in SUBSET Rows :
         /\ Asked(s, defaultOver) = {Within(v, q, defaultOver)}
         /\ SQLReadings(w.text, w.args) = {Asks(tenant, OverOf(q), v)}

\* What a parsed query asks for, and what the clause written for it selects.
LEMMA SqlAsked ==
    ASSUME NEW s \in Seq(STRING), Parse(s).ok, NEW tenant
    PROVE  SqlByTree(s, tenant)
  <1> DEFINE q == Parse(s).ast
             spec == Registry[s[1]]
             w == writeWhere(q, spec, tenant)
  <1>1. PICK X : X = SqlVocabulary(s, spec, OverOf(q))
    OBVIOUS
  <1>2. PICK V : V = SqlValues(s, tenant)
    OBVIOUS
  <1> DEFINE E == SqlExprs(s, X, V, spec)
             A == SqlTerms(s, X, V, spec, "AND", "and")
             D == SqlTerms(s, X, V, spec, "OR", "or")
  <1>3. Composed(s, spec, E, A, D)
    BY <1>1, <1>2, SqlComposed
  <1> HIDE DEF E, A, D
  <1>4. PICK v \in SUBSET Rows :
             /\ Asked(s, defaultOver) = {Within(v, q, defaultOver)}
             /\ IF q.filter = <<>> THEN v = Rows ELSE <<q.filter[1], v>> \in E
    BY <1>3, AskedMeans
  <1>5. WhereRight(X, V, q, spec, tenant, v)
    BY <1>1, <1>2, <1>4, WhereSays DEF E
  <1> HIDE DEF q, spec, w
  <1>6. PICK text \in Seq(X), args \in Seq(V) :
          text = w.text /\ args = w.args /\ Says(X, text, args, "or", Asks(tenant, OverOf(q), v))
    BY <1>5, Zenon DEF WhereRight, w
  <1>7. SQLReadings(text, args) = {Asks(tenant, OverOf(q), v)}
    BY <1>6, ReadWhole
  <1>8. SQLReadings(w.text, w.args) = {Asks(tenant, OverOf(q), v)}
    BY <1>6, <1>7, Zenon
  <1> QED  BY <1>4, <1>8, Zenon DEF SqlByTree, q, spec, w

\* The caller's rows among those asked for.
LEMMA AsksOwn ==
    ASSUME NEW tenant, NEW q, NEW v \in SUBSET Rows
    PROVE  Asks(tenant, OverOf(q), v) = {row \in Within(v, q, defaultOver) : row["tenant_id"] = tenant}
  <1> DEFINE own(row) == row["tenant_id"] = tenant
             recent(row) == row["age"] <= OverOf(q)
  <1>1. OwnRows(tenant) = {row \in Rows : own(row)} /\ RecentRows(OverOf(q)) = {row \in Rows : recent(row)}
    BY Zenon DEF OwnRows, RecentRows
  <1>2. Within(v, q, defaultOver) = {row \in v : recent(row)}
    BY Zenon DEF Within, OverOf
  <1>3. {row \in Within(v, q, defaultOver) : row["tenant_id"] = tenant} = {row \in Within(v, q, defaultOver) : own(row)}
    OBVIOUS
  <1> HIDE DEF own, recent
  <1> QED  BY <1>1, <1>2, <1>3 DEF Asks

\* For any registry, words, literals and rows: the SQL of every query can be read in one way
\* only, and selects the rows the query asks for that are the caller's, all of them and nobody
\* else's, whatever its filter (writeWhere, writeExpr and writeJoin of translate_ch.go).
THEOREM SQLSelectsTheAskedHolds == Spec => []SQLSelectsTheAsked
  <1>1. Answered => SQLSelectsTheAsked
    <2> DEFINE s == Lex(typed)
               q == Parse(s).ast
    <2> SUFFICES ASSUME Answered, answer.status = 200, answer.backend = "clickhouse"
                 PROVE  \E asked \in Asked(s, defaultOver) :
                          /\ Asked(s, defaultOver) = {asked}
                          /\ SQLReadings(answer.out.where, answer.out.args) = {{row \in asked : row["tenant_id"] = "mine"}}
      BY Zenon DEF SQLSelectsTheAsked
    <2>1. s \in Seq(STRING)
      BY LexTyped DEF Answered
    <2>2. answer = compileNetQL(s, "mine")
      <3>1. NoAnswer.status = 0
        BY DEF NoAnswer
      <3>2. answer # NoAnswer
        BY <3>1
      <3> QED  BY <3>2, Zenon DEF Answered
    <2> HIDE DEF s
    <2>3. Parse(s).ok /\ answer.out = TranslateClickHouse(q, "mine")
      BY <2>2, SqlAnswer
    <2>4. q.metric = s[1]
      BY <2>1, <2>3, FilterAst
    <2> DEFINE w == writeWhere(q, Registry[s[1]], "mine")
    <2>5. answer.out.where = w.text /\ answer.out.args = w.args
      <3>1. /\ TranslateClickHouse(q, "mine").where = writeWhere(q, Registry[q.metric], "mine").text
            /\ TranslateClickHouse(q, "mine").args = writeWhere(q, Registry[q.metric], "mine").args
        BY SqlOut
      <3> QED  BY <2>3, <2>4, <3>1, Zenon
    <2>6. SqlByTree(s, "mine")
      BY <2>1, <2>3, SqlAsked
    <2>7. PICK v \in SUBSET Rows :
            /\ Asked(s, defaultOver) = {Within(v, q, defaultOver)}
            /\ SQLReadings(w.text, w.args) = {Asks("mine", OverOf(q), v)}
      BY <2>6, Zenon DEF SqlByTree
    <2>8. Asks("mine", OverOf(q), v) = {row \in Within(v, q, defaultOver) : row["tenant_id"] = "mine"}
      BY AsksOwn
    <2> HIDE DEF w, q
    <2>9. PICK asked : asked = Within(v, q, defaultOver)
      OBVIOUS
    <2>10. asked \in Asked(s, defaultOver) /\ Asked(s, defaultOver) = {asked}
      BY <2>7, <2>9
    <2>11. SQLReadings(answer.out.where, answer.out.args) = {{row \in asked : row["tenant_id"] = "mine"}}
      BY <2>5, <2>7, <2>8, <2>9, Zenon
    <2> QED  BY <2>10, <2>11
  <1> QED  BY <1>1, AnsweredInvariant, PTL
=============================================================================
