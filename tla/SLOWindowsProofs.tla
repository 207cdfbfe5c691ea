-------------------------- MODULE SLOWindowsProofs --------------------------
(***************************************************************************)
(* What the multi-window rule of pkg/slo promises, for every resolution of *)
(* objectives, every threshold, and windows of every size: the properties  *)
(* of SLOWindows, from the arithmetic of one window's burn rate.           *)
(***************************************************************************)
EXTENDS SLOWindows, TLAPS

-----------------------------------------------------------------------------
(***************************************************************************)
(* Products of naturals.                                                   *)
(***************************************************************************)

\* The product of two naturals is a natural, positive when both are.
LEMMA ProductNat ==
    ASSUME NEW a \in Nat, NEW b \in Nat
    PROVE  a * b \in Nat /\ (a > 0 /\ b > 0 => a * b > 0)
  OBVIOUS

\* Products grow with a factor.
LEMMA ProductMonotone ==
    ASSUME NEW a \in Nat, NEW b \in Nat, NEW c \in Nat, a <= b
    PROVE  a * c <= b * c
  <1>1. (b - a) \in Nat  OBVIOUS
  <1>2. (b - a) * c \in Nat  BY <1>1, ProductNat
  <1>3. b * c = a * c + (b - a) * c  OBVIOUS
  <1>4. a * c \in Nat /\ b * c \in Nat  BY ProductNat
  <1> QED  BY <1>2, <1>3, <1>4

\* A failure share B/T above k/a stays above it when one more failure comes in.
LEMMA ShareGrows ==
    ASSUME NEW a \in Nat, NEW k \in Nat, NEW B \in Nat, NEW T \in Nat,
           B <= T, B * a > k * T
    PROVE  (B + 1) * a > k * (T + 1)
  <1>1. B * a <= T * a  BY ProductMonotone
  <1>2. a > k
    <2> SUFFICES ASSUME a <= k PROVE FALSE  OBVIOUS
    <2>1. a * T <= k * T  BY ProductMonotone
    <2>2. T * a = a * T  OBVIOUS
    <2>3. B * a \in Nat /\ T * a \in Nat /\ k * T \in Nat  BY ProductNat
    <2> QED  BY <1>1, <2>1, <2>2, <2>3
  <1>3. (B + 1) * a = B * a + a /\ k * (T + 1) = k * T + k  OBVIOUS
  <1>4. B * a \in Nat /\ k * T \in Nat  BY ProductNat
  <1> QED  BY <1>2, <1>3, <1>4

-----------------------------------------------------------------------------
(***************************************************************************)
(* One window. Above(c, objective, t): its burn rate exceeds t.            *)
(***************************************************************************)
Above(c, objective, t) == Exceeds(burnRate(SLI(c), objective), t)

\* What the comparison comes to once the fractions are cleared; an empty window
\* counts as one failure out of one.
LEMMA AboveMeans ==
    ASSUME NEW c \in Counts, NEW o \in 1 .. (Unit - 1), NEW t \in Nat \ {0}
    PROVE  /\ c.total > 0 =>
                (Above(c, o, t) <=>
                    (c.total - c.good) * (10 * Unit) > (t * (Unit - o)) * c.total)
           /\ c.total = 0 =>
                (Above(c, o, t) <=> 1 * (10 * Unit) > (t * (Unit - o)) * 1)
           /\ 10 * Unit \in Nat
           /\ t * (Unit - o) \in Nat
  <1>1. Unit \in Nat /\ c.total \in Nat /\ c.good \in Nat /\ c.good <= c.total
    BY BurnRateAssumption DEF Counts
  <1>2. Unit - o \in Nat /\ o > 0 /\ o < Unit /\ o \in Nat  BY <1>1
  <1>3. 10 * Unit \in Nat /\ t * (Unit - o) \in Nat  BY <1>1, <1>2, ProductNat
  <1>4. ASSUME c.total > 0
        PROVE  Above(c, o, t) <=>
                    (c.total - c.good) * (10 * Unit) > (t * (Unit - o)) * c.total
    <2>1. SLI(c) = [num |-> c.good, den |-> c.total]  BY <1>1, <1>4 DEF SLI
    <2>2. burnRate(SLI(c), o) =
              [num |-> (c.total - c.good) * Unit, den |-> c.total * (Unit - o)]
      BY <1>1, <1>2, <2>1 DEF burnRate
    <2>3. Above(c, o, t) <=>
              ((c.total - c.good) * Unit) * 10 > t * (c.total * (Unit - o))
      BY <2>2 DEF Above, Exceeds
    <2>4. /\ ((c.total - c.good) * Unit) * 10 = (c.total - c.good) * (10 * Unit)
          /\ t * (c.total * (Unit - o)) = (t * (Unit - o)) * c.total
      BY <1>1, <1>2
    <2> QED  BY <2>3, <2>4
  <1>5. ASSUME c.total = 0
        PROVE  Above(c, o, t) <=> 1 * (10 * Unit) > (t * (Unit - o)) * 1
    <2>1. SLI(c) = [num |-> 0, den |-> 1]  BY <1>1, <1>5 DEF SLI
    <2>2. burnRate(SLI(c), o) = [num |-> (1 - 0) * Unit, den |-> 1 * (Unit - o)]
      BY <1>1, <1>2, <2>1 DEF burnRate
    <2>3. Above(c, o, t) <=> ((1 - 0) * Unit) * 10 > t * (1 * (Unit - o))
      BY <2>2 DEF Above, Exceeds
    <2> QED  BY <1>1, <1>2, <1>3, <2>3
  <1> QED  BY <1>3, <1>4, <1>5

\* A window that holds results and no failure is above no threshold.
LEMMA AllGoodNotAbove ==
    ASSUME NEW c \in Counts, NEW o \in 1 .. (Unit - 1), NEW t \in Nat \ {0},
           c.total > 0, c.good = c.total
    PROVE  ~Above(c, o, t)
  <1>1. c.total \in Nat /\ c.good \in Nat  BY DEF Counts
  <1>2. (t * (Unit - o)) * c.total \in Nat  BY <1>1, AboveMeans, ProductNat
  <1>3. (c.total - c.good) * (10 * Unit) = 0  BY <1>1, AboveMeans
  <1> QED  BY <1>2, <1>3, AboveMeans

\* A success takes no window above its threshold.
LEMMA GoodDoesNotRaise ==
    ASSUME NEW c \in Counts, NEW d \in Counts, NEW o \in 1 .. (Unit - 1), NEW t \in Nat \ {0},
           d.total = c.total + 1, d.good = c.good + 1, Above(d, o, t)
    PROVE  Above(c, o, t) /\ c.good < c.total
  <1>1. c.total \in Nat /\ c.good \in Nat /\ c.good <= c.total  BY DEF Counts
  <1>2. c.good < c.total
    <2> SUFFICES ASSUME c.good = c.total PROVE FALSE  BY <1>1
    <2> QED  BY <1>1, AllGoodNotAbove
  <1> DEFINE k == t * (Unit - o)
  <1>3. k \in Nat  BY AboveMeans
  <1>4. d.total > 0 /\ c.total > 0  BY <1>1, <1>2
  <1>5. (d.total - d.good) * (10 * Unit) > k * d.total  BY <1>4, AboveMeans
  <1>6. d.total - d.good = c.total - c.good  BY <1>1
  <1>7. k * d.total = k * c.total + k  BY <1>1, <1>3
  <1>8. /\ k * c.total \in Nat
        /\ (c.total - c.good) * (10 * Unit) \in Nat
    BY <1>1, <1>3, AboveMeans, ProductNat
  <1>9. (c.total - c.good) * (10 * Unit) > k * c.total
    BY <1>3, <1>5, <1>6, <1>7, <1>8
  <1> QED  BY <1>2, <1>4, <1>9, AboveMeans

\* A failure takes no window below its threshold.
LEMMA BadDoesNotClear ==
    ASSUME NEW c \in Counts, NEW d \in Counts, NEW o \in 1 .. (Unit - 1), NEW t \in Nat \ {0},
           d.total = c.total + 1, d.good = c.good, Above(c, o, t)
    PROVE  Above(d, o, t)
  <1>1. c.total \in Nat /\ c.good \in Nat /\ c.good <= c.total  BY DEF Counts
  <1> DEFINE k == t * (Unit - o)
  <1> DEFINE a == 10 * Unit
  <1>2. k \in Nat /\ a \in Nat  BY AboveMeans
  <1>3. d.total > 0  BY <1>1
  <1>4. (d.total - d.good) * a > k * d.total
    <2>1. CASE c.total > 0
      <3> DEFINE B == c.total - c.good
      <3>1. B \in Nat /\ B <= c.total  BY <1>1
      <3>2. B * a > k * c.total  BY <2>1, AboveMeans
      <3>3. (B + 1) * a > k * (c.total + 1)
        <4> HIDE DEF a, k, B
        <4> QED  BY <1>1, <1>2, <3>1, <3>2, ShareGrows
      <3>4. d.total - d.good = B + 1  BY <1>1
      <3> QED  BY <3>3, <3>4
    <2>2. CASE c.total = 0
      <3>1. 1 * a > k * 1  BY <2>2, AboveMeans
      <3>2. d.total = 1 /\ d.total - d.good = 1  BY <1>1, <2>2
      <3> QED  BY <3>1, <3>2
    <2> QED  BY <1>1, <2>1, <2>2
  <1> QED  BY <1>3, <1>4, AboveMeans

-----------------------------------------------------------------------------
(***************************************************************************)
(* Type correctness, and the counts the four queries return.               *)
(***************************************************************************)

\* SLOWindows is type correct: no band ever gives up a result it does not hold.
THEOREM TypeCorrect == Spec => []TypeOK
  <1>1. Init => TypeOK  BY DEF Init, TypeOK, Bands
  <1>2. TypeOK /\ [Next]_vars => TypeOK'
    <2> SUFFICES ASSUME TypeOK, [Next]_vars PROVE TypeOK'  OBVIOUS
    <2>1. ASSUME NEW kind \in {"good", "bad"}, Insert(kind) PROVE TypeOK'
      BY <2>1 DEF TypeOK, Insert, Bands
    <2>2. ASSUME NEW b \in Bands, NEW kind \in {"good", "bad"}, GrowOld(b, kind)
          PROVE  TypeOK'
      <3>1. rows'= [c \in Bands |->
                   IF c = b THEN [rows[c] EXCEPT ![kind] = @ - 1]
                   ELSE IF c = b + 1 THEN [rows[c] EXCEPT ![kind] = @ + 1]
                   ELSE rows[c]]
        BY <2>2 DEF GrowOld
      <3>2. \A c \in Bands : rows'[c] \in [good : Nat, bad : Nat]
        BY <2>2, <3>1 DEF TypeOK, GrowOld
      <3> QED  BY <2>2, <3>1, <3>2 DEF TypeOK, GrowOld
    <2>3. CASE UNCHANGED vars  BY <2>3 DEF TypeOK, vars
    <2> QED  BY <2>1, <2>2, <2>3 DEF Next
  <1> QED  BY <1>1, <1>2, PTL DEF Spec

\* The answers are counts, each window contains the shorter ones, and a definition
\* has an objective and thresholds the rule can work with.
LEMMA WindowsNested ==
    ASSUME TypeOK
    PROVE  /\ \A n \in 1 .. 4, kind \in {"good", "bad"} : RowsUpTo(n, kind) \in Nat
           /\ \A n \in 1 .. 4 : CountsUpTo(n) \in Counts
           /\ \A m, n \in 1 .. 4, kind \in {"good", "bad"} :
                  m <= n => RowsUpTo(m, kind) <= RowsUpTo(n, kind)
           /\ def.objective \in 1 .. (Unit - 1)
           /\ def.fastT \in Nat \ {0}
           /\ def.slowT \in Nat \ {0}
  <1>1. \A b \in Bands, kind \in {"good", "bad"} : rows[b][kind] \in Nat
    BY DEF TypeOK
  <1>2. \A n \in 1 .. 4, kind \in {"good", "bad"} : RowsUpTo(n, kind) \in Nat
    BY <1>1 DEF RowsUpTo, Bands
  <1>3. \A m, n \in 1 .. 4, kind \in {"good", "bad"} :
            m <= n => RowsUpTo(m, kind) <= RowsUpTo(n, kind)
    BY <1>1 DEF RowsUpTo, Bands
  <1>4. \A n \in 1 .. 4 : CountsUpTo(n) \in Counts
    <2> TAKE n \in 1 .. 4
    <2> DEFINE g == RowsUpTo(n, "good")
    <2> DEFINE b == RowsUpTo(n, "bad")
    <2>1. g \in Nat /\ b \in Nat  BY <1>2
    <2>2. CountsUpTo(n) = [total |-> g + b, good |-> g]  BY DEF CountsUpTo
    <2> QED  BY <2>1, <2>2 DEF Counts
  <1>5. def \in Thresholds  BY WindowsAssumption DEF TypeOK
  <1> QED  BY <1>2, <1>3, <1>4, <1>5 DEF Thresholds

\* When an SLO burns, in terms of its windows.
LEMMA BurningMeans ==
    status \in Burning <=>
        /\ ~(CountsUpTo(3).total + CountsUpTo(1).total = 0)
        /\ \/ Above(CountsUpTo(3), def.objective, def.fastT) /\ Above(CountsUpTo(1), def.objective, def.fastT)
           \/ Above(CountsUpTo(4), def.objective, def.slowT) /\ Above(CountsUpTo(2), def.objective, def.slowT)
  <1>1. /\ WindowCounts["fastShort"] = CountsUpTo(1)
        /\ WindowCounts["slowShort"] = CountsUpTo(2)
        /\ WindowCounts["fastLong"] = CountsUpTo(3)
        /\ WindowCounts["slowLong"] = CountsUpTo(4)
    BY DEF WindowCounts, Windows
  <1>2. FastNoData(WindowCounts) <=> CountsUpTo(3).total + CountsUpTo(1).total = 0
    BY <1>1 DEF FastNoData
  <1>3. Fast(Rates(WindowCounts, def), def) <=>
            Above(CountsUpTo(3), def.objective, def.fastT) /\ Above(CountsUpTo(1), def.objective, def.fastT)
    BY <1>1 DEF Fast, Rates, Windows, Above
  <1>4. Slow(Rates(WindowCounts, def), def) <=>
            Above(CountsUpTo(4), def.objective, def.slowT) /\ Above(CountsUpTo(2), def.objective, def.slowT)
    BY <1>1 DEF Slow, Rates, Windows, Above
  <1>5. status \in Burning <=>
            /\ ~FastNoData(WindowCounts)
            /\ Fast(Rates(WindowCounts, def), def) \/ Slow(Rates(WindowCounts, def), def)
    BY DEF status, StatusOf, classify, Burning, StatusNoData, StatusFastBurn, StatusSlowBurn, StatusOK
  <1> QED  BY <1>2, <1>3, <1>4, <1>5

-----------------------------------------------------------------------------
(***************************************************************************)
(* The three properties.                                                   *)
(***************************************************************************)

\* No burn without a failure in the last six hours.
THEOREM NoBurnWithoutFailure == Spec => []BurnNeedsFailure
  <1>1. TypeOK => BurnNeedsFailure
    <2> SUFFICES ASSUME TypeOK, status \in Burning, ~(RowsUpTo(4, "bad") > 0) PROVE FALSE
      BY DEF BurnNeedsFailure
    <2>1. \A n \in 1 .. 4 : /\ RowsUpTo(n, "bad") = 0
                            /\ RowsUpTo(n, "good") \in Nat
                            /\ CountsUpTo(n) \in Counts
      BY WindowsNested
    <2>2. \A n \in 1 .. 4 : /\ CountsUpTo(n).total = RowsUpTo(n, "good")
                            /\ CountsUpTo(n).good = RowsUpTo(n, "good")
      BY <2>1 DEF CountsUpTo
    <2>3. /\ RowsUpTo(1, "good") <= RowsUpTo(3, "good")
          /\ RowsUpTo(3, "good") <= RowsUpTo(4, "good")
      BY WindowsNested
    <2>4. CountsUpTo(3).total > 0
      BY <2>1, <2>2, <2>3, BurningMeans
    <2>5. CountsUpTo(4).total > 0  BY <2>1, <2>2, <2>3, <2>4
    <2>6. ~Above(CountsUpTo(3), def.objective, def.fastT)
      BY <2>1, <2>2, <2>4, WindowsNested, AllGoodNotAbove
    <2>7. ~Above(CountsUpTo(4), def.objective, def.slowT)
      BY <2>1, <2>2, <2>5, WindowsNested, AllGoodNotAbove
    <2> QED  BY <2>6, <2>7, BurningMeans
  <1> QED  BY <1>1, TypeCorrect, PTL

\* Half an hour without failures, the last five minutes of it not silent, clears an SLO.
THEOREM SuccessClears == Spec => []RecentSuccessClears
  <1>1. TypeOK => RecentSuccessClears
    <2> SUFFICES ASSUME TypeOK, RowsUpTo(1, "good") > 0, RowsUpTo(2, "bad") = 0
                 PROVE  status \notin Burning
      BY DEF RecentSuccessClears
    <2>1. \A n \in 1 .. 2 : /\ RowsUpTo(n, "bad") = 0
                            /\ RowsUpTo(n, "good") \in Nat
                            /\ RowsUpTo(n, "good") > 0
                            /\ CountsUpTo(n) \in Counts
      BY WindowsNested
    <2>2. \A n \in 1 .. 2 : /\ CountsUpTo(n).total = RowsUpTo(n, "good")
                            /\ CountsUpTo(n).good = RowsUpTo(n, "good")
      BY <2>1 DEF CountsUpTo
    <2>3. ~Above(CountsUpTo(1), def.objective, def.fastT)
      BY <2>1, <2>2, WindowsNested, AllGoodNotAbove
    <2>4. ~Above(CountsUpTo(2), def.objective, def.slowT)
      BY <2>1, <2>2, WindowsNested, AllGoodNotAbove
    <2> QED  BY <2>3, <2>4, BurningMeans
  <1> QED  BY <1>1, TypeCorrect, PTL

\* Inserting a result adds it to every window.
LEMMA InsertCounts ==
    ASSUME TypeOK, NEW kind \in {"good", "bad"}, Insert(kind)
    PROVE  \A n \in 1 .. 4 :
               /\ CountsUpTo(n)'.total = CountsUpTo(n).total + 1
               /\ CountsUpTo(n)'.good = CountsUpTo(n).good + (IF kind = "good" THEN 1 ELSE 0)
  <1>1. \A b \in Bands, k \in {"good", "bad"} :
            rows'[b][k] = rows[b][k] + (IF b = 1 /\ k = kind THEN 1 ELSE 0)
    BY DEF TypeOK, Insert, Bands
  <1>2. \A b \in Bands, k \in {"good", "bad"} : rows[b][k] \in Nat  BY DEF TypeOK
  <1>3. \A n \in 1 .. 4, k \in {"good", "bad"} :
            RowsUpTo(n, k)' = RowsUpTo(n, k) + (IF k = kind THEN 1 ELSE 0)
    BY <1>1, <1>2 DEF RowsUpTo, Bands
  <1>4. \A n \in 1 .. 4, k \in {"good", "bad"} : RowsUpTo(n, k) \in Nat  BY WindowsNested
  <1> TAKE n \in 1 .. 4
  <1>5. /\ RowsUpTo(n, "good")' = RowsUpTo(n, "good") + (IF kind = "good" THEN 1 ELSE 0)
        /\ RowsUpTo(n, "bad")' = RowsUpTo(n, "bad") + (IF kind = "bad" THEN 1 ELSE 0)
        /\ RowsUpTo(n, "good") \in Nat /\ RowsUpTo(n, "bad") \in Nat
    BY <1>3, <1>4
  <1> QED  BY <1>5 DEF CountsUpTo

\* The answers are counts before a step and after it.
LEMMA CountsStayCounts ==
    /\ TypeOK => \A n \in 1 .. 4 : CountsUpTo(n) \in Counts
    /\ (TypeOK => \A n \in 1 .. 4 : CountsUpTo(n) \in Counts)'
  <1>1. TypeOK => \A n \in 1 .. 4 : CountsUpTo(n) \in Counts  BY WindowsNested
  <1> QED  BY <1>1, PTL

\* When an SLO burns after a step.
LEMMA BurningMeansNext ==
    (status \in Burning <=>
        /\ ~(CountsUpTo(3).total + CountsUpTo(1).total = 0)
        /\ \/ Above(CountsUpTo(3), def.objective, def.fastT) /\ Above(CountsUpTo(1), def.objective, def.fastT)
           \/ Above(CountsUpTo(4), def.objective, def.slowT) /\ Above(CountsUpTo(2), def.objective, def.slowT))'
  BY BurningMeans, PTL

\* A success never raises an alarm and a failure never ends one.
THEOREM OutcomesMoveStatus == Spec => OutcomeMovesStatus
  <1>1. ASSUME TypeOK, TypeOK', NEW kind \in {"good", "bad"}, Insert(kind)
        PROVE  /\ kind = "good" => (status' \in Burning => status \in Burning)
               /\ kind = "bad" => (status \in Burning => status' \in Burning)
    <2> DEFINE o == def.objective
    <2>0. def' = def  BY <1>1 DEF Insert
    <2>1. \A n \in 1 .. 4 : /\ CountsUpTo(n)'.total = CountsUpTo(n).total + 1
                            /\ CountsUpTo(n)'.good = CountsUpTo(n).good + (IF kind = "good" THEN 1 ELSE 0)
      BY <1>1, InsertCounts
    <2>2. \A n \in 1 .. 4 : CountsUpTo(n) \in Counts /\ CountsUpTo(n)' \in Counts
      BY <1>1, CountsStayCounts
    <2>3. /\ o \in 1 .. (Unit - 1)
          /\ def.fastT \in Nat \ {0}
          /\ def.slowT \in Nat \ {0}
      BY <1>1, WindowsNested
    <2>4. \A n \in 1 .. 4 : CountsUpTo(n).total \in Nat /\ CountsUpTo(n).good \in Nat
      BY <2>2 DEF Counts
    <2>5. ASSUME kind = "good", status' \in Burning  PROVE status \in Burning
      <3>1. \A n \in 1 .. 4, t \in Nat \ {0} :
                Above(CountsUpTo(n)', o, t) =>
                    Above(CountsUpTo(n), o, t) /\ CountsUpTo(n).good < CountsUpTo(n).total
        <4> TAKE n \in 1 .. 4, t \in Nat \ {0}
        <4> DEFINE c == CountsUpTo(n)
        <4> DEFINE d == CountsUpTo(n)'
        <4>1. c \in Counts /\ d \in Counts /\ d.total = c.total + 1 /\ d.good = c.good + 1
          BY <2>1, <2>2, <2>5
        <4> HIDE DEF c, d, o
        <4>2. Above(d, o, t) => Above(c, o, t) /\ c.good < c.total
          BY <4>1, <2>3, GoodDoesNotRaise
        <4> QED  BY <4>2 DEF c, d, o
      <3>2. \/ Above(CountsUpTo(3)', o, def.fastT) /\ Above(CountsUpTo(1)', o, def.fastT)
            \/ Above(CountsUpTo(4)', o, def.slowT) /\ Above(CountsUpTo(2)', o, def.slowT)
        BY <2>0, <2>5, BurningMeansNext
      <3>3. \/ Above(CountsUpTo(3), o, def.fastT) /\ Above(CountsUpTo(1), o, def.fastT)
            \/ Above(CountsUpTo(4), o, def.slowT) /\ Above(CountsUpTo(2), o, def.slowT)
        BY <2>3, <3>1, <3>2
      <3>5. CountsUpTo(2).good < CountsUpTo(2).total => CountsUpTo(3).total > 0
        <4>1. /\ RowsUpTo(2, "bad") <= RowsUpTo(3, "bad")
              /\ RowsUpTo(2, "bad") \in Nat /\ RowsUpTo(2, "good") \in Nat
              /\ RowsUpTo(3, "bad") \in Nat /\ RowsUpTo(3, "good") \in Nat
          BY <1>1, WindowsNested
        <4> QED  BY <4>1 DEF CountsUpTo
      <3>6. CountsUpTo(3).total > 0 \/ CountsUpTo(1).total > 0
        BY <2>3, <2>4, <3>1, <3>2, <3>5
      <3>7. ~(CountsUpTo(3).total + CountsUpTo(1).total = 0)
        BY <2>4, <3>6
      <3> QED  BY <3>3, <3>7, BurningMeans
    <2>6. ASSUME kind = "bad", status \in Burning  PROVE status' \in Burning
      <3>1. \A n \in 1 .. 4, t \in Nat \ {0} :
                Above(CountsUpTo(n), o, t) => Above(CountsUpTo(n)', o, t)
        <4> TAKE n \in 1 .. 4, t \in Nat \ {0}
        <4> DEFINE c == CountsUpTo(n)
        <4> DEFINE d == CountsUpTo(n)'
        <4>1. c \in Counts /\ d \in Counts /\ d.total = c.total + 1 /\ d.good = c.good
          BY <2>1, <2>2, <2>4, <2>6
        <4> HIDE DEF c, d, o
        <4>2. Above(c, o, t) => Above(d, o, t)
          BY <4>1, <2>3, BadDoesNotClear
        <4> QED  BY <4>2 DEF c, d, o
      <3>2. \/ Above(CountsUpTo(3), o, def.fastT) /\ Above(CountsUpTo(1), o, def.fastT)
            \/ Above(CountsUpTo(4), o, def.slowT) /\ Above(CountsUpTo(2), o, def.slowT)
        BY <2>6, BurningMeans
      <3>3. \/ Above(CountsUpTo(3)', o, def.fastT) /\ Above(CountsUpTo(1)', o, def.fastT)
            \/ Above(CountsUpTo(4)', o, def.slowT) /\ Above(CountsUpTo(2)', o, def.slowT)
        BY <2>3, <3>1, <3>2
      <3>4. ~(CountsUpTo(3)'.total + CountsUpTo(1)'.total = 0)
        BY <2>1, <2>4
      <3> QED  BY <2>0, <3>3, <3>4, BurningMeansNext
    <2> QED  BY <2>5, <2>6
  <1>2. TypeOK /\ TypeOK' => /\ Insert("good") => (status' \in Burning => status \in Burning)
                             /\ Insert("bad") => (status \in Burning => status' \in Burning)
    BY <1>1
  <1> QED  BY <1>2, TypeCorrect, PTL DEF Spec, OutcomeMovesStatus
=============================================================================
