------------------------------ MODULE Detector ------------------------------
(***************************************************************************)
(* The anomaly detector (pkg/anomaly: detector, stl, holtwinters,          *)
(* calendar). The code computes in float64: here the fit is in exact       *)
(* integers, multiples of a unit that every division below divides, and    *)
(* what comes out of it is off by up to Noise, the rounding. Series values *)
(* are functions on 0 .. n - 1, as the code indexes them.                  *)
(***************************************************************************)
EXTENDS Integers, Sequences, FiniteSetsExt, SequencesExt

CONSTANTS
    Period,                             \* Config.Period
    MinSamples,                         \* Config.MinSamples
    Alpha, Beta, Gamma, Den,            \* the smoothing parameters, as fractions of Den
    Watch, Anomaly, Critical,           \* Config.MADThreshold...
    Noise,                              \* what rounding may add to a residual or a MAD
    Windows                             \* Config.Calendar, a sequence of [start, end)

\* Defaults sees to it that the period is above one and every parameter positive.
ASSUME DetectorAssumption ==
    /\ Period \in Nat \ {0, 1} /\ MinSamples \in Nat
    /\ Den \in Nat \ {0} /\ {Alpha, Beta, Gamma} \subseteq 1 .. Den - 1
    /\ {Watch, Anomaly, Critical} \subseteq Nat \ {0} /\ Noise \in Nat
    /\ Windows \in Seq([start : Int, end : Int])

Indexes(n) == 0 .. n - 1
Abs(x) == IF x < 0 THEN -x ELSE x

\* Over the indexes below n that are in S, in their order.
Sum(ys, S, n) ==
    LET acc[k \in Nat] == IF k = 0 THEN 0
                          ELSE acc[k - 1] + (IF k - 1 \in S THEN ys[k - 1] ELSE 0)
    IN acc[n]
mean(ys, S, n) == Sum(ys, S, n) \div Cardinality(S)

-----------------------------------------------------------------------------
(***************************************************************************)
(* stl.go.                                                                 *)
(***************************************************************************)
\* sort.Float64s: fewer than k values are below the k-th, and at least k are not above it.
Sorted(xs) ==
    [k \in DOMAIN xs |->
       CHOOSE x \in Range(xs) : /\ Cardinality({i \in DOMAIN xs : xs[i] < x}) < k
                                /\ Cardinality({i \in DOMAIN xs : xs[i] <= x}) >= k]

median(xs) ==
    LET n == Len(xs) IN
    IF n = 0 THEN 0
    ELSE IF n % 2 = 1 THEN Sorted(xs)[n \div 2 + 1]
    ELSE (Sorted(xs)[n \div 2] + Sorted(xs)[n \div 2 + 1]) \div 2

MAD(xs) == LET med == median(xs) IN median([i \in DOMAIN xs |-> Abs(xs[i] - med)])

half == Period \div 2
Valid(n) == half .. n - half - 1        \* where the moving average is defined

\* A plausible mistake: the second of the two averages of an even period is left out.
centredMovingAverage_OneSided(ys, n) ==
    [i \in Indexes(n) |-> IF i \in Valid(n) THEN Sum(ys, i - half + 1 .. i + half, n) \div Period ELSE 0]

periodMA(ys, n, i) == Sum(ys, i - half + 1 .. i + half, n) \div Period

centredMovingAverage(ys, n) ==
    [i \in Indexes(n) |->
       IF i \notin Valid(n) THEN 0
       ELSE IF Period % 2 = 1 THEN Sum(ys, i - half .. i + half, n) \div Period
       ELSE (periodMA(ys, n, i - 1) + periodMA(ys, n, i)) \div 2]

Phase(n, ph) == {i \in Valid(n) : i % Period = ph}

\* The seasonal means of what is left without the trend, centred.
periodMeans(detrended, n) ==
    LET raw == [ph \in Indexes(Period) |->
                  IF Phase(n, ph) = {} THEN 0 ELSE mean(detrended, Phase(n, ph), n)]
    IN [ph \in Indexes(Period) |-> raw[ph] - mean(raw, Indexes(Period), Period)]

Decompose(ys, n) ==
    LET trend == centredMovingAverage(ys, n)
        means == periodMeans([i \in Valid(n) |-> ys[i] - trend[i]], n)
        season == [i \in Indexes(n) |-> means[i % Period]]
    IN [trend |-> trend, season |-> season,
        residual |-> [i \in Indexes(n) |-> IF i \in Valid(n) THEN ys[i] - trend[i] - season[i] ELSE 0]]

-----------------------------------------------------------------------------
(***************************************************************************)
(* holtwinters.go.                                                         *)
(***************************************************************************)
initialAdditiveSeasonals(ys) ==
    LET out == [i \in Indexes(Period) |-> (ys[i] + ys[Period + i]) \div 2]
    IN [i \in Indexes(Period) |-> out[i] - mean(out, Indexes(Period), Period)]

initialTrend(ys) ==
    LET slope == [i \in Indexes(Period) |-> (ys[Period + i] - ys[i]) \div Period]
    IN mean(slope, Indexes(Period), Period)

\* weight of a, the rest of b
Blend(weight, a, b) == (weight * a + (Den - weight) * b) \div Den

\* A plausible mistake: the season of the phase before.
Season_Before(seasonals, t) == seasonals[(t - 1) % Period]

Season(seasonals, t) == seasonals[t % Period]

\* The state after y[Period - 1], and after y[t] with the forecast that was made for it.
HWStart(ys) ==
    [level |-> mean(ys, Indexes(Period), Period), trend |-> initialTrend(ys),
     seasonals |-> initialAdditiveSeasonals(ys), inSample |-> ys[Period - 1]]

HWStep(p, t, y) ==
    LET level == Blend(Alpha, y - Season(p.seasonals, t), p.level + p.trend)
    IN [level |-> level,
        trend |-> Blend(Beta, level - p.level, p.trend),
        seasonals |-> [p.seasonals EXCEPT ![t % Period] =
                         Blend(Gamma, y - level, Season(p.seasonals, t))],
        inSample |-> p.level + p.trend + Season(p.seasonals, t)]

HoltWinters(ys, n) ==
    LET fit[t \in Period - 1 .. n - 1] ==
          IF t = Period - 1 THEN HWStart(ys) ELSE HWStep(fit[t - 1], t, ys[t])
    IN [t \in Indexes(n) |-> IF t < Period THEN ys[t] ELSE fit[t].inSample]

-----------------------------------------------------------------------------
(***************************************************************************)
(* calendar.go.                                                            *)
(***************************************************************************)
\* sort.Slice by start: windows that start together may come in any order.
InOrder(p) == \A i, j \in DOMAIN Windows : i < j => Windows[p[i]].start <= Windows[p[j]].start
NewCalendar ==
    LET order == CHOOSE p \in Bijection(DOMAIN Windows, DOMAIN Windows) : InOrder(p)
    IN [i \in DOMAIN Windows |-> Windows[order[i]]]

\* The windows that start at or before t are the first idx ones.
Started(t) == Cardinality({i \in DOMAIN Windows : NewCalendar[i].start <= t})

\* A plausible mistake: only the last window that has started is looked at.
Suppresses_LastOnly(t) == Started(t) > 0 /\ t < NewCalendar[Started(t)].end

\* That one, and else the ones before it.
Suppresses(t) ==
    \/ Started(t) > 0 /\ t < NewCalendar[Started(t)].end
    \/ \E j \in 1 .. Started(t) - 1 : t < NewCalendar[j].end

-----------------------------------------------------------------------------
(***************************************************************************)
(* detector.go.                                                            *)
(***************************************************************************)
chooseMethod(n) ==
    IF n < MinSamples \/ n < 2 * Period THEN "insufficient_data"
    ELSE IF n >= 4 * Period THEN "seasonal_decompose"
    ELSE "holt_winters"

\* MADUnits is residual / mad, and 0 where mad is.
classifySeverity(residual, mad) ==
    IF residual = 0 \/ mad = 0 THEN "none"
    ELSE IF residual >= Critical * mad THEN "critical"
    ELSE IF residual >= Anomaly * mad THEN "anomaly"
    ELSE IF residual >= Watch * mad THEN "watch"
    ELSE "none"

Values(series) == [i \in Indexes(Len(series)) |-> series[i + 1].value]

\* The residual of the latest point and the MAD of the fit, in exact numbers.
Fit(ys, n) ==
    IF chooseMethod(n) = "holt_winters"
      THEN LET inSample == HoltWinters(ys, n)
           IN [residual |-> ys[n - 1] - inSample[n - 1],
               mad |-> MAD([k \in 1 .. n - Period |-> ys[Period + k - 1] - inSample[Period + k - 1]])]
      ELSE LET dec == Decompose(ys, n)
           \* the trend of the latest point that has one, the season of the latest point
           IN [residual |-> ys[n - 1] - (dec.trend[n - half - 1] + dec.season[n - 1]),
               mad |-> MAD([k \in 1 .. n - 2 * half |-> dec.residual[half + k - 1]])]

\* What float64 may make of them. Where both are far from zero this moves the ratio a
\* little; where both are zero the ratio is of two roundings and may be anything.
Fits(ys, n) ==
    LET f == Fit(ys, n)
    IN {g \in [residual : f.residual - Noise .. f.residual + Noise, mad : f.mad - Noise .. f.mad + Noise] :
          g.mad >= 0}

\* The verdicts a series that is not empty may get; ORDER BY has sorted it (isSortedAsc).
Detect(series) ==
    LET n == Len(series)
        suppressed == Suppresses(series[n].at)
        verdict(severity) ==
          [method |-> chooseMethod(n), suppressed |-> suppressed, at |-> series[n].at,
           severity |-> IF suppressed /\ severity \in {"anomaly", "critical"} THEN "watch" ELSE severity]
    IN IF chooseMethod(n) = "insufficient_data"
         THEN {[method |-> "insufficient_data", severity |-> "none", suppressed |-> FALSE, at |-> series[n].at]}
         ELSE {verdict(classifySeverity(Abs(g.residual), g.mad)) : g \in Fits(Values(series), n)}
=============================================================================
