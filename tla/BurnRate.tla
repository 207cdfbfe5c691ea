------------------------------ MODULE BurnRate ------------------------------
(***************************************************************************)
(* The arithmetic of the multi-window multi-burn-rate rule of pkg/slo:     *)
(* the success ratio of one window, the burn rate it means for an          *)
(* objective, and the status the four rates of an SLO are classified into. *)
(*                                                                         *)
(* The code computes with float64; here a ratio or a rate is an exact      *)
(* fraction [num, den] of naturals, an objective is a number of units of   *)
(* 1/Unit (the column objective_pct has a resolution of 10^-6) and a       *)
(* threshold is a number of tenths (14.4 is 144).                          *)
(***************************************************************************)
EXTENDS Integers

CONSTANTS
    Unit,       \* an objective of 1 (100 %), in the units objectives are kept in
    MaxRate     \* the first burn rate that does not fit slo_state.last_burn_rate

ASSUME BurnRateAssumption ==
    /\ Unit \in Nat \ {0, 1}
    /\ MaxRate \in Nat \ {0}

(***************************************************************************)
(* The statuses of pkg/slo/types.go.                                       *)
(***************************************************************************)
StatusUnknown  == "unknown"
StatusNoData   == "no_data"
StatusOK       == "ok"
StatusSlowBurn == "slow_burn"
StatusFastBurn == "fast_burn"

Burning  == {StatusSlowBurn, StatusFastBurn}
Computed == Burning \cup {StatusNoData, StatusOK}    \* what classify can return
Status   == Computed \cup {StatusUnknown}

\* What ClickHouse answers for one window: the rows in it and the good ones among them.
Counts == {c \in [total : Nat, good : Nat] : c.good <= c.total}

\* What an operator posts and Validate accepts, as far as the rule reads it.
Thresholds ==
    [objective : 1 .. (Unit - 1), fastT : Nat \ {0}, slowT : Nat \ {0}]

-----------------------------------------------------------------------------
\* A plausible mistake: the query counts the rows with an error kind.
SLI_CountsErrors(c) ==
    IF c.total = 0 THEN [num |-> 0, den |-> 1]
                   ELSE [num |-> c.total - c.good, den |-> c.total]

(***************************************************************************)
(* ClickHouseSLISource.SLI: a window without rows has the ratio zero.      *)
(***************************************************************************)
SLI(c) ==
    IF c.total = 0 THEN [num |-> 0, den |-> 1]
                   ELSE [num |-> c.good, den |-> c.total]

\* burnRate: (1 - SLI) / (1 - objective), zero for a degenerate objective.
burnRate(sli, objective) ==
    IF objective >= Unit \/ objective <= 0
    THEN [num |-> 0, den |-> 1]
    ELSE [num |-> (sli.den - sli.num) * Unit, den |-> sli.den * (Unit - objective)]

\* A plausible mistake: the fraction compared upside down.
Exceeds_Inverted(rate, threshold) == rate.num * 10 < threshold * rate.den

\* rate > threshold, strictly.
Exceeds(rate, threshold) == rate.num * 10 > threshold * rate.den

\* NUMERIC(10, 4) holds only rates below MaxRate; a larger one makes the write fail.
FitsColumn(rate) == rate.num < MaxRate * rate.den

(***************************************************************************)
(* The rates of the four windows of one evaluation. w holds the counts of  *)
(* the windows WindowFastLong (1h), WindowFastShort (5m), WindowSlowLong   *)
(* (6h) and WindowSlowShort (30m).                                         *)
(***************************************************************************)
Windows == {"fastLong", "fastShort", "slowLong", "slowShort"}

Rates(w, def) == [x \in Windows |-> burnRate(SLI(w[x]), def.objective)]

\* No rows in either fast window.
FastNoData(w) == w["fastLong"].total + w["fastShort"].total = 0

\* Both windows of a pair above its threshold.
Fast(rates, def) ==
    Exceeds(rates["fastLong"], def.fastT) /\ Exceeds(rates["fastShort"], def.fastT)
Slow(rates, def) ==
    Exceeds(rates["slowLong"], def.slowT) /\ Exceeds(rates["slowShort"], def.slowT)

\* A plausible mistake: the check for silence is lost.
classify_NoSilence(rates, def, fastNoData) ==
    IF Fast(rates, def)      THEN StatusFastBurn
    ELSE IF Slow(rates, def) THEN StatusSlowBurn
    ELSE StatusOK

\* classify: silence first, then fast_burn, which dominates slow_burn.
classify(rates, def, fastNoData) ==
    IF fastNoData            THEN StatusNoData
    ELSE IF Fast(rates, def) THEN StatusFastBurn
    ELSE IF Slow(rates, def) THEN StatusSlowBurn
    ELSE StatusOK

\* The status of an SLO with definition def whose windows hold w.
StatusOf(w, def) == classify(Rates(w, def), def, FastNoData(w))

\* The rate a tick stores: that of the 1h window.
StoredRate(w, def) == Rates(w, def)["fastLong"]
=============================================================================
