----------------------------- MODULE SLOWindows -----------------------------
(***************************************************************************)
(* What the four trailing windows of an SLO see of canary_results while    *)
(* results arrive and grow old. A result is in the age band that separates *)
(* the windows: up to 5m, 30m, 1h, 6h. The windows are nested, each query  *)
(* counting every row younger than its width.                              *)
(***************************************************************************)
EXTENDS BurnRate

CONSTANTS
    Definitions,    \* the SLO definitions considered
    MaxRows         \* bound: rows younger than 6h at one time

ASSUME WindowsAssumption ==
    /\ Definitions \subseteq Thresholds
    /\ MaxRows \in Nat

VARIABLES
    def,    \* the SLO under evaluation
    rows    \* band -> [good, bad]: the results of that age

vars == <<def, rows>>

Bands == 1 .. 4     \* 0-5m, 5-30m, 30m-1h, 1h-6h

\* The rows in the bands 1 .. n.
RowsUpTo(n, kind) ==
    LET at(b) == IF b <= n THEN rows[b][kind] ELSE 0
    IN  at(1) + at(2) + at(3) + at(4)

CountsUpTo(n) == [total |-> RowsUpTo(n, "good") + RowsUpTo(n, "bad"),
                  good  |-> RowsUpTo(n, "good")]

\* The answers of the four queries buildCanarySLIQuery makes, all at one moment.
WindowCounts ==
    [x \in Windows |-> CountsUpTo(CASE x = "fastShort" -> 1
                                    [] x = "slowShort" -> 2
                                    [] x = "fastLong"  -> 3
                                    [] x = "slowLong"  -> 4)]

status == StatusOf(WindowCounts, def)

-----------------------------------------------------------------------------
Init ==
    /\ def \in Definitions
    /\ rows = [b \in Bands |-> [good |-> 0, bad |-> 0]]

\* A result is ingested; error_kind = '' makes it good.
Insert(kind) ==
    /\ CountsUpTo(4).total < MaxRows
    /\ rows' = [rows EXCEPT ![1][kind] = @ + 1]
    /\ UNCHANGED def

\* A plausible mistake: a band gives up rows it does not hold.
GrowOld_Unguarded(b, kind) ==
    /\ rows' = [c \in Bands |->
                   IF c = b THEN [rows[c] EXCEPT ![kind] = @ - 1]
                   ELSE IF c = b + 1 THEN [rows[c] EXCEPT ![kind] = @ + 1]
                   ELSE rows[c]]
    /\ UNCHANGED def

\* The oldest result of a band leaves it for the next one, or leaves the 6h window.
GrowOld(b, kind) ==
    /\ rows[b][kind] > 0
    /\ rows' = [c \in Bands |->
                   IF c = b THEN [rows[c] EXCEPT ![kind] = @ - 1]
                   ELSE IF c = b + 1 THEN [rows[c] EXCEPT ![kind] = @ + 1]
                   ELSE rows[c]]
    /\ UNCHANGED def

Next ==
    \/ \E kind \in {"good", "bad"} : Insert(kind)
    \/ \E b \in Bands, kind \in {"good", "bad"} : GrowOld(b, kind)

Spec == Init /\ [][Next]_vars

-----------------------------------------------------------------------------
TypeOK ==
    /\ def \in Definitions
    /\ rows \in [Bands -> [good : Nat, bad : Nat]]

\* No burn without a failure: a burn status is only reported while a failed result
\* lies in the long window of some pair. Silence must not look like burning, which is
\* what the no_data test at the head of classify is for (evaluator.go:317-324).
BurnNeedsFailure == status \in Burning => RowsUpTo(4, "bad") > 0

\* A result that succeeds never raises an alarm, and a result that fails never ends
\* one: inserting a row moves every window's rate the way its outcome says, whatever
\* rows the windows already hold or lack.
OutcomeMovesStatus ==
    [][ /\ Insert("good") => (status' \in Burning => status \in Burning)
        /\ Insert("bad")  => (status \in Burning => status' \in Burning) ]_vars

\* The converse of the two-window rule: when every result of the last 30 minutes
\* succeeded and there is at least one in the last 5, the SLO is not burning.
RecentSuccessClears ==
    (RowsUpTo(1, "good") > 0 /\ RowsUpTo(2, "bad") = 0) => status \notin Burning

=============================================================================
