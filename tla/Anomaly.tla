------------------------------- MODULE Anomaly ------------------------------
(***************************************************************************)
(* The anomaly evaluator (pkg/anomaly: evaluator, store, series_source):   *)
(* at every tick it lists the enabled tests, and for each of them reads    *)
(* its series from ClickHouse, runs the detector, reads the verdict of     *)
(* last time, writes the new one and logs a transition. Between any two of *)
(* these calls hours pass, tests are paused or deleted, calls fail and the *)
(* process is restarted.                                                   *)
(***************************************************************************)
EXTENDS Detector

CONSTANTS
    Tests,          \* the catalog's tests, one metric each; numbers, in listing order
    Levels,         \* what the aggregate of a bucket may be
    Window,         \* the buckets the query looks back
    MaxTime,        \* bound: buckets that go by
    MaxGaps,        \* bound: buckets without results
    AnomalyFaults   \* the calls that fail, and "crash"

ASSUME AnomalyAssumption ==
    /\ Tests \subseteq Nat /\ Levels \subseteq Int
    /\ {Window, MaxTime, MaxGaps} \subseteq Nat
    /\ AnomalyFaults \subseteq {"list", "series", "get", "upsert", "crash"}

VARIABLES
    now,        \* the current bucket
    history,    \* test -> the buckets of canary_results with results, oldest first
    enabled,    \* the enabled tests of the catalog
    rows,       \* test -> its row of anomaly_state
    pc,         \* what the evaluator does next
    listed,     \* the tests of this tick still to do
    row,        \* the verdict it is about to write
    prev,       \* the severity it takes for the last one
    \* history variables, read by no step
    announced,  \* test -> the severity of the last transition logged since it was none
    missed      \* the tests whose transition was stored and kept from the log

vars == <<now, history, enabled, rows, pc, listed, row, prev, announced, missed>>

Methods    == {"insufficient_data", "holt_winters", "seasonal_decompose"}
Severities == {"none", "watch", "anomaly", "critical"}
Verdict    == [method : Methods, severity : Severities, suppressed : BOOLEAN, at : Nat]
NoRow      == [method |-> "insufficient_data", severity |-> "none", suppressed |-> FALSE, at |-> 0]

t == Min(listed)                \* the test being evaluated
catalog == <<history, enabled>>
process == <<pc, listed, row, prev>>

-----------------------------------------------------------------------------
(***************************************************************************)
(* ClickHouse and the catalog.                                             *)
(***************************************************************************)

\* A bucket goes by: with results of a test, or with none, which leaves it out.
Bucket ==
    /\ now < MaxTime
    /\ now' = now + 1
    /\ \E h \in [Tests -> Levels] :
         history' = [u \in Tests |-> Append(history[u], [at |-> now', value |-> h[u]])]
    /\ UNCHANGED <<enabled, rows, process, announced, missed>>

Gap ==
    /\ now < MaxTime
    /\ now - Max({Len(history[u]) : u \in Tests}) < MaxGaps
    /\ now' = now + 1
    /\ UNCHANGED <<catalog, rows, process, announced, missed>>

\* A test is paused, or deleted: anomaly_state has no foreign key, its row stays.
Disable(u) ==
    /\ u \in enabled
    /\ enabled' = enabled \ {u}
    /\ UNCHANGED <<now, history, rows, process, announced, missed>>

-----------------------------------------------------------------------------
(***************************************************************************)
(* tick, EvaluateOne, recordTransition.                                    *)
(***************************************************************************)
Fault(call) == call \in AnomalyFaults

\* A plausible mistake: the loop over the tests runs once too often.
Done_OneMore ==
    /\ listed' = listed \ {t}
    /\ pc' = IF listed = {} THEN "idle" ELSE "series"
    /\ row' = NoRow /\ prev' = "none"

\* The rest of the tick, after test t.
Done ==
    /\ listed' = listed \ {t}
    /\ pc' = IF listed = {t} THEN "idle" ELSE "series"
    /\ row' = NoRow /\ prev' = "none"

\* A failed listing ends the tick.
ListEnabledTests ==
    /\ pc = "idle"
    /\ enabled # {}
    /\ listed' = enabled
    /\ pc' = "series"
    /\ UNCHANGED <<now, catalog, rows, row, prev, announced, missed>>

\* The query's window is the end of the history.
Series(u) ==
    LET old == Cardinality({i \in DOMAIN history[u] : history[u][i].at <= now - Window})
    IN SubSeq(history[u], old + 1, Len(history[u]))

EvaluateOne ==
    /\ pc = "series"
    /\ row' \in IF Series(t) = <<>> THEN {[NoRow EXCEPT !.at = now]} ELSE Detect(Series(t))
    /\ pc' = "get"
    /\ UNCHANGED <<now, catalog, rows, listed, prev, announced, missed>>

\* The error is logged, and the tick goes on with the next test.
SeriesFails ==
    /\ Fault("series")
    /\ pc = "series"
    /\ Done
    /\ UNCHANGED <<now, catalog, rows, announced, missed>>

GetVerdict ==
    /\ pc = "get"
    /\ prev' = rows[t].severity
    /\ pc' = "upsert"
    /\ UNCHANGED <<now, catalog, rows, listed, row, announced, missed>>

\* A plausible mistake: without a previous verdict there is no transition.
GetVerdictFails_NoTransition ==
    /\ Fault("get")
    /\ pc = "get"
    /\ prev' = row.severity
    /\ pc' = "upsert"
    /\ UNCHANGED <<now, catalog, rows, listed, row, announced, missed>>

\* A read error counts as no previous verdict.
GetVerdictFails ==
    /\ Fault("get")
    /\ pc = "get"
    /\ prev' = "none"
    /\ pc' = "upsert"
    /\ UNCHANGED <<now, catalog, rows, listed, row, announced, missed>>

Transition == row.severity # prev /\ row.severity # "none"

\* The row is committed.
Stored ==
    /\ rows' = [rows EXCEPT ![t] = row]
    /\ announced' = [announced EXCEPT ![t] = IF row.severity = "none" THEN "none" ELSE @]

UpsertVerdict ==
    /\ pc = "upsert"
    /\ Stored
    /\ pc' = "log"
    /\ UNCHANGED <<now, catalog, listed, row, prev, missed>>

\* Exec returns an error, before the commit or after it, and EvaluateOne with it: nothing
\* is logged.
UpsertVerdictFails ==
    /\ Fault("upsert")
    /\ pc = "upsert"
    /\ \/ UNCHANGED <<rows, announced, missed>>
       \/ Stored /\ missed' = IF Transition THEN missed \cup {t} ELSE missed
    /\ Done
    /\ UNCHANGED <<now, catalog>>

LogTransition ==
    /\ pc = "log"
    /\ announced' = IF Transition THEN [announced EXCEPT ![t] = row.severity] ELSE announced
    /\ missed' = IF Transition THEN missed \ {t} ELSE missed
    /\ Done
    /\ UNCHANGED <<now, catalog, rows>>

\* The process dies and is started again: Run ticks at once.
Crash ==
    /\ Fault("crash")
    /\ pc # "idle"
    /\ pc' = "idle" /\ listed' = {} /\ row' = NoRow /\ prev' = "none"
    /\ missed' = IF pc = "log" /\ Transition THEN missed \cup {t} ELSE missed
    /\ UNCHANGED <<now, catalog, rows, announced>>

-----------------------------------------------------------------------------
Init ==
    /\ now = 0
    /\ history = [u \in Tests |-> <<>>]
    /\ enabled = Tests
    /\ rows = [u \in Tests |-> NoRow]
    /\ pc = "idle" /\ listed = {} /\ row = NoRow /\ prev = "none"
    /\ announced = [u \in Tests |-> "none"]
    /\ missed = {}

Next ==
    \/ Bucket \/ Gap \/ \E u \in Tests : Disable(u)
    \/ ListEnabledTests \/ EvaluateOne \/ SeriesFails
    \/ GetVerdict \/ GetVerdictFails \/ UpsertVerdict \/ UpsertVerdictFails
    \/ LogTransition \/ Crash

Spec == Init /\ [][Next]_vars

-----------------------------------------------------------------------------
TypeOK ==
    /\ now \in 0 .. MaxTime
    /\ \A u \in Tests : \A i \in DOMAIN history[u] :
         history[u][i].at \in 1 .. now /\ history[u][i].value \in Levels
    /\ enabled \subseteq Tests
    /\ \A u \in Tests : rows[u] \in Verdict /\ rows[u].at <= now
    /\ pc \in {"idle", "series", "get", "upsert", "log"}
    /\ listed \subseteq Tests /\ (pc = "idle" <=> listed = {})
    /\ row \in Verdict /\ prev \in Severities
    /\ announced \in [Tests -> Severities]
    /\ missed \subseteq Tests

\* "A point inside any of these intervals is ... never crosses the SeverityAnomaly
\* threshold even if the math says it should" (types.go:83-86): no verdict that is stored is
\* above watch where any window, nested or overlapping ones too, covers its point, and
\* none says suppressed where no window does (Suppresses searches by start and walks back).
SuppressedStaysBelow ==
    \A u \in Tests :
      LET covered == \E i \in DOMAIN Windows : rows[u].at \in Windows[i].start .. Windows[i].end - 1
      IN /\ covered => rows[u].severity \in {"none", "watch"}
         /\ rows[u].suppressed => covered

\* A series that repeats itself exactly leaves neither method anything but rounding: the
\* residual of its latest point and its MAD are both within Noise, so that what severity
\* their ratio has is left to float64. (docs/algorithms/anomaly-detection.md:255-256 and
\* detector_test.go:99 expect none or watch; evaluator_test.go:111-116 expects the worst.)
RegularIsRounding ==
    \A u \in Tests :
      LET s == Series(u)
          n == Len(s)
      IN chooseMethod(n) # "insufficient_data"
           /\ (\A i \in 1 .. n - Period : s[i].value = s[i + Period].value)
         => \A f \in Fits(Values(s), n) : f.residual \in -Noise .. Noise /\ f.mad \in 0 .. Noise

\* How far a steady drift misleads the decomposition. Its average is centred, so that a
\* straight line under a series leaves the MAD as it is; but Detect compares the latest
\* point with the trend of half a period before (detector.go:123-132), so that the line
\* shows in its residual as the rise of half a period, and nothing more. (Of the exact
\* fits of a series about to be judged: what Fits makes of either is off by up to Noise.)
DriftShowsHalfAPeriod ==
    pc = "series" =>
      LET n == Len(Series(t))
          ys == Values(Series(t))
          drift(slope) == [i \in Indexes(n) |-> ys[i] + slope * i]
      IN chooseMethod(n) = "seasonal_decompose" =>
           \A b \in {-1, 2} :
             LET f == Fit(ys, n)
                 g == Fit(drift(b * 2 * Period), n)
             IN g.mad = f.mad /\ g.residual = f.residual + b * 2 * Period * half

\* "grep the controlplane log for 'anomaly transition' and find every detection"
\* (evaluator.go:238-241): a stored severity was announced, through failed reads, tests
\* paused and hours passing in between, save where the evaluator was kept from the log
\* after the row was committed: by a crash, or by a write that failed to say so
\* (evaluator.go:257-259). Nothing announces what was missed as long as it stays as it is.
TransitionsAnnounced ==
    \A u \in Tests :
      \/ rows[u].severity \in {"none", announced[u]}
      \/ u \in missed
      \/ pc = "log" /\ u = t
=============================================================================
