------------------------- MODULE SLOEvaluatorProofs -------------------------
(***************************************************************************)
(* The safety properties of SLOEvaluator, for every set of SLOs, every set *)
(* of definitions and query answers, every cooldown and every set of       *)
(* faults: type correctness, then the inductive invariant IInv, then the   *)
(* four properties as its consequences.                                    *)
(***************************************************************************)
EXTENDS SLOEvaluator, TLAPS

(***************************************************************************)
(* The strengthening. Delivered and Late say what an evaluation under way  *)
(* holds; OnRecord and InFlight say where the record of an SLO's last      *)
(* alert is while nothing has excused its loss.                            *)
(***************************************************************************)

\* The alert time an evaluation is about to write is that of a delivered alert.
Delivered ==
    /\ AlertedMeansDelivered
    /\ (pc \in {"notify", "write"} /\ alertedAt # Never) => alertedAt \in sent[cur]

\* A late alert takes a listing of the SLO with it: none has gone out for an SLO that
\* still exists, or that is listed and not past its notification.
Late ==
    \A s \in SLOs :
        /\ late[s] <= 1
        /\ s \notin issued \/ s \in slos => late[s] = 0
        /\ s \in todo /\ ~(pc = "write" /\ cur = s) => late[s] = 0

\* The row of s holds its last alert.
OnRecord(s) ==
    /\ sloState[s] # NoRow
    /\ sloState[s].status = lastAlert[s].severity
    /\ sloState[s].alertedAt = lastAlert[s].at

\* The last alert of s went out in the evaluation that is about to write.
InFlight(s) ==
    /\ pc = "write"
    /\ cur = s
    /\ status = lastAlert[s].severity
    /\ alertedAt = lastAlert[s].at
    /\ alertedAt = now

Recorded ==
    \A s \in SLOs :
        (lastAlert[s] # NoAlert /\ ~excused[s]) =>
            \/ InFlight(s)
            \/ /\ OnRecord(s)
               /\ (pc \in {"notify", "write"} /\ cur = s) =>
                      alertedAt \in {Never, sloState[s].alertedAt}

IInv ==
    /\ TypeOK
    /\ NoOrphanState
    /\ Delivered
    /\ Late
    /\ Recorded
    /\ NoEarlyRepeat

-----------------------------------------------------------------------------
(***************************************************************************)
(* Facts about the operators.                                              *)
(***************************************************************************)

\* classify returns one of its four statuses (pkg/slo/evaluator.go, classify).
LEMMA StatusOfType ==
    ASSUME NEW w, NEW d
    PROVE  StatusOf(w, d) \in Computed
    BY DEF StatusOf, classify, Computed, Burning

\* The test of a rate against its column is a truth value.
LEMMA FitsType ==
    ASSUME NEW w \in [Windows -> Counts], NEW d, d.objective \in Int
    PROVE  FitsColumn(StoredRate(w, d)) \in BOOLEAN
<1> DEFINE sli == SLI(w["fastLong"])
<1>1. w["fastLong"] \in Counts
    BY DEF Windows
<1>2. sli.num \in Int /\ sli.den \in Int
    BY <1>1 DEF SLI, Counts
<1>3. burnRate(sli, d.objective).num \in Int /\ burnRate(sli, d.objective).den \in Int
    BY <1>2, BurnRateAssumption DEF burnRate
<1>4. StoredRate(w, d) = burnRate(sli, d.objective)
    BY DEF StoredRate, Rates, Windows
<1> QED BY <1>3, <1>4, BurnRateAssumption DEF FitsColumn

\* GetState returns a state the evaluator can compare (store.go, GetState).
LEMMA GetStateType ==
    ASSUME TypeOK, NEW s \in SLOs
    PROVE  /\ GetState(s) \in State
           /\ GetState(s).alertedAt \in Time
    BY DEF TypeOK, GetState, State, Row, NoRow, Status, Time, StatusUnknown

-----------------------------------------------------------------------------
(***************************************************************************)
(* Type correctness.                                                       *)
(***************************************************************************)

\* The rows, the goroutine's locals and the history keep their shape through every
\* call of the evaluator, every API request, every failure and every crash.
LEMMA TypeStep == TypeOK /\ [Next]_vars => TypeOK'
<1> SUFFICES ASSUME TypeOK, [Next]_vars
             PROVE  TypeOK'
    OBVIOUS
<1> USE DEF TypeOK, issued, Calls
<1>1. ASSUME NEW s \in SLOs, NEW d \in Definitions, CreateSLO(s, d)
      PROVE  TypeOK'
    <2>1. DOMAIN defs' = issued \cup {s}
        BY <1>1 DEF CreateSLO
    <2>a. WithDefaults(d) \in Definition
        <3> DEFINE f == IF d.fastT <= 0 THEN 144 ELSE d.fastT
                   g == IF d.slowT <= 0 THEN 60 ELSE d.slowT
        <3>1. d \in Definition
            BY EvaluatorAssumption
        <3>2. f \in Int /\ g \in Int
            BY <3>1 DEF Definition
        <3>3. WithDefaults(d) = [[d EXCEPT !.fastT = f] EXCEPT !.slowT = g]
            BY <3>1 DEF WithDefaults, Definition
        <3> HIDE DEF f, g
        <3> QED BY <3>1, <3>2, <3>3 DEF Definition
    <2>2. defs' \in [DOMAIN defs' -> Definition]
        BY <1>1, <2>1, <2>a DEF CreateSLO
    <2> QED BY <1>1, <2>1, <2>2 DEF CreateSLO, procVars, locals, history
<1>2. ASSUME NEW s \in SLOs, DeleteSLO(s)
      PROVE  TypeOK'
    BY <1>2 DEF DeleteSLO, procVars, locals
<1>3. ASSUME Tick
      PROVE  TypeOK'
    BY <1>3 DEF Tick, ListEnabled, EnabledSLOs, pgVars, locals, history
<1>4. ASSUME TickDone
      PROVE  TypeOK'
    BY <1>4 DEF TickDone, pgVars, locals, history
<1>5. ASSUME NEW s \in SLOs, ReadWindows(s)
      PROVE  TypeOK'
    <2>1. PICK w \in [Windows -> Answers] :
              /\ status' = StatusOf(w, defs[s])
              /\ fits' = FitsColumn(StoredRate(w, defs[s]))
        BY <1>5 DEF ReadWindows, First
    <2>2. w \in [Windows -> Counts]
        BY EvaluatorAssumption
    <2>3. defs[s].objective \in Int
        BY <1>5, EvaluatorAssumption DEF ReadWindows, First, Definition
    <2>4. status' \in Computed /\ fits' \in BOOLEAN
        BY <2>1, <2>2, <2>3, StatusOfType, FitsType
    <2> QED BY <1>5, <2>4 DEF ReadWindows, First, pgVars, history
<1>6. ASSUME NEW s \in SLOs, ReadFails(s)
      PROVE  TypeOK'
    BY <1>6 DEF ReadFails, First, Leave, NoLocals, pgVars, history, Computed, Time
<1>7. ASSUME ReadState
      PROVE  TypeOK'
    <2>1. cur \in SLOs
        BY <1>7 DEF ReadState
    <2>2. alertedAt' \in Time
        BY <1>7, <2>1, GetStateType DEF ReadState, Time
    <2> QED BY <1>7, <2>2 DEF ReadState, Due, pgVars, history
<1>8. ASSUME ReadStateFails
      PROVE  TypeOK'
    BY <1>8 DEF ReadStateFails, Leave, NoLocals, pgVars, history, Computed, Time
<1>9. ASSUME NotifyOK
      PROVE  TypeOK'
    BY <1>9 DEF NotifyOK, Deliver, pgVars, Time, Alert
<1>10. ASSUME NotifyFails
       PROVE  TypeOK'
    <2>1. CASE Deliver(cur, TRUE)
        BY <1>10, <2>1 DEF NotifyFails, Deliver, pgVars, Alert
    <2>2. CASE UNCHANGED history
        BY <1>10, <2>2 DEF NotifyFails, pgVars, history
    <2> QED BY <1>10, <2>1, <2>2 DEF NotifyFails
<1>11. ASSUME WriteState
       PROVE  TypeOK'
    BY <1>11 DEF WriteState, Upserted, Leave, NoLocals, Row, NoRow, Computed, Time
<1>12. ASSUME WriteFails
       PROVE  TypeOK'
    BY <1>12 DEF WriteFails, RecordLost, Leave, NoLocals, pgVars, Computed, Time
<1>13. ASSUME Crash
       PROVE  TypeOK'
    BY <1>13 DEF Crash, RecordLost, NoLocals, pgVars, Computed, Time
<1>14. ASSUME Restart
       PROVE  TypeOK'
    BY <1>14 DEF Restart, pgVars, locals, history
<1>15. ASSUME ClockTick
       PROVE  TypeOK'
    BY <1>15 DEF ClockTick, pgVars, procVars, locals, history
<1>16. ASSUME UNCHANGED vars
       PROVE  TypeOK'
    BY <1>16 DEF vars, pgVars, procVars, locals, history
<1> QED
    BY <1>1, <1>2, <1>3, <1>4, <1>5, <1>6, <1>7, <1>8, <1>9, <1>10, <1>11, <1>12,
       <1>13, <1>14, <1>15, <1>16 DEF Next

\* The type invariant holds of the initial state.
LEMMA TypeInit == Init => TypeOK
    BY DEF Init, TypeOK, issued, Calls, Computed, Time

\* Type correctness of the evaluator and its stores.
THEOREM TypeCorrect == Spec => []TypeOK
<1> QED BY TypeInit, TypeStep, PTL DEF Spec

-----------------------------------------------------------------------------
(***************************************************************************)
(* The parts of the inductive invariant, one lemma each.                   *)
(***************************************************************************)

\* A slo_state row is written only while its SLO exists and is removed with it.
LEMMA OrphanStep == TypeOK /\ NoOrphanState /\ [Next]_vars => NoOrphanState'
<1> SUFFICES ASSUME TypeOK, NoOrphanState, [Next]_vars
             PROVE  NoOrphanState'
    OBVIOUS
<1> USE DEF TypeOK, NoOrphanState
<1>1. ASSUME NEW s \in SLOs, NEW d \in Definitions, CreateSLO(s, d)
      PROVE  NoOrphanState'
    BY <1>1 DEF CreateSLO
<1>2. ASSUME NEW s \in SLOs, DeleteSLO(s)
      PROVE  NoOrphanState'
    BY <1>2 DEF DeleteSLO
<1>3. ASSUME WriteState
      PROVE  NoOrphanState'
    BY <1>3 DEF WriteState
<1>4. ASSUME UNCHANGED pgVars
      PROVE  NoOrphanState'
    BY <1>4 DEF pgVars
<1> QED
    BY <1>1, <1>2, <1>3, <1>4
    DEF Next, Tick, ListEnabled, EnabledSLOs, TickDone, ReadWindows, ReadFails, First, ReadState, ReadStateFails, NotifyOK,
        NotifyFails, WriteFails, Crash, Restart, ClockTick, vars

\* The set of an SLO's delivered alerts only grows, and an alert time comes either from
\* the row or from the notification that has just succeeded.
LEMMA DeliveredStep == TypeOK /\ Delivered /\ [Next]_vars => Delivered'
<1> SUFFICES ASSUME TypeOK, Delivered, [Next]_vars
             PROVE  Delivered'
    OBVIOUS
<1> USE DEF TypeOK, Delivered, AlertedMeansDelivered, Calls
<1>1. ASSUME NEW s \in SLOs, NEW d \in Definitions, CreateSLO(s, d)
      PROVE  Delivered'
    BY <1>1 DEF CreateSLO, procVars, locals, history
<1>2. ASSUME NEW s \in SLOs, DeleteSLO(s)
      PROVE  Delivered'
    BY <1>2 DEF DeleteSLO, procVars, locals, NoRow
<1>3. ASSUME NEW s \in SLOs, ReadWindows(s) \/ ReadFails(s)
      PROVE  Delivered'
    BY <1>3 DEF ReadWindows, ReadFails, First, Leave, pgVars, history
<1>4. ASSUME ReadState
      PROVE  Delivered'
    <2>1. cur \in SLOs
        BY <1>4 DEF ReadState, issued
    <2>2. alertedAt' \in {Never, sloState[cur].alertedAt}
        BY <1>4, <2>1 DEF ReadState, GetState
    <2> QED BY <1>4, <2>1, <2>2 DEF ReadState, pgVars, history
<1>5. ASSUME NotifyOK
      PROVE  Delivered'
    <2>1. cur \in SLOs
        BY <1>5 DEF NotifyOK, issued
    <2> QED BY <1>5, <2>1 DEF NotifyOK, Deliver, pgVars
<1>6. ASSUME NotifyFails
      PROVE  Delivered'
    <2>1. cur \in SLOs
        BY <1>6 DEF NotifyFails, issued
    <2>2. CASE Deliver(cur, TRUE)
        BY <1>6, <2>1, <2>2 DEF NotifyFails, Deliver, pgVars
    <2>3. CASE UNCHANGED history
        BY <1>6, <2>3 DEF NotifyFails, pgVars, history
    <2> QED BY <1>6, <2>2, <2>3 DEF NotifyFails
<1>7. ASSUME WriteState
      PROVE  Delivered'
    <2>1. cur \in SLOs
        BY <1>7 DEF WriteState, issued
    <2>2. pc' = "tick"
        BY <1>7 DEF WriteState, Leave
    <2> QED BY <1>7, <2>1, <2>2 DEF WriteState, Upserted
<1>8. ASSUME Tick \/ TickDone \/ ReadStateFails \/ WriteFails \/ Crash \/ Restart
      PROVE  Delivered'
    BY <1>8 DEF Tick, ListEnabled, EnabledSLOs, TickDone, ReadStateFails, WriteFails, Crash, Restart, Leave,
                pgVars, history
<1>9. ASSUME ClockTick \/ UNCHANGED vars
      PROVE  Delivered'
    BY <1>9 DEF ClockTick, vars, pgVars, procVars, locals, history
<1> QED
    BY <1>1, <1>2, <1>3, <1>4, <1>5, <1>6, <1>7, <1>8, <1>9 DEF Next

\* A tick lists only SLOs that exist, an SLO leaves the list with the evaluation that
\* alerted, and an id is never issued again.
LEMMA LateStep == TypeOK /\ Late /\ [Next]_vars => Late'
<1> SUFFICES ASSUME TypeOK, Late, [Next]_vars
             PROVE  Late'
    OBVIOUS
<1> USE DEF TypeOK, Late, Calls, issued
<1>1. ASSUME NEW s \in SLOs, NEW d \in Definitions, CreateSLO(s, d)
      PROVE  Late'
    <2>1. DOMAIN defs' = issued \cup {s}
        BY <1>1 DEF CreateSLO
    <2> QED BY <1>1, <2>1 DEF CreateSLO, procVars, locals, history
<1>2. ASSUME NEW s \in SLOs, DeleteSLO(s)
      PROVE  Late'
    BY <1>2 DEF DeleteSLO, procVars, locals
<1>3. ASSUME Tick \/ TickDone \/ Restart
      PROVE  Late'
    BY <1>3 DEF Tick, ListEnabled, EnabledSLOs, TickDone, Restart, pgVars, locals, history
<1>4. ASSUME NEW s \in SLOs, ReadWindows(s) \/ ReadFails(s)
      PROVE  Late'
    BY <1>4 DEF ReadWindows, ReadFails, First, Leave, pgVars, history
<1>5. ASSUME ReadState
      PROVE  Late'
    BY <1>5 DEF ReadState, pgVars, history
<1>6. ASSUME NotifyOK
      PROVE  Late'
    BY <1>6 DEF NotifyOK, Deliver, pgVars
<1>7. ASSUME NotifyFails
      PROVE  Late'
    <2>1. CASE Deliver(cur, TRUE)
        BY <1>7, <2>1 DEF NotifyFails, Deliver, pgVars
    <2>2. CASE UNCHANGED history
        BY <1>7, <2>2 DEF NotifyFails, pgVars, history
    <2> QED BY <1>7, <2>1, <2>2 DEF NotifyFails
<1>8. ASSUME ReadStateFails \/ WriteState \/ WriteFails \/ Crash
      PROVE  Late'
    BY <1>8 DEF ReadStateFails, WriteState, WriteFails, Crash, Leave, pgVars, history
<1>9. ASSUME ClockTick \/ UNCHANGED vars
      PROVE  Late'
    BY <1>9 DEF ClockTick, vars, pgVars, procVars, locals, history
<1> QED
    BY <1>1, <1>2, <1>3, <1>4, <1>5, <1>6, <1>7, <1>8, <1>9 DEF Next

\* While nothing excuses its loss, the record of an SLO's last alert moves from the
\* evaluation that sent it into the row, and later writes of the same status keep it.
LEMMA RecordedStep == TypeOK /\ Recorded /\ [Next]_vars => Recorded'
<1> SUFFICES ASSUME TypeOK, Recorded, [Next]_vars,
                    NEW s \in SLOs, (lastAlert[s] # NoAlert /\ ~excused[s])'
             PROVE  \/ InFlight(s)'
                    \/ /\ OnRecord(s)'
                       /\ (pc' \in {"notify", "write"} /\ cur' = s) =>
                              alertedAt' \in {Never, sloState'[s].alertedAt}
    BY DEF Recorded
<1> DEFINE Goal == \/ InFlight(s)'
                   \/ /\ OnRecord(s)'
                      /\ (pc' \in {"notify", "write"} /\ cur' = s) =>
                             alertedAt' \in {Never, sloState'[s].alertedAt}
<1> USE DEF TypeOK, Recorded, OnRecord, InFlight, Calls, issued
<1>1. ASSUME NEW t \in SLOs, NEW d \in Definitions, CreateSLO(t, d)
      PROVE  Goal
    BY <1>1 DEF CreateSLO, procVars, locals, history
<1>2. ASSUME NEW t \in SLOs, DeleteSLO(t)
      PROVE  Goal
    BY <1>2 DEF DeleteSLO, procVars, locals
<1>3. ASSUME Tick \/ TickDone \/ Restart
      PROVE  Goal
    BY <1>3 DEF Tick, ListEnabled, EnabledSLOs, TickDone, Restart, pgVars, locals, history
<1>4. ASSUME NEW t \in SLOs, ReadWindows(t) \/ ReadFails(t)
      PROVE  Goal
    BY <1>4 DEF ReadWindows, ReadFails, First, Leave, pgVars, history
<1>5. ASSUME ReadState
      PROVE  Goal
    BY <1>5 DEF ReadState, GetState, pgVars, history
<1>6. ASSUME NotifyOK
      PROVE  Goal
    BY <1>6 DEF NotifyOK, Deliver, pgVars
<1>7. ASSUME NotifyFails
      PROVE  Goal
    <2>1. CASE Deliver(cur, TRUE)
        BY <1>7, <2>1 DEF NotifyFails, Deliver, pgVars
    <2>2. CASE UNCHANGED history
        BY <1>7, <2>2 DEF NotifyFails, pgVars, history
    <2> QED BY <1>7, <2>1, <2>2 DEF NotifyFails
<1>8. ASSUME WriteState
      PROVE  Goal
    <2>1. cur \in SLOs /\ pc' = "tick"
        BY <1>8 DEF WriteState, Leave
    <2>2. CASE s = cur
        <3>1. ~excused[s] /\ status = lastAlert[s].severity /\ lastAlert'[s] = lastAlert[s]
            BY <1>8, <2>1, <2>2 DEF WriteState
        <3>2. sloState'[s] = Upserted(sloState[s])
            BY <1>8, <2>1, <2>2 DEF WriteState
        <3>3. sloState'[s] # NoRow
            BY <3>2 DEF Upserted, NoRow, Computed, Burning, StatusNoData, StatusOK,
                        StatusSlowBurn, StatusFastBurn
        <3>4. lastAlert[s] # NoAlert /\ lastAlert[s].at # Never
            BY <3>1 DEF Alert, NoAlert, Never
        <3>5. sloState'[s].alertedAt = lastAlert[s].at
            BY <1>8, <2>2, <3>1, <3>2, <3>4 DEF WriteState, Upserted
        <3> QED BY <2>1, <3>1, <3>2, <3>3, <3>5 DEF Upserted
    <2>3. CASE s # cur
        BY <1>8, <2>1, <2>3 DEF WriteState
    <2> QED BY <2>2, <2>3
<1>9. ASSUME WriteFails
      PROVE  Goal
    BY <1>9 DEF WriteFails, RecordLost, Leave, pgVars
<1>10. ASSUME ReadStateFails
       PROVE  Goal
    BY <1>10 DEF ReadStateFails, Leave, pgVars, history
<1>11. ASSUME Crash
       PROVE  Goal
    BY <1>11 DEF Crash, RecordLost, pgVars
<1>12. ASSUME ClockTick \/ UNCHANGED vars
       PROVE  Goal
    BY <1>12 DEF ClockTick, vars, pgVars, procVars, locals, history
<1> QED
    BY <1>1, <1>2, <1>3, <1>4, <1>5, <1>6, <1>7, <1>8, <1>9, <1>10, <1>11, <1>12
    DEF Next

\* The evaluator decides to notify from the row GetState returned; as long as the last
\* alert is on record there, only an expired cooldown leads to the same status again.
LEMMA RepeatStep ==
    TypeOK /\ Recorded /\ NoEarlyRepeat /\ [Next]_vars => NoEarlyRepeat'
<1> SUFFICES ASSUME TypeOK, Recorded, NoEarlyRepeat, [Next]_vars,
                    pc' = "notify",
                    lastAlert'[cur'].severity = status',
                    ~excused'[cur']
             PROVE  now' - lastAlert'[cur'].at >= Cooldown
    BY DEF NoEarlyRepeat
<1>1. CASE ReadState
    <2>1. cur \in SLOs /\ status \in Burning /\ Due(GetState(cur))
        BY <1>1 DEF ReadState, TypeOK, Calls, issued, Due
    <2>2. /\ UNCHANGED <<now, cur, status, lastAlert, excused>>
          /\ pc = "get"
        BY <1>1 DEF ReadState, history
    <2>3. lastAlert[cur] # NoAlert
        BY <2>1, <2>2 DEF NoAlert, Burning, StatusSlowBurn, StatusFastBurn
    <2>4. OnRecord(cur)
        BY <2>1, <2>2, <2>3 DEF Recorded, InFlight
    <2>5. /\ GetState(cur).status = status
          /\ GetState(cur).alertedAt = lastAlert[cur].at
        BY <2>2, <2>4 DEF OnRecord, GetState
    <2>6. lastAlert[cur].at \in Nat
        BY <2>1, <2>3 DEF TypeOK, Alert
    <2>7. now - lastAlert[cur].at >= Cooldown
        BY <2>1, <2>5, <2>6 DEF Due, Never
    <2> QED BY <2>2, <2>7
<1>2. CASE \E t \in SLOs : DeleteSLO(t)
    <2>1. PICK t \in SLOs : DeleteSLO(t)
        BY <1>2
    <2>2. pc = "notify" /\ cur' = cur /\ cur \in SLOs
        BY <2>1 DEF DeleteSLO, procVars, locals, TypeOK, Calls, issued
    <2>3. cur # t
        BY <2>1, <2>2 DEF DeleteSLO, TypeOK
    <2> QED
        BY <2>1, <2>2, <2>3 DEF DeleteSLO, procVars, locals, TypeOK, NoEarlyRepeat
<1>3. CASE \/ \E t \in SLOs, d \in Definitions : CreateSLO(t, d)
           \/ ClockTick
           \/ UNCHANGED vars
    BY <1>3 DEF CreateSLO, ClockTick, vars, procVars, locals, history, NoEarlyRepeat
<1>4. CASE \/ Tick \/ TickDone \/ Restart
           \/ \E t \in SLOs : ReadWindows(t)
           \/ \E t \in SLOs : ReadFails(t)
           \/ ReadStateFails \/ NotifyOK \/ NotifyFails
           \/ WriteState \/ WriteFails \/ Crash
    BY <1>4 DEF Tick, ListEnabled, EnabledSLOs, TickDone, Restart, ReadWindows, ReadFails, First, ReadStateFails, Leave,
                NotifyOK, NotifyFails, WriteState, WriteFails, Crash
<1> QED
    BY <1>1, <1>2, <1>3, <1>4 DEF Next

-----------------------------------------------------------------------------
(***************************************************************************)
(* The theorems.                                                           *)
(***************************************************************************)

\* The initial state satisfies the inductive invariant.
LEMMA IInvInit == Init => IInv
<1> SUFFICES ASSUME Init
             PROVE  IInv
    OBVIOUS
<1>1. TypeOK
    BY TypeInit
<1>2. NoOrphanState /\ Delivered
    BY DEF Init, NoOrphanState, Delivered, AlertedMeansDelivered, NoRow
<1>3. Late
    BY DEF Init, Late
<1>4. Recorded /\ NoEarlyRepeat
    BY DEF Init, Recorded, NoEarlyRepeat
<1> QED BY <1>1, <1>2, <1>3, <1>4 DEF IInv

\* The inductive invariant of the evaluator and its stores.
THEOREM Invariance == Spec => []IInv
<1>1. IInv /\ [Next]_vars => IInv'
    BY TypeStep, OrphanStep, DeliveredStep, LateStep, RecordedStep, RepeatStep DEF IInv
<1> QED BY IInvInit, <1>1, PTL DEF Spec

\* No evaluation brings back the state row of a deleted SLO.
THEOREM OrphanFree == Spec => []NoOrphanState
<1>1. IInv => NoOrphanState
    BY DEF IInv
<1> QED BY Invariance, <1>1, PTL

\* A stored last_alerted_at is the time of an alert that was really delivered.
THEOREM AlertsAreReal == Spec => []AlertedMeansDelivered
<1>1. IInv => AlertedMeansDelivered
    BY DEF IInv, Delivered
<1> QED BY Invariance, <1>1, PTL

\* The receiver gets no repeat of a recorded alert before the cooldown is over.
THEOREM CooldownHolds == Spec => []NoEarlyRepeat
<1>1. IInv => NoEarlyRepeat
    BY DEF IInv
<1> QED BY Invariance, <1>1, PTL

\* A deleted SLO alerts at most once more.
THEOREM LateAlertsBounded == Spec => []AtMostOneLateAlert
<1>1. IInv => AtMostOneLateAlert
    BY DEF IInv, Late, AtMostOneLateAlert
<1> QED BY Invariance, <1>1, PTL
=============================================================================
