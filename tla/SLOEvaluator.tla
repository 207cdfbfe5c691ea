---------------------------- MODULE SLOEvaluator ----------------------------
(***************************************************************************)
(* The SLO evaluator of the control plane (pkg/slo) over its stores: the   *)
(* goroutine that scores every enabled SLO once per tick, asks a notifier  *)
(* to deliver burn alerts and keeps one slo_state row per SLO, while       *)
(* operators create and delete SLOs through the API, the stores and the    *)
(* notifier fail, and the process crashes between any two of its calls.    *)
(*                                                                         *)
(* Each call the goroutine makes to a store or to the notifier is a step.  *)
(* What it holds between two calls is volatile: a crash loses it. A local  *)
(* that goes out of scope is put back to its initial value.                *)
(***************************************************************************)
EXTENDS BurnRate

CONSTANTS
    SLOs,           \* identifiers newPrefixedID can return, as numbers in their sort order
    NoSLO,          \* no identifier
    Definitions,    \* what operators post: [objective, fastT, slowT, url, enabled]
    Answers,        \* the counts ClickHouse may answer for a window
    Cooldown,       \* Evaluator.alertCooldown (1h), in clock units
    Faults,         \* which calls the environment makes fail
    Healthy,        \* the SLOs whose calls are answered again and again (fairness)
    MaxClock        \* bound: the clock stops here

\* What a NotifierURL is: empty (LogNotifier), an https:// one, or any other.
Urls == {"log", "https", "http"}

Definition == [objective : Int, fastT : Int, slowT : Int, url : Urls, enabled : BOOLEAN]

FaultKinds == {"crash", "list", "read", "get", "notify", "write"}

ASSUME EvaluatorAssumption ==
    /\ SLOs \subseteq Nat
    /\ NoSLO \notin SLOs
    /\ Definitions \subseteq Definition
    /\ Answers \subseteq Counts
    /\ Cooldown \in Nat \ {0}
    /\ Faults \subseteq FaultKinds
    /\ Healthy \subseteq SLOs
    /\ MaxClock \in Nat

Never == -1         \* the zero time.Time; NULL in the last_alerted_at column

VARIABLES
    \* Postgres
    slos,       \* the ids with a row in the table slos
    defs,       \* each id ever issued -> the definition it was created with
    sloState,   \* id -> its slo_state row, or NoRow
    \* the evaluator goroutine
    pc,         \* the call it is about to make
    todo,       \* the SLOs of ListEnabled's answer not yet evaluated
    now,        \* the time read at the start of the tick
    cur,        \* the SLO being evaluated
    status,     \* the status classify returned for cur
    fits,       \* whether cur's burn rate fits its column
    alertedAt,  \* newState.LastAlertedAt
    \* the world
    clock,
    \* history, read by no step
    sent,       \* id -> the times at which its receiver got an alert
    lastAlert,  \* id -> the last of these alerts, or NoAlert
    excused,    \* id -> that alert's record was lost, or the SLO moved on since
    late        \* id -> alerts its receiver got after the SLO was deleted

pgVars   == <<slos, defs, sloState>>
locals   == <<cur, status, fits, alertedAt>>
procVars == <<pc, todo, now, locals>>
history  == <<sent, lastAlert, excused, late>>
vars     == <<pgVars, procVars, clock, history>>

NoRow   == [status |-> "none", evaluatedAt |-> Never, alertedAt |-> Never]
NoAlert == [severity |-> "none", at |-> Never]
Time    == Nat \cup {Never}
Row     == [status : Computed, evaluatedAt : Nat, alertedAt : Time]
State   == [status : Status, alertedAt : Time]      \* what EvaluateOne reads of a row
Alert   == [severity : Burning, at : Nat]
Calls   == {"get", "notify", "write"}               \* the calls of an evaluation under way
issued  == DOMAIN defs

-----------------------------------------------------------------------------
(***************************************************************************)
(* The API: createSLOHandler and deleteSLOHandler over the store.          *)
(***************************************************************************)

\* A threshold that is missing or not positive becomes the default (14.4 and 6.0).
WithDefaults(d) ==
    [d EXCEPT !.fastT = IF @ <= 0 THEN 144 ELSE @,
              !.slowT = IF @ <= 0 THEN 60 ELSE @]

\* Validate, and the CHECK constraints of the table.
Validate(d) ==
    /\ d.objective > 0 /\ d.objective < Unit
    /\ d.fastT > 0 /\ d.slowT > 0

CreateSLO(s, d) ==
    /\ s \notin issued
    /\ Validate(WithDefaults(d))
    /\ slos' = slos \cup {s}
    /\ defs' = [x \in issued \cup {s} |-> IF x = s THEN WithDefaults(d) ELSE defs[x]]
    /\ UNCHANGED <<sloState, procVars, clock, history>>

\* The slo_state row goes with the SLO (ON DELETE CASCADE), and with it the record of
\* its last alert: an evaluation under way then reads the state of a new SLO.
DeleteSLO(s) ==
    /\ s \in slos
    /\ slos' = slos \ {s}
    /\ sloState' = [sloState EXCEPT ![s] = NoRow]
    /\ excused' = [excused EXCEPT ![s] = TRUE]
    /\ UNCHANGED <<defs, procVars, clock, sent, lastAlert, late>>

-----------------------------------------------------------------------------
(***************************************************************************)
(* The evaluator.                                                          *)
(***************************************************************************)

\* ListEnabled's answer, by id. It does not ask rows.Err(): a read that fails on the way
\* lists the SLOs before the failure, be it none, as if they were all.
EnabledSLOs == {s \in slos : defs[s].enabled}
ListEnabled ==
    {EnabledSLOs} \cup
      (IF "list" \in Faults THEN {{s \in EnabledSLOs : s < cut} : cut \in EnabledSLOs} ELSE {})

\* tick: the enabled SLOs are listed once; the time is read once, after that.
\* A ListEnabled that returns an error leaves everything as it is until the next tick.
Tick ==
    /\ pc = "idle"
    /\ pc' = "tick"
    /\ todo' \in ListEnabled
    /\ now' = clock
    /\ UNCHANGED <<pgVars, locals, clock, history>>

TickDone ==
    /\ pc = "tick"
    /\ todo = {}
    /\ pc' = "idle"
    /\ now' = 0
    /\ UNCHANGED <<pgVars, todo, locals, clock, history>>

\* EvaluateOne's locals before and after it.
NoLocals ==
    /\ cur' = NoSLO
    /\ status' = StatusOK
    /\ fits' = TRUE
    /\ alertedAt' = Never

\* A plausible mistake: the SLO stays on the list.
Leave_StaysListed(s) ==
    /\ pc' = "tick"
    /\ NoLocals
    /\ UNCHANGED <<todo, now>>

\* Done with s, whether its evaluation ended well or not.
Leave(s) ==
    /\ pc' = "tick"
    /\ todo' = todo \ {s}
    /\ NoLocals
    /\ UNCHANGED now

\* ListEnabled orders by id, and the loop takes the SLOs in that order.
First(s) == s \in todo /\ \A t \in todo : s <= t

\* The four SLI queries. Rows arrive between them, so their answers are unrelated.
ReadWindows(s) ==
    /\ pc = "tick"
    /\ First(s)
    /\ \E w \in [Windows -> Answers] :
         /\ status' = StatusOf(w, defs[s])
         /\ fits' = FitsColumn(StoredRate(w, defs[s]))
    /\ cur' = s
    /\ pc' = "get"
    /\ UNCHANGED <<pgVars, todo, now, alertedAt, clock, history>>

\* A plausible mistake: one failing SLO ends the tick.
ReadFails_EndsTick(s) ==
    /\ "read" \in Faults
    /\ pc = "tick"
    /\ First(s)
    /\ todo' = {}
    /\ UNCHANGED <<pgVars, pc, now, locals, clock, history>>

\* One of the queries fails: EvaluateOne returns, tick logs and goes on.
ReadFails(s) ==
    /\ "read" \in Faults
    /\ pc = "tick"
    /\ First(s)
    /\ Leave(s)
    /\ UNCHANGED <<pgVars, clock, history>>

\* GetState: a missing row reads as status unknown, never alerted.
GetState(s) ==
    IF sloState[s] = NoRow
    THEN [status |-> StatusUnknown, alertedAt |-> Never]
    ELSE [status |-> sloState[s].status, alertedAt |-> sloState[s].alertedAt]

\* A plausible mistake: a burn is only announced when it begins.
Due_TransitionOnly(prev) ==
    /\ status \in Burning
    /\ prev.status # status

\* A plausible mistake: a recovery is announced like a burn.
Due_AnyStatus(prev) ==
    \/ prev.status # status
    \/ prev.alertedAt # Never /\ now - prev.alertedAt >= Cooldown
    \/ prev.alertedAt = Never

\* Whether to notify, given what GetState returned.
Due(prev) ==
    /\ status \in Burning
    /\ \/ prev.status # status                                          \* transitioned
       \/ prev.alertedAt # Never /\ now - prev.alertedAt >= Cooldown    \* cooldownExpired
       \/ prev.alertedAt = Never                                        \* freshBurn

(***************************************************************************)
(* GetState and what follows it up to the next call: notify when it is due *)
(* and the SLO's URL is not a plaintext one; otherwise write, with the old *)
(* alert time while burning and with none after a recovery.                *)
(***************************************************************************)
ReadState ==
    /\ pc = "get"
    /\ LET prev == GetState(cur) IN
         /\ alertedAt' = IF status \in Burning THEN prev.alertedAt ELSE Never
         /\ pc' = IF Due(prev) /\ defs[cur].url # "http" THEN "notify" ELSE "write"
    /\ UNCHANGED <<pgVars, todo, now, cur, status, fits, clock, history>>

ReadStateFails ==
    /\ "get" \in Faults
    /\ pc = "get"
    /\ Leave(cur)
    /\ UNCHANGED <<pgVars, clock, history>>

\* The receiver gets the alert; lost says that Notify reports a failure even so.
Deliver(s, lost) ==
    /\ sent' = [sent EXCEPT ![s] = @ \cup {now}]
    /\ lastAlert' = [lastAlert EXCEPT ![s] = [severity |-> status, at |-> now]]
    /\ excused' = [excused EXCEPT ![s] = lost]
    /\ late' = [late EXCEPT ![s] = IF s \in slos THEN @ ELSE @ + 1]

NotifyOK ==
    /\ pc = "notify"
    /\ Deliver(cur, FALSE)
    /\ alertedAt' = now
    /\ pc' = "write"
    /\ UNCHANGED <<pgVars, todo, now, cur, status, fits, clock>>

\* A plausible mistake: the alert counts as delivered when Notify failed.
NotifyFails_Recorded ==
    /\ "notify" \in Faults
    /\ pc = "notify"
    /\ defs[cur].url = "https"
    /\ \/ Deliver(cur, TRUE)
       \/ UNCHANGED history
    /\ alertedAt' = now
    /\ pc' = "write"
    /\ UNCHANGED <<pgVars, todo, now, cur, status, fits, clock>>

\* A webhook fails before the receiver acts, or after it (a timeout, a non-2xx
\* answer). LogNotifier never fails.
NotifyFails ==
    /\ "notify" \in Faults
    /\ pc = "notify"
    /\ defs[cur].url = "https"
    /\ \/ Deliver(cur, TRUE)
       \/ UNCHANGED history
    /\ pc' = "write"
    /\ UNCHANGED <<pgVars, todo, now, cur, status, fits, alertedAt, clock>>

\* INSERT ... ON CONFLICT DO UPDATE with
\* last_alerted_at = COALESCE(EXCLUDED.last_alerted_at, slo_state.last_alerted_at).
Upserted(row) ==
    [status      |-> status,
     evaluatedAt |-> now,
     alertedAt   |-> IF alertedAt # Never THEN alertedAt ELSE row.alertedAt]

\* A plausible mistake: slo_state has no foreign key, so the row comes back.
WriteState_NoForeignKey ==
    /\ pc = "write"
    /\ fits
    /\ sloState' = [sloState EXCEPT ![cur] = Upserted(@)]
    /\ Leave(cur)
    /\ UNCHANGED <<slos, defs, clock, history>>

\* A plausible mistake: the alert time is not written.
WriteState_AlertForgotten ==
    /\ pc = "write"
    /\ cur \in slos
    /\ fits
    /\ sloState' = [sloState EXCEPT ![cur] =
                       [Upserted(@) EXCEPT !.alertedAt = sloState[cur].alertedAt]]
    /\ excused' = [excused EXCEPT ![cur] = @ \/ status # lastAlert[cur].severity]
    /\ Leave(cur)
    /\ UNCHANGED <<slos, defs, clock, sent, lastAlert, late>>

\* The write commits: the foreign key holds and the rate fits its column.
WriteState ==
    /\ pc = "write"
    /\ cur \in slos
    /\ fits
    /\ sloState' = [sloState EXCEPT ![cur] = Upserted(@)]
    /\ excused' = [excused EXCEPT ![cur] = @ \/ status # lastAlert[cur].severity]
    /\ Leave(cur)
    /\ UNCHANGED <<slos, defs, clock, sent, lastAlert, late>>

\* An evaluation that ends before its write takes its alert's record with it.
RecordLost(s) ==
    excused' = [excused EXCEPT ![s] = @ \/ alertedAt = now]

\* The write fails: the SLO is gone, the rate overflows, or Postgres does not answer.
WriteFails ==
    /\ pc = "write"
    /\ cur \notin slos \/ ~fits \/ "write" \in Faults
    /\ RecordLost(cur)
    /\ Leave(cur)
    /\ UNCHANGED <<pgVars, clock, sent, lastAlert, late>>

-----------------------------------------------------------------------------
(***************************************************************************)
(* The process dies and comes back; Run ticks at once on boot. A shutdown  *)
(* cancels the context under the running call, which is a crash to it.     *)
(***************************************************************************)
Crash ==
    /\ "crash" \in Faults
    /\ pc # "down"
    /\ pc' = "down"
    /\ todo' = {}
    /\ now' = 0
    /\ NoLocals
    /\ IF pc = "write" THEN RecordLost(cur) ELSE UNCHANGED excused
    /\ UNCHANGED <<pgVars, clock, sent, lastAlert, late>>

Restart ==
    /\ pc = "down"
    /\ pc' = "idle"
    /\ UNCHANGED <<pgVars, todo, now, locals, clock, history>>

ClockTick ==
    /\ clock < MaxClock
    /\ clock' = clock + 1
    /\ UNCHANGED <<pgVars, procVars, history>>

-----------------------------------------------------------------------------
Init ==
    /\ slos = {}
    /\ defs = [s \in {} |-> NoSLO]
    /\ sloState = [s \in SLOs |-> NoRow]
    /\ pc = "idle"
    /\ todo = {}
    /\ now = 0
    /\ cur = NoSLO
    /\ status = StatusOK
    /\ fits = TRUE
    /\ alertedAt = Never
    /\ clock = 0
    /\ sent = [s \in SLOs |-> {}]
    /\ lastAlert = [s \in SLOs |-> NoAlert]
    /\ excused = [s \in SLOs |-> FALSE]
    /\ late = [s \in SLOs |-> 0]

Next ==
    \/ \E s \in SLOs, d \in Definitions : CreateSLO(s, d)
    \/ \E s \in SLOs : DeleteSLO(s)
    \/ Tick
    \/ TickDone
    \/ \E s \in SLOs : ReadWindows(s)
    \/ \E s \in SLOs : ReadFails(s)
    \/ ReadState
    \/ ReadStateFails
    \/ NotifyOK
    \/ NotifyFails
    \/ WriteState
    \/ WriteFails
    \/ Crash
    \/ Restart
    \/ ClockTick

Spec == Init /\ [][Next]_vars

(***************************************************************************)
(* Fairness. The goroutine keeps running: its ticker fires, and every call *)
(* it makes returns, well or not (a webhook after 5s, a call to a store at *)
(* the latest when its connection is given up). A crashed process is       *)
(* started again, and in the end stays up. For a healthy SLO each kind of  *)
(* call, the listing included, succeeds infinitely often if it is made     *)
(* infinitely often; nothing is assumed of the others.                     *)
(***************************************************************************)
Fairness ==
    /\ <>[][~Crash]_vars
    /\ WF_vars(Restart)
    /\ WF_vars(Tick)
    /\ WF_vars(TickDone)
    /\ WF_vars(\E s \in SLOs : ReadWindows(s) \/ ReadFails(s))
    /\ WF_vars(ReadState \/ ReadStateFails)
    /\ WF_vars(NotifyOK \/ NotifyFails)
    /\ WF_vars(WriteState \/ WriteFails)
    /\ \A s \in Healthy :
         /\ SF_vars(Tick /\ (s \in EnabledSLOs => s \in todo'))
         /\ SF_vars(ReadWindows(s))
         /\ SF_vars(cur = s /\ ReadState)
         /\ SF_vars(cur = s /\ NotifyOK)
         /\ SF_vars(cur = s /\ WriteState)

LiveSpec == Spec /\ Fairness

-----------------------------------------------------------------------------
TypeOK ==
    /\ issued \subseteq SLOs
    /\ slos \subseteq issued
    /\ defs \in [issued -> Definition]
    /\ sloState \in [SLOs -> Row \cup {NoRow}]
    /\ pc \in {"down", "idle", "tick"} \cup Calls
    /\ todo \subseteq issued
    /\ now \in Nat
    /\ pc \in Calls => cur \in todo
    /\ pc \notin Calls => cur = NoSLO
    /\ status \in Computed
    /\ pc = "notify" => status \in Burning
    /\ fits \in BOOLEAN
    /\ alertedAt \in Time
    /\ clock \in Nat
    /\ sent \in [SLOs -> SUBSET Nat]
    /\ lastAlert \in [SLOs -> Alert \cup {NoAlert}]
    /\ excused \in [SLOs -> BOOLEAN]
    /\ late \in [SLOs -> Nat]

\* Deleting an SLO while it is being evaluated leaves no trace of it: a slo_state row
\* exists only for an SLO that exists. UpsertState of an evaluation that began before
\* the delete must not bring the row back (store.go:297-332, 0005_slo.sql).
NoOrphanState == \A s \in SLOs : sloState[s] # NoRow => s \in slos

\* last_alerted_at never claims an alert nobody got: the time in a row is the time of
\* a tick in which the receiver really got an alert for that SLO, whatever failed or
\* crashed since (evaluator.go:282-287, UpsertState's COALESCE).
AlertedMeansDelivered ==
    \A s \in SLOs : sloState[s].alertedAt # Never => sloState[s].alertedAt \in sent[s]

\* The cooldown, as the receiver sees it: while an SLO keeps the status it was last
\* alerted for and that alert was put on record, the evaluator does not set out to
\* send the next one before the cooldown is over (evaluator.go:129-134, 234-244).
NoEarlyRepeat ==
    (/\ pc = "notify"
     /\ lastAlert[cur].severity = status
     /\ ~excused[cur])
        => now - lastAlert[cur].at >= Cooldown

\* A delete is honoured by the next tick at the latest: once an SLO is deleted its
\* receiver gets at most the one alert of the tick that had already listed it.
AtMostOneLateAlert == \A s \in SLOs : late[s] <= 1

\* One bad SLO does not silence the rest (evaluator.go:173-175): an enabled SLO whose
\* own calls are answered gets a state row, however the calls for the others fail.
HealthyIsEvaluated ==
    \A s \in Healthy :
        (s \in slos /\ defs[s].enabled) ~> (s \notin slos \/ sloState[s] # NoRow)

\* A first burn is announced in the end: if the alert for it failed, later ticks try
\* again (freshBurn, evaluator.go:243) until the receiver has got one, the burn is over
\* or the SLO is deleted. SLOs with a plaintext webhook are never announced.
FirstBurnIsAnnounced ==
    \A s \in Healthy :
        (/\ s \in slos
         /\ sloState[s].status \in Burning
         /\ sloState[s].alertedAt = Never
         /\ defs[s].url # "http")
            ~> (s \notin slos \/ sloState[s].status \notin Burning \/ sent[s] # {})

=============================================================================
