----------------------------- MODULE ResultLog ------------------------------
(***************************************************************************)
(* What the way from a probe to ClickHouse promises, without the stream,   *)
(* the consumer, acks, timers or processes: a result is accepted once and  *)
(* from then on owed until it has been stored. Stored results stay, and    *)
(* may become owed again.                                                  *)
(***************************************************************************)
CONSTANT Results

VARIABLES
    accepted,   \* results the stream has taken over
    owed,       \* those that will be delivered again
    stored      \* those with a row

logVars == <<accepted, owed, stored>>

Init == accepted = {} /\ owed = {} /\ stored = {}

Accept(m) ==
    /\ m \notin accepted
    /\ accepted' = accepted \cup {m}
    /\ owed' = owed \cup {m}
    /\ UNCHANGED stored

Store(m) ==
    /\ m \in owed
    /\ stored' = stored \cup {m}
    /\ UNCHANGED <<accepted, owed>>

\* Only what is stored is ever forgotten.
Settle(m) ==
    /\ m \in owed \cap stored
    /\ owed' = owed \ {m}
    /\ UNCHANGED <<accepted, stored>>

Restart ==
    /\ owed' = accepted
    /\ UNCHANGED <<accepted, stored>>

Next == Restart \/ \E m \in Results : Accept(m) \/ Store(m) \/ Settle(m)

Spec == Init /\ [][Next]_logVars
=============================================================================
